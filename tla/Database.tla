------------------------------ MODULE Database ------------------------------
(***************************************************************************)
(* The database of a block server (DatabaseImpl over LevelDBStorage): a    *)
(* store of key-value pairs and the updates that the transactions of the   *)
(* current epoch have buffered.  commitPhase tells whether the buffer      *)
(* belongs to an epoch whose commit has begun; it is a plain bool, read    *)
(* without the mutexes that guard its changes.                             *)
(*                                                                         *)
(* A stored value is abstracted to the transaction that wrote it and the   *)
(* epoch in which it did.                                                  *)
(***************************************************************************)
EXTENDS KVRWSet

VARIABLES
  commitPhase,    \* DatabaseImpl::commitPhase
  rwSetBuffer,    \* the IDs of the transactions with a buffered rwset
  store           \* <<epoch, transaction>> that wrote each key, <<0, 0>> at first

dbVars == <<commitPhase, rwSetBuffer, store>>

DbInit ==
  /\ commitPhase = FALSE
  /\ rwSetBuffer = {}
  /\ store = [k \in Keys |-> <<0, 0>>]

-----------------------------------------------------------------------------
(* bufferUpdates tests the flag, clears the buffer if it is set, and then  *)
(* inserts.  Two workers may be at different points of this.               *)

\* clearBufferThreadSafe: under its mutex, the flag is tested again.
MutantClearUnchecked == rwSetBuffer' = {} /\ commitPhase' = FALSE
clearBufferThreadSafe ==
  IF commitPhase THEN rwSetBuffer' = {} /\ commitPhase' = FALSE
                 ELSE UNCHANGED <<rwSetBuffer, commitPhase>>

\* rwSetBuffer[tid] = kvRWSet; tableListBuffer[tid] = tableList
BufferInsert(t) == rwSetBuffer' = rwSetBuffer \cup {t}

-----------------------------------------------------------------------------
(* commitUpdate(tid): the flag is tested without the mutex and again with  *)
(* it.  While it is FALSE only the holder of the mutex can set it, so the  *)
(* two tests and the update are one step here.  abortUpdate does nothing.  *)
CommitUpdate(t, rwset, e) ==
  /\ IF commitPhase THEN UNCHANGED <<commitPhase, store>>
     ELSE /\ store' = [k \in Keys |-> IF k \in WriteKeys(rwset)
                                      THEN <<e, t>> ELSE store[k]]
          /\ commitPhase' = TRUE
  /\ UNCHANGED rwSetBuffer
=============================================================================
