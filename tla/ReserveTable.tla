---------------------------- MODULE ReserveTable ----------------------------
(***************************************************************************)
(* The reserve table of an epoch (MockReserveTable) and the provider that  *)
(* hands it out (ReserveTableProvider).                                    *)
(*                                                                         *)
(* A slot is a key in the read table or in the write table; it holds the   *)
(* ID of the transaction that reserved it, 0 when nobody has.  The slots   *)
(* are atomics that are loaded, stored and compared and exchanged          *)
(* separately, by every worker at once.                                    *)
(***************************************************************************)
EXTENDS KVRWSet

VARIABLES
  tableId,      \* which table the provider's pointer designates; 0: nullptr
  tableEpoch,   \* ReserveTable::_epoch of that table
  reserved      \* its slots

tableVars == <<tableId, tableEpoch, reserved>>

TableInit ==
  /\ tableId = 0 /\ tableEpoch = 0
  /\ reserved = [s \in Slots |-> 0]

-----------------------------------------------------------------------------
(* ReserveTableProvider::getHashMapReserveTable.                           *)

\* The test made without the lock, on a table that nobody has replaced.
IsFor(e) == tableId # 0 /\ tableEpoch = e

\* make_shared<MockReserveTable>(e); the previous table is destroyed.
Renew(e) ==
  /\ tableId' = tableId + 1
  /\ tableEpoch' = e
  /\ reserved' = [s \in Slots |-> 0]

\* The part under the lock tests again.
MutantCreateUnchecked(e) == Renew(e)
CreateUnlessDone(e) == IF IsFor(e) THEN UNCHANGED tableVars ELSE Renew(e)

-----------------------------------------------------------------------------
(* MockReserveTable::reserveRWset, the body of its two loops.              *)

\* A transaction with a smaller ID has the slot already, or this one has.
MutantTakenStrict(holder, t) == holder < t /\ holder # 0
Taken(holder, t) == holder <= t /\ holder # 0

\* readTable[read.key()] = transactionID, before the exchange.
StoreSlot(s, t) == reserved' = [reserved EXCEPT ![s] = t]

-----------------------------------------------------------------------------
(* MockReserveTable::dependencyAnalysis.                                   *)

Earlier(s, t) == reserved[s] # 0 /\ t > reserved[s]

waw(rwset, t) == \E k \in WriteKeys(rwset) : Earlier(<<"write", k>>, t)
war(rwset, t) == \E k \in WriteKeys(rwset) : Earlier(<<"read", k>>, t)
MutantRaw(rwset, t) == FALSE
raw(rwset, t) == \E k \in ReadKeys(rwset) : Earlier(<<"write", k>>, t)
=============================================================================
