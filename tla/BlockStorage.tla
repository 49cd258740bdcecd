----------------------------- MODULE BlockStorage -----------------------------
(***************************************************************************)
(* The blocks of one server on disk: BlockStorageToFile, as the block      *)
(* generator and the start-up code call it, with a process that may be     *)
(* killed between any two operations on files and started again.           *)
(*                                                                         *)
(* Opening a file for writing truncates it; its contents come with close.  *)
(* A hash is the value hashed, a signature the value signed; the Merkle    *)
(* root of a block is the sequence of its transactions.                    *)
(***************************************************************************)
EXTENDS Integers, Sequences, FiniteSets, SequencesExt

CONSTANTS
  Tx,            \* transactions, by ID
  MaxEpoch,      \* bound: the last block
  MaxCrashes,    \* bound
  TornNumber     \* whether block_num.txt may be hit half written

ASSUME StorageAssumption ==
  /\ Tx \subseteq Nat /\ MaxEpoch \in Nat /\ MaxCrashes \in Nat
  /\ TornNumber \in BOOLEAN

VARIABLES
  reset_epoch,   \* whether the configuration asks for a new chain, fixed
  blockFile,     \* <number>.bin: NoBlock, Torn or a block
  block_num,     \* block_num.txt: NoFile, Empty or a number
  store,         \* the epochs whose updates are in LevelDB, as often as they are
  pc,
  managerEpoch,  \* the transaction manager's epoch
  lastEpochFinishSignal,
  transactionQueue,
  block,         \* the block being generated
  failed,        \* a CHECK has failed
  crashes,
  appended       \* history: the blocks appendBlock has returned for

diskVars == <<blockFile, block_num, store>>
storageVars == <<reset_epoch, diskVars, pc, managerEpoch, lastEpochFinishSignal,
                 transactionQueue, block, failed, crashes, appended>>

Numbers == 0..MaxEpoch
Epochs == 1..MaxEpoch
NoBlock == [number |-> 0, previous_hash |-> <<>>, data |-> <<>>, metadata |-> <<>>]

Torn == [NoBlock EXCEPT !.data = <<0>>]
NoFile == -1
Empty == -2

data_hash(b) == <<b.data, b.metadata>>

\* The order of the steps from a finished epoch to an appended block.
Following ==
  [body |-> "header", header |-> "openBlock", openBlock |-> "writeBlock",
   writeBlock |-> "openNumber", openNumber |-> "writeNumber", writeNumber |-> "run"]
Proceed == pc' = Following[pc]

StorageInit ==
  /\ reset_epoch \in BOOLEAN
  /\ blockFile = [n \in Epochs |-> NoBlock] /\ block_num = NoFile
  /\ store = [n \in Epochs |-> 0]
  /\ pc = "down"
  /\ managerEpoch = 0 /\ lastEpochFinishSignal = 0
  /\ transactionQueue = {} /\ block = NoBlock
  /\ failed = FALSE /\ crashes = 0 /\ appended = {}

-----------------------------------------------------------------------------
(* getLatestSavedEpoch: 0 if there is no file.  Nothing can be read from   *)
(* an empty one, and the uninitialized variable is returned.               *)
LatestSaved ==
  CASE block_num = NoFile -> {0}
    [] block_num = Empty  -> 0..(MaxEpoch - 1)
    [] OTHER              -> {block_num}

\* The constructor, with initFunc when the configuration asks for a reset.
Start ==
  /\ pc = "down" /\ ~failed
  /\ pc' = IF reset_epoch THEN "openReset" ELSE "read"
  /\ UNCHANGED <<reset_epoch, diskVars, managerEpoch, lastEpochFinishSignal, transactionQueue,
                 block, failed, crashes, appended>>

OpenReset ==
  /\ pc = "openReset" /\ pc' = "writeReset"
  /\ block_num' = Empty
  /\ UNCHANGED <<reset_epoch, blockFile, store, managerEpoch, lastEpochFinishSignal,
                 transactionQueue, block, failed, crashes, appended>>

WriteReset ==
  /\ pc = "writeReset" /\ pc' = "read"
  /\ block_num' = 0
  /\ appended' = {}
  /\ UNCHANGED <<reset_epoch, blockFile, store, managerEpoch, lastEpochFinishSignal,
                 transactionQueue, block, failed, crashes>>

\* The manager starts with the epoch after the latest saved one.
ReadSaved ==
  /\ pc = "read" /\ pc' = "run"
  /\ lastEpochFinishSignal' \in LatestSaved
  /\ managerEpoch' = lastEpochFinishSignal' + 1
  /\ UNCHANGED <<reset_epoch, diskVars, transactionQueue, block, failed, crashes,
                 appended>>

(* The coordinator finishes an epoch: its updates are in the database, and *)
(* the manager puts the transactions, of which there are some              *)
(* (TransactionManager!ChecksHold), into the queue of the block.           *)
FinishEpoch(T) ==
  /\ pc = "run" /\ managerEpoch <= MaxEpoch /\ T # {}
  /\ store' = [store EXCEPT ![managerEpoch] = @ + 1]
  /\ lastEpochFinishSignal' = managerEpoch
  /\ transactionQueue' = T
  /\ pc' = "body"
  /\ UNCHANGED <<reset_epoch, blockFile, block_num, managerEpoch, block, failed,
                 crashes, appended>>

(* generateBlockBody: the largest ID first; metadata are the results, the  *)
(* Merkle root, which is left empty, and the signature of the root.        *)
GenerateBlockBody ==
  /\ pc = "body" /\ Proceed
  /\ LET data == SetToSortSeq(transactionQueue, >)
     IN  block' = [NoBlock EXCEPT !.data = data,
                     !.metadata = <<<<"results", data>>, <<>>, <<"signed", data>>>>]
  /\ transactionQueue' = {}
  /\ UNCHANGED <<reset_epoch, diskVars, managerEpoch, lastEpochFinishSignal, failed,
                 crashes, appended>>

\* deserializeBlock, which reads a whole block or fails.
Readable(n) == blockFile[n] \notin {NoBlock, Torn}

(* generateBlockHeader: the number is that of the latest saved block + 1,  *)
(* which must be readable.                                                 *)
MutantNumberAfter(last) == IF last = 0 THEN 1 ELSE last
NumberAfter(last) == last + 1
PreviousHash(last) == data_hash(blockFile[last])

GenerateBlockHeader ==
  /\ pc = "header"
  /\ \E last \in LatestSaved :
       IF last > 0 /\ ~Readable(last)
       THEN failed' = TRUE /\ pc' = "down" /\ UNCHANGED block
       ELSE /\ block' = [block EXCEPT !.number = NumberAfter(last),
                           !.previous_hash = IF last > 0 THEN PreviousHash(last) ELSE <<>>]
            /\ Proceed /\ UNCHANGED failed
  /\ UNCHANGED <<reset_epoch, diskVars, managerEpoch, lastEpochFinishSignal,
                 transactionQueue, crashes, appended>>

\* insertBlock
OpenBlockFile ==
  /\ pc = "openBlock" /\ Proceed
  /\ blockFile' = [blockFile EXCEPT ![block.number] = Torn]
  /\ UNCHANGED <<reset_epoch, block_num, store, managerEpoch, lastEpochFinishSignal,
                 transactionQueue, block, failed, crashes, appended>>

Returned == IF pc' = "run" THEN appended \cup {block} ELSE appended
ManagerMovesOn == managerEpoch' = IF pc' = "run" THEN managerEpoch + 1 ELSE managerEpoch

WriteBlockFile ==
  /\ pc = "writeBlock" /\ Proceed
  /\ blockFile' = [blockFile EXCEPT ![block.number] = block]
  /\ appended' = Returned /\ ManagerMovesOn
  /\ UNCHANGED <<reset_epoch, block_num, store, lastEpochFinishSignal,
                 transactionQueue, block, failed, crashes>>

\* updateLatestSavedEpoch; then the manager moves on to the next epoch.
OpenNumberFile ==
  /\ pc = "openNumber" /\ Proceed
  /\ block_num' = Empty
  /\ UNCHANGED <<reset_epoch, blockFile, store, managerEpoch, lastEpochFinishSignal,
                 transactionQueue, block, failed, crashes, appended>>

WriteNumberFile ==
  /\ pc = "writeNumber" /\ Proceed
  /\ block_num' = block.number
  /\ appended' = Returned /\ ManagerMovesOn
  /\ UNCHANGED <<reset_epoch, blockFile, store, lastEpochFinishSignal,
                 transactionQueue, block, failed, crashes>>

\* The process is killed: what is on disk stays.
Crash ==
  /\ pc # "down" /\ crashes < MaxCrashes
  /\ block_num = Empty => TornNumber
  /\ crashes' = crashes + 1
  /\ pc' = "down"
  /\ managerEpoch' = 0 /\ lastEpochFinishSignal' = 0 /\ transactionQueue' = {}
  /\ block' = NoBlock
  /\ UNCHANGED <<reset_epoch, diskVars, failed, appended>>

StorageNext ==
  \/ Start \/ OpenReset \/ WriteReset \/ ReadSaved
  \/ \E T \in SUBSET Tx : FinishEpoch(T)
  \/ GenerateBlockBody \/ GenerateBlockHeader
  \/ OpenBlockFile \/ WriteBlockFile \/ OpenNumberFile \/ WriteNumberFile
  \/ Crash

StorageSpec == StorageInit /\ [][StorageNext]_storageVars

-----------------------------------------------------------------------------
Places == {"down", "openReset", "writeReset", "read", "run"} \cup DOMAIN Following

StorageTypeOK ==
  /\ \A n \in Epochs : Readable(n) => blockFile[n].number = n
  /\ block_num \in {NoFile, Empty} \cup Numbers
  /\ store \in [Epochs -> Nat]
  /\ pc \in Places
  /\ managerEpoch \in 0..(MaxEpoch + 1) /\ lastEpochFinishSignal \in Numbers
  /\ transactionQueue \subseteq Tx

Saved == IF block_num \in {NoFile, Empty} THEN 0 ELSE block_num

(* Whatever the moment of a crash, the blocks up to the saved number can   *)
(* be read, and each names the hash of the one before it.                  *)
ChainLinked ==
  \A n \in 1..Saved :
    /\ Readable(n)
    /\ n > 1 => blockFile[n].previous_hash = data_hash(blockFile[n - 1])

\* CHECK(deserializeBlock(last_epoch, &previous)).
StorageChecksHold == ~failed

(* A block whose append has returned stays as it is, through crashes and   *)
(* through the blocks that are written after a restart.                    *)
Durable == \A b \in appended : blockFile[b.number] = b

(* A block has the number of the epoch it was made for, although the       *)
(* manager and the storage count for themselves.                           *)
NumberIsEpoch ==
  pc \in {"openBlock", "writeBlock", "openNumber", "writeNumber"} =>
    block.number = managerEpoch

(* getLatestSavedEpoch returns the `max number of block chain': when the   *)
(* manager starts, it is that of the last block appended, or of one that   *)
(* was interrupted just before it was.                                     *)
LatestIsMax ==
  [][ReadSaved => \A b \in appended : b.number <= lastEpochFinishSignal']_storageVars

(* After a restart the database may be ahead of the chain, but only by the *)
(* epoch that was being processed, which is then processed once more.      *)
StoreNotFarAhead ==
  pc = "run" /\ ~reset_epoch =>
    \A n \in Epochs : store[n] > 0 => n <= lastEpochFinishSignal + 1

(* Through all crashes the chain is whole, its blocks stay, and the        *)
(* database, the chain and the epochs keep together.                       *)
ChainKept ==
  /\ StorageTypeOK /\ StorageChecksHold
  /\ ChainLinked /\ Durable /\ NumberIsEpoch /\ StoreNotFarAhead
=============================================================================
