------------------------- MODULE BlockStorage_proofs -------------------------
(***************************************************************************)
(* Proofs about BlockStorage, for any set of transactions and any number   *)
(* of blocks and crashes.  The theorems assume that no crash comes between *)
(* the truncation of block_num.txt and its write (TornNumber): then the    *)
(* number that is read back at a restart is a guess.                       *)
(***************************************************************************)
EXTENDS BlockStorage, TLAPS

-----------------------------------------------------------------------------
(* The inductive invariant behind ChainKept.                               *)

(* The number of the last block of the chain; while block_num.txt is being *)
(* written, that of the block before.                                      *)
Kept == IF pc = "writeNumber" THEN block.number - 1 ELSE Saved

Numbering == {"openBlock", "writeBlock", "openNumber", "writeNumber"}
Generating == {"header"} \cup Numbering

(* At every step the manager's epoch, the block and the chain agree.       *)
PlaceInv ==
  /\ pc \in Places
  /\ block_num \in {NoFile, Empty} \cup Numbers
  /\ block_num = Empty <=> pc \in {"writeReset", "writeNumber"}
  /\ pc = "run" => managerEpoch = Kept + 1 /\ lastEpochFinishSignal = Kept
  /\ pc \in {"body"} \cup Generating =>
       managerEpoch \in Epochs /\ managerEpoch = Kept + 1 /\ lastEpochFinishSignal = managerEpoch
  /\ pc \in Generating => DOMAIN block = {"number", "previous_hash", "data", "metadata"}
  /\ pc \in Numbering =>
       /\ block.number = managerEpoch
       /\ managerEpoch > 1 => block.previous_hash = data_hash(blockFile[managerEpoch - 1])
  /\ pc \in {"openNumber", "writeNumber"} => blockFile[managerEpoch] = block
  /\ pc \in {"openReset", "writeReset"} => reset_epoch

LinkedTo(n) ==
  /\ Readable(n)
  /\ n > 1 => blockFile[n].previous_hash = data_hash(blockFile[n - 1])

(* The chain on disk, as far as it is kept, and the blocks returned for.   *)
ChainInv ==
  /\ DOMAIN blockFile = Epochs
  /\ \A n \in 1..Kept : LinkedTo(n)
  /\ \A b \in appended :
       /\ b.number \in Epochs /\ blockFile[b.number] = b
       /\ pc # "writeReset" => b.number <= Kept
  /\ ~reset_epoch => \A n \in Epochs : store[n] > 0 => n <= Kept + 1

StorageInv == StorageTypeOK /\ StorageChecksHold /\ PlaceInv /\ ChainInv

-----------------------------------------------------------------------------
(* Where the storage goes next.                                            *)
LEMMA FollowingSteps ==
  /\ Following["body"] = "header" /\ Following["header"] = "openBlock"
  /\ Following["openBlock"] = "writeBlock" /\ Following["writeBlock"] = "openNumber"
  /\ Following["openNumber"] = "writeNumber" /\ Following["writeNumber"] = "run"
  /\ DOMAIN Following = {"body", "header", "openBlock", "writeBlock", "openNumber", "writeNumber"}
BY DEF Following

LEMMA PlacesAre ==
  Places = {"down", "openReset", "writeReset", "read", "run", "body", "header",
            "openBlock", "writeBlock", "openNumber", "writeNumber"}
BY FollowingSteps DEF Places

(* What the invariant says of the numbers.                                 *)
LEMMA KeptRange ==
  ASSUME StorageInv
  PROVE  /\ MaxEpoch \in Nat /\ Kept \in Numbers
         /\ pc = "writeReset" => Kept = 0
         /\ block_num # Empty => Kept = Saved /\ LatestSaved = {Kept}
<1>1. MaxEpoch \in Nat
  BY StorageAssumption
<1>2. Saved \in Numbers /\ (block_num = Empty => Saved = 0)
  BY <1>1 DEF StorageInv, PlaceInv, Saved, Numbers, NoFile, Empty
<1>3. CASE pc = "writeNumber"
  <2>1. block.number = managerEpoch /\ managerEpoch \in Epochs /\ block_num = Empty
    BY <1>3 DEF StorageInv, PlaceInv, Numbering, Generating
  <2> QED  BY <1>1, <1>3, <2>1 DEF Kept, Numbers, Epochs
<1>4. CASE pc # "writeNumber"
  <2>1. Kept = Saved
    BY <1>4 DEF Kept
  <2>2. pc = "writeReset" => block_num = Empty
    BY DEF StorageInv, PlaceInv
  <2>3. block_num # Empty => LatestSaved = {Saved}
    BY DEF StorageInv, PlaceInv, LatestSaved, Saved, Numbers, NoFile, Empty
  <2> QED  BY <1>1, <1>2, <2>1, <2>2, <2>3
<1> QED  BY <1>3, <1>4

(* A step that leaves the disk, and what has been returned, keeps the      *)
(* chain.                                                                  *)
LEMMA DiskUnchanged ==
  ASSUME ChainInv, UNCHANGED <<reset_epoch, blockFile, store, appended>>,
         Kept' = Kept, pc' = "writeReset" <=> pc = "writeReset"
  PROVE  ChainInv'
BY DEF ChainInv, LinkedTo, Readable, data_hash

LEMMA InitStorage ==
  ASSUME StorageInit
  PROVE  StorageInv
<1>1. MaxEpoch \in Nat
  BY StorageAssumption
<1>2. /\ \A n \in Epochs : blockFile[n] = NoBlock /\ store[n] = 0
      /\ DOMAIN blockFile = Epochs /\ store \in [Epochs -> Nat]
      /\ pc = "down" /\ managerEpoch = 0 /\ lastEpochFinishSignal = 0 /\ transactionQueue = {}
      /\ failed = FALSE /\ appended = {} /\ block_num = NoFile
  BY DEF StorageInit
<1>3. Kept = 0
  BY <1>2 DEF Kept, Saved
<1>4. StorageTypeOK
  BY <1>1, <1>2, PlacesAre DEF StorageTypeOK, Readable, Numbers
<1>5. PlaceInv
  BY <1>2, PlacesAre DEF PlaceInv, Generating, Numbering, NoFile, Empty
<1>6. ChainInv
  BY <1>2, <1>3 DEF ChainInv
<1> QED  BY <1>2, <1>4, <1>5, <1>6 DEF StorageInv, StorageChecksHold

-----------------------------------------------------------------------------
(* The process starts, and a new chain is begun if the configuration asks  *)
(* for one.                                                                *)
LEMMA StartKeeps ==
  ASSUME StorageInv, Start \/ OpenReset \/ WriteReset
  PROVE  StorageInv'
<1> USE DEF diskVars
<1>0. MaxEpoch \in Nat /\ 0 \in Numbers
  BY StorageAssumption DEF Numbers
<1>1. CASE Start
  <2>1. /\ pc = "down" /\ ((pc' = "openReset" /\ reset_epoch) \/ pc' = "read")
        /\ UNCHANGED <<reset_epoch, blockFile, block_num, store, managerEpoch, lastEpochFinishSignal,
                       transactionQueue, block, failed, appended>>
    BY <1>1 DEF Start
  <2>2. Kept' = Kept
    BY <2>1 DEF Kept, Saved
  <2>3. StorageTypeOK' /\ StorageChecksHold' /\ PlaceInv'
    BY <2>1, PlacesAre DEF StorageInv, StorageTypeOK, StorageChecksHold, PlaceInv, Generating, Numbering, Readable
  <2>4. ChainInv'
    BY <2>1, <2>2, DiskUnchanged DEF StorageInv
  <2> QED  BY <2>3, <2>4 DEF StorageInv
<1>2. CASE OpenReset
  <2>1. /\ pc = "openReset" /\ pc' = "writeReset" /\ block_num' = Empty /\ reset_epoch
        /\ UNCHANGED <<reset_epoch, blockFile, store, managerEpoch, lastEpochFinishSignal,
                       transactionQueue, block, failed, appended>>
    BY <1>2 DEF OpenReset, StorageInv, PlaceInv
  <2>2. Kept' = 0
    BY <2>1 DEF Kept, Saved
  <2>3. StorageTypeOK' /\ StorageChecksHold' /\ PlaceInv'
    BY <2>1, PlacesAre DEF StorageInv, StorageTypeOK, StorageChecksHold, PlaceInv, Generating, Numbering, Readable
  <2>4. ChainInv'
    BY <2>1, <2>2 DEF StorageInv, ChainInv
  <2> QED  BY <2>3, <2>4 DEF StorageInv
<1>3. CASE WriteReset
  <2>1. /\ pc = "writeReset" /\ pc' = "read" /\ block_num' = 0 /\ appended' = {} /\ reset_epoch
        /\ UNCHANGED <<reset_epoch, blockFile, store, managerEpoch, lastEpochFinishSignal,
                       transactionQueue, block, failed>>
    BY <1>3 DEF WriteReset, StorageInv, PlaceInv
  <2>2. Kept' = 0
    BY <2>1 DEF Kept, Saved
  <2>3. StorageTypeOK' /\ StorageChecksHold' /\ PlaceInv'
    BY <1>0, <2>1, PlacesAre
       DEF StorageInv, StorageTypeOK, StorageChecksHold, PlaceInv, Generating, Numbering, Readable, Empty
  <2>4. ChainInv'
    BY <2>1, <2>2 DEF StorageInv, ChainInv
  <2> QED  BY <2>3, <2>4 DEF StorageInv
<1> QED  BY <1>1, <1>2, <1>3

(* The manager starts with the epoch after the last one kept.              *)
LEMMA ReadKeeps ==
  ASSUME StorageInv, ReadSaved
  PROVE  StorageInv' /\ lastEpochFinishSignal' = Kept
<1> USE DEF diskVars
<1>1. /\ pc = "read" /\ pc' = "run" /\ lastEpochFinishSignal' \in LatestSaved
      /\ managerEpoch' = lastEpochFinishSignal' + 1
      /\ UNCHANGED <<reset_epoch, blockFile, block_num, store, transactionQueue, block, failed,
                     appended>>
  BY DEF ReadSaved
<1>2. Kept \in Numbers /\ LatestSaved = {Kept} /\ MaxEpoch \in Nat
  BY <1>1, KeptRange DEF StorageInv, PlaceInv
<1>3. lastEpochFinishSignal' = Kept /\ managerEpoch' = Kept + 1 /\ Kept' = Kept
  BY <1>1, <1>2 DEF Kept, Saved
<1>4. StorageTypeOK'
  BY <1>1, <1>2, <1>3, PlacesAre DEF StorageInv, StorageTypeOK, Readable, Numbers
<1>5. StorageChecksHold' /\ PlaceInv'
  BY <1>1, <1>3, PlacesAre DEF StorageInv, StorageChecksHold, PlaceInv, Generating, Numbering
<1>6. ChainInv'
  BY <1>1, <1>3, DiskUnchanged DEF StorageInv
<1> QED  BY <1>3, <1>4, <1>5, <1>6 DEF StorageInv

(* The process is killed while block_num.txt is whole.                     *)
LEMMA CrashKeeps ==
  ASSUME StorageInv, TornNumber = FALSE, Crash
  PROVE  StorageInv'
<1> USE DEF diskVars
<1>1. /\ pc' = "down" /\ block_num # Empty
      /\ managerEpoch' = 0 /\ lastEpochFinishSignal' = 0 /\ transactionQueue' = {}
      /\ UNCHANGED <<reset_epoch, blockFile, block_num, store, failed, appended>>
  BY DEF Crash
<1>2. pc # "writeReset" /\ pc # "writeNumber"
  BY <1>1 DEF StorageInv, PlaceInv
<1>3. Kept' = Kept
  BY <1>1, <1>2 DEF Kept, Saved
<1>4. StorageTypeOK'
  BY <1>1, KeptRange, PlacesAre DEF StorageInv, StorageTypeOK, Readable, Numbers
<1>5. StorageChecksHold' /\ PlaceInv'
  BY <1>1, PlacesAre DEF StorageInv, StorageChecksHold, PlaceInv, Generating, Numbering
<1>6. ChainInv'
  BY <1>1, <1>2, <1>3, DiskUnchanged DEF StorageInv
<1> QED  BY <1>4, <1>5, <1>6 DEF StorageInv

(* An epoch is finished: the database has its updates, the chain not yet.  *)
LEMMA FinishKeeps ==
  ASSUME StorageInv, NEW T \in SUBSET Tx, FinishEpoch(T)
  PROVE  StorageInv'
<1>1. /\ pc = "run" /\ managerEpoch <= MaxEpoch /\ pc' = "body"
      /\ store' = [store EXCEPT ![managerEpoch] = @ + 1]
      /\ lastEpochFinishSignal' = managerEpoch /\ transactionQueue' = T
      /\ UNCHANGED <<reset_epoch, blockFile, block_num, managerEpoch, block, failed, appended>>
  BY DEF FinishEpoch
<1>2. /\ managerEpoch = Kept + 1 /\ Kept \in Numbers /\ MaxEpoch \in Nat /\ store \in [Epochs -> Nat]
      /\ block_num # Empty
  BY <1>1, KeptRange DEF StorageInv, PlaceInv, StorageTypeOK
<1>3. managerEpoch \in Epochs /\ managerEpoch \in Numbers /\ Kept' = Kept
  BY <1>1, <1>2 DEF Epochs, Numbers, Kept, Saved
<1>4. StorageTypeOK'
  <2>1. store[managerEpoch] + 1 \in Nat
    BY <1>2, <1>3
  <2>2. store' \in [Epochs -> Nat]
    BY <1>1, <1>2, <2>1
  <2> QED  BY <1>1, <1>3, <2>2, PlacesAre DEF StorageInv, StorageTypeOK, Readable
<1>5. StorageChecksHold' /\ PlaceInv'
  BY <1>1, <1>2, <1>3, PlacesAre DEF StorageInv, StorageChecksHold, PlaceInv, Generating, Numbering
<1>6. ChainInv'
  <2>1. \A n \in Epochs : store'[n] > 0 => n = managerEpoch \/ store[n] > 0
    BY <1>1, <1>2
  <2>2. ~reset_epoch => \A n \in Epochs : store'[n] > 0 => n <= Kept + 1
    BY <1>2, <2>1 DEF StorageInv, ChainInv, Epochs
  <2> QED  BY <1>1, <1>3, <2>2 DEF StorageInv, ChainInv, LinkedTo, Readable, data_hash
<1> QED  BY <1>4, <1>5, <1>6 DEF StorageInv

-----------------------------------------------------------------------------
(* The block is generated: its number is that of the epoch, and the block  *)
(* before it can be read.                                                  *)
LEMMA GenerateKeeps ==
  ASSUME StorageInv, GenerateBlockBody \/ GenerateBlockHeader
  PROVE  StorageInv'
<1> USE DEF diskVars
<1>1. CASE GenerateBlockBody
  <2> DEFINE fields == {"number", "previous_hash", "data", "metadata"}
  <2>1. /\ pc = "body" /\ pc' = "header" /\ transactionQueue' = {}
        /\ UNCHANGED <<reset_epoch, blockFile, block_num, store, managerEpoch, lastEpochFinishSignal,
                       failed, appended>>
        /\ DOMAIN block' = fields
    BY <1>1, FollowingSteps DEF GenerateBlockBody, Proceed, NoBlock
  <2>2. Kept' = Kept
    BY <2>1 DEF Kept, Saved
  <2>3. StorageTypeOK' /\ StorageChecksHold'
    BY <2>1, PlacesAre DEF StorageInv, StorageTypeOK, StorageChecksHold, Readable
  <2>4. PlaceInv'
    BY <2>1, <2>2, PlacesAre DEF StorageInv, PlaceInv, Generating, Numbering
  <2>5. ChainInv'
    BY <2>1, <2>2, DiskUnchanged DEF StorageInv
  <2> QED  BY <2>3, <2>4, <2>5 DEF StorageInv
<1>2. CASE GenerateBlockHeader
  <2>1. pc = "header" /\ block_num # Empty
    BY <1>2, PlacesAre DEF GenerateBlockHeader, StorageInv, PlaceInv
  <2>2. /\ LatestSaved = {Kept} /\ Kept \in Numbers /\ managerEpoch = Kept + 1 /\ managerEpoch \in Epochs
        /\ DOMAIN block = {"number", "previous_hash", "data", "metadata"} /\ MaxEpoch \in Nat
        /\ \A n \in 1..Kept : LinkedTo(n)
    BY <2>1, KeptRange DEF StorageInv, PlaceInv, ChainInv, Generating, Numbering
  <2>3. Kept > 0 => Readable(Kept)
    BY <2>2 DEF LinkedTo, Numbers
  <2>4. /\ block' = [block EXCEPT !.number = NumberAfter(Kept),
                       !.previous_hash = IF Kept > 0 THEN PreviousHash(Kept) ELSE <<>>]
        /\ pc' = "openBlock"
        /\ UNCHANGED <<reset_epoch, blockFile, block_num, store, managerEpoch, lastEpochFinishSignal,
                       transactionQueue, failed, appended>>
    BY <1>2, <2>1, <2>2, <2>3, FollowingSteps DEF GenerateBlockHeader, Proceed
  <2>5. /\ DOMAIN block' = {"number", "previous_hash", "data", "metadata"}
        /\ block'.number = managerEpoch
        /\ Kept > 0 => block'.previous_hash = data_hash(blockFile[Kept])
    BY <2>2, <2>4 DEF NumberAfter, PreviousHash
  <2>6. managerEpoch > 1 => Kept > 0 /\ Kept = managerEpoch - 1
    BY <2>2 DEF Numbers
  <2>7. Kept' = Kept
    BY <2>1, <2>4 DEF Kept, Saved
  <2>8. StorageTypeOK' /\ StorageChecksHold'
    BY <2>1, <2>4, PlacesAre DEF StorageInv, StorageTypeOK, StorageChecksHold, Readable
  <2>9. PlaceInv'
    BY <2>1, <2>4, <2>5, <2>6, <2>7, PlacesAre
       DEF StorageInv, PlaceInv, Generating, Numbering, data_hash
  <2>10. ChainInv'
    BY <2>1, <2>4, <2>7, DiskUnchanged DEF StorageInv
  <2> QED  BY <2>8, <2>9, <2>10 DEF StorageInv
<1> QED  BY <1>1, <1>2

-----------------------------------------------------------------------------
(* The block is written beyond the blocks kept, then its number.           *)

(* Before and after the number is written, the block is not yet kept.      *)
LEMMA WriteBlockKeeps ==
  ASSUME StorageInv, OpenBlockFile \/ WriteBlockFile
  PROVE  StorageInv'
<1> USE DEF diskVars
<1>0. pc \in {"openBlock", "writeBlock"}
  BY DEF OpenBlockFile, WriteBlockFile
<1>1. /\ block_num # Empty /\ Kept \in Numbers /\ MaxEpoch \in Nat
      /\ managerEpoch = Kept + 1 /\ managerEpoch \in Epochs /\ block.number = managerEpoch
      /\ DOMAIN block = {"number", "previous_hash", "data", "metadata"}
      /\ managerEpoch > 1 => block.previous_hash = data_hash(blockFile[managerEpoch - 1])
      /\ DOMAIN blockFile = Epochs
      /\ lastEpochFinishSignal = managerEpoch
  BY <1>0, KeptRange DEF StorageInv, PlaceInv, ChainInv, Generating, Numbering
<1>2. PICK b \in {Torn, block} :
        /\ blockFile' = [blockFile EXCEPT ![managerEpoch] = b]
        /\ \/ pc = "openBlock" /\ b = Torn /\ pc' = "writeBlock"
           \/ pc = "writeBlock" /\ b = block /\ pc' = "openNumber"
        /\ UNCHANGED <<reset_epoch, block_num, store, managerEpoch, lastEpochFinishSignal,
                       transactionQueue, block, failed, appended>>
  <2>1. CASE OpenBlockFile
    BY <1>1, <2>1, FollowingSteps DEF OpenBlockFile, Proceed
  <2>2. CASE WriteBlockFile
    BY <1>1, <2>2, FollowingSteps DEF WriteBlockFile, Proceed, Returned, ManagerMovesOn
  <2> QED  BY <2>1, <2>2
<1>3. /\ \A n \in Epochs : n # managerEpoch => blockFile'[n] = blockFile[n]
      /\ blockFile'[managerEpoch] = b /\ DOMAIN blockFile' = Epochs
  BY <1>1, <1>2
<1>4. Kept' = Kept /\ ~(managerEpoch <= Kept) /\ managerEpoch - 1 # managerEpoch /\ (managerEpoch > 1 => managerEpoch - 1 \in Epochs)
  <2>1. Kept' = Kept
    BY <1>2 DEF Kept, Saved
  <2>2. ~(managerEpoch <= Kept) /\ managerEpoch - 1 # managerEpoch /\ (managerEpoch > 1 => managerEpoch - 1 \in Epochs)
    BY <1>1 DEF Numbers, Epochs
  <2> QED  BY <2>1, <2>2
<1>5. StorageTypeOK'
  <2>1. \A n \in Epochs : Readable(n)' => blockFile'[n].number = n
    BY <1>1, <1>2, <1>3 DEF StorageInv, StorageTypeOK, Readable
  <2> QED  BY <1>2, <2>1, PlacesAre DEF StorageInv, StorageTypeOK
<1>6. StorageChecksHold'
  BY <1>2 DEF StorageInv, StorageChecksHold
<1>7. PlaceInv'
  <2>1. managerEpoch > 1 => block.previous_hash = data_hash(blockFile[managerEpoch - 1])'
    BY <1>1, <1>2, <1>3, <1>4 DEF data_hash
  <2> QED  BY <1>1, <1>2, <1>3, <1>4, <2>1, PlacesAre
           DEF StorageInv, PlaceInv, Generating, Numbering
<1>8. ChainInv'
  <2>1. ASSUME NEW n \in 1..Kept PROVE LinkedTo(n)'
    <3>1. n \in Epochs /\ n # managerEpoch /\ LinkedTo(n)
      BY <1>1, <1>4 DEF Numbers, Epochs, StorageInv, ChainInv
    <3>2. n > 1 => n - 1 \in Epochs /\ n - 1 # managerEpoch
      BY <1>1 DEF Numbers, Epochs
    <3> QED  BY <1>3, <3>1, <3>2 DEF LinkedTo, Readable, data_hash
  <2>2. ASSUME NEW a \in appended
        PROVE  a.number \in Epochs /\ blockFile'[a.number] = a /\ a.number <= Kept
    <3>1. a.number \in Epochs /\ blockFile[a.number] = a /\ a.number <= Kept
      BY <1>0 DEF StorageInv, ChainInv
    <3> QED  BY <1>3, <1>4, <3>1
  <2> QED  BY <1>2, <1>3, <1>4, <2>1, <2>2 DEF StorageInv, ChainInv
<1> QED  BY <1>5, <1>6, <1>7, <1>8 DEF StorageInv

LEMMA WriteNumberKeeps ==
  ASSUME StorageInv, OpenNumberFile \/ WriteNumberFile
  PROVE  StorageInv'
<1> USE DEF diskVars
<1>0. pc \in {"openNumber", "writeNumber"}
  BY DEF OpenNumberFile, WriteNumberFile
<1>1. /\ Kept \in Numbers /\ MaxEpoch \in Nat
      /\ managerEpoch = Kept + 1 /\ managerEpoch \in Epochs /\ block.number = managerEpoch
      /\ DOMAIN block = {"number", "previous_hash", "data", "metadata"}
      /\ managerEpoch > 1 => block.previous_hash = data_hash(blockFile[managerEpoch - 1])
      /\ blockFile[managerEpoch] = block /\ lastEpochFinishSignal = managerEpoch
  BY <1>0, KeptRange DEF StorageInv, PlaceInv, Generating, Numbering
<1>2. CASE OpenNumberFile
  <2>1. /\ pc = "openNumber" /\ pc' = "writeNumber" /\ block_num' = Empty
        /\ UNCHANGED <<reset_epoch, blockFile, store, managerEpoch, lastEpochFinishSignal,
                       transactionQueue, block, failed, appended>>
    BY <1>2, FollowingSteps DEF OpenNumberFile, Proceed
  <2>2. Kept' = Kept
    <3>1. Kept' = managerEpoch - 1
      BY <1>1, <2>1 DEF Kept
    <3> QED  BY <1>1, <3>1 DEF Numbers
  <2>3. StorageTypeOK' /\ StorageChecksHold'
    BY <2>1, PlacesAre DEF StorageInv, StorageTypeOK, StorageChecksHold, Readable
  <2>4. PlaceInv'
    BY <1>1, <2>1, <2>2, PlacesAre DEF StorageInv, PlaceInv, Generating, Numbering, data_hash
  <2>5. ChainInv'
    BY <2>1, <2>2, DiskUnchanged DEF StorageInv
  <2> QED  BY <2>3, <2>4, <2>5 DEF StorageInv
<1>3. CASE WriteNumberFile
  <2>1. /\ pc = "writeNumber" /\ pc' = "run" /\ block_num' = block.number
        /\ appended' = appended \cup {block} /\ managerEpoch' = managerEpoch + 1
        /\ UNCHANGED <<reset_epoch, blockFile, store, lastEpochFinishSignal,
                       transactionQueue, block, failed>>
    BY <1>3, FollowingSteps DEF WriteNumberFile, Proceed, Returned, ManagerMovesOn
  <2>2. /\ block_num' = managerEpoch /\ managerEpoch \in Numbers /\ managerEpoch # NoFile /\ managerEpoch # Empty
        /\ managerEpoch + 1 \in 0..(MaxEpoch + 1)
    BY <1>1, <2>1 DEF Epochs, Numbers, NoFile, Empty
  <2>3. Kept' = managerEpoch
    BY <2>1, <2>2 DEF Kept, Saved
  <2>4. StorageTypeOK' /\ StorageChecksHold'
    BY <1>1, <2>1, <2>2, PlacesAre DEF StorageInv, StorageTypeOK, StorageChecksHold, Readable
  <2>5. PlaceInv'
    BY <1>1, <2>1, <2>2, <2>3, PlacesAre DEF StorageInv, PlaceInv, Generating, Numbering
  <2>6. ChainInv'
    <3>1. block # NoBlock /\ block # Torn
      <4>1. NoBlock.number = 0 /\ Torn.number = 0
        BY DEF NoBlock, Torn
      <4>2. block.number # 0
        BY <1>1 DEF Epochs
      <4> QED  BY <4>1, <4>2
    <3>2. LinkedTo(managerEpoch)
      BY <1>1, <3>1 DEF LinkedTo, Readable
    <3>3. \A n \in 1..managerEpoch : n = managerEpoch \/ n \in 1..Kept
      BY <1>1 DEF Numbers
    <3>4. \A n \in 1..managerEpoch : LinkedTo(n)
      BY <3>2, <3>3 DEF StorageInv, ChainInv
    <3>5. \A n \in 1..managerEpoch : LinkedTo(n)'
      BY <2>1, <3>4 DEF LinkedTo, Readable, data_hash
    <3>6. \A b \in appended' : b.number \in Epochs /\ blockFile[b.number] = b /\ b.number <= managerEpoch
      <4>1. ASSUME NEW b \in appended
            PROVE  b.number \in Epochs /\ blockFile[b.number] = b /\ b.number <= managerEpoch
        <5>1. b.number \in Epochs /\ blockFile[b.number] = b /\ b.number <= Kept
          BY <1>0 DEF StorageInv, ChainInv
        <5> QED  BY <1>1, <5>1 DEF Epochs, Numbers
      <4>2. block.number <= managerEpoch
        BY <1>1 DEF Epochs
      <4> QED  BY <1>1, <2>1, <4>1, <4>2
    <3>7. ~reset_epoch => \A n \in Epochs : store[n] > 0 => n <= managerEpoch + 1
      BY <1>1 DEF StorageInv, ChainInv, Epochs, Numbers
    <3> QED  BY <2>1, <2>3, <3>5, <3>6, <3>7 DEF StorageInv, ChainInv
  <2> QED  BY <2>4, <2>5, <2>6 DEF StorageInv
<1> QED  BY <1>2, <1>3

-----------------------------------------------------------------------------
LEMMA NextStorage ==
  ASSUME TornNumber = FALSE, StorageInv, [StorageNext]_storageVars
  PROVE  StorageInv'
<1>1. CASE StorageNext
  BY <1>1, StartKeeps, ReadKeeps, FinishKeeps, GenerateKeeps, WriteBlockKeeps, WriteNumberKeeps,
     CrashKeeps DEF StorageNext
<1>2. CASE UNCHANGED storageVars
  <2>1. UNCHANGED <<reset_epoch, blockFile, block_num, store, pc, managerEpoch, lastEpochFinishSignal,
                    transactionQueue, block, failed, appended>>
    BY <1>2 DEF storageVars, diskVars
  <2>2. Kept' = Kept
    BY <2>1 DEF Kept, Saved
  <2>3. ChainInv'
    BY <2>1, <2>2, DiskUnchanged DEF StorageInv
  <2> QED  BY <2>1, <2>2, <2>3
           DEF StorageInv, StorageTypeOK, StorageChecksHold, PlaceInv, Readable, data_hash
<1> QED  BY <1>1, <1>2

LEMMA StorageImpliesChain ==
  ASSUME StorageInv
  PROVE  ChainKept
<1>1. Kept \in Numbers /\ MaxEpoch \in Nat
  BY KeptRange
<1>2. ChainLinked
  <2>1. CASE block_num = Empty
    BY <2>1 DEF ChainLinked, Saved
  <2>2. CASE block_num # Empty
    BY <2>2, KeptRange DEF ChainLinked, LinkedTo, StorageInv, ChainInv
  <2> QED  BY <2>1, <2>2
<1>3. Durable
  BY DEF Durable, StorageInv, ChainInv
<1>4. NumberIsEpoch
  BY DEF NumberIsEpoch, StorageInv, PlaceInv, Numbering
<1>5. StoreNotFarAhead
  BY DEF StoreNotFarAhead, StorageInv, PlaceInv, ChainInv
<1> QED  BY <1>2, <1>3, <1>4, <1>5 DEF ChainKept, StorageInv

(* Whenever the process is killed, other than in the write of              *)
(* block_num.txt, the blocks up to the saved number can be read and are    *)
(* linked, a block whose append has returned stays as it is, a block has   *)
(* the number of its epoch, and the database is ahead by one epoch at most.*)
THEOREM ChainSurvives ==
  ASSUME TornNumber = FALSE
  PROVE  StorageSpec => []ChainKept
<1>1. StorageInit => StorageInv
  BY InitStorage
<1>2. StorageInv /\ [StorageNext]_storageVars => StorageInv'
  BY NextStorage
<1>3. StorageInv => ChainKept
  BY StorageImpliesChain
<1> QED  BY <1>1, <1>2, <1>3, PTL DEF StorageSpec

(* What getLatestSavedEpoch promises holds then: the manager starts after  *)
(* the last block whose append has returned.                               *)
THEOREM RestartsAfterChain ==
  ASSUME TornNumber = FALSE
  PROVE  StorageSpec => LatestIsMax
<1>1. StorageInit => StorageInv
  BY InitStorage
<1>2. StorageInv /\ [StorageNext]_storageVars => StorageInv'
  BY NextStorage
<1>3. StorageInv /\ [StorageNext]_storageVars =>
        [ReadSaved => \A b \in appended : b.number <= lastEpochFinishSignal']_storageVars
  <2> SUFFICES ASSUME StorageInv, ReadSaved
               PROVE  \A b \in appended : b.number <= lastEpochFinishSignal'
    OBVIOUS
  <2>1. lastEpochFinishSignal' = Kept /\ pc = "read"
    BY ReadKeeps DEF ReadSaved
  <2> QED  BY <2>1 DEF StorageInv, ChainInv
<1> QED  BY <1>1, <1>2, <1>3, PTL DEF StorageSpec, LatestIsMax

=============================================================================
