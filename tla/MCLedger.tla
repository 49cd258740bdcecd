------------------------------- MODULE MCLedger -------------------------------
(***************************************************************************)
(* Model checking of the parts on the way from a numbered batch to a block *)
(* on disk, for their safety, one part to a behaviour: the sub-queue that  *)
(* batches are passed on in, with one consumer for long enough that its    *)
(* block index grows and its blocks run out (One), and with two (Two); the *)
(* controllers that exchange the batches (CommController, extended); how   *)
(* hashes and texts are computed (Digesting, Text); the Merkle tree with   *)
(* its array lists; a transaction and its stored form; and the block       *)
(* storage (BlockStorage, extended).                                       *)
(***************************************************************************)
EXTENDS BlockStorage, CommController, TLC

CONSTANT
  Parts              \* the parts to be checked

VARIABLES
  running,           \* the part that runs in this behaviour
  \* One and Two
  tailIndex, headIndex, dequeueOptimisticCount, dequeueOvercommit, headers,
  key, value, slot, elementsCompletelyDequeued, tailBlock, free, producer,
  consumer, filled, claimed, broken,
  \* List and Tree
  mt_al, aborted, hashes, level, tags, errors,
  \* Digesting, Text and Stored
  context, code, digest, message, text, tr

producerVars ==
  <<tailIndex, headIndex, dequeueOptimisticCount, dequeueOvercommit, headers,
    key, value, slot, elementsCompletelyDequeued, tailBlock, free, producer,
    consumer, filled, claimed, broken>>
listVars == <<mt_al, aborted, hashes>>
treeVars == <<level, tags, errors>>
codecVars == <<context, code, digest, message, text, tr>>
vars == <<running, producerVars, controllerVars, listVars, treeVars, codecVars,
          storageVars>>

One == INSTANCE ImplicitProducer WITH
  Consumers <- {"c1"}, Blocks <- {1, 2}, BLOCK_SIZE <- 2, Width <- 4,
  IMPLICIT_INITIAL_INDEX_SIZE <- 2, FirstIndex <- 12, MaxElements <- 7, MaxBulk <- 3,
  enqueued <- filled, failed <- broken
Two == INSTANCE ImplicitProducer WITH
  Consumers <- {"c1", "c2"}, Blocks <- {1, 2}, BLOCK_SIZE <- 2, Width <- 4,
  IMPLICIT_INITIAL_INDEX_SIZE <- 2, FirstIndex <- 12, MaxElements <- 3, MaxBulk <- 2,
  enqueued <- filled, failed <- broken

List == INSTANCE ArrayList WITH MaxElems <- 8, Width <- 6, Hashes <- {1, 2}

Tree == INSTANCE MerkleTree WITH
  MaxElems <- 16, Width <- 6, Levels <- 6, Tags <- {"a", "b"}, MaxLeaves <- 9

\* Sizes in proportion to those of SHA-256; a message of eight octets is too long.
Digesting == INSTANCE Sha256 WITH
  OctetBits <- 2, LengthSize <- 2, BlockSize <- 4, Octets <- {0, 2}, MaxPiece <- 2,
  MaxLength <- 9

Text == INSTANCE Base64 WITH
  Bytes <- {0, 27, 228, 255}, LineLengths <- {2, 5}, MaxBytes <- 5

\* A varint has one bit in each octet, so that small numbers take several.
Stored == INSTANCE MockTransaction WITH
  GroupBits <- 1, MaxGroups <- 10, HashSize <- 2, Numbers <- {1, 2, 5},
  Texts <- {<<>>, <<1>>, <<3, 0>>, <<2, 3, 1>>}

LedgerInit ==
  /\ running \in Parts
  /\ Init /\ List!Init /\ Tree!Init
  /\ Digesting!Init /\ Text!Init /\ Stored!Init
  /\ StorageInit
  /\ running # "storage" => ~reset_epoch
  /\ IF running = "two" THEN Two!Init ELSE One!Init

LedgerNext ==
  \/ /\ \/ running = "one" /\ One!Next
        \/ running = "two" /\ Two!Next
     /\ UNCHANGED <<running, controllerVars, listVars, treeVars, codecVars,
                    storageVars>>
  \/ /\ UNCHANGED <<running, producerVars>>
     /\ \/ /\ running = "controllers" /\ Next
           /\ UNCHANGED <<listVars, treeVars, codecVars, storageVars>>
        \/ /\ running = "list" /\ List!Next
           /\ UNCHANGED <<controllerVars, treeVars, codecVars, storageVars>>
        \/ /\ running = "tree" /\ Tree!Next
           /\ UNCHANGED <<controllerVars, listVars, codecVars, storageVars>>
        \/ /\ running = "digests" /\ Digesting!Next
           /\ UNCHANGED <<controllerVars, listVars, treeVars, text, tr,
                          storageVars>>
        \/ /\ running = "text" /\ Text!Next
           /\ UNCHANGED <<controllerVars, listVars, treeVars, context, code,
                          digest, message, tr, storageVars>>
        \/ /\ running = "transaction" /\ Stored!Next
           /\ UNCHANGED <<controllerVars, listVars, treeVars, context, code,
                          digest, message, text, storageVars>>
        \/ /\ running = "storage" /\ StorageNext
           /\ UNCHANGED <<controllerVars, listVars, treeVars, codecVars>>

LedgerSpec == LedgerInit /\ [][LedgerNext]_vars

AllParts == {"one", "two", "controllers", "list", "tree", "digests", "text",
             "transaction", "storage"}
ControllersOnly == {"controllers"}
StorageOnly == {"storage"}
ServerSymmetry == Permutations(Servers)

-----------------------------------------------------------------------------
Both(one, two) == IF running = "two" THEN two ELSE one

\* Elements come out of a sub-queue once, in their order, as they were put in.
ElementsKept == Both(One!ElementsKept, Two!ElementsKept)

\* No block of a sub-queue is lost or used twice.
BlocksAccounted == Both(One!BlocksAccounted, Two!BlocksAccounted)

\* An array list holds what its operations describe, in its own memory.
HoldsHashes == List!HoldsHashes

\* The root of a tree and the verification of a leaf are about all its leaves.
TreeCovers == Tree!TreeCovers

\* A digest covers the whole message, however it came in pieces.
DigestOfMessage == Digesting!DigestOfMessage

\* A text that has been encoded and a transaction that has been stored are read
\* back as they were.
DecodesEncoded == Text!DecodesEncoded /\ Stored!RestoresStored

\* No CHECK of a receiver thread fails: epochs come in their order.
EpochChecksHold == ChecksHold
=============================================================================
