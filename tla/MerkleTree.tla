------------------------------ MODULE MerkleTree ------------------------------
(***************************************************************************)
(* The Merkle tree of a block.  Each level of the tree is an array list; a *)
(* node whose right child is missing is not stored, its left child takes   *)
(* its place.  The hash of two hashes is the pair of them, and a leaf's    *)
(* hash is a 1-tuple.                                                      *)
(***************************************************************************)
EXTENDS MtArrList, Integers

CONSTANTS
  Levels,       \* TREE_LEVELS
  Tags,         \* the leaves' hashes, strings
  MaxLeaves     \* bound: how many leaves are added

VARIABLES
  level,        \* the array lists, from the leaves up
  tags,         \* history: the leaves
  errors        \* history: the error codes returned

vars == <<level, tags, errors>>

mt_init_hash(tag) == <<tag>>
mt_hash(left, right) == <<left, right>>
Left(q)  == q % 2 = 0
Right(q) == q % 2 = 1
Get(lv, l, q) == al_get(lv[l + 1], q)
Size(lv, l) == Elems(lv[l + 1])
Elements == Size(level, 0)

Init ==
  /\ level = [l \in 1..Levels |-> Empty]
  /\ tags = <<>> /\ errors = {}

-----------------------------------------------------------------------------
(* mt_add: from the new leaf up, whenever the node is a right one, the     *)
(* parent is stored.  A node is <<levels, hash, error>> on the way up.     *)
MutantParent(lv, l, q, h) == al_add(lv[l + 2], h)
Parent(lv, l, q, h) == al_add_or_update(lv[l + 2], h, q \div 2)

RECURSIVE AddUp(_, _, _, _)
AddUp(lv, l, q, h) ==
  IF q = 0 \/ l >= Levels THEN [level |-> lv, err |-> Success]
  ELSE IF Left(q) THEN AddUp(lv, l + 1, q \div 2, h)
  ELSE LET left == Get(lv, l, q - 1)
           up   == mt_hash(left, h)
           r    == Parent(lv, l, q, up)
       IN  IF left = NoReturn THEN [level |-> lv, err |-> Aborted]
           ELSE IF r.err # Success THEN [level |-> lv, err |-> r.err]
           ELSE AddUp([lv EXCEPT ![l + 2] = r.al], l + 1, q \div 2, up)

mt_add(h) ==
  LET r == al_add(level[1], h)
  IN  IF r.err # Success THEN [level |-> level, err |-> r.err]
      ELSE AddUp([level EXCEPT ![1] = r.al], 0, Elements, h)

\* The next level counts if it is not empty and not the last one.
HasNextLevel(lv, l) == l + 1 < Levels - 1 /\ Size(lv, l + 1) > 0

\* The hash of the subtree at offset q of level l, which may be further down.
FindRightNeighbor(lv, q, l) ==
  LET found == {k \in 0..l : q * 2^(l - k) < Size(lv, k)}
  IN  IF found = {} THEN Null
      ELSE LET k == CHOOSE k \in found : \A j \in found : j <= k
           IN  Get(lv, k, q * 2^(l - k))

\* One step of mt_verify and mt_update from node q of level l with hash h.
Combine(lv, l, q, h) ==
  IF Right(q) THEN mt_hash(Get(lv, l, q - 1), h)
  ELSE LET right == FindRightNeighbor(lv, q + 1, l)
       IN  IF right = Null THEN h ELSE mt_hash(h, right)

RECURSIVE VerifyUp(_, _, _, _)
VerifyUp(lv, l, q, h) ==
  IF HasNextLevel(lv, l) THEN VerifyUp(lv, l + 1, q \div 2, Combine(lv, l, q, h))
  ELSE h = Get(lv, l, q)
mt_verify(h, offset) == offset < Elements /\ VerifyUp(level, 0, offset, h)

RECURSIVE UpdateUp(_, _, _, _)
UpdateUp(lv, l, q, h) ==
  IF ~HasNextLevel(lv, l) THEN lv
  ELSE LET up == Combine(lv, l, q, h)
       IN  UpdateUp([lv EXCEPT ![l + 2] = al_update_if_exists(@, up, q \div 2).al],
                    l + 1, q \div 2, up)
mt_update(h, offset) ==
  UpdateUp([level EXCEPT ![1] = al_update(@, h, offset).al], 0, offset, h)

RECURSIVE RootLevel(_, _)
RootLevel(lv, l) == IF HasNextLevel(lv, l) THEN RootLevel(lv, l + 1) ELSE l
mt_get_root == Get(level, RootLevel(level, 0), 0)

-----------------------------------------------------------------------------
Add(tag) ==
  /\ Aborted \notin errors /\ Len(tags) < MaxLeaves
  /\ level' = mt_add(mt_init_hash(tag)).level
  /\ errors' = errors \cup {mt_add(mt_init_hash(tag)).err}
  /\ tags' = Append(tags, mt_init_hash(tag))

Update(tag, offset) ==
  /\ Aborted \notin errors /\ offset < Elements
  /\ level' = mt_update(mt_init_hash(tag), offset)
  /\ tags' = [tags EXCEPT ![offset + 1] = mt_init_hash(tag)]
  /\ UNCHANGED errors

Next == \E tag \in Tags : Add(tag) \/ \E i \in 0..(MaxLeaves - 1) : Update(tag, i)

Spec == Init /\ [][Next]_vars

-----------------------------------------------------------------------------
(* The tree over a sequence of leaves: the left subtree is the largest     *)
(* complete one that is not the whole.                                     *)
RECURSIVE TreeOver(_)
TreeOver(s) ==
  IF Len(s) = 1 THEN s[1]
  ELSE LET k == CHOOSE k \in 1..(Len(s) - 1) :
                  is_power_of_two(k) /\ 2 * k >= Len(s)
       IN  mt_hash(TreeOver(SubSeq(s, 1, k)), TreeOver(SubSeq(s, k + 1, Len(s))))

(* The root covers all the leaves in their order, whatever the additions   *)
(* and updates, which all succeed.                                         *)
RootCoversLeaves ==
  tags # <<>> => mt_get_root = TreeOver(tags) /\ errors = {Success}

(* A leaf verifies at its offset and nothing else does, also on the        *)
(* incomplete right edge of the tree.                                      *)
VerifiesLeaves ==
  \A i \in DOMAIN tags : \A tag \in Tags :
    mt_verify(mt_init_hash(tag), i - 1) <=> mt_init_hash(tag) = tags[i]

\* Both the root and the verification are about all the leaves that were added.
TreeCovers == RootCoversLeaves /\ VerifiesLeaves
=============================================================================
