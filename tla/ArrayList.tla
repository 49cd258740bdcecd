------------------------------- MODULE ArrayList -------------------------------
(***************************************************************************)
(* One array list under every sequence of its operations.                  *)
(***************************************************************************)
EXTENDS MtArrList

CONSTANT Hashes

VARIABLES
  mt_al,
  aborted,     \* an assertion has failed
  hashes       \* history: what a plain sequence would hold

vars == <<mt_al, aborted, hashes>>

Init == mt_al = Empty /\ aborted = FALSE /\ hashes = <<>>

Offsets == 0..MaxElems

\* An operation with the outcome r, after which the sequence is s.
Does(r, s) ==
  /\ ~aborted
  /\ mt_al' = r.al
  /\ aborted' = (r.err = Aborted)
  /\ hashes' = IF aborted' THEN hashes ELSE s

Written(h, i) == [j \in DOMAIN hashes |-> IF j = i + 1 THEN h ELSE hashes[j]]

Add(h) == Does(al_add(mt_al, h), Append(hashes, h))

Update(h, i) == Does(al_update(mt_al, h, i), Written(h, i))

UpdateIfExists(h, i) == Does(al_update_if_exists(mt_al, h, i), Written(h, i))

AddOrUpdate(h, i) ==
  Does(al_add_or_update(mt_al, h, i),
       IF i = Len(hashes) THEN Append(hashes, h) ELSE Written(h, i))

Truncate(n) ==
  Does(al_truncate(mt_al, n), SubSeq(hashes, 1, IF n < Len(hashes) THEN n ELSE Len(hashes)))

Next ==
  \/ \E h \in Hashes : \/ Add(h)
                       \/ \E i \in Offsets : Update(h, i) \/ UpdateIfExists(h, i)
                                             \/ AddOrUpdate(h, i)
  \/ \E n \in Offsets : Truncate(n)

Spec == Init /\ [][Next]_vars

-----------------------------------------------------------------------------
(* Memory is allocated for every element, also after a truncation has      *)
(* given some of it back: growing is decided by the number of elements     *)
(* alone.                                                                  *)
NoOverrun == Elems(mt_al) <= mt_al.alloc

(* The list is the sequence that its operations describe; an operation     *)
(* that fails changes nothing.  With MaxElems elements, and not before, it *)
(* cannot be used any more.                                                *)
HoldsList ==
  /\ mt_al.store = hashes /\ Len(hashes) <= MaxElems
  /\ aborted => Len(hashes) = MaxElems
  /\ Len(hashes) < MaxElems => \A i \in Offsets :
       al_get(mt_al, i) = IF i < Len(hashes) THEN hashes[i + 1] ELSE Null

(* No more memory than necessary: the `next highest power of two', however *)
(* the list has grown and been truncated.                                  *)
AllocFits ==
  Elems(mt_al) > 0 => is_power_of_two(mt_al.alloc) /\ mt_al.alloc < 2 * Elems(mt_al)

\* The list holds its hashes, in memory that is its own and no larger than needed.
HoldsHashes == HoldsList /\ NoOverrun /\ AllocFits
=============================================================================
