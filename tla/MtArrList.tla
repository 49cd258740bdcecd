------------------------------- MODULE MtArrList -------------------------------
(***************************************************************************)
(* The array list mt_al_t that holds a level of a Merkle tree.  A list is  *)
(* a record: its hashes, and the number of hashes memory is allocated for. *)
(* An operation returns the list it leaves and an error code.  Each begins *)
(* with assert(mt_al->elems < MT_AL_MAX_ELEMS), so that on a full list     *)
(* none returns: the program is aborted.  realloc and malloc succeed.      *)
(***************************************************************************)
EXTENDS Naturals, Sequences, Bitwise

CONSTANTS
  MaxElems,     \* MT_AL_MAX_ELEMS
  Width         \* uint32_t has 2^Width values

Success      == "MT_SUCCESS"
IllegalParam == "MT_ERR_ILLEGAL_PARAM"
IllegalState == "MT_ERR_ILLEGAL_STATE"
Aborted      == "abort()"
Null         == <<"NULL">>
NoReturn     == <<"abort()">>

W(x) == x % 2^Width

Empty == [store |-> <<>>, alloc |-> 0]
Elems(al) == Len(al.store)
Ok(al) == [al |-> al, err |-> Success]
Err(al, e) == [al |-> al, err |-> e]

\* The assertion comes first, whatever the arguments.
AssertHolds(al) == Elems(al) < MaxElems
Asserted(al, r) == IF AssertHolds(al) THEN r ELSE Err(al, Aborted)

\* v--; v |= v >> 1; ... v |= v >> 16; v++; v += (v == 0), in uint32_t.
Smear(v, k) == v | shiftR(v, k)
round_next_power_two(v) ==
  LET u == W(Smear(Smear(Smear(Smear(Smear(W(v + 2^Width - 1), 1), 2), 4), 8), 16) + 1)
  IN  IF u = 0 THEN 1 ELSE u

is_power_of_two(v) == v # 0 /\ (v & (v - 1)) = 0

\* A list that is full has its memory doubled.  What is not doubled here is
\* written behind the end.
Grown(al) ==
  IF Elems(al) = 0 THEN 1
  ELSE IF is_power_of_two(Elems(al)) THEN 2 * Elems(al) ELSE al.alloc

al_add(al, hash) ==
  Asserted(al,
    IF is_power_of_two(Elems(al))
         /\ (W(2 * Elems(al)) < Elems(al) \/ W(2 * Elems(al)) > MaxElems)
    THEN Err(al, IllegalState)
    ELSE Ok([store |-> Append(al.store, hash), alloc |-> Grown(al)]))

Put(al, hash, offset) == Ok([al EXCEPT !.store[offset + 1] = hash])

al_update(al, hash, offset) ==
  Asserted(al,
    IF offset < Elems(al) THEN Put(al, hash, offset) ELSE Err(al, IllegalParam))

al_update_if_exists(al, hash, offset) ==
  Asserted(al, IF offset < Elems(al) THEN Put(al, hash, offset) ELSE Ok(al))

MutantAddOrUpdate(al, hash, offset) ==
  IF offset >= Elems(al) THEN al_add(al, hash) ELSE al_update(al, hash, offset)
al_add_or_update(al, hash, offset) ==
  Asserted(al,
    CASE offset > Elems(al) -> Err(al, IllegalParam)
      [] offset = Elems(al) -> al_add(al, hash)
      [] OTHER              -> al_update(al, hash, offset))

TruncatedAlloc(elems) == round_next_power_two(elems)
al_truncate(al, elems) ==
  Asserted(al,
    IF elems < Elems(al)
    THEN Ok([store |-> SubSeq(al.store, 1, elems),
             alloc |-> IF elems = 0 THEN 0 ELSE TruncatedAlloc(elems)])
    ELSE Err(al, IllegalParam))

al_get(al, offset) ==
  CASE ~AssertHolds(al)     -> NoReturn
    [] offset >= Elems(al)  -> Null
    [] OTHER                -> al.store[offset + 1]
=============================================================================
