-------------------------------- MODULE Base64 --------------------------------
(***************************************************************************)
(* base64_encode and base64_decode, for one text that grows byte by byte.  *)
(* Bytes and characters are numbers, the characters those of ASCII; a      *)
(* decoder's result is a sequence of bytes, or Thrown.                     *)
(***************************************************************************)
EXTENDS Integers, Sequences, SequencesExt

CONSTANTS
  Bytes,          \* the bytes of texts, a subset of 0..255
  LineLengths,    \* 64 in encode_pem, 76 in encode_mime
  MaxBytes        \* bound: bytes of a text

VARIABLE text     \* what is encoded

Newline == 10
Plus == 43
Minus == 45
Dot == 46
Slash == 47
Equal == 61
Underscore == 95

base64_chars(url) ==
  [i \in 0..63 |->
     CASE i < 26 -> 65 + i           \* A to Z
       [] i \in 26..51 -> 97 + i - 26
       [] i \in 52..61 -> 48 + i - 52
       [] i = 62 -> IF url THEN Minus ELSE Plus
       [] OTHER  -> IF url THEN Underscore ELSE Slash]

Thrown == <<-1>>

pos_of_char(chr) ==
  CASE chr \in 65..90 -> chr - 65
    [] chr \in 97..122 -> chr - 97 + 25 + 1
    [] chr \in 48..57 -> chr - 48 + 25 + 25 + 2
    [] chr \in {Plus, Minus} -> 62
    [] chr \in {Slash, Underscore} -> 63
    [] OTHER -> -1

-----------------------------------------------------------------------------
\* One group of up to three bytes, from s[pos + 1] on.
EncodeGroup(s, pos, url) ==
  LET char(i)  == base64_chars(url)[i]
      trailing == IF url THEN Dot ELSE Equal
      byte(k)  == IF pos + k < Len(s) THEN s[pos + k + 1] ELSE 0
      chars    == <<char(byte(0) \div 4),
                    char((byte(0) % 4) * 16 + byte(1) \div 16),
                    char((byte(1) % 16) * 4 + byte(2) \div 64),
                    char(byte(2) % 64)>>
  IN  [k \in 1..4 |-> IF pos + k - 1 <= Len(s) THEN chars[k] ELSE trailing]

base64_encode(s, url) ==
  FlattenSeq([g \in 1..((Len(s) + 2) \div 3) |-> EncodeGroup(s, 3 * (g - 1), url)])

\* The text grows by the newline as well.
RECURSIVE BreakFrom(_, _, _)
BreakFrom(str, pos, distance) ==
  IF pos < Len(str)
  THEN BreakFrom(InsertAt(str, pos + 1, Newline), pos + distance + 1, distance)
  ELSE str
insert_linebreaks(str, distance) == BreakFrom(str, distance, distance)

\* base64_encode_pem and base64_encode_mime
encode_with_line_breaks(s, distance) ==
  insert_linebreaks(base64_encode(s, FALSE), distance)

-----------------------------------------------------------------------------
\* The character of a std::string at an index: behind the last one, a null character.
At(str, i) == IF i < Len(str) THEN str[i + 1] ELSE 0

\* A character that is there and is not padding.
MutantFilled(str, i) == i < Len(str) /\ str[i + 1] # Equal
Filled(str, i) == i < Len(str) /\ str[i + 1] \notin {Equal, Dot}

(* One group of up to four characters, from an index on.  The second       *)
(* character is looked up without asking whether it is there.              *)
DecodeGroup(str, pos) ==
  LET p(k)   == pos_of_char(At(str, pos + k))
      second == Filled(str, pos + 2)
      third  == second /\ Filled(str, pos + 3)
      used   == {0, 1} \cup (IF second THEN {2} ELSE {}) \cup (IF third THEN {3} ELSE {})
  IN  IF \E k \in used : p(k) = -1 THEN Thrown
      ELSE <<p(0) * 4 + p(1) \div 16>>
           \o (IF second THEN <<(p(1) % 16) * 16 + p(2) \div 4>> ELSE <<>>)
           \o (IF third THEN <<(p(2) % 4) * 64 + p(3)>> ELSE <<>>)

decode(str) ==
  LET groups == [g \in 1..((Len(str) + 3) \div 4) |-> DecodeGroup(str, 4 * (g - 1))]
  IN  IF Contains(groups, Thrown) THEN Thrown ELSE FlattenSeq(groups)

base64_decode(str, remove_linebreaks) ==
  decode(IF remove_linebreaks THEN SelectSeq(str, LAMBDA c : c # Newline) ELSE str)

-----------------------------------------------------------------------------
Init == text = <<>>

More(byte) == Len(text) < MaxBytes /\ text' = Append(text, byte)

Next == \E byte \in Bytes : More(byte)

Spec == Init /\ [][Next]_text

-----------------------------------------------------------------------------
Unpadded(str) == SelectSeq(str, LAMBDA c : c \notin {Equal, Dot})
Breaks(str) == {i \in DOMAIN str : str[i] = Newline}

(* What has been encoded is decoded to the same text: with either alphabet *)
(* and either padding, without its padding, and with line breaks, where    *)
(* they are removed and nowhere else.  Lines have the length asked for.    *)
DecodesEncoded ==
  /\ \A url \in BOOLEAN : LET str == base64_encode(text, url) IN
       /\ base64_decode(str, FALSE) = text
       /\ base64_decode(Unpadded(str), FALSE) = text
       /\ Len(str) = 4 * ((Len(text) + 2) \div 3)
  /\ \A d \in LineLengths : LET str == encode_with_line_breaks(text, d) IN
       /\ base64_decode(str, TRUE) = text
       /\ Breaks(str) = {i \in DOMAIN str : i % (d + 1) = 0}
       /\ str # <<>> => Last(str) # Newline
       /\ Breaks(str) # {} => base64_decode(str, FALSE) = Thrown
=============================================================================
