-------------------------------- MODULE Sha256 --------------------------------
(***************************************************************************)
(* A SHA256Context under every sequence of calls: messages that come in    *)
(* pieces, final bits that fill no octet, results asked for repeatedly,    *)
(* and messages whose length does not fit.  All sizes are parameters, with *)
(* those of SHA-256 in brackets.                                           *)
(*                                                                         *)
(* The compression function is ideal: Intermediate_Hash is the sequence of *)
(* the blocks that were processed, after the value that it started from.   *)
(***************************************************************************)
EXTENDS Integers, Sequences, SequencesExt

CONSTANTS
  OctetBits,    \* bits of an octet [8]
  LengthSize,   \* octets of Length_High and Length_Low together [8]
  BlockSize,    \* SHA256_Message_Block_Size [64]
  Octets,       \* the octets of messages, a subset of 0..(2^OctetBits - 1)
  MaxPiece,     \* bound: octets of one call of SHA256Input
  MaxLength     \* bound: octets of a message

VARIABLES
  context,      \* the SHA256Context
  code,         \* what the last call returned
  digest,       \* the last Message_Digest
  message       \* history: what was input since the last reset

sha256Vars == <<context, code, digest, message>>

shaSuccess == 0
shaNull == 1
shaStateError == 3

ZeroHash == <<"0">>            \* SHA256Context ctx{}
SHA256_H0 == <<"H0">>

Width == OctetBits * (LengthSize \div 2)     \* of Length_Low, Length_High [32]
Positions == 0..(BlockSize - 1)

NoMessage == [octets |-> <<>>, bits |-> <<>>, reset |-> FALSE, misused |-> FALSE]

Init ==
  /\ context = [Length_Low |-> 0, Length_High |-> 0, Message_Block_Index |-> 0,
                Intermediate_Hash |-> ZeroHash, Computed |-> FALSE,
                Corrupted |-> shaSuccess, Message_Block |-> [i \in Positions |-> 0]]
  /\ code = shaSuccess /\ digest = <<>> /\ message = NoMessage

\* What was in Message_Block stays there: every octet is written again.
Reset ==
  /\ context' = [context EXCEPT
       !.Length_Low = 0, !.Length_High = 0, !.Message_Block_Index = 0,
       !.Intermediate_Hash = SHA256_H0, !.Computed = FALSE, !.Corrupted = shaSuccess]
  /\ code' = shaSuccess
  /\ digest' = <<>>
  /\ message' = [NoMessage EXCEPT !.reset = TRUE]

\* Corrupted is 1, that is shaNull and not shaInputTooLong, after an overflow.
Overflows(c, bits) == c.Length_Low + bits >= 2^Width /\ c.Length_High + 1 = 2^Width
AddLength(c, bits) ==
  LET low == c.Length_Low + bits
  IN  [c EXCEPT !.Length_Low = low % 2^Width,
                !.Length_High = (@ + low \div 2^Width) % 2^Width,
                !.Corrupted = IF Overflows(c, bits) THEN shaNull ELSE shaSuccess]

Store(c, octet) ==
  [c EXCEPT !.Message_Block[c.Message_Block_Index] = octet, !.Message_Block_Index = @ + 1]

Process(c) ==
  [c EXCEPT !.Intermediate_Hash = Append(@, c.Message_Block), !.Message_Block_Index = 0]

InputOctet(c, octet) ==
  IF c.Corrupted # shaSuccess THEN c
  ELSE LET d == AddLength(Store(c, octet), OctetBits)
       IN  IF d.Corrupted = shaSuccess /\ d.Message_Block_Index = BlockSize
           THEN Process(d) ELSE d

Refuse ==
  /\ code' = shaStateError
  /\ context' = [context EXCEPT !.Corrupted = shaStateError]
  /\ message' = [message EXCEPT !.misused = TRUE]
  /\ UNCHANGED digest

\* A call with nothing to add succeeds in any state.
InputNothing == code' = shaSuccess /\ UNCHANGED <<context, digest, message>>

InputTooLate == context.Computed /\ Refuse

InputToCorrupted ==
  /\ ~context.Computed /\ context.Corrupted # shaSuccess
  /\ code' = context.Corrupted
  /\ UNCHANGED <<context, digest, message>>

\* It returns shaSuccess also when the message has just become too long.
Input(piece) ==
  /\ ~context.Computed /\ context.Corrupted = shaSuccess
  /\ Len(message.octets) + Len(piece) <= MaxLength
  /\ context' = FoldLeft(InputOctet, context, piece)
  /\ code' = shaSuccess
  /\ message' = [message EXCEPT !.octets = @ \o piece]
  /\ UNCHANGED digest

-----------------------------------------------------------------------------
MutantNoRoomForLength(c) == c.Message_Block_Index > BlockSize - LengthSize
NoRoomForLength(c) == c.Message_Block_Index >= BlockSize - LengthSize

\* The block with zeros from its index to the place before end.
Zeros(c, end) ==
  [c EXCEPT !.Message_Block =
              [i \in Positions |-> IF i \in c.Message_Block_Index..(end - 1)
                                   THEN 0 ELSE c.Message_Block[i]],
            !.Message_Block_Index = end]

\* The n low octets of x, from the high one on.
BigEndian(x, n) == [i \in 1..n |-> (x \div 2^(OctetBits * (n - i))) % 2^OctetBits]

StoreLength(c) ==
  LET half == LengthSize \div 2
      length == BigEndian(c.Length_High, half) \o BigEndian(c.Length_Low, half)
      first == BlockSize - LengthSize
  IN  [c EXCEPT !.Message_Block =
         [i \in Positions |-> IF i < first THEN c.Message_Block[i]
                              ELSE length[i - first + 1]]]

PadMessage(c, padByte) ==
  LET marked == Store(c, padByte)
      block  == IF NoRoomForLength(c) THEN Process(Zeros(marked, BlockSize)) ELSE marked
  IN  Process(StoreLength(Zeros(block, BlockSize - LengthSize)))

Finalize(c, padByte) ==
  [PadMessage(c, padByte) EXCEPT
     !.Message_Block = [i \in Positions |-> 0],
     !.Length_Low = 0, !.Length_High = 0, !.Computed = TRUE]

\* The highest bits of an octet, and the bit after them.
Masked(octet, bits) ==
  (octet \div 2^(OctetBits - bits)) * 2^(OctetBits - bits)
MarkBit(bits) == 2^(OctetBits - 1 - bits)

FinalBitsRefused(bits) == (context.Computed \/ bits >= OctetBits) /\ Refuse

\* The length is a multiple of an octet's: a part of one more does not overflow.
FinalBits(octet, bits) ==
  /\ ~context.Computed /\ context.Corrupted = shaSuccess /\ bits < OctetBits
  /\ context' = Finalize(AddLength(context, bits), Masked(octet, bits) + MarkBit(bits))
  /\ code' = shaSuccess
  /\ message' = [message EXCEPT !.bits = <<octet, bits>>]
  /\ UNCHANGED digest

Result ==
  /\ code' = context.Corrupted
  /\ IF context.Corrupted # shaSuccess THEN UNCHANGED <<context, digest>>
     ELSE /\ context' = IF context.Computed THEN context
                        ELSE Finalize(context, MarkBit(0))
          /\ digest' = context'.Intermediate_Hash
  /\ UNCHANGED message

Pieces == BoundedSeq(Octets, MaxPiece) \ {<<>>}

Next ==
  \/ Reset \/ InputNothing \/ InputTooLate \/ InputToCorrupted
  \/ \E piece \in Pieces : Input(piece)
  \/ \E bits \in 1..OctetBits :
       FinalBitsRefused(bits) \/ \E octet \in Octets : FinalBits(octet, bits)
  \/ Result

Spec == Init /\ [][Next]_sha256Vars

-----------------------------------------------------------------------------
Bits(m) == OctetBits * Len(m.octets) + (IF m.bits = <<>> THEN 0 ELSE m.bits[2])

(* FIPS 180-2, section 5.1.1: the message, a bit 1, zeros up to the length  *)
(* at the end of a block, cut in blocks.                                   *)
Padded(m) ==
  LET last  == IF m.bits = <<>> THEN MarkBit(0)
               ELSE Masked(m.bits[1], m.bits[2]) + MarkBit(m.bits[2])
      zeros == (-(Len(m.octets) + 1 + LengthSize)) % BlockSize
  IN  Append(m.octets, last) \o [i \in 1..zeros |-> 0]
        \o BigEndian(Bits(m), LengthSize)
BlocksOf(octets) ==
  [b \in 1..(Len(octets) \div BlockSize) |->
     [i \in Positions |-> octets[(b - 1) * BlockSize + i + 1]]]

(* However a message comes in pieces, its digest covers all of its bits    *)
(* and its length, and every message that fits gets its digest: a context  *)
(* is corrupted by a message that is too long, by an input after the       *)
(* result, and by nothing else.                                            *)
DigestOfMessage ==
  message.reset =>
    /\ digest # <<>> => digest = SHA256_H0 \o BlocksOf(Padded(message))
    /\ digest # <<>> => Bits(message) < 2^(2 * Width)
    /\ code # shaSuccess => message.misused \/ Bits(message) >= 2^(2 * Width)
=============================================================================
