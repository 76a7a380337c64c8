------------------------------- MODULE BitCodes -------------------------------
(***************************************************************************)
(* Abbreviations, and the records that fit them: BitCodeAbbrevOp and       *)
(* BitCodeAbbrev of encoder/BitCodes.h, and what the record emitters of    *)
(* encoder/BitstreamWriter.h assert of a record and its abbreviation.       *)
(*                                                                         *)
(* An abbreviation is a sequence of operands [kind, data]; a character is  *)
(* its code.                                                               *)
(***************************************************************************)
EXTENDS Integers, Sequences

FIRST_APPLICATION_ABBREV == 4
DEFINE_ABBREV == 2

Literal(v) == [kind |-> "Literal", data |-> v]
Fixed(w) == [kind |-> "Fixed", data |-> w]
VBR(w) == [kind |-> "VBR", data |-> w]
Array == [kind |-> "Array", data |-> 0]
Char6 == [kind |-> "Char6", data |-> 0]
Blob == [kind |-> "Blob", data |-> 0]

NoBlob == "null"   \* BlobData == 0

\* 1 << n
Pow2[n \in Nat] == IF n = 0 THEN 1 ELSE 2 * Pow2[n - 1]

------------------------------------------------------------------------------
(* Operands.                                                               *)

Lower == 97..122
Upper == 65..90
Digit == 48..57
Dot == 46
Underscore == 95

isChar6(c) == c \in Lower \cup Upper \cup Digit \cup {Dot, Underscore}

EncodeChar6(c) ==
  CASE c \in Lower -> c - 97
    [] c \in Upper -> c - 65 + 26
    [] c \in Digit -> c - 48 + 26 + 26
    [] c = Dot -> 62
    [] c = Underscore -> 63

DecodeChar6(v) ==
  CASE v < 26 -> v + 97
    [] v \in 26..51 -> v - 26 + 65
    [] v \in 52..61 -> v - 26 - 26 + 48
    [] v = 62 -> Dot
    [] v = 63 -> Underscore

\* BitCodeAbbrevOp::Encoding.
Encoding == [Fixed |-> 1, VBR |-> 2, Array |-> 3, Char6 |-> 4, Blob |-> 5]
hasEncodingData(kind) == kind \in {"Fixed", "VBR"}

\* What EmitAbbreviatedField and EmitAbbreviatedLiteral assert of a value; a
\* field of no bits can only stand for zero.
Fits(op, v) ==
  CASE op.kind = "Literal" -> v = op.data
    [] op.kind = "Fixed"   -> v < Pow2[op.data]
    [] op.kind = "VBR"     -> op.data > 0 \/ v = 0
    [] op.kind = "Char6"   -> isChar6(v)

------------------------------------------------------------------------------
(* The assertions of EmitRecordWithAbbrevImpl leave two shapes of           *)
(* abbreviation: scalars only, or scalars and then an Array with its        *)
(* element's operand, or a Blob, which take all that is left.               *)

Scalars(ops) ==
  LET tail == {i \in DOMAIN ops : ops[i].kind \in {"Array", "Blob"}}
  IN IF tail = {} THEN Len(ops) ELSE (CHOOSE i \in tail : TRUE) - 1
HasTail(ops) == Scalars(ops) < Len(ops)
Tail1(ops) == ops[Scalars(ops) + 1].kind

\* What the tail operand takes: the blob if there is one, else what is left.
Rest(ops, vals, blob) ==
  IF blob # NoBlob THEN blob ELSE SubSeq(vals, Scalars(ops) + 1, Len(vals))

\* The assertions of lines 282, 329, 334, 340, 366, 384, 393 and 398-400.
Encodable(ops, vals, blob) ==
  /\ Len(vals) >= Scalars(ops)
  /\ \A i \in 1..Scalars(ops) : Fits(ops[i], vals[i])
  /\ IF HasTail(ops) THEN blob # NoBlob => Len(vals) = Scalars(ops)
     ELSE blob = NoBlob /\ Len(vals) = Scalars(ops)
  /\ HasTail(ops) =>
       \A i \in DOMAIN Rest(ops, vals, blob) :
         IF Tail1(ops) = "Array" THEN Fits(ops[Len(ops)], Rest(ops, vals, blob)[i])
         ELSE Rest(ops, vals, blob)[i] < 256
=============================================================================
