----------------------------- MODULE AbbrevRecords -----------------------------
(***************************************************************************)
(* How records and abbreviations become bits: EncodeAbbrev, EmitRecord and *)
(* EmitRecordWithAbbrevImpl (encoder/BitstreamWriter.h lines 157-190 and   *)
(* 277-497); abbreviations are those of BitCodes.                           *)
(*                                                                         *)
(* The stream is the sequence of bits module BitEmitter implements.  The   *)
(* state is one block in the making: its stream, the abbreviations it      *)
(* defined (CurAbbrevs), and, as history, what the caller meant to write.  *)
(***************************************************************************)
EXTENDS BitCodes, SequencesExt

CONSTANTS
  CurCodeSize,   \* width of the codes of the block
  Abbreviations, \* what a caller may define
  Records,       \* [vals, blob] a caller may write with one of them
  Plain,         \* [code, vals] it may write without
  MaxItems       \* bound: definitions and records written

\* An abbreviation is of one of the shapes the assertions of EmitRecordWithAbbrevImpl
\* leave; the elements of an Array are no literals.  A VBR operand has 0 bits or more than one: EmitVBR does not end with chunks of
\* nothing but the high bit.
IsScalar(op) ==
  \/ op = Char6
  \/ op.data \in Nat /\ op \in {Literal(op.data), Fixed(op.data)}
  \/ op.data \in Nat \ {1} /\ op = VBR(op.data)
Operand == [kind : {"Literal", "Fixed", "VBR", "Array", "Char6", "Blob"}, data : Nat]
IsAbbreviation(ops) ==
  /\ ops \in Seq(Operand)
  /\ \E n \in 0..Len(ops) :
       /\ \A i \in 1..n : IsScalar(ops[i])
       /\ \/ n = Len(ops)
          \/ n = Len(ops) - 1 /\ ops[n + 1] = Blob
          \/ /\ n = Len(ops) - 2 /\ ops[n + 1] = Array
             /\ IsScalar(ops[n + 2]) /\ ops[n + 2].kind # "Literal"

ASSUME CodeSizeAssumption == CurCodeSize \in Nat /\ CurCodeSize >= 2
ASSUME AbbreviationsAssumption == \A ops \in Abbreviations : IsAbbreviation(ops)
ASSUME RecordsAssumption ==
  /\ \A r \in Records : r.vals \in Seq(Nat) /\ (r.blob = NoBlob \/ r.blob \in Seq(Nat))
  /\ \A r \in Plain : r.code \in Nat /\ r.vals \in Seq(Nat)
ASSUME MaxAssumption == MaxItems \in Nat

VARIABLES stream, CurAbbrevs, meant
vars == <<stream, CurAbbrevs, meant>>

------------------------------------------------------------------------------
(* Bits of numbers, low bit first.                                         *)

WordBits == 32
Bits_Unmasked(v, n) == [i \in 1..n |-> v \div Pow2[i - 1]]  \* fault: no & 1
Bits(v, n) == [i \in 1..n |-> (v \div Pow2[i - 1]) % 2]

\* Chunks of n bits, the high one set on all but the last.
Continues_AtLimit(v, n) == v > Pow2[n - 1]   \* fault: > for >=
Continues(v, n) == v >= Pow2[n - 1]
EmitVBR(v, n) ==
  LET chunk == Pow2[n - 1]
      Emitted[x \in Nat] ==
        IF Continues(x, n) THEN Bits((x % chunk) + chunk, n) \o Emitted[x \div chunk]
        ELSE Bits(x, n)
  IN Emitted[v]

Zeros(k) == [i \in 1..k |-> 0]
FlushToWord(s) == s \o Zeros((WordBits - (Len(s) % WordBits)) % WordBits)

------------------------------------------------------------------------------
(* Operands.                                                               *)

EmitField(op, v) ==
  CASE op.kind = "Literal" -> <<>>
    [] op.kind = "Fixed"   -> Bits(v, op.data)
    [] op.kind = "VBR"     -> IF op.data = 0 THEN <<>> ELSE EmitVBR(v, op.data)
    [] op.kind = "Char6"   -> Bits(EncodeChar6(v), 6)

EmitOp(op) ==
  IF op.kind = "Literal" THEN Bits(1, 1) \o EmitVBR(op.data, 8)
  ELSE Bits(0, 1) \o Bits(Encoding[op.kind], 3)
         \o (IF hasEncodingData(op.kind) THEN EmitVBR(op.data, 5) ELSE <<>>)

EncodeAbbrev(ops) ==
  EmitVBR(Len(ops), 5) \o FlattenSeq([i \in 1..Len(ops) |-> EmitOp(ops[i])])

------------------------------------------------------------------------------
(* Records.                                                                *)

EmitArray(elt, vs) ==
  EmitVBR(Len(vs), 6) \o FlattenSeq([i \in 1..Len(vs) |-> EmitField(elt, vs[i])])

\* Count, alignment, bytes, alignment.
EmitBlob(s, vs) ==
  LET bytes == FlattenSeq([i \in 1..Len(vs) |-> Bits(vs[i], 8)])
  IN FlushToWord(FlushToWord(s \o EmitVBR(Len(vs), 6)) \o bytes)

WithAbbrev(s, id, ops, vals, blob) ==
  LET head == s \o Bits(id, CurCodeSize)
                \o FlattenSeq([i \in 1..Scalars(ops) |-> EmitField(ops[i], vals[i])])
  IN IF ~HasTail(ops) THEN head
     ELSE IF Tail1(ops) = "Array"
          THEN head \o EmitArray(ops[Len(ops)], Rest(ops, vals, blob))
          ELSE EmitBlob(head, Rest(ops, vals, blob))

Unabbreviated(code, vals) ==
  Bits(3, CurCodeSize) \o EmitVBR(code, 6) \o EmitVBR(Len(vals), 6)
    \o FlattenSeq([i \in 1..Len(vals) |-> EmitVBR(vals[i], 6)])

------------------------------------------------------------------------------

EmitAbbrev(ops) ==
  /\ Len(meant) < MaxItems
  /\ stream' = stream \o Bits(DEFINE_ABBREV, CurCodeSize) \o EncodeAbbrev(ops)
  /\ CurAbbrevs' = Append(CurAbbrevs, ops)
  /\ meant' = Append(meant, [define |-> ops])

\* EmitRecord without an abbreviation.
EmitRecord(code, vals) ==
  /\ Len(meant) < MaxItems
  /\ stream' = stream \o Unabbreviated(code, vals)
  /\ meant' = Append(meant, [record |-> <<code>> \o vals])
  /\ UNCHANGED CurAbbrevs

\* EmitRecordWithAbbrev, EmitRecordWithBlob and EmitRecordWithArray: the code is
\* the first of vals.
EmitRecordWithAbbrev(i, vals, blob) ==
  /\ Len(meant) < MaxItems
  /\ i - 1 + FIRST_APPLICATION_ABBREV < Pow2[CurCodeSize]
  /\ Encodable(CurAbbrevs[i], vals, blob)
  /\ stream' = WithAbbrev(stream, i - 1 + FIRST_APPLICATION_ABBREV, CurAbbrevs[i],
                          vals, blob)
  /\ meant' = Append(meant, [record |-> IF blob = NoBlob THEN vals ELSE vals \o blob])
  /\ UNCHANGED CurAbbrevs

Init == stream = <<>> /\ CurAbbrevs = <<>> /\ meant = <<>>

Next ==
  \/ \E ops \in Abbreviations : EmitAbbrev(ops)
  \/ \E r \in Plain : EmitRecord(r.code, r.vals)
  \/ \E i \in DOMAIN CurAbbrevs, r \in Records :
       EmitRecordWithAbbrev(i, r.vals, r.blob)

Spec == Init /\ [][Next]_vars
=============================================================================
