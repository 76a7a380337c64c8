------------------------------ MODULE BitEmitter ------------------------------
(***************************************************************************)
(* The primitives of BitstreamWriter that put bits in the buffer: Emit,    *)
(* Emit64, FlushToWord, WriteWord and WriteByte (encoder/BitstreamWriter.h *)
(* lines 63-155, and the blob operand of lines 373-391).                   *)
(*                                                                         *)
(* A word is a function from bit numbers to bits; the buffer Out is the    *)
(* sequence of the bits of its bytes, low bit first, which is the order a  *)
(* reader takes them in.  A value to emit is the sequence of its NumBits   *)
(* bits: that no higher bit is set is what Emit asserts (line 123).        *)
(***************************************************************************)
EXTENDS Integers, Sequences

CONSTANTS
  W,           \* bits of a word (32)
  ByteBits,    \* bits of a byte (8)
  Fields,      \* values for Emit
  LongFields,  \* values of more than W bits for Emit64
  Blobs,       \* contents of blobs
  MaxBits      \* bound: length of the stream

Bit == {0, 1}

ASSUME WordAssumption == W \in Nat \ {0} /\ ByteBits \in Nat \ {0}
ASSUME FieldsAssumption ==
  /\ \A v \in Fields : v \in Seq(Bit) /\ Len(v) \in 1..W
  /\ \A v \in LongFields : v \in Seq(Bit) /\ Len(v) \in W+1..2*W
ASSUME BlobsAssumption ==
  \A b \in Blobs : b \in Seq(Bit) /\ \E n \in 0..Len(b) : Len(b) = n * ByteBits

VARIABLES Out, CurBit, CurValue
emitterVars == <<Out, CurBit, CurValue>>

------------------------------------------------------------------------------

Word == [0..W-1 -> Bit]
ZeroWord == [j \in 0..W-1 |-> 0]

\* Val << by and Val >> by, in W bits.
Shl(v, by) ==
  [j \in 0..W-1 |-> IF by =< j /\ j - by < Len(v) THEN v[j - by + 1] ELSE 0]
Shr(v, by) == [j \in 0..W-1 |-> IF j + by < Len(v) THEN v[j + by + 1] ELSE 0]
Or(a, b) == [j \in 0..W-1 |-> IF a[j] = 1 \/ b[j] = 1 THEN 1 ELSE 0]

\* WriteWord: the word's bytes, low byte first.
WordBitsOf(w) == [i \in 1..W |-> w[i - 1]]
WriteWord(out, w) == out \o WordBitsOf(w)

\* The part of a value that does not fit in the word just written.
Carry_Lost(v, bit) == ZeroWord          \* fault: CurValue = 0 on both branches
Carry(v, bit) == IF bit = 0 THEN ZeroWord ELSE Shr(v, W - bit)

\* Emit's comparison: the pending word is not full yet.
Pending_Full(bit, n) == bit + n =< W  \* fault: =< for <
Pending(bit, n) == bit + n < W

Emitted(e, v) ==
  LET merged == Or(e.value, Shl(v, e.bit))
      n == Len(v)
  IN IF Pending(e.bit, n)
     THEN [e EXCEPT !.value = merged, !.bit = e.bit + n]
     ELSE [out |-> WriteWord(e.out, merged),
           bit |-> (e.bit + n) % W,
           value |-> Carry(v, e.bit)]

Flushed(e) ==
  IF e.bit = 0 THEN e
  ELSE [out |-> WriteWord(e.out, e.value), bit |-> 0, value |-> ZeroWord]

Low(v) == SubSeq(v, 1, W)
High(v) == SubSeq(v, W + 1, Len(v))

Emitter == [out |-> Out, bit |-> CurBit, value |-> CurValue]
Becomes(e) == Out' = e.out /\ CurBit' = e.bit /\ CurValue' = e.value
EmitterRoom == Len(Out) + CurBit < MaxBits

------------------------------------------------------------------------------

Emit(v) == EmitterRoom /\ Becomes(Emitted(Emitter, v))

Emit64(v) == EmitterRoom /\ Becomes(Emitted(Emitted(Emitter, Low(v)), High(v)))

FlushToWord == Becomes(Flushed(Emitter))

\* Zero bytes up to a word boundary (lines 389-391).
Aligned(n) == \E q \in 0..n : n = q * W
Zeros(k) == [i \in 1..k |-> 0]
AlignEnd(out) == out \o Zeros((W - (Len(out) % W)) % W)

\* The blob operand of a record: bytes written past the pending word.
EmitBlob(b) ==
  /\ EmitterRoom
  /\ LET e == Flushed(Emitter)
     IN Becomes([e EXCEPT !.out = AlignEnd(e.out \o b)])

EmitterInit == Out = <<>> /\ CurBit = 0 /\ CurValue = ZeroWord

EmitterNext ==
  \/ \E v \in Fields : Emit(v)
  \/ \E v \in LongFields : Emit64(v)
  \/ FlushToWord
  \/ \E b \in Blobs : EmitBlob(b)

EmitterSpec == EmitterInit /\ [][EmitterNext]_emitterVars

------------------------------------------------------------------------------

Stream(e) == e.out \o [i \in 1..e.bit |-> e.value[i - 1]]

\* The pending word holds nothing above CurBit: Emit ORs the next value into it.
\* The buffer holds whole words: GetWordIndex asserts it (line 91) and block
\* sizes are counted in words.
EmitterTypeOK ==
  /\ Out \in Seq(Bit) /\ Aligned(Len(Out))
  /\ CurBit \in 0..W-1
  /\ CurValue \in Word
  /\ \A j \in CurBit..W-1 : CurValue[j] = 0

\* Every value reaches the stream whole and in its place, however it straddles
\* words, and nothing else does except the zeros of FlushToWord and of blobs.
BS == INSTANCE BitStream WITH bits <- Stream(Emitter)
Implements == BS!Spec
=============================================================================
