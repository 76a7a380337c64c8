------------------------------- MODULE BitStream -------------------------------
(***************************************************************************)
(* What the primitives of BitstreamWriter promise their callers: a stream  *)
(* is a sequence of bits, and each primitive appends its own bits to it.   *)
(* Words, the pending word and carries across them do not show.            *)
(***************************************************************************)
EXTENDS Integers, Sequences

CONSTANTS
  W,           \* bits of a word
  Fields,      \* bit sequences a caller emits as one field, low bit first
  LongFields,  \* those it emits with Emit64
  Blobs        \* contents of blobs

VARIABLE bits

Bit == {0, 1}
Zeros(k) == [i \in 1..k |-> 0]
Aligned(n) == \E q \in 0..n : n = q * W

\* What brings a stream of n bits to a word boundary.
Padding(n) == {Zeros(k) : k \in {j \in 0..W-1 : Aligned(n + j)}}

Put(v) == bits' = bits \o v

Flush == \E z \in Padding(Len(bits)) : bits' = bits \o z

\* A blob starts and ends on a word boundary.
PutBlob(b) ==
  \E z \in Padding(Len(bits)) :
    \E y \in Padding(Len(bits \o z \o b)) : bits' = bits \o z \o b \o y

Init == bits = <<>>

Next ==
  \/ \E v \in Fields \cup LongFields : Put(v)
  \/ Flush
  \/ \E b \in Blobs : PutBlob(b)

Spec == Init /\ [][Next]_bits
=============================================================================
