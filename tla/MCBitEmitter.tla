----------------------------- MODULE MCBitEmitter -----------------------------
(* Words of four bits and bytes of two: fields of every length that fits.    *)
EXTENDS BitEmitter

MCFields == UNION {[1..n -> Bit] : n \in 1..3} \cup {<<1, 0, 1, 1>>, <<0, 1, 1, 1>>}
MCLongFields == {<<1, 0, 1, 1, 1>>, <<0, 1, 1, 0, 0, 1, 0, 1>>, <<1, 1, 1, 1, 1, 0, 1>>}
MCBlobs == {<<>>, <<1, 0>>, <<1, 1, 0, 1, 1, 1>>}
=============================================================================
