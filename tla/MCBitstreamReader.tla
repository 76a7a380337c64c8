------------------------- MODULE MCBitstreamReader -------------------------
(* Three abbreviations, one block id besides BLOCKINFO, records that leave   *)
(* the current word and that fill it; two code widths and two BLOCKINFO      *)
(* blocks within reach, so that a width or a selected block id left over     *)
(* from another block is seen.                                               *)
EXTENDS BitstreamReader, TLC

MCBlockIds == {0, 8}
MCCodeWidths == {3, 4}
MCPayloads == {29, 36}
MCStartWords == {1}
Symmetry == Permutations(Abbrevs)
=============================================================================
