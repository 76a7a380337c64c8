------------------------------ MODULE MCRefCount ------------------------------
(* Two handles of the caller, three objects of two slots each: chains      *)
(* of three, shared children, cycles through setParam, and reuse of freed  *)
(* addresses.                                                              *)
EXTENDS RefCount, TLC

CONSTANTS v1, v2, o1, o2, o3, c1, c2, c3

HeapSymmetry == Permutations({v1, v2}) \cup Permutations({o1, o2, o3}) \cup Permutations({c1, c2, c3})
===============================================================================
