------------------------- MODULE MCFunctionDescriptor --------------------------
(* Types that share prefixes of their strings: a scalar and its vectors,    *)
(* pointers that differ in one qualifier or in the place of it, a block and *)
(* its parameters; types that are on the heap twice; user-defined types     *)
(* named like a primitive type, a vector, an atomic type and a block; lists *)
(* of two, of the same and of different lengths.                            *)
EXTENDS FunctionDescriptor

MCHeap == <<Primitive("int"), Vector(1, "2"), Vector(1, "4"), UserDefined("s"), Atomic(1),
            Pointer(1, {}, "__global"), Pointer(1, {"const"}, "__global"),
            Pointer(1, {"const", "restrict"}, "__global"),
            Pointer(7, {}, "__private"), Pointer(6, {"const"}, "__private"),
            Block(<<>>), Block(<<1>>), Block(<<1, 1>>), Primitive("void"), Atomic(4),
            UserDefined("int"), UserDefined("int2"), UserDefined("atomic_s"), UserDefined("void ()*"),
            Atomic(17), Primitive("int"), Pointer(21, {}, "__global")>>
Few == {1, 2, 3, 17, 22}
MCDescriptors ==
    [name : {1}, parameters : BoundedSeq(1..20, 1) \cup BoundedSeq(Few, 2)]
    \cup [name : {2}, parameters : BoundedSeq({1}, 2)]

\* The characters in the order of their codes.
Characters == " ()*,24_abcdefghijklmnopqrstuvwxyz"
Code(c) == CHOOSE i \in 1..Len(Characters) : SubSeq(Characters, i, i) = c
MCSpelling == [w \in Words(MCHeap) |-> [i \in 1..Len(w) |-> Code(SubSeq(w, i, i))]]
===============================================================================
