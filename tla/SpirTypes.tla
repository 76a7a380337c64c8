------------------------------- MODULE SpirTypes -------------------------------
(***************************************************************************)
(* The types the verifier looks at, and its tests on them.  An LLVM type   *)
(* is the set of its leaves, each with the constructors around it, the     *)
(* innermost first: i32 addrspace(1)* is {<<"i32", "*">>}, and a structure *)
(* of a float and an array of half is {<<"float", "{}">>,                  *)
(* <<"half", "[]", "{}">>}.  isValidType asks the same of every element of *)
(* a structure, so it is a conjunction over that set.  An OpenCL C type    *)
(* name of the metadata is its text cut into words, a blank being a word:  *)
(* uint4* is <<"uint", "4", "*">>, int * is <<"int", " ", "*">> and the    *)
(* empty text <<>>.                                                        *)
(***************************************************************************)
EXTENDS Naturals, Sequences, SequencesExt, SpirTables

VectorElementsNum == {"2", "3", "4", "8", "16"}
Wrappers == {"*", "[]", "{}"}
isValidOCLOpaqueType == g_valid_llvm_opaque_types \cup g_valid_llvm_image_types   \* of no DataHolder
OtherOpaque == {"other_t"}
AnyOpaque == isValidOCLOpaqueType \cup OtherOpaque
VectorElements == {"float", "i8", "i16", "i32", "i64"}

isValidVectorElementType(x, D, isPointer) ==
    \/ x = "double" /\ D.HasDoubleFeature
    \/ x = "half" /\ (D.HASFp16Extension \/ isPointer)
    \/ x \in VectorElements

\* A metadata operand is ignored, that is, accepted.
isValidPrimitiveType(x, D, isPointer) ==
    isValidVectorElementType(x, D, isPointer) \/ x \in {"i1", "void", "metadata"}

Inside_KeepsBool(w, flags) ==      \* fault: an array lets a bool through
    CASE w = "*" -> [flags EXCEPT !.bool = TRUE, !.opaque = TRUE, !.pointer = TRUE]
      [] w \in VectorElementsNum -> [flags EXCEPT !.opaque = FALSE]
      [] OTHER -> [flags EXCEPT !.opaque = FALSE]

\* The flags isValidType passes down to the type inside the constructor w.
Inside(w, flags) ==
    CASE w = "*" -> [flags EXCEPT !.bool = TRUE, !.opaque = TRUE, !.pointer = TRUE]
      [] w \in VectorElementsNum -> [flags EXCEPT !.bool = @ /\ flags.boolVec, !.opaque = FALSE]
      [] OTHER -> [flags EXCEPT !.bool = FALSE, !.opaque = FALSE]

\* The flags at each depth of the descent from c's outermost constructor.
FlagsAt(c, boolVec) ==
    LET flags[k \in 0..(Len(c) - 1)] ==
          IF k = 0 THEN [bool |-> TRUE, opaque |-> TRUE, boolVec |-> boolVec, pointer |-> FALSE]
          ELSE Inside(c[Len(c) + 1 - k], flags[k - 1])
    IN  flags

isValidLeaf(c, D, boolVec) ==
    LET flags == FlagsAt(c, boolVec)[Len(c) - 1]
    IN  /\ \A k \in 2..Len(c) : c[k] \in Wrappers \cup VectorElementsNum
        /\ IF c[1] \in AnyOpaque THEN flags.opaque   \* known or not: HasImageFeature decides nothing
           ELSE \/ flags.bool /\ isValidPrimitiveType(c[1], D, flags.pointer)
                \/ isValidVectorElementType(c[1], D, flags.pointer)

isValidType(t, D, boolVec) == \A c \in t : isValidLeaf(c, D, boolVec)

-----------------------------------------------------------------------------
First(s) == IF s = <<>> THEN "" ELSE s[1]

\* What is left once a known word at the front and its vector length are cut off.
Remainder(s) ==
    IF First(s) \in g_valid_ocl_vector_element_types /\ Len(s) > 1 /\ s[2] \in g_valid_vector_type_lengths
    THEN SubSeq(s, 3, Len(s))
    ELSE IF First(s) \in g_valid_ocl_primitives THEN Tail(s) ELSE s

\* Blanks are skipped, and nothing after a bracket is looked at: the empty text is valid.
isValidTypeName(s) ==
    \/ First(s) \in g_ignored_ocl_types
    \/ Len(s) = 1 /\ s[1] \in g_valid_ocl_opaque_types
    \/ \A k \in DOMAIN Remainder(s) :
           Remainder(s)[k] \in {"*", " "} \/ \E l \in 1..k : Remainder(s)[l] = "[]"

\* A scalar or opaque type's name: i1 is bool, the integers are named by their size.
LLVMToOCL ==
    [x \in {"float", "double", "half", "i1", "i8", "i16", "i32", "i64"} \cup isValidOCLOpaqueType |->
        CASE x = "i1" -> "bool" [] x = "i8" -> "char" [] x = "i16" -> "short"
          [] x = "i32" -> "int" [] x = "i64" -> "long" [] OTHER -> x]

\* The cases in which MapLLVMToOCL sets Ignore.
IgnoresType(t) ==
    t = {} \/ \E c \in t : c[1] \in OtherOpaque \/ \E k \in 2..Len(c) : c[k] \in {"[]", "{}"}

\* A type without a name of its own is the empty text.
MapLLVMToOCL(c) == (IF c[1] \in DOMAIN LLVMToOCL THEN <<LLVMToOCL[c[1]]>> ELSE <<>>) \o Tail(c)

Unsigned == [uchar |-> "char", ushort |-> "short", uint |-> "int", ulong |-> "long"]
\* Cutting "unsigned" off leaves the blank behind it.
SpelledOut ==
    [w \in {"unsigned char", "unsigned short", "unsigned int", "unsigned long"} |->
        CASE w = "unsigned char" -> "char" [] w = "unsigned short" -> "short"
          [] w = "unsigned int" -> "int" [] w = "unsigned long" -> "long"]

PointerSized == {"size_t", "ptrdiff_t", "uintptr_t", "intptr_t"}

\* StrName of isValidMapOCLToLLVM.
SignedName(s, is32) ==
    IF s = <<"sampler_t">> THEN <<"int">>
    ELSE IF Len(s) = 1 /\ First(s) \in PointerSized THEN IF is32 THEN <<"int">> ELSE <<"long">>
    ELSE IF Len(s) = 1 /\ First(s) \in g_valid_ocl_opaque_types THEN Append(s, "*")
    ELSE IF First(s) \in DOMAIN SpelledOut THEN <<" ">> \o [s EXCEPT ![1] = SpelledOut[First(s)]]
    ELSE IF First(s) \in DOMAIN Unsigned THEN <<Unsigned[First(s)]>> \o Tail(s)
    ELSE s

\* The text is compared with its blanks.
isValidMapOCLToLLVM(s, t, is32) ==
    \/ First(s) \in g_ignored_ocl_types
    \/ IgnoresType(t)
    \/ \E k \in DOMAIN s : s[k] = "void"
    \/ \A c \in t : SignedName(s, is32) = MapLLVMToOCL(c)
=============================================================================
