------------------------------- MODULE SpirRules -------------------------------
(***************************************************************************)
(* What the documents of the verifier ask of a module, stated of it as a   *)
(* whole, with no order of visits and none of the verifier's own tests:    *)
(* the "existing verifications" of TODOList.txt, the explanations that     *)
(* validation/SpirTables.cpp prints (cited below by their lines) and the   *)
(* comments of SpirIterators.h.  Where the verifier is known not to do as  *)
(* they say is stated at the end, each case by a name of its own.          *)
(*                                                                         *)
(* The documents are silent or coarser in places, and the rule there is a  *)
(* reading, the code's:                                                    *)
(*  - types (337-373): metadata and opaque types of other names pass; a    *)
(*    comparison may be a vector of i1; a vector of pointers is a vector;  *)
(*    i1, void and opaque types are not allowed as elements; half stands   *)
(*    behind a pointer when no extension allows it bare;                   *)
(*  - each list of features, extensions and options has exactly one entry  *)
(*    ("one valid entry or none"); a core feature may not be repeated;     *)
(*  - kernel_arg_type ("exists and is valid") only has to exist;           *)
(*  - a name of struct, union or enum, one that mentions void and a        *)
(*    parameter that is or holds an array, a structure or an opaque type   *)
(*    of another name are not mapped; an opaque name maps to a pointer;    *)
(*  - of the users of a local variable only instructions count.            *)
(***************************************************************************)
EXTENDS Integers, FiniteSets, Sequences, SequencesExt, SpirTables

CONSTANT UIntRange

Lists(m, name, s) ==
    name \in DOMAIN m.md /\ Len(m.md[name]) = 1 /\ Contains(m.md[name][1], s)

-----------------------------------------------------------------------------
\* Types

Lengths == g_valid_vector_type_lengths
OpenCLOpaque == g_valid_llvm_image_types \cup g_valid_llvm_opaque_types
OtherOpaque == {"other_t"}
ScalarTypes == {"i8", "i16", "i32", "i64", "half", "float", "double"}

\* A type is fit for SPIR (337-373; cl_doubles and cl_images: 565-576).
Fit(m, t, compares) ==
    \A c \in t :
        LET admits(w) == compares /\ w \in Lengths
            bare == \A k \in 2..Len(c) : admits(c[k]) \/ \E l \in 2..k : c[l] = "*"
        IN  /\ ToSet(Tail(c)) \subseteq {"*", "[]", "{}"} \cup Lengths
            /\ c[1] = "double" => Lists(m, "core", "cl_doubles")
            /\ c[1] = "half" => Contains(Tail(c), "*") \/ Lists(m, "khr", "cl_khr_fp16")
            /\ c[1] \in g_valid_llvm_image_types => Lists(m, "core", "cl_images")
            /\ c[1] \in {"i1", "void", "metadata"} => bare
            /\ c[1] \in OpenCLOpaque \cup OtherOpaque => Len(c) = 1 \/ c[2] = "*"
            /\ c[1] \in ScalarTypes \cup OpenCLOpaque \cup OtherOpaque \cup {"i1", "void", "metadata"}

\* The name of an OpenCL C type (307-335): blanks are ignored, arrays are not looked into.
NameRule(s) ==
    /\ s \notin {NotString, <<>>}
    /\ \/ s[1] \in g_ignored_ocl_types
       \/ Len(s) = 1 /\ s[1] \in g_valid_ocl_opaque_types
       \/ /\ s[1] \in g_valid_ocl_primitives
          /\ LET vector == s[1] \in g_valid_ocl_vector_element_types /\ Len(s) > 1 /\ s[2] \in Lengths
             IN  \A k \in (IF vector THEN 3 ELSE 2)..Len(s) :
                     s[k] \in {"*", " "} \/ \E l \in 2..k : s[l] = "[]"

\* The mapping of the OpenCL C types (505-552).
Scalars ==
    {<<"bool", "i1">>, <<"float", "float">>, <<"double", "double">>, <<"half", "half">>}
    \cup ({"char", "unsigned char", "uchar"} \X {"i8"})
    \cup ({"short", "unsigned short", "ushort"} \X {"i16"})
    \cup ({"int", "unsigned int", "uint"} \X {"i32"})
    \cup ({"long", "unsigned long", "ulong"} \X {"i64"})
SizeTypes == {"size_t", "ptrdiff_t", "uintptr_t", "intptr_t"}

NameFits(s, c, width) ==
    \/ <<s[1], c[1]>> \in Scalars /\ Tail(s) = Tail(c)
    \/ s[1] \in OpenCLOpaque /\ Len(s) = 1 /\ c = <<s[1], "*">>
    \/ s = <<"sampler_t">> /\ c = <<"i32">>
    \/ s[1] \in SizeTypes /\ Len(s) = 1 /\ c = <<IF width = 32 THEN "i32" ELSE "i64">>

NotMapped(s, t) ==
    \/ s[1] \in g_ignored_ocl_types \/ \E k \in DOMAIN s : s[k] = "void"
    \/ t = {} \/ \E c \in t : c[1] \in OtherOpaque \/ \E k \in 2..Len(c) : c[k] \in {"[]", "{}"}

WithoutBlanks(s) == IF Contains(s, " ") THEN SelectSeq(s, LAMBDA w : w # " ") ELSE s

Maps(s, t, width) == NotMapped(s, t) \/ \A c \in t : NameFits(WithoutBlanks(s), c, width)

-----------------------------------------------------------------------------
\* Metadata

TripleRule(m) == m.triple \in {32, 64} /\ m.layout = m.triple

IsKernel(m, f) == f \in DOMAIN m.functions /\ m.functions[f].cc = "SPIR_KERNEL"

\* The nodes of opencl.kernels and the kernels are in one-to-one correspondence.
KernelRule(m) ==
    /\ "kernels" \in DOMAIN m.md
    /\ LET nodes == m.md["kernels"]
       IN  /\ \A k \in DOMAIN nodes : IsKernel(m, nodes[k].fn)
           /\ \A f \in DOMAIN m.functions : IsKernel(m, f) =>
                \E k \in DOMAIN nodes : \A l \in DOMAIN nodes : nodes[l].fn = f <=> l = k

\* All but kernel_arg_name are mandatory (464-466).
MandatoryInfo ==
    {"kernel_arg_addr_space", "kernel_arg_access_qual", "kernel_arg_type",
     "kernel_arg_base_type", "kernel_arg_type_qual"}
HasInfo(N, kind) == \E n \in ToSet(N.infos) : n[1] = kind

\* Entry e about the arguments of F: an address space (390-402) or a type's name, those of
\* the parameter.
SpaceEntry(F, n, e) == n \in 0..3 /\ (e \in DOMAIN F.params => n = F.params[e].as)
NameEntry(F, s, e, width) == NameRule(s) /\ (e \in DOMAIN F.params => Maps(s, F.params[e].ty, width))

ArgInfoRule(m) ==
    \A k \in DOMAIN m.md["kernels"] :
        LET N == m.md["kernels"][k]
            F == m.functions[N.fn]
        IN  /\ \A kind \in MandatoryInfo : HasInfo(N, kind)
            /\ \A n \in ToSet(N.infos) : \A e \in DOMAIN n[2] :
                /\ n[1] = "kernel_arg_addr_space" => SpaceEntry(F, n[2][e], e)
                /\ n[1] = "kernel_arg_base_type" => NameEntry(F, n[2][e], e, m.triple)

\* The one version of each (470-492).
VersionRule(m) == \A name \in {"ocl", "spir"} : name \in DOMAIN m.md /\ m.md[name] = <<<<1, 2>>>>

ListRule(m) ==
    /\ \A name \in {"core", "khr", "options"} : name \in DOMAIN m.md /\ Len(m.md[name]) = 1
    /\ ToSet(m.md["core"][1]) \subseteq g_valid_core_feature
    /\ IsInjective(m.md["core"][1])
    /\ ToSet(m.md["khr"][1]) \subseteq g_valid_khr_ext
    /\ ToSet(m.md["options"][1]) \subseteq g_valid_compiler_options

-----------------------------------------------------------------------------
\* Functions, instructions and global variables

LinkageRule(x) == x.linkage \in {"external", "private", "internal", "available_externally"}

\* A pointer of a kernel is to one of three spaces (404-413), and to no pointer.
KernelParamRule(p) ==
    \A c \in p.ty :
        /\ Last(c) = "*" => p.as \in 1..3
        /\ Len(c) > 2 => SubSeq(c, Len(c) - 1, Len(c)) # <<"*", "*">>

FunctionRule(m, F) ==
    /\ F.decl \/ F.cc \in {"SPIR_KERNEL", "SPIR_FUNC"}
    /\ LinkageRule(F)
    /\ Fit(m, F.ret, FALSE)
    /\ \A p \in ToSet(F.params) : Fit(m, p.ty, FALSE)
    /\ F.cc = "SPIR_KERNEL" => F.ret = {<<"void">>} /\ \A p \in ToSet(F.params) : KernelParamRule(p)

SameSpace(cast) == cast[1] = cast[2]

\* Neither the instruction nor an operand, nor what is inside an operand, casts between
\* spaces.
CastRule(I) ==
    SameSpace(I.cast) /\ \A o \in ToSet(I.operands) : SameSpace(o.cast) /\ \A d \in o.deep : SameSpace(d)

CallRule(m, I) ==
    /\ I.callee # 0
    /\ LET F == m.functions[I.callee]
       IN  /\ F.decl \/ I.cc \in {"SPIR_KERNEL", "SPIR_FUNC"}
           /\ F.builtin = "barrier" => Len(I.args) = 1 /\ I.args[1] \in 1..3      \* 494-503
           /\ F.builtin # "llvm.other"

InstructionRule(m, I) ==
    CastRule(I) /\ (I.op = "call" => CallRule(m, I)) /\ Fit(m, I.ty, I.op = "cmp")

CodeRule(m) ==
    \A F \in ToSet(m.functions) :
        FunctionRule(m, F) /\ \A I \in ToSet(F.body) : InstructionRule(m, I)

\* A variable in the local space is named after the function that alone uses it (415-421).
GlobalRule(G) ==
    /\ LinkageRule(G)
    /\ G.as \in {2, 3}
    /\ G.as = 3 => \E f \in G.owners : ToSet(G.users) \ {0} \subseteq {f}

GlobalsRule(m) == \A G \in ToSet(m.globals) : GlobalRule(G)

IsSpir(m) ==
    /\ TripleRule(m) /\ KernelRule(m) /\ ArgInfoRule(m) /\ VersionRule(m) /\ ListRule(m)
    /\ CodeRule(m) /\ GlobalsRule(m)

-----------------------------------------------------------------------------
\* Where the verifier is known to accept more than that: in the code, in the argument
\* information, in the versions and in the global variables

TypesOf(m) ==
    UNION {{F.ret} \cup {p.ty : p \in ToSet(F.params)} \cup {I.ty : I \in ToSet(F.body)}
            : F \in ToSet(m.functions)}
Leaves(m) == {c[1] : c \in UNION TypesOf(m)}

KernelNodesOf(m) == IF "kernels" \in DOMAIN m.md THEN ToSet(m.md["kernels"]) ELSE {}
EntriesOf(m, kind) ==
    UNION {{n[2][e] : e \in DOMAIN n[2]} :
            n \in {info \in UNION {ToSet(N.infos) : N \in KernelNodesOf(m)} : info[1] = kind}}

Wide(n) == n >= UIntRange

\* isValidType takes every opaque type (337-373, TODOList.txt:38).
ImagesUndeclared(m) ==
    Leaves(m) \cap g_valid_llvm_image_types # {} /\ ~Lists(m, "core", "cl_images")
\* cl_khr_fp16 sets the flag of cl_doubles.
DoublesByHalf(m) ==
    /\ "double" \in Leaves(m)
    /\ Lists(m, "khr", "cl_khr_fp16") /\ ~Lists(m, "core", "cl_doubles")
\* isValidAddrSpaceCast drops what it finds deeper (TODOList.txt:7).
CastsInside(m) ==
    \E F \in ToSet(m.functions) : \E I \in ToSet(F.body) : \E o \in ToSet(I.operands) :
        \E d \in o.deep : ~SameSpace(d)
\* A kernel's pointer to a space beyond the fourth: the private one alone is refused.
FarArguments(m) ==
    \E F \in ToSet(m.functions) : F.cc = "SPIR_KERNEL" /\ \E p \in ToSet(F.params) : p.as > 3
\* A fence is cut to unsigned.
WideFences(m) ==
    \E F \in ToSet(m.functions) : \E I \in ToSet(F.body) : \E n \in ToSet(I.args) : Wide(n)
LenientCode(m) ==
    ImagesUndeclared(m) \/ DoublesByHalf(m) \/ CastsInside(m) \/ FarArguments(m) \/ WideFences(m)

\* Two of the five mandatory kinds are not asked for (464-466).
PartialInfo(m) ==
    \E N \in KernelNodesOf(m) :
        \E kind \in {"kernel_arg_access_qual", "kernel_arg_type_qual"} : ~HasInfo(N, kind)
\* A name that is empty or has none but blanks, stars and brackets at its beginning.
Nameless(s) == s = <<>> \/ s[1] \in {"*", " ", "[]"}
NamelessTypes(m) == \E s \in EntriesOf(m, "kernel_arg_base_type") : Nameless(s)
WideSpaces(m) == \E n \in EntriesOf(m, "kernel_arg_addr_space") : Wide(n)
LenientInfo(m) == PartialInfo(m) \/ NamelessTypes(m) \/ WideSpaces(m)

\* The numbers of a version are cut to unsigned.
WideVersions(m) ==
    \E name \in {"ocl", "spir"} \cap DOMAIN m.md : \E v \in ToSet(m.md[name]) : \E n \in ToSet(v) : Wide(n)

\* A local variable that no instruction uses, or instructions of two functions.
StrayLocals(m) ==
    \E G \in ToSet(m.globals) : G.as = 3 /\ \A f \in G.owners : ToSet(G.users) \ {0} # {f}

\* Where it is known to accept less

\* "unsigned int" and its like are names, and map to the integers.
SpelledOut(m) ==
    \E s \in EntriesOf(m, "kernel_arg_base_type") :
        Len(s) > 0 /\ s[1] \in {"unsigned char", "unsigned short", "unsigned int", "unsigned long"}
\* A blank is passed over in the name and counts in the mapping.
Blanks(m) == \E s \in EntriesOf(m, "kernel_arg_base_type") : Contains(s, " ")
HalvesRefused(m) == "half" \in Leaves(m) /\ Lists(m, "khr", "cl_khr_fp16")

\* A list says something of a parameter that is not there.
LongLists(m) ==
    \E N \in KernelNodesOf(m) : \E n \in ToSet(N.infos) :
        /\ n[1] \in {"kernel_arg_addr_space", "kernel_arg_base_type"}
        /\ Len(n[2]) > Len(m.functions[N.fn].params)

Harsh(m) == SpelledOut(m) \/ HalvesRefused(m) \/ LongLists(m) \/ Blanks(m)
=============================================================================
