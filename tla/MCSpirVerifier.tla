--------------------------- MODULE MCSpirVerifier ---------------------------
(* Modules one edit, or two edits that meet, away from a valid one. *)
EXTENDS SpirReport

-----------------------------------------------------------------------------
Type(c) == {c}
void == Type(<<"void">>)
Param(c, space) == [ty |-> Type(c), as |-> space]
NoInfo == <<<<"kernel_arg_addr_space", <<>>>>, <<"kernel_arg_type", <<>>>>, <<"kernel_arg_base_type", <<>>>>,
            <<"kernel_arg_access_qual", <<>>>>, <<"kernel_arg_type_qual", <<>>>>>>

Ret == [op |-> "other", ty |-> void, cast |-> <<0, 0>>, operands |-> <<>>, callee |-> 0,
        cc |-> "C", args |-> <<>>]
Call(f, args) == [Ret EXCEPT !.op = "call", !.callee = f, !.cc = "SPIR_FUNC", !.args = args]

Kernel(n) == [name |-> n, cc |-> "SPIR_KERNEL", decl |-> FALSE, params |-> <<>>, beyond |-> Param(<<"i32">>, 0), ret |-> void,
              linkage |-> "external", builtin |-> "none", body |-> <<Ret>>]
Barrier == [Kernel("_Z7barrierj") EXCEPT !.cc = "SPIR_FUNC", !.decl = TRUE,
              !.params = <<Param(<<"i32">>, 0)>>, !.builtin = "barrier", !.body = <<>>]
Node(f) == [fn |-> f, infos |-> NoInfo]

Base == [triple |-> 32, layout |-> 32,
         md |-> [kernels |-> <<Node(1)>>, ocl |-> <<<<1, 2>>>>, spir |-> <<<<1, 2>>>>,
                 core |-> <<<<>>>>, khr |-> <<<<>>>>, options |-> <<<<"-w">>>>],
         functions |-> <<Kernel("k"), Barrier>>,
         globals |-> <<>>]

Body(I) == [Base EXCEPT !.functions[1].body = <<I>>]
Without(name) == [Base EXCEPT !.md = [n \in DOMAIN Base.md \ {name} |-> Base.md[n]]]
UpTo(n, S) == UNION {[1..k -> S] : k \in 0..n}

-----------------------------------------------------------------------------
WithoutMetadata == {Without(name) : name \in DOMAIN Base.md}

Versions ==
    {[Base EXCEPT !.md.ocl = v] : v \in {<<>>, <<<<1, 2>>, <<1, 2>>>>} \cup {<<w>> : w \in UpTo(3, {-1, 1, 2, 10})}}
    \cup {[Base EXCEPT !.md.spir = <<w>>] : w \in {<<1, 0>>, <<2, 1>>, <<9, 2>>}}

\* Two kernels and a function, and every list of up to three kernel nodes.
KernelLists ==
    LET ThreeFunctions == <<Kernel("k"), Kernel("l"), [Kernel("f") EXCEPT !.cc = "SPIR_FUNC"]>>
        Named == {Node(f) : f \in 0..3} \cup {[Node(1) EXCEPT !.infos = Append(NoInfo, <<"kernel_arg_name", <<>>>>)]}
    IN  {[Base EXCEPT !.functions = ThreeFunctions, !.md.kernels = nodes] : nodes \in UpTo(3, Named)}
        \cup {[Base EXCEPT !.functions = <<Barrier>>, !.md.kernels = nodes]
                : nodes \in {<<>>, <<Node(1)>>}}

ArgKernel(p, infos) ==
    [Base EXCEPT !.functions[1].params = <<p>>, !.md.kernels = <<[fn |-> 1, infos |-> infos]>>]
ArgSpaces ==
    {ArgKernel(Param(<<"float", "*">>, space), [NoInfo EXCEPT ![1] = <<"kernel_arg_addr_space", entries>>])
        : space \in 0..4, entries \in UpTo(1, {-1, 0, 1, 3, 4, 9})}
OCLNames == {NotString, <<>>, <<"*">>, <<" ", "*">>, <<"[]">>, <<"int", " ", "*">>, <<"float", " ", "4">>, <<"void", " ", "*">>, <<"int">>, <<"uint", "*">>, <<"unsigned int">>, <<"float", "4">>, <<"float", "5">>,
             <<"float", "[]">>, <<"float", "*", "junk">>, <<"size_t">>, <<"size_t", "*">>, <<"sampler_t">>, <<"image2d_t">>, <<"bool", "2">>,
             <<"struct", "S">>, <<"void", "*">>, <<"junk">>, <<"junk", "[]">>,
             <<"ulong">>, <<"unsigned char", "2">>, <<"ptrdiff_t">>, <<"image1d_buffer_t">>, <<"union", "*">>}
ArgTypes ==
    {[ArgKernel(p, [NoInfo EXCEPT ![3] = <<"kernel_arg_base_type", <<name>>>>]) EXCEPT !.triple = w, !.layout = w]
        : p \in {Param(<<"i32">>, 0), Param(<<"i64">>, 0), Param(<<"i32", "*">>, 1),
                 Param(<<"float", "4">>, 0), Param(<<"image2d_t", "*">>, 1), Param(<<"float", "{}", "*">>, 1),
                 Param(<<"i8", "2">>, 0), Param(<<"i1">>, 0), Param(<<"metadata">>, 0), Param(<<"void", "*">>, 1),
                 [ty |-> {}, as |-> 0]},
          name \in OCLNames, w \in {32, 64}}
InfoLists ==
    {ArgKernel(Param(<<"i32">>, 0), infos) :
        infos \in UpTo(2, {<<"kernel_arg_type", <<>>>>, <<"kernel_arg_name", <<"a">>>>, <<"kernel_arg_base_type", <<<<"int">>>>>>})
                  \cup {Append(SelectSeq(NoInfo, LAMBDA n : n[1] \in kinds), <<"kernel_arg_name", <<"a">>>>)
                          : kinds \in SUBSET {NoInfo[k][1] : k \in 1..5}}}

\* Lists of one entry more than the kernel has parameters, over memory of three kinds.
LongLists ==
    {[[ArgKernel(p, [NoInfo EXCEPT ![k] = <<NoInfo[k][1], <<own[k], extra[k]>>>>]) EXCEPT !.functions[1].beyond = b]
        EXCEPT !.functions[1].linkage = l]
        : p \in {Param(<<"i32">>, 0)}, k \in {1, 3}, own \in {<<0, "", <<"int">>>>},
          extra \in {<<n, "", s>> : n \in {-1, 0, 1, 9}, s \in {NotString, <<"int">>, <<"float">>, <<"junk">>}},
          b \in {Param(<<"i32">>, 0), Param(<<"float", "*">>, 1), [ty |-> {}, as |-> 0]},
          l \in {"external", "weak"}}

Triples == {[Base EXCEPT !.triple = t, !.layout = l] : t, l \in {0, 32, 64}}

\* What the metadata declares, against what the code uses.
Features ==
    {[Base EXCEPT !.md.core = <<core>>, !.md.khr = <<khr>>, !.functions[1].body = <<[Ret EXCEPT !.ty = Type(c)]>>]
        : core \in UpTo(2, {"cl_doubles", "cl_images", "junk"}),
          khr \in UpTo(2, {"cl_khr_fp16", "cl_khr_gl_sharing", "junk"}),
          c \in {<<"double">>, <<"half">>, <<"half", "*">>, <<"image2d_t", "*">>, <<"i32">>}}
    \cup {[Base EXCEPT !.md.core = c, !.md.khr = k]
            : c, k \in {<<>>, <<<<>>, <<>>>>, <<<<"cl_doubles">>, <<>>>>}}
Options == {[Base EXCEPT !.md.options = o] : o \in {<<>>, <<<<>>, <<>>>>, <<<<"-w", "-w">>>>, <<<<"junk", "-w", "junk">>>>}}

Chains == {<<leaf>> \o around : leaf \in {"i1", "i8", "i37", "half", "double", "void", "metadata", "event_t", "other_t"},
                                around \in UpTo(2, {"*", "[]", "4", "5"})}
InstructionTypes ==
    {Body([Ret EXCEPT !.op = op, !.ty = Type(c)]) : op \in {"cmp", "other"}, c \in Chains}
    \cup {Body([Ret EXCEPT !.ty = {<<"float", "{}">>, c \o <<"{}">>}]) : c \in {<<"i1">>, <<"half", "*">>, <<"i8", "[]">>}}

Prototypes ==
    {[Base EXCEPT !.functions[1].params = <<p, p>>, !.functions[1].ret = Type(r), !.functions[1].decl = d,
                  !.functions[1].cc = cc, !.functions[1].linkage = l, !.md.kernels = IF cc = "SPIR_KERNEL" THEN <<Node(1)>> ELSE <<>>]
        : p \in {Param(<<"i32">>, 0), Param(<<"i32", "*">>, 0), Param(<<"i32", "*", "*">>, 1), Param(<<"half">>, 0)},
          r \in {<<"void">>, <<"i32">>, <<"half">>}, d \in BOOLEAN,
          cc \in {"SPIR_KERNEL", "SPIR_FUNC", "C"}, l \in {"external", "weak"}}

Casts == {[cast |-> c, deep |-> d] : c \in {<<0, 0>>, <<0, 1>>}, d \in {{}, {<<1, 2>>}}}
Instructions ==
    {Body([Ret EXCEPT !.op = "bitcast", !.cast = c, !.operands = o]) : c \in {<<1, 1>>, <<2, 1>>}, o \in UpTo(2, Casts)}
Calls ==
    {[Body([Call(f, a) EXCEPT !.cc = cc]) EXCEPT !.functions[2].builtin = b, !.functions[2].decl = d]
        : f \in 0..2, a \in UpTo(2, {-1, 0, 1, 4, 11}), cc \in {"C", "SPIR_FUNC"},
          b \in {"none", "barrier", "llvm.other"}, d \in BOOLEAN}

Globals ==
    {[Base EXCEPT !.globals = <<[linkage |-> l, as |-> space, users |-> u, owners |-> o], [linkage |-> "internal", as |-> 2, users |-> <<>>, owners |-> {}]>>]
        : l \in {"private", "common"}, space \in 0..4, u \in UpTo(2, 0..2), o \in SUBSET {1, 2}}

MCModules ==
    WithoutMetadata \cup Versions \cup KernelLists \cup ArgSpaces \cup ArgTypes \cup InfoLists \cup LongLists \cup Triples
    \cup Features \cup Options \cup InstructionTypes \cup Prototypes \cup Instructions \cup Calls \cup Globals
=============================================================================
