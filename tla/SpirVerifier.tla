----------------------------- MODULE SpirVerifier -----------------------------
(***************************************************************************)
(* One run of the SPIR verifier: SpirValidation::runOnModule applies its   *)
(* executors to a module in a fixed order, the executors share a           *)
(* DataHolder, some write it and later ones read it, and each adds to the  *)
(* errors; the driver then gives the verdict.  An action is one call of an *)
(* executor; VerifyMetadataKernels, which carries FoundMap from node to    *)
(* node, is one action for its head and one for each node.  EL is here the *)
(* set of the errors; SpirReport makes the report of them.                 *)
(*                                                                         *)
(* A module M is a record:                                                 *)
(*   triple, layout   32, 64, or 0 for anything else                       *)
(*   md               its named metadata, by name, each a list of nodes    *)
(*   functions        name, cc, decl, params, what lies beyond them in     *)
(*                    memory, ret, linkage, builtin, body                  *)
(*   globals          linkage, as, users (the functions whose instructions *)
(*                    use it), owners (the functions whose name and a dot  *)
(*                    its own name begins with)                            *)
(* Functions are known by their place in the list, 0 being none of them.   *)
(* An integer constant of the metadata is a natural, anything that is not  *)
(* a constant is NotConst, and getZExtValue cast to unsigned keeps the     *)
(* value modulo UIntRange (2^32 in the code).                              *)
(***************************************************************************)
EXTENDS Integers, FiniteSets, SpirTypes

CONSTANTS
    Modules,    \* the modules to verify
    UIntRange   \* values of unsigned int

IsSeq(s) == s \in Seq(ToSet(s))
Numbers == Nat \cup {NotConst}

\* A leaf of a type has the leaf itself; what is about a node of named metadata is a list.
TypeShape(t) == \A c \in t : IsSeq(c) /\ c # <<>>
InfoShape(node) ==
    /\ IsSeq(node[2])
    /\ node[1] = "kernel_arg_addr_space" => ToSet(node[2]) \subseteq Numbers
    /\ node[1] = "kernel_arg_base_type" => \A s \in ToSet(node[2]) : IsSeq(s)
FunctionShape(F) ==
    /\ IsSeq(F.params) /\ IsSeq(F.body) /\ TypeShape(F.ret)
    /\ \A p \in ToSet(F.params) : TypeShape(p.ty) /\ p.as \in Nat
    /\ \A I \in ToSet(F.body) : TypeShape(I.ty) /\ IsSeq(I.args) /\ ToSet(I.args) \subseteq Numbers
MetadataShape(m) ==
    /\ \A name \in DOMAIN m.md : IsSeq(m.md[name])
    /\ \A name \in DOMAIN m.md \ {"kernels"} : \A node \in ToSet(m.md[name]) : IsSeq(node)
    /\ \A name \in DOMAIN m.md \cap {"ocl", "spir"} : \A node \in ToSet(m.md[name]) : ToSet(node) \subseteq Numbers
    /\ "kernels" \in DOMAIN m.md =>
         \A N \in ToSet(m.md["kernels"]) :
             N.fn \in 0..Len(m.functions) /\ IsSeq(N.infos) /\ \A node \in ToSet(N.infos) : InfoShape(node)

ASSUME WidthAssumption == UIntRange \in Nat /\ UIntRange > 4
ASSUME ModulesAssumption ==
    \A m \in Modules :
        /\ m.triple \in {0, 32, 64} /\ m.layout \in {0, 32, 64}
        /\ MetadataShape(m)
        /\ IsSeq(m.functions) /\ IsSeq(m.globals)
        /\ \A F \in ToSet(m.functions) : FunctionShape(F)

VARIABLES
    M,          \* the module
    at,         \* the executor to run next
    i, j,       \* the item it is to run on: node or function or variable, and instruction
    Data,       \* the DataHolder
    FoundMap,   \* VerifyMetadataKernels: the node each function was found in
    EL,         \* the errors: of type t, about x
    out         \* the driver's verdict

vars == <<M, at, i, j, Data, FoundMap, EL, out>>

addError(t, x) == {[t |-> t, x |-> x]}
ErrorIf(c, t, x) == IF c THEN addError(t, x) ELSE {}
Unsigned32(n) == n % UIntRange

NewData == [Is32Bit |-> TRUE, HasDoubleFeature |-> FALSE,
            HasImageFeature |-> FALSE, HASFp16Extension |-> FALSE]
NoNodes == [n \in {} |-> n]

Init ==
    /\ M \in Modules
    /\ at = "triple" /\ i = 1 /\ j = 0
    /\ Data = NewData
    /\ FoundMap = NoNodes
    /\ EL = {}
    /\ out = "none"

Goto(a) == at' = a /\ i' = 1 /\ j' = 0

-----------------------------------------------------------------------------
\* Module executors

TripleErrors(m) ==
    ErrorIf(m.triple = 0, "ERR_INVALID_TRIPLE", <<"triple">>)
    \cup ErrorIf(m.layout = 0, "ERR_INVALID_DATA_LAYOUT", <<"layout">>)
    \cup ErrorIf({m.triple, m.layout} = {32, 64}, "ERR_MISMATCH_TRIPLE_AND_DATA_LAYOUT", <<"triple", "layout">>)

PointerSize_Layout(D) == M.layout = 32    \* fault: takes the data layout's word

PointerSize(D) == IF M.triple # 0 THEN M.triple = 32 ELSE D.Is32Bit

VerifyTripleAndDataLayout ==
    /\ at = "triple"
    /\ Data' = [Data EXCEPT !.Is32Bit = PointerSize(Data)]
    /\ EL' = EL \cup TripleErrors(M)
    /\ Goto("kernels")
    /\ UNCHANGED <<M, FoundMap, out>>

Missing(name) == addError("ERR_MISSING_NAMED_METADATA", <<"name", name>>)
Kernels(m) == {k \in DOMAIN m.functions : m.functions[k].cc = "SPIR_KERNEL"}
KernelNodes == M.md["kernels"]

CountsDiffer_MoreNodes(m) == Cardinality(Kernels(m)) < Len(m.md["kernels"])   \* fault: one side only

CountsDiffer(m) == Cardinality(Kernels(m)) # Len(m.md["kernels"])

NothingToVisit_NoKernels(m) == Kernels(m) = {}    \* fault: the loop runs at least once

NothingToVisit(m) == Kernels(m) = {} \/ m.md["kernels"] = <<>>

VerifyMetadataKernels ==
    /\ at = "kernels"
    /\ IF "kernels" \notin DOMAIN M.md
       THEN EL' = EL \cup Missing("kernels") /\ Goto("ocl")
       ELSE /\ EL' = EL \cup ErrorIf(CountsDiffer(M), "ERR_INVALID_METADATA_KERNEL", <<"counts">>)
            /\ Goto(IF NothingToVisit(M) THEN "ocl" ELSE "kernel")
    /\ UNCHANGED <<M, Data, FoundMap, out>>

\* A kernel's argument information is a list of nodes, each a kind and its entries;
\* entry k is about parameter k.  A list may have more entries than the kernel has
\* parameters: getParamType then reads past the array of types, and what it takes for one
\* is F.beyond, which may be anything.  A process that dies of it stops, as every step may.
ParamType(F, k) == IF k \in DOMAIN F.params THEN F.params[k] ELSE F.beyond
Kind(node) == node[1]
Entries(node) == node[2]

AddrSpaceErrors(node, F, k) ==
    LET n == Entries(node)[k]
        x == <<"info", node>>
        space == IF n = NotConst THEN 0 ELSE Unsigned32(n)
    IN  IF n = NotConst THEN addError("ERR_INVALID_METADATA_KERNEL_INFO", x)
        ELSE ErrorIf(space >= Cardinality(g_valid_address_space), "ERR_INVALID_ADDR_SPACE", x)
             \cup IF ParamType(F, k).as # space
                THEN addError("ERR_INVALID_METADATA_KERNEL_INFO", x)
                     \cup addError("ERR_MISMATCH_METADATA_ADDR_SPACE", <<"param", ParamType(F, k), F.name>>)
                ELSE {}

BaseTypeErrors(node, F, is32, k) ==
    LET s == Entries(node)[k]
        x == <<"info", node>>
    IN  CASE s = NotString -> addError("ERR_INVALID_METADATA_KERNEL_INFO", x)
          [] s # NotString /\ ~isValidTypeName(s) -> addError("ERR_INVALID_OCL_TYPE", x)
          [] s # NotString /\ isValidTypeName(s) /\ ~isValidMapOCLToLLVM(s, ParamType(F, k).ty, is32) ->
                addError("ERR_MISMATCH_OCL_AND_LLVM_TYPES", x)
                \cup addError("ERR_MISMATCH_OCL_AND_LLVM_TYPES", <<"param", ParamType(F, k), F.name>>)
          [] OTHER -> {}

InfoErrors(node, F, is32) ==
    LET Entry(k) == CASE Kind(node) = "kernel_arg_addr_space" -> AddrSpaceErrors(node, F, k)
                      [] Kind(node) = "kernel_arg_base_type" -> BaseTypeErrors(node, F, is32, k)
                      [] OTHER -> {}
    IN  UNION {Entry(k) : k \in DOMAIN Entries(node)}

RequiredInfo == {"kernel_arg_addr_space", "kernel_arg_type", "kernel_arg_base_type"}
NotFound(N) == {kind \in RequiredInfo : \A k \in DOMAIN N.infos : Kind(N.infos[k]) # kind}

KernelInfoErrors(m, N, is32) ==
    (UNION {InfoErrors(node, m.functions[N.fn], is32) : node \in ToSet(N.infos)})
    \cup ErrorIf(NotFound(N) # {}, "ERR_MISSING_METADATA_KERNEL_INFO", <<"node", N>>)

BadNode(N) == addError("ERR_INVALID_METADATA_KERNEL", <<"node", N>>)

RepeatErrors_LaterOnly(N, found) == IF N.fn \in DOMAIN found THEN BadNode(N) ELSE {}   \* fault

\* Both nodes are bad when the function was found before.
RepeatErrors(N, found) ==
    IF N.fn \in DOMAIN found THEN BadNode(found[N.fn]) \cup BadNode(N) ELSE {}

VerifyMetadataKernel ==
    /\ at = "kernel"
    /\ LET N == KernelNodes[i]
       IN  /\ IF N.fn = 0
              THEN EL' = EL \cup BadNode(N) /\ UNCHANGED FoundMap
              ELSE /\ EL' = EL \cup (IF M.functions[N.fn].cc # "SPIR_KERNEL" THEN BadNode(N) ELSE {})
                               \cup RepeatErrors(N, FoundMap)
                               \cup KernelInfoErrors(M, N, Data.Is32Bit)
                   /\ FoundMap' = [f \in DOMAIN FoundMap \cup {N.fn} |->
                                     IF f = N.fn THEN N ELSE FoundMap[f]]
           /\ IF i < Len(KernelNodes) THEN at' = at /\ i' = i + 1 /\ j' = j ELSE Goto("ocl")
    /\ UNCHANGED <<M, Data, out>>

BadVersion(nodes) ==
    \/ Len(nodes) # 1
    \/ Len(nodes[1]) # 2
    \/ nodes[1][1] = NotConst \/ nodes[1][2] = NotConst
    \/ Unsigned32(nodes[1][1]) # 1 \/ Unsigned32(nodes[1][2]) # 2

VersionErrors(m, name) ==
    IF name \notin DOMAIN m.md THEN Missing(name)
    ELSE ErrorIf(BadVersion(m.md[name]), "ERR_INVALID_METADATA_VERSION", <<"version", name>>)

VerifyMetadataVersions(name, next) ==
    /\ at = name
    /\ EL' = EL \cup VersionErrors(M, name)
    /\ Goto(next)
    /\ UNCHANGED <<M, Data, FoundMap, out>>

\* Named metadata that is to be one list of names.
OneEntry(m, name) == name \in DOMAIN m.md /\ Len(m.md[name]) = 1
Names(m, name) == IF OneEntry(m, name) THEN m.md[name][1] ELSE <<>>
Listed(m, name, s) == \E k \in DOMAIN Names(m, name) : Names(m, name)[k] = s
\* The name at k came up earlier in the loop.
Twice(names, k) == \E l \in 1..(k - 1) : names[l] = names[k]

EntryErrors(m, name, wrongCount) ==
    IF name \notin DOMAIN m.md THEN Missing(name)
    ELSE ErrorIf(Len(m.md[name]) # 1, wrongCount, <<name>>)

\* A core feature whose flag is set already, by the loop or before it, is repeated.
BadCoreFeature(names, D, k) ==
    \/ names[k] \notin g_valid_core_feature
    \/ Twice(names, k)
    \/ names[k] = "cl_doubles" /\ D.HasDoubleFeature
    \/ names[k] = "cl_images" /\ D.HasImageFeature

CoreFeatureErrors(m, D) ==
    EntryErrors(m, "core", "ERR_INVALID_CORE_FEATURE")
    \cup ErrorIf(\E k \in DOMAIN Names(m, "core") : BadCoreFeature(Names(m, "core"), D, k),
                 "ERR_INVALID_CORE_FEATURE", <<"core list">>)

VerifyMetadataCoreFeatures ==
    /\ at = "core"
    /\ Data' = [Data EXCEPT !.HasDoubleFeature = @ \/ Listed(M, "core", "cl_doubles"),
                            !.HasImageFeature = @ \/ Listed(M, "core", "cl_images")]
    /\ EL' = EL \cup CoreFeatureErrors(M, Data)
    /\ Goto("khr")
    /\ UNCHANGED <<M, FoundMap, out>>

\* The loop looks at HASFp16Extension and never sets it.  A wrong number of entries is
\* reported as a core feature here too.
KHRExtensionErrors(m, D) ==
    EntryErrors(m, "khr", "ERR_INVALID_CORE_FEATURE")
    \cup ErrorIf(\E k \in DOMAIN Names(m, "khr") :
                    \/ Names(m, "khr")[k] \notin g_valid_khr_ext
                    \/ Names(m, "khr")[k] = "cl_khr_fp16" /\ D.HASFp16Extension,
                 "ERR_INVALID_KHR_EXT", <<"khr list">>)

VerifyMetadataKHRExtensions ==
    /\ at = "khr"
    /\ Data' = [Data EXCEPT !.HasDoubleFeature = @ \/ Listed(M, "khr", "cl_khr_fp16")]
    /\ EL' = EL \cup KHRExtensionErrors(M, Data)
    /\ Goto("options")
    /\ UNCHANGED <<M, FoundMap, out>>

CompilerOptionErrors(m) ==
    EntryErrors(m, "options", "ERR_INVALID_COMPILER_OPTION")
    \cup ErrorIf(\E k \in DOMAIN Names(m, "options") : Names(m, "options")[k] \notin g_valid_compiler_options,
                 "ERR_INVALID_COMPILER_OPTION", <<"options list">>)

VerifyMetadataCompilerOptions ==
    /\ at = "options"
    /\ EL' = EL \cup CompilerOptionErrors(M)
    /\ Goto("functions")
    /\ UNCHANGED <<M, Data, FoundMap, out>>

\* The DataHolder once all of them have run.
Declared(m) ==
    [Is32Bit |-> m.triple # 64,
     HasDoubleFeature |-> Listed(m, "core", "cl_doubles") \/ Listed(m, "khr", "cl_khr_fp16"),
     HasImageFeature |-> Listed(m, "core", "cl_images"),
     HASFp16Extension |-> FALSE]

-----------------------------------------------------------------------------
\* Function, instruction and global variable executors

ValidLinkage == {"external", "private", "internal", "available_externally"}
ValidCC == {"SPIR_KERNEL", "SPIR_FUNC"}

TypeErrors(t, D, boolVec, x) == ErrorIf(~isValidType(t, D, boolVec), "ERR_INVALID_LLVM_TYPE", x)

FunctionPrototypeErrors(F, D) ==
    ErrorIf(~F.decl /\ F.cc \notin ValidCC, "ERR_INVALID_CALLING_CONVENTION", <<"name", F.name>>)
    \cup (UNION {TypeErrors(p.ty, D, FALSE, <<"param", p, F.name>>) : p \in ToSet(F.params)})
    \cup ErrorIf(F.linkage \notin ValidLinkage, "ERR_INVALID_LINKAGE_TYPE", <<"name", F.name>>)
    \cup TypeErrors(F.ret, D, FALSE, <<"ret", F.ret, F.name>>)

IsPointer(t) == \E c \in t : c[Len(c)] = "*"
IsPointerToPointer(t) == \E c \in t : Len(c) > 2 /\ c[Len(c)] = "*" /\ c[Len(c) - 1] = "*"

KernelParamErrors(p, F) ==
    ErrorIf(IsPointerToPointer(p.ty), "ERR_KERNEL_ARG_PTRPTR", <<"param", p, F.name>>)
    \cup ErrorIf(IsPointer(p.ty) /\ p.as = 0, "ERR_KERNEL_ARG_AS0", <<"param", p, F.name>>)

KernelPrototypeErrors(F) ==
    IF F.cc # "SPIR_KERNEL" THEN {}
    ELSE (UNION {KernelParamErrors(p, F) : p \in ToSet(F.params)})
         \cup ErrorIf(F.ret # {<<"void">>}, "ERR_INVALID_KERNEL_RETURN_TYPE", <<"ret", F.ret, F.name>>)

FunctionErrors(m, f, D) ==
    FunctionPrototypeErrors(m.functions[f], D) \cup KernelPrototypeErrors(m.functions[f])

\* A cast is the pair of address spaces of a bitcast between pointers, any other
\* expression is <<0, 0>>.  `deep' are the casts in the operands of a constant
\* expression: isValidAddrSpaceCast calls itself for them and drops the answer.
isValidAddrSpaceCast(cast) == cast[1] = cast[2]

BitcastErrors(I) ==
    ErrorIf(~isValidAddrSpaceCast(I.cast), "ERR_INVALID_ADDR_SPACE_CAST", <<"inst", I>>)
    \cup ErrorIf(\E o \in ToSet(I.operands) : ~isValidAddrSpaceCast(o.cast),
                 "ERR_INVALID_ADDR_SPACE_CAST", <<"inst", I>>)

isValidMemfence(n) == n # NotConst /\ Unsigned32(n) \in 1..3
\* getOperand(0) of a call without arguments is the function it calls.
FirstOperand(I) == IF I.args = <<>> THEN NotConst ELSE I.args[1]

CallErrors(m, I) ==
    LET F == m.functions[I.callee]
        x == <<"inst", I>>
    IN  CASE I.op # "call" -> {}
          [] I.op = "call" /\ I.callee = 0 -> addError("ERR_INVALID_INDIRECT_CALL", x)
          [] OTHER ->
                ErrorIf(~F.decl /\ I.cc \notin ValidCC, "ERR_INVALID_CALLING_CONVENTION", x)
                \cup ErrorIf(F.builtin = "barrier" /\ Len(I.args) # 1, "ERR_INVALID_MEM_FENCE", x)
                \cup ErrorIf(F.builtin = "barrier" /\ ~isValidMemfence(FirstOperand(I)),
                           "ERR_INVALID_MEM_FENCE", x)
                \cup ErrorIf(F.builtin = "llvm.other", "ERR_INVALID_INTRINSIC", x)

InstructionErrors(m, I, D) ==
    BitcastErrors(I) \cup CallErrors(m, I) \cup TypeErrors(I.ty, D, I.op = "cmp", <<"inst type", I>>)

\* A user that is a constant is passed over, and the first bad user ends the loop.
GlobalErrors(G) ==
    ErrorIf(G.linkage \notin ValidLinkage, "ERR_INVALID_LINKAGE_TYPE", <<"global", G>>)
    \cup CASE G.as = 2 -> {}
         [] G.as = 3 -> ErrorIf(\E k \in DOMAIN G.users : G.users[k] \notin G.owners \cup {0},
                                "ERR_INVALID_GLOBAL_AS3_VAR", <<"global", G>>)
         [] OTHER -> addError("ERR_INVALID_GLOBAL_VAR_ADDRESS_SPACE", <<"global", G>>)

VerifyFunction ==
    /\ at = "functions" /\ i \in DOMAIN M.functions /\ j = 0
    /\ EL' = EL \cup FunctionErrors(M, i, Data)
    /\ j' = 1
    /\ UNCHANGED <<M, at, i, Data, FoundMap, out>>

VerifyInstruction ==
    /\ at = "functions" /\ i \in DOMAIN M.functions /\ j \in DOMAIN M.functions[i].body
    /\ EL' = EL \cup InstructionErrors(M, M.functions[i].body[j], Data)
    /\ j' = j + 1
    /\ UNCHANGED <<M, at, i, Data, FoundMap, out>>

NextFunction ==
    /\ at = "functions"
    /\ IF i \in DOMAIN M.functions
       THEN j > Len(M.functions[i].body) /\ i' = i + 1 /\ j' = 0 /\ at' = at
       ELSE Goto("globals")
    /\ UNCHANGED <<M, Data, FoundMap, EL, out>>

VerifyGlobalVariable ==
    /\ at = "globals" /\ i \in DOMAIN M.globals
    /\ EL' = EL \cup GlobalErrors(M.globals[i])
    /\ i' = i + 1
    /\ UNCHANGED <<M, at, j, Data, FoundMap, out>>

\* The driver: a module is valid when hasErrors() is false.
Report ==
    /\ at = "globals" /\ i \notin DOMAIN M.globals
    /\ Goto("reported")
    /\ out' = IF EL = {} THEN "valid" ELSE "invalid"
    /\ UNCHANGED <<M, Data, FoundMap, EL>>

Next ==
    \/ VerifyTripleAndDataLayout
    \/ VerifyMetadataKernels \/ VerifyMetadataKernel
    \/ VerifyMetadataVersions("ocl", "spir") \/ VerifyMetadataVersions("spir", "core")
    \/ VerifyMetadataCoreFeatures \/ VerifyMetadataKHRExtensions \/ VerifyMetadataCompilerOptions
    \/ VerifyFunction \/ VerifyInstruction \/ NextFunction
    \/ VerifyGlobalVariable \/ Report

Spec == Init /\ [][Next]_vars

-----------------------------------------------------------------------------
Rules == INSTANCE SpirRules

Stages == {"triple", "kernels", "kernel", "ocl", "spir", "core", "khr", "options",
           "functions", "globals", "reported"}
Done == at = "reported"

\* The position is inside the list the executor walks, and a verdict comes at the end.
TypeOK ==
    /\ at \in Stages
    /\ i \in Nat \ {0} /\ j \in Nat
    /\ Data \in [Is32Bit : BOOLEAN, HasDoubleFeature : BOOLEAN,
                 HasImageFeature : BOOLEAN, HASFp16Extension : BOOLEAN]
    /\ DOMAIN FoundMap \subseteq DOMAIN M.functions
    /\ at = "kernel" => i \in DOMAIN KernelNodes
    /\ at = "functions" => i <= Len(M.functions) + 1
    /\ at = "globals" => i <= Len(M.globals) + 1
    /\ out \in {"none", "valid", "invalid"} /\ (out = "none" <=> ~Done)

\* No executor reads a flag of the DataHolder before the executor that sets it has run:
\* the kernels' arguments see the pointer size of the triple, the functions see
\* everything the metadata declares.  (SpirValidation::runOnModule, the order of mel)
FlagsReadFinal ==
    /\ at = "kernel" => Data.Is32Bit = (M.triple # 64)
    /\ at = "functions" => Data = Declared(M)

\* The verdict is what the documents say it is, but for what SpirRules names, each departure
\* about its own rule alone: no executor is skipped by an early return of another, no item by
\* the way the lists are walked, no flag tested before it is set, no error lost or made up.
VerdictIsRules ==
    Done =>
        /\ out = "valid" =>
             /\ Rules!TripleRule(M) /\ Rules!KernelRule(M) /\ Rules!ListRule(M)
             /\ Rules!CodeRule(M) \/ Rules!LenientCode(M)
             /\ Rules!ArgInfoRule(M) \/ Rules!LenientInfo(M)
             /\ Rules!VersionRule(M) \/ Rules!WideVersions(M)
             /\ Rules!GlobalsRule(M) \/ Rules!StrayLocals(M)
        /\ Rules!IsSpir(M) /\ ~Rules!Harsh(M) => out = "valid"

\* Counting the nodes, looking at each one's function and refusing a function seen
\* before together establish that nodes and kernels correspond one to one.
KernelsMatched == out = "valid" => Rules!KernelRule(M)

\* When several nodes name one function every one of them is reported, not only the later.
RepeatedNodesMarked ==
    at \in {"functions", "reported"} /\ "kernels" \in DOMAIN M.md /\ Kernels(M) # {} =>
        \A k, l \in DOMAIN KernelNodes :
            k # l /\ KernelNodes[k].fn = KernelNodes[l].fn =>
                [t |-> "ERR_INVALID_METADATA_KERNEL", x |-> <<"node", KernelNodes[k]>>] \in EL

-----------------------------------------------------------------------------
\* As documented, and not as the code does it.

\* SpirIterators.h calls HASFp16Extension the indicator for presence of cl_khr_fp16, and
\* HasDoubleFeature the one of cl_doubles; the extension executor sets the wrong one.
FeatureIndicators ==
    at = "functions" =>
        /\ Data.HASFp16Extension <=> Rules!Lists(M, "khr", "cl_khr_fp16")
        /\ Data.HasDoubleFeature <=> Rules!Lists(M, "core", "cl_doubles")

\* TODOList.txt: cl_images is present when an image type is used; isValidType accepts
\* every opaque type, so HasImageFeature is never asked to any effect.
ImagesNeedFeature == out = "valid" => ~Rules!ImagesUndeclared(M)

\* TODOList.txt: no bitcast between address spaces, in constant expression operands
\* either; what isValidAddrSpaceCast finds in the operands' operands is dropped.
CastsRefused == out = "valid" => ~Rules!CastsInside(M)
=============================================================================
