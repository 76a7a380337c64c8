-------------------------- MODULE SpirVerifierProofs --------------------------
(***************************************************************************)
(* What the verifier says of a module, for every set of modules.           *)
(*                                                                         *)
(* The verdict is the conjunction of the tests of every item, each made    *)
(* with the flags the module declares; it makes the kernels and their      *)
(* nodes correspond one to one; and repeated nodes are all reported.       *)
(*                                                                         *)
(* It is the verdict of SpirRules, but for the departures that module      *)
(* names: what each executor tests of its item is stated first, then       *)
(* compared with the rule about the same item, each way under the          *)
(* departures that concern it.  The flags that isValidType passes from a   *)
(* constructor to what is inside it come to conditions on the whole chain, *)
(* and the text SignedName makes is a leaf's name when the documents map   *)
(* the one to the other.                                                   *)
(*                                                                         *)
(* The report is faithful in whatever order the errors were found: they    *)
(* are finitely many and of the types the holder knows, whatever the       *)
(* executors find, and on such a list the three loops of ErrorHolder::print *)
(* are followed to their ends.                                             *)
(***************************************************************************)
EXTENDS SpirReport, RecursionLemmas, FiniteSetTheorems

\* The DataHolder when the executor at a is about to run.
DataAt(m, a) ==
    [Is32Bit |-> a = "triple" \/ m.triple # 64,
     HasDoubleFeature |->
        \/ a \in {"khr", "options", "functions", "globals", "reported"} /\ Listed(m, "core", "cl_doubles")
        \/ a \in {"options", "functions", "globals", "reported"} /\ Listed(m, "khr", "cl_khr_fp16"),
     HasImageFeature |->
        a \in {"khr", "options", "functions", "globals", "reported"} /\ Listed(m, "core", "cl_images"),
     HASFp16Extension |-> FALSE]

Nodes(m) == m.md["kernels"]

\* What the executor finds nothing wrong with at node k.
GoodNode(m, k) ==
    LET N == Nodes(m)[k]
    IN  /\ N.fn # 0
        /\ m.functions[N.fn].cc = "SPIR_KERNEL"
        /\ \A l \in 1..(k - 1) : Nodes(m)[l].fn # N.fn
        /\ KernelInfoErrors(m, N, m.triple # 64) = {}

\* The tests made so far: those of the module, of the kernels' nodes, of the functions
\* with their instructions, and of the global variables.
ModuleTested(m, a) ==
    /\ a # "triple" => TripleErrors(m) = {}
    /\ a \notin {"triple", "kernels"} => "kernels" \in DOMAIN m.md /\ ~CountsDiffer(m)
    /\ a \notin {"triple", "kernels", "kernel", "ocl"} => VersionErrors(m, "ocl") = {}
    /\ a \notin {"triple", "kernels", "kernel", "ocl", "spir"} => VersionErrors(m, "spir") = {}
    /\ a \in {"khr", "options", "functions", "globals", "reported"} => CoreFeatureErrors(m, NewData) = {}
    /\ a \in {"options", "functions", "globals", "reported"} => KHRExtensionErrors(m, NewData) = {}
    /\ a \in {"functions", "globals", "reported"} => CompilerOptionErrors(m) = {}

NodesTested(m, a, n) ==
    "kernels" \in DOMAIN m.md =>
        \A k \in DOMAIN Nodes(m) :
            a \notin {"triple", "kernels"} /\ (a = "kernel" => k < n) => GoodNode(m, k)

PrototypeTested(m, a, f, n, l) ==
    a \in {"globals", "reported"} \/ (a = "functions" /\ (f < n \/ (f = n /\ l > 0)))
      => FunctionErrors(m, f, Declared(m)) = {}

InstructionTested(m, a, f, k, n, l) ==
    a \in {"globals", "reported"} \/ (a = "functions" /\ (f < n \/ (f = n /\ k < l)))
      => InstructionErrors(m, m.functions[f].body[k], Declared(m)) = {}

FunctionsTested(m, a, n, l) ==
    \A f \in DOMAIN m.functions :
        /\ PrototypeTested(m, a, f, n, l)
        /\ \A k \in DOMAIN m.functions[f].body : InstructionTested(m, a, f, k, n, l)

GlobalsTested(m, a, n) ==
    \A g \in DOMAIN m.globals :
        a = "reported" \/ (a = "globals" /\ g < n) => GlobalErrors(m.globals[g]) = {}

Tested(m, a, n, l) ==
    ModuleTested(m, a) /\ NodesTested(m, a, n) /\ FunctionsTested(m, a, n, l) /\ GlobalsTested(m, a, n)

\* FoundMap knows the functions of the nodes before, while there are nodes to come.
FoundSoFar ==
    /\ at \in {"triple", "kernels"} => DOMAIN FoundMap = {}
    /\ at = "kernel" =>
         /\ "kernels" \in DOMAIN M.md
         /\ DOMAIN FoundMap = {KernelNodes[k].fn : k \in 1..(i - 1)} \ {0}

IInv ==
    /\ TypeOK /\ M \in Modules
    /\ Data = DataAt(M, at)
    /\ FoundSoFar
    /\ EL = {} <=> Tested(M, at, i, j)
    /\ out = "valid" => EL = {}
    /\ out = "invalid" => EL # {}

-----------------------------------------------------------------------------
LEMMA ModuleShape ==
    ASSUME NEW m \in Modules
    PROVE  /\ m.triple \in {0, 32, 64}
           /\ DOMAIN m.functions = 1..Len(m.functions) /\ Len(m.functions) \in Nat
           /\ DOMAIN m.globals = 1..Len(m.globals) /\ Len(m.globals) \in Nat
           /\ \A f \in DOMAIN m.functions :
                 DOMAIN m.functions[f].body = 1..Len(m.functions[f].body) /\ Len(m.functions[f].body) \in Nat
           /\ "kernels" \in DOMAIN m.md =>
                 /\ DOMAIN Nodes(m) = 1..Len(Nodes(m)) /\ Len(Nodes(m)) \in Nat
                 /\ \A k \in DOMAIN Nodes(m) : Nodes(m)[k].fn \in 0..Len(m.functions)
  <1>1. \A s : IsSeq(s) => DOMAIN s = 1..Len(s) /\ Len(s) \in Nat
    BY DEF IsSeq
  <1>2. \A f \in DOMAIN m.functions : m.functions[f] \in ToSet(m.functions)
    BY DEF ToSet
  <1>3. "kernels" \in DOMAIN m.md => \A k \in DOMAIN Nodes(m) : Nodes(m)[k] \in ToSet(Nodes(m))
    BY DEF ToSet
  <1> QED
    BY <1>1, <1>2, <1>3, ModulesAssumption DEF Nodes, MetadataShape, FunctionShape

\* Without kernels there is nothing to count, so equal counts leave no node to visit.
LEMMA NothingToVisitIsTested ==
    ASSUME NEW m \in Modules, "kernels" \in DOMAIN m.md, NothingToVisit(m), ~CountsDiffer(m)
    PROVE  DOMAIN Nodes(m) = {}
  <1>1. CASE Kernels(m) = {}
    <2>1. Cardinality(Kernels(m)) = 0
      BY <1>1, FS_EmptySet
    <2> QED
      BY <2>1, ModuleShape DEF CountsDiffer, Nodes
  <1>2. CASE Nodes(m) = <<>>
    BY <1>2
  <1> QED
    BY <1>1, <1>2 DEF NothingToVisit, Nodes

\* The flags an executor looks at are those of the DataHolder at its place in the order.
LEMMA FlagsLookedAt ==
    ASSUME NEW m
    PROVE  /\ CoreFeatureErrors(m, DataAt(m, "core")) = CoreFeatureErrors(m, NewData)
           /\ KHRExtensionErrors(m, DataAt(m, "khr")) = KHRExtensionErrors(m, NewData)
           /\ DataAt(m, "kernel").Is32Bit = (m.triple # 64)
           /\ DataAt(m, "functions") = Declared(m)
  <1>1. /\ DataAt(m, "core").HasDoubleFeature = NewData.HasDoubleFeature
        /\ DataAt(m, "core").HasImageFeature = NewData.HasImageFeature
        /\ DataAt(m, "khr").HASFp16Extension = NewData.HASFp16Extension
    BY DEF DataAt, NewData
  <1>2. \A names, k : BadCoreFeature(names, DataAt(m, "core"), k) <=> BadCoreFeature(names, NewData, k)
    BY <1>1 DEF BadCoreFeature
  <1>3. CoreFeatureErrors(m, DataAt(m, "core")) = CoreFeatureErrors(m, NewData)
    BY <1>2 DEF CoreFeatureErrors
  <1>4. KHRExtensionErrors(m, DataAt(m, "khr")) = KHRExtensionErrors(m, NewData)
    BY <1>1 DEF KHRExtensionErrors
  <1>5. DataAt(m, "kernel").Is32Bit = (m.triple # 64)
    BY DEF DataAt
  <1>6. DataAt(m, "functions") = Declared(m)
    <2> DEFINE a == "functions"
    <2>1. (a = "triple" \/ m.triple # 64) = (m.triple # 64)
      OBVIOUS
    <2>2. (\/ a \in {"khr", "options", "functions", "globals", "reported"} /\ Listed(m, "core", "cl_doubles")
           \/ a \in {"options", "functions", "globals", "reported"} /\ Listed(m, "khr", "cl_khr_fp16"))
          = (Listed(m, "core", "cl_doubles") \/ Listed(m, "khr", "cl_khr_fp16"))
      OBVIOUS
    <2>3. (a \in {"khr", "options", "functions", "globals", "reported"} /\ Listed(m, "core", "cl_images"))
          = Listed(m, "core", "cl_images")
      BY DEF Listed
    <2> HIDE DEF a
    <2>4. DataAt(m, a) = Declared(m)
      BY <2>1, <2>2, <2>3, Zenon DEF DataAt, Declared
    <2> QED
      BY <2>4 DEF a
  <1> QED
    BY <1>3, <1>4, <1>5, <1>6

-----------------------------------------------------------------------------
LEMMA InitEstablishes == Init => IInv
  <1> SUFFICES ASSUME Init PROVE IInv
    OBVIOUS
  <1>1. TypeOK /\ M \in Modules
    BY DEF Init, TypeOK, Stages, NewData, NoNodes, Done
  <1>2. Data = DataAt(M, at)
    BY DEF Init, NewData, DataAt
  <1>3. FoundSoFar
    BY DEF Init, FoundSoFar, NoNodes
  <1>4. Tested(M, at, i, j)
    BY DEF Init, Tested, ModuleTested, NodesTested, FunctionsTested, PrototypeTested, InstructionTested, GlobalsTested
  <1> QED
    BY <1>1, <1>2, <1>3, <1>4 DEF IInv, Init

\* Moving from one executor of the module to the next leaves the other tests as they are.
LEMMA OtherTests ==
    ASSUME NEW m, NEW a, NEW b, NEW n, NEW l, NEW n2, NEW l2
    PROVE  /\ a \in {"ocl", "spir", "core", "khr", "options", "functions", "globals", "reported"}
              /\ b \in {"ocl", "spir", "core", "khr", "options", "functions", "globals", "reported"}
                => (NodesTested(m, a, n) <=> NodesTested(m, b, n2))
           /\ a \in Stages \ {"functions", "globals", "reported"}
              /\ b \in Stages \ {"functions", "globals", "reported"}
                => (FunctionsTested(m, a, n, l) <=> FunctionsTested(m, b, n2, l2))
           /\ a \in Stages \ {"globals", "reported"} /\ b \in Stages \ {"globals", "reported"}
                => (GlobalsTested(m, a, n) <=> GlobalsTested(m, b, n2))
  BY DEF NodesTested, FunctionsTested, PrototypeTested, InstructionTested, GlobalsTested, Stages

\* The step of a module executor that finds the errors E.
LEMMA ModuleStep ==
    ASSUME IInv, NEW b, Goto(b), UNCHANGED <<M, FoundMap, out>>, NEW E, EL' = EL \cup E,
           <<at, b>> \in {<<"ocl", "spir">>, <<"spir", "core">>, <<"core", "khr">>, <<"khr", "options">>,
                         <<"options", "functions">>},
           ModuleTested(M, b) <=> ModuleTested(M, at) /\ E = {},
           Data' = DataAt(M, b)
    PROVE  IInv'
  <1> USE DEF Goto
  <1>1. /\ at \in {"ocl", "spir", "core", "khr", "options"}
        /\ b \in {"spir", "core", "khr", "options", "functions"}
        /\ at' = b /\ i' = 1 /\ j' = 0 /\ M' = M
    OBVIOUS
  <1>2. NodesTested(M, b, 1) <=> NodesTested(M, at, i)
    BY <1>1, OtherTests
  <1>3. FunctionsTested(M, b, 1, 0) <=> FunctionsTested(M, at, i, j)
    <2>1. CASE b # "functions"
      BY <1>1, <2>1, OtherTests DEF Stages
    <2>2. CASE b = "functions"
      <3>1. FunctionsTested(M, at, i, j)
        BY <1>1 DEF FunctionsTested, PrototypeTested, InstructionTested
      <3>2. FunctionsTested(M, "functions", 1, 0)
        BY ModuleShape DEF FunctionsTested, PrototypeTested, InstructionTested, IInv
      <3> QED
        BY <2>2, <3>1, <3>2
    <2> QED
      BY <2>1, <2>2
  <1>4. GlobalsTested(M, b, 1) <=> GlobalsTested(M, at, i)
    BY <1>1, OtherTests DEF Stages
  <1>5. EL' = {} <=> Tested(M, b, 1, 0)
    BY <1>1, <1>2, <1>3, <1>4 DEF IInv, Tested
  <1>6. TypeOK' /\ M' \in Modules
    <2>1. Data' \in [Is32Bit : BOOLEAN, HasDoubleFeature : BOOLEAN,
                     HasImageFeature : BOOLEAN, HASFp16Extension : BOOLEAN]
      BY DEF DataAt, Listed
    <2> QED
      BY <1>1, <2>1, ModuleShape DEF IInv, TypeOK, Stages, Done
  <1>7. FoundSoFar'
    BY <1>1 DEF FoundSoFar
  <1>8. out' = "none"
    BY <1>1 DEF IInv, TypeOK, Done
  <1> QED
    BY <1>1, <1>5, <1>6, <1>7, <1>8 DEF IInv

LEMMA TripleKeeps == ASSUME IInv, VerifyTripleAndDataLayout PROVE IInv'
  <1>1. /\ at = "triple" /\ at' = "kernels" /\ i' = 1 /\ j' = 0 /\ M' = M
        /\ FoundMap' = FoundMap /\ out' = out /\ EL' = EL \cup TripleErrors(M)
        /\ Data' = [Data EXCEPT !.Is32Bit = PointerSize(Data)]
    BY DEF VerifyTripleAndDataLayout, Goto
  <1>2. Data' = DataAt(M, "kernels")
    <2>1. Data = NewData
      BY <1>1 DEF IInv, DataAt, NewData
    <2>2. PointerSize(Data) = (M.triple # 64)
      <3>1. CASE M.triple = 0
        <4>1. PointerSize(Data) = NewData.Is32Bit
          BY <2>1, <3>1 DEF PointerSize
        <4>2. NewData.Is32Bit = TRUE
          BY DEF NewData
        <4>3. (M.triple # 64) = TRUE
          BY <3>1
        <4> QED
          BY <4>1, <4>2, <4>3, Zenon
      <3>2. CASE M.triple = 32
        BY <3>2 DEF PointerSize
      <3>3. CASE M.triple = 64
        BY <3>3 DEF PointerSize
      <3> QED
        BY <3>1, <3>2, <3>3, ModuleShape DEF IInv
    <2>3. Data' = [NewData EXCEPT !.Is32Bit = (M.triple # 64)]
      BY <1>1, <2>1, <2>2
    <2> QED
      BY <2>3 DEF DataAt, NewData
  <1>3. TypeOK' /\ M' \in Modules
    <2>1. Data' \in [Is32Bit : BOOLEAN, HasDoubleFeature : BOOLEAN,
                     HasImageFeature : BOOLEAN, HASFp16Extension : BOOLEAN]
      BY <1>2 DEF DataAt, Listed
    <2> QED
      BY <1>1, <2>1 DEF IInv, TypeOK, Stages, Done
  <1>4. FoundSoFar'
    BY <1>1 DEF IInv, FoundSoFar
  <1>5. EL' = {} <=> Tested(M, "kernels", 1, 0)
    BY <1>1 DEF IInv, Tested, ModuleTested, NodesTested, FunctionsTested, PrototypeTested, InstructionTested, GlobalsTested
  <1>6. out' = "none"
    BY <1>1 DEF IInv, TypeOK, Done
  <1> QED
    BY <1>1, <1>2, <1>3, <1>4, <1>5, <1>6 DEF IInv

LEMMA KernelsKeeps == ASSUME IInv, VerifyMetadataKernels PROVE IInv'
  <1>1. /\ at = "kernels" /\ i' = 1 /\ j' = 0 /\ M' = M
        /\ Data' = Data /\ FoundMap' = FoundMap /\ out' = out
        /\ "kernels" \notin DOMAIN M.md => at' = "ocl" /\ EL' # {}
        /\ "kernels" \in DOMAIN M.md =>
             /\ at' = IF NothingToVisit(M) THEN "ocl" ELSE "kernel"
             /\ EL' = {} <=> EL = {} /\ ~CountsDiffer(M)
    BY DEF VerifyMetadataKernels, Goto, Missing, addError, ErrorIf
  <1>2. at' \in {"ocl", "kernel"}
    BY <1>1
  <1>3. Data' = DataAt(M, at')
    BY <1>1, <1>2 DEF IInv, DataAt
  <1>4. at' = "kernel" => 1 \in DOMAIN Nodes(M)
    BY <1>1, ModuleShape DEF IInv, NothingToVisit, Nodes
  <1>5. TypeOK' /\ M' \in Modules
    BY <1>1, <1>2, <1>4 DEF IInv, TypeOK, Stages, Done, Nodes, KernelNodes
  <1>6. FoundSoFar'
    <2>1. DOMAIN FoundMap = {}
      BY <1>1 DEF IInv, FoundSoFar
    <2>2. at' = "kernel" => "kernels" \in DOMAIN M.md
      BY <1>1
    <2>3. 1..(1 - 1) = {}
      OBVIOUS
    <2> QED
      BY <1>1, <1>2, <2>1, <2>2, <2>3 DEF FoundSoFar
  <1>7. EL' = {} <=> Tested(M, at', 1, 0)
    <2>1. ModuleTested(M, at') <=> ModuleTested(M, at) /\ "kernels" \in DOMAIN M.md /\ ~CountsDiffer(M)
      BY <1>1, <1>2 DEF ModuleTested
    <2>2. NodesTested(M, at, i)
      BY <1>1 DEF NodesTested
    <2>3. "kernels" \in DOMAIN M.md /\ ~CountsDiffer(M) => NodesTested(M, at', 1)
      <3>1. at' = "kernel" => NodesTested(M, at', 1)
        BY ModuleShape DEF NodesTested, IInv
      <3>2. at' = "ocl" /\ "kernels" \in DOMAIN M.md /\ ~CountsDiffer(M) => NodesTested(M, at', 1)
        BY <1>1, NothingToVisitIsTested DEF NodesTested, IInv
      <3> QED
        BY <1>2, <3>1, <3>2
    <2>4. /\ FunctionsTested(M, at, i, j) <=> FunctionsTested(M, at', 1, 0)
          /\ GlobalsTested(M, at, i) <=> GlobalsTested(M, at', 1)
      BY <1>1, <1>2, OtherTests DEF Stages
    <2> QED
      BY <1>1, <2>1, <2>2, <2>3, <2>4 DEF IInv, Tested
  <1>8. out' = "none"
    BY <1>1 DEF IInv, TypeOK, Done
  <1> QED
    BY <1>1, <1>3, <1>5, <1>6, <1>7, <1>8 DEF IInv

LEMMA KernelKeeps == ASSUME IInv, VerifyMetadataKernel PROVE IInv'
  <1> DEFINE N == KernelNodes[i]
             E == IF N.fn = 0 THEN BadNode(N)
                  ELSE (IF M.functions[N.fn].cc # "SPIR_KERNEL" THEN BadNode(N) ELSE {})
                       \cup RepeatErrors(N, FoundMap) \cup KernelInfoErrors(M, N, Data.Is32Bit)
  <1>1. /\ at = "kernel" /\ M' = M /\ Data' = Data /\ out' = out
        /\ EL' = EL \cup E
        /\ i < Len(KernelNodes) => at' = "kernel" /\ i' = i + 1 /\ j' = j
        /\ ~(i < Len(KernelNodes)) => at' = "ocl" /\ i' = 1 /\ j' = 0
        /\ N.fn = 0 => FoundMap' = FoundMap
        /\ N.fn # 0 => FoundMap' = [f \in DOMAIN FoundMap \cup {N.fn} |->
                                      IF f = N.fn THEN N ELSE FoundMap[f]]
    BY DEF VerifyMetadataKernel, Goto
  <1>2. /\ "kernels" \in DOMAIN M.md /\ i \in DOMAIN Nodes(M) /\ N = Nodes(M)[i]
        /\ DOMAIN Nodes(M) = 1..Len(Nodes(M)) /\ Len(Nodes(M)) \in Nat
        /\ N.fn \in 0..Len(M.functions) /\ DOMAIN M.functions = 1..Len(M.functions)
        /\ Len(M.functions) \in Nat
        /\ DOMAIN FoundMap = {Nodes(M)[k].fn : k \in 1..(i - 1)} \ {0}
        /\ KernelNodes = Nodes(M)
    BY <1>1, ModuleShape DEF IInv, TypeOK, FoundSoFar, KernelNodes, Nodes
  <1>3. DOMAIN FoundMap' = {Nodes(M)[k].fn : k \in 1..i} \ {0}
    <2>1. {Nodes(M)[k].fn : k \in 1..i} = {Nodes(M)[k].fn : k \in 1..(i - 1)} \cup {N.fn}
      BY <1>2
    <2>2. CASE N.fn = 0
      BY <1>1, <1>2, <2>1, <2>2
    <2>3. CASE N.fn # 0
      <3>1. DOMAIN FoundMap' = DOMAIN FoundMap \cup {N.fn}
        BY <1>1, <2>3
      <3> QED
        BY <1>2, <2>1, <2>3, <3>1
    <2> QED
      BY <2>2, <2>3
  <1>4. E = {} <=> GoodNode(M, i)
    <2>1. BadNode(N) # {}
      BY DEF BadNode, addError
    <2>2. N.fn # 0 => (RepeatErrors(N, FoundMap) = {} <=> \A l \in 1..(i - 1) : Nodes(M)[l].fn # N.fn)
      BY <1>2, <2>1 DEF RepeatErrors
    <2>3. Data.Is32Bit = (M.triple # 64)
      BY <1>1, FlagsLookedAt DEF IInv
    <2> QED
      BY <1>2, <2>1, <2>2, <2>3 DEF GoodNode
  <1> HIDE DEF E
  <1>5. at' \in {"kernel", "ocl"} /\ Data' = DataAt(M, at')
    BY <1>1 DEF IInv, DataAt
  <1>6. TypeOK' /\ M' \in Modules
    <2>1. DOMAIN FoundMap' \subseteq DOMAIN M.functions
      BY <1>2, <1>3, ModuleShape DEF IInv
    <2>2. at' = "kernel" => i' \in DOMAIN KernelNodes
      BY <1>1, <1>2
    <2>3. i' \in Nat \ {0} /\ j' \in Nat
      BY <1>1 DEF IInv, TypeOK
    <2> QED
      BY <1>1, <1>5, <2>1, <2>2, <2>3 DEF IInv, TypeOK, Stages, Done, KernelNodes
  <1>7. FoundSoFar'
    <2>1. at' = "kernel" => i' - 1 = i
      BY <1>1, <1>2
    <2> QED
      BY <1>1, <1>2, <1>3, <1>5, <2>1 DEF FoundSoFar, KernelNodes, Nodes
  <1>8. EL' = {} <=> Tested(M, at', i', j')
    <2>1. ModuleTested(M, at') <=> ModuleTested(M, at)
      BY <1>1, <1>5 DEF ModuleTested
    <2>2. NodesTested(M, at', i') <=> NodesTested(M, at, i) /\ GoodNode(M, i)
      BY <1>1, <1>2 DEF NodesTested
    <2>3. /\ FunctionsTested(M, at, i, j) <=> FunctionsTested(M, at', i', j')
          /\ GlobalsTested(M, at, i) <=> GlobalsTested(M, at', i')
      BY <1>1, <1>5, OtherTests DEF Stages
    <2> QED
      BY <1>1, <1>4, <2>1, <2>2, <2>3 DEF IInv, Tested
  <1>9. out' = "none"
    BY <1>1 DEF IInv, TypeOK, Done
  <1> QED
    BY <1>1, <1>5, <1>6, <1>7, <1>8, <1>9 DEF IInv

LEMMA VersionKeeps ==
    ASSUME IInv, NEW a, NEW b, <<a, b>> \in {<<"ocl", "spir">>, <<"spir", "core">>},
           VerifyMetadataVersions(a, b)
    PROVE  IInv'
  <1>1. at = a /\ Goto(b) /\ UNCHANGED <<M, FoundMap, out>> /\ Data' = Data
        /\ EL' = EL \cup VersionErrors(M, at)
    BY DEF VerifyMetadataVersions
  <1>2. ModuleTested(M, b) <=> ModuleTested(M, at) /\ VersionErrors(M, at) = {}
    BY <1>1 DEF ModuleTested
  <1>3. Data' = DataAt(M, b)
    BY <1>1 DEF IInv, DataAt
  <1> QED
    BY <1>1, <1>2, <1>3, ModuleStep

LEMMA CoreFeaturesKeep == ASSUME IInv, VerifyMetadataCoreFeatures PROVE IInv'
  <1>1. at = "core" /\ Goto("khr") /\ UNCHANGED <<M, FoundMap, out>>
        /\ EL' = EL \cup CoreFeatureErrors(M, Data)
        /\ Data' = [Data EXCEPT !.HasDoubleFeature = @ \/ Listed(M, "core", "cl_doubles"),
                                !.HasImageFeature = @ \/ Listed(M, "core", "cl_images")]
    BY DEF VerifyMetadataCoreFeatures
  <1>2. CoreFeatureErrors(M, Data) = CoreFeatureErrors(M, NewData)
    BY <1>1, FlagsLookedAt DEF IInv
  <1>3. ModuleTested(M, "khr") <=> ModuleTested(M, at) /\ CoreFeatureErrors(M, Data) = {}
    BY <1>1, <1>2 DEF ModuleTested
  <1>4. Data' = DataAt(M, "khr")
    BY <1>1 DEF IInv, DataAt, Listed
  <1> QED
    BY <1>1, <1>3, <1>4, ModuleStep

LEMMA ExtensionsKeep == ASSUME IInv, VerifyMetadataKHRExtensions PROVE IInv'
  <1>1. at = "khr" /\ Goto("options") /\ UNCHANGED <<M, FoundMap, out>>
        /\ EL' = EL \cup KHRExtensionErrors(M, Data)
        /\ Data' = [Data EXCEPT !.HasDoubleFeature = @ \/ Listed(M, "khr", "cl_khr_fp16")]
    BY DEF VerifyMetadataKHRExtensions
  <1>2. KHRExtensionErrors(M, Data) = KHRExtensionErrors(M, NewData)
    BY <1>1, FlagsLookedAt DEF IInv
  <1>3. ModuleTested(M, "options") <=> ModuleTested(M, at) /\ KHRExtensionErrors(M, Data) = {}
    BY <1>1, <1>2 DEF ModuleTested
  <1>4. Data' = DataAt(M, "options")
    BY <1>1 DEF IInv, DataAt, Listed
  <1> QED
    BY <1>1, <1>3, <1>4, ModuleStep

LEMMA OptionsKeep == ASSUME IInv, VerifyMetadataCompilerOptions PROVE IInv'
  <1>1. at = "options" /\ Goto("functions") /\ UNCHANGED <<M, FoundMap, out>> /\ Data' = Data
        /\ EL' = EL \cup CompilerOptionErrors(M)
    BY DEF VerifyMetadataCompilerOptions
  <1>2. ModuleTested(M, "functions") <=> ModuleTested(M, at) /\ CompilerOptionErrors(M) = {}
    BY <1>1 DEF ModuleTested
  <1>3. Data' = DataAt(M, "functions")
    BY <1>1 DEF IInv, DataAt
  <1> QED
    BY <1>1, <1>2, <1>3, ModuleStep

\* A step within the functions or the globals changes the position and the errors only.
LEMMA WalkStep ==
    ASSUME IInv, UNCHANGED <<M, Data, FoundMap>>,
           at \in {"functions", "globals"}, at' \in {"functions", "globals", "reported"},
           DataAt(M, at') = DataAt(M, at),
           TypeOK', EL' = {} <=> Tested(M, at', i', j'),
           out' = "valid" => EL' = {}, out' = "invalid" => EL' # {}
    PROVE  IInv'
  BY DEF IInv, FoundSoFar

LEMMA FunctionKeeps == ASSUME IInv, VerifyFunction PROVE IInv'
  <1>1. /\ at = "functions" /\ at' = at /\ i' = i /\ i \in DOMAIN M.functions /\ j = 0 /\ j' = 1
        /\ UNCHANGED <<M, Data, FoundMap, out>> /\ EL' = EL \cup FunctionErrors(M, i, Data)
    BY DEF VerifyFunction
  <1>2. Data = Declared(M)
    BY <1>1, FlagsLookedAt DEF IInv
  <1>3. FunctionsTested(M, at, i, 1) <=> FunctionsTested(M, at, i, j) /\ FunctionErrors(M, i, Data) = {}
    <2>1. /\ i \in Nat /\ \A f \in DOMAIN M.functions : f \in Nat
          /\ \A f \in DOMAIN M.functions : \A k \in DOMAIN M.functions[f].body : k \in Nat \ {0}
      BY <1>1, ModuleShape DEF IInv
    <2>2. /\ PrototypeTested(M, at, i, i, 1) <=> FunctionErrors(M, i, Data) = {}
          /\ PrototypeTested(M, at, i, i, 0)
      BY <1>1, <1>2, <2>1 DEF PrototypeTested
    <2>3. \A f \in DOMAIN M.functions :
            f # i => (PrototypeTested(M, at, f, i, 1) <=> PrototypeTested(M, at, f, i, 0))
      BY <1>1, <2>1 DEF PrototypeTested
    <2>4. \A f \in DOMAIN M.functions : \A k \in DOMAIN M.functions[f].body :
            InstructionTested(M, at, f, k, i, 1) <=> InstructionTested(M, at, f, k, i, 0)
      BY <1>1, <2>1 DEF InstructionTested
    <2> QED
      BY <1>1, <2>2, <2>3, <2>4 DEF FunctionsTested
  <1>4. ModuleTested(M, at) /\ NodesTested(M, at, i) /\ GlobalsTested(M, at, i)
        <=> ModuleTested(M, at') /\ NodesTested(M, at', i') /\ GlobalsTested(M, at', i')
    BY <1>1
  <1>5. EL' = {} <=> Tested(M, at', i', j')
    BY <1>1, <1>3, <1>4 DEF IInv, Tested
  <1>6. TypeOK'
    BY <1>1 DEF IInv, TypeOK, Done, KernelNodes
  <1>7. out' = "none"
    BY <1>1 DEF IInv, TypeOK, Done
  <1> QED
    BY <1>1, <1>5, <1>6, <1>7, WalkStep

LEMMA InstructionKeeps == ASSUME IInv, VerifyInstruction PROVE IInv'
  <1> DEFINE E == InstructionErrors(M, M.functions[i].body[j], Data)
  <1>1. /\ at = "functions" /\ at' = at /\ i' = i /\ i \in DOMAIN M.functions
        /\ j \in DOMAIN M.functions[i].body /\ j' = j + 1
        /\ UNCHANGED <<M, Data, FoundMap, out>> /\ EL' = EL \cup E
    BY DEF VerifyInstruction
  <1>2. E = InstructionErrors(M, M.functions[i].body[j], Declared(M))
    BY <1>1, FlagsLookedAt DEF IInv
  <1> HIDE DEF E
  <1>3. FunctionsTested(M, at, i, j + 1) <=> FunctionsTested(M, at, i, j) /\ E = {}
    <2>1. /\ i \in Nat /\ j \in Nat \ {0} /\ \A f \in DOMAIN M.functions : f \in Nat
          /\ \A f \in DOMAIN M.functions : \A k \in DOMAIN M.functions[f].body : k \in Nat
      BY <1>1, ModuleShape DEF IInv
    <2>2. /\ InstructionTested(M, at, i, j, i, j + 1) <=> E = {}
          /\ InstructionTested(M, at, i, j, i, j)
      BY <1>1, <1>2, <2>1 DEF InstructionTested
    <2>3. \A f \in DOMAIN M.functions : \A k \in DOMAIN M.functions[f].body :
            f # i \/ k # j => (InstructionTested(M, at, f, k, i, j + 1) <=> InstructionTested(M, at, f, k, i, j))
      BY <1>1, <2>1 DEF InstructionTested
    <2>4. \A f \in DOMAIN M.functions :
            PrototypeTested(M, at, f, i, j + 1) <=> PrototypeTested(M, at, f, i, j)
      BY <1>1, <2>1 DEF PrototypeTested
    <2> QED
      BY <1>1, <2>2, <2>3, <2>4 DEF FunctionsTested
  <1>4. ModuleTested(M, at) /\ NodesTested(M, at, i) /\ GlobalsTested(M, at, i)
        <=> ModuleTested(M, at') /\ NodesTested(M, at', i') /\ GlobalsTested(M, at', i')
    BY <1>1
  <1>5. EL' = {} <=> Tested(M, at', i', j')
    BY <1>1, <1>3, <1>4 DEF IInv, Tested
  <1>6. TypeOK'
    BY <1>1 DEF IInv, TypeOK, Done, KernelNodes
  <1>7. out' = "none"
    BY <1>1 DEF IInv, TypeOK, Done
  <1> QED
    BY <1>1, <1>5, <1>6, <1>7, WalkStep

LEMMA NextFunctionKeeps == ASSUME IInv, NextFunction PROVE IInv'
  <1>1. /\ at = "functions" /\ UNCHANGED <<M, Data, FoundMap, EL, out>>
        /\ i \in DOMAIN M.functions =>
             j > Len(M.functions[i].body) /\ i' = i + 1 /\ j' = 0 /\ at' = at
        /\ i \notin DOMAIN M.functions => at' = "globals" /\ i' = 1 /\ j' = 0
    BY DEF NextFunction, Goto
  <1>2. /\ i \in Nat /\ i >= 1 /\ j \in Nat /\ i <= Len(M.functions) + 1
        /\ DOMAIN M.functions = 1..Len(M.functions) /\ Len(M.functions) \in Nat
        /\ \A f \in DOMAIN M.functions : DOMAIN M.functions[f].body = 1..Len(M.functions[f].body)
                                          /\ Len(M.functions[f].body) \in Nat
        /\ DOMAIN M.globals = 1..Len(M.globals) /\ Len(M.globals) \in Nat
    BY <1>1, ModuleShape DEF IInv, TypeOK
  <1>3. FunctionsTested(M, at', i', 0) <=> FunctionsTested(M, at, i, j)
    <2>1. CASE i \in DOMAIN M.functions
      <3>1. \A f \in DOMAIN M.functions :
              PrototypeTested(M, at, f, i + 1, 0) <=> PrototypeTested(M, at, f, i, j)
        BY <1>1, <1>2, <2>1 DEF PrototypeTested
      <3>2. \A f \in DOMAIN M.functions : \A k \in DOMAIN M.functions[f].body :
              InstructionTested(M, at, f, k, i + 1, 0) <=> InstructionTested(M, at, f, k, i, j)
        BY <1>1, <1>2, <2>1 DEF InstructionTested
      <3> QED
        BY <1>1, <2>1, <3>1, <3>2 DEF FunctionsTested
    <2>2. CASE i \notin DOMAIN M.functions
      <3>1. \A f \in DOMAIN M.functions : f < i
        BY <1>2, <2>2
      <3>2. \A f \in DOMAIN M.functions :
              PrototypeTested(M, "globals", f, 1, 0) <=> PrototypeTested(M, at, f, i, j)
        BY <1>1, <3>1 DEF PrototypeTested
      <3>3. \A f \in DOMAIN M.functions : \A k \in DOMAIN M.functions[f].body :
              InstructionTested(M, "globals", f, k, 1, 0) <=> InstructionTested(M, at, f, k, i, j)
        BY <1>1, <3>1 DEF InstructionTested
      <3> QED
        BY <1>1, <2>2, <3>2, <3>3 DEF FunctionsTested
    <2> QED
      BY <2>1, <2>2
  <1>4. at' \in {"functions", "globals"} /\ j' = 0
    BY <1>1
  <1>5. ModuleTested(M, at') <=> ModuleTested(M, at)
    BY <1>1, <1>4 DEF ModuleTested
  <1>6. NodesTested(M, at', i') <=> NodesTested(M, at, i)
    BY <1>1, <1>4, OtherTests
  <1>7. GlobalsTested(M, at, i) /\ GlobalsTested(M, at', i')
    BY <1>1, <1>2 DEF GlobalsTested
  <1>8. EL' = {} <=> Tested(M, at', i', j')
    BY <1>1, <1>3, <1>4, <1>5, <1>6, <1>7 DEF IInv, Tested
  <1>9. TypeOK'
    BY <1>1, <1>2 DEF IInv, TypeOK, Done, Stages, KernelNodes
  <1>10. DataAt(M, at') = DataAt(M, at)
    BY <1>1, <1>4 DEF DataAt
  <1>11. out' = "none"
    BY <1>1 DEF IInv, TypeOK, Done
  <1> QED
    BY <1>1, <1>4, <1>8, <1>9, <1>10, <1>11, WalkStep

LEMMA GlobalKeeps == ASSUME IInv, VerifyGlobalVariable PROVE IInv'
  <1>1. /\ at = "globals" /\ at' = at /\ i \in DOMAIN M.globals /\ i' = i + 1 /\ j' = j
        /\ UNCHANGED <<M, Data, FoundMap, out>> /\ EL' = EL \cup GlobalErrors(M.globals[i])
    BY DEF VerifyGlobalVariable
  <1>2. DOMAIN M.globals = 1..Len(M.globals) /\ Len(M.globals) \in Nat /\ i \in Nat /\ j \in Nat
    BY ModuleShape DEF IInv, TypeOK
  <1>3. GlobalsTested(M, at, i + 1) <=> GlobalsTested(M, at, i) /\ GlobalErrors(M.globals[i]) = {}
    <2>1. \A g \in DOMAIN M.globals : g < i + 1 <=> g < i \/ g = i
      BY <1>2
    <2>2. \A n : GlobalsTested(M, at, n) <=>
            \A g \in DOMAIN M.globals : g < n => GlobalErrors(M.globals[g]) = {}
      BY <1>1 DEF GlobalsTested
    <2> QED
      BY <1>1, <2>1, <2>2
  <1>4. /\ NodesTested(M, at, i + 1) <=> NodesTested(M, at, i)
        /\ FunctionsTested(M, at, i + 1, j) <=> FunctionsTested(M, at, i, j)
    BY <1>1 DEF NodesTested, FunctionsTested, PrototypeTested, InstructionTested
  <1>5. EL' = {} <=> Tested(M, at', i', j')
    BY <1>1, <1>3, <1>4 DEF IInv, Tested
  <1>6. TypeOK'
    BY <1>1, <1>2 DEF IInv, TypeOK, Done, KernelNodes
  <1>7. out' = "none"
    BY <1>1 DEF IInv, TypeOK, Done
  <1> QED
    BY <1>1, <1>5, <1>6, <1>7, WalkStep

LEMMA ReportKeeps == ASSUME IInv, Report PROVE IInv'
  <1>1. /\ at = "globals" /\ at' = "reported" /\ i \notin DOMAIN M.globals /\ i' = 1 /\ j' = 0
        /\ UNCHANGED <<M, Data, FoundMap, EL>> /\ out' = IF EL = {} THEN "valid" ELSE "invalid"
    BY DEF Report, Goto
  <1>2. \A g \in DOMAIN M.globals : g < i
    BY <1>1, ModuleShape DEF IInv, TypeOK
  <1>3. GlobalsTested(M, "reported", 1) <=> GlobalsTested(M, at, i)
    BY <1>1, <1>2 DEF GlobalsTested
  <1>4. /\ NodesTested(M, "reported", 1) <=> NodesTested(M, at, i)
        /\ FunctionsTested(M, "reported", 1, 0) <=> FunctionsTested(M, at, i, j)
        /\ ModuleTested(M, "reported") <=> ModuleTested(M, at)
    BY <1>1 DEF NodesTested, FunctionsTested, PrototypeTested, InstructionTested, ModuleTested
  <1>5. EL' = {} <=> Tested(M, at', i', j')
    BY <1>1, <1>3, <1>4 DEF IInv, Tested
  <1>6. TypeOK'
    BY <1>1 DEF IInv, TypeOK, Done, Stages, KernelNodes
  <1>7. DataAt(M, at') = DataAt(M, at)
    BY <1>1 DEF DataAt
  <1> QED
    BY <1>1, <1>5, <1>6, <1>7, WalkStep

LEMMA NextKeeps == IInv /\ [Next]_vars => IInv'
  <1> SUFFICES ASSUME IInv, [Next]_vars PROVE IInv'
    OBVIOUS
  <1>1. CASE UNCHANGED vars
    BY <1>1 DEF vars, IInv, TypeOK, Done, KernelNodes, FoundSoFar
  <1>2. CASE \E p \in {<<"ocl", "spir">>, <<"spir", "core">>} : VerifyMetadataVersions(p[1], p[2])
    BY <1>2, VersionKeeps
  <1> QED
    BY <1>1, <1>2, TripleKeeps, KernelsKeeps, KernelKeeps, CoreFeaturesKeep, ExtensionsKeep, OptionsKeep,
       FunctionKeeps, InstructionKeeps, NextFunctionKeeps, GlobalKeeps, ReportKeeps DEF Next

\* The invariant of a run: the flags are those of the place in the order, and the errors
\* are absent exactly when every test made so far passed.
THEOREM Invariance == Spec => []IInv
  BY InitEstablishes, NextKeeps, PTL DEF Spec

\* Every position the verifier reaches is inside the list it walks.
THEOREM VerifierType == Spec => []TypeOK
  <1>1. IInv => TypeOK
    BY DEF IInv
  <1> QED
    BY <1>1, Invariance, PTL

\* The functions are judged by the flags the whole metadata declares, the kernels'
\* arguments by the pointer size of the triple.  (the order of SpirValidation.cpp)
THEOREM FlagsAreFinal == Spec => []FlagsReadFinal
  <1>1. IInv => FlagsReadFinal
    BY FlagsLookedAt DEF IInv, FlagsReadFinal
  <1> QED
    BY <1>1, Invariance, PTL

\* The verdict is the conjunction of all tests: of the module's metadata, of every kernel
\* node, prototype, instruction and global variable, none of them passed over.
VerdictOfAllTests == Done => (out = "valid" <=> Tested(M, "reported", 1, 0))

THEOREM VerdictCovers == Spec => []VerdictOfAllTests
  <1>1. IInv => VerdictOfAllTests
    <2> SUFFICES ASSUME IInv, Done PROVE out = "valid" <=> Tested(M, "reported", 1, 0)
      BY DEF VerdictOfAllTests
    <2>1. at = "reported" /\ out \in {"valid", "invalid"}
      BY DEF IInv, TypeOK, Done
    <2>2. Tested(M, "reported", i, j) <=> Tested(M, "reported", 1, 0)
      BY DEF Tested, NodesTested, FunctionsTested, PrototypeTested, InstructionTested, GlobalsTested
    <2> QED
      BY <2>1, <2>2 DEF IInv
  <1> QED
    BY <1>1, Invariance, PTL

-----------------------------------------------------------------------------
\* As many nodes as kernels, each naming a kernel and none the kernel of another, name
\* every kernel once.
LEMMA PigeonHole ==
    ASSUME NEW n \in Nat, NEW K, IsFiniteSet(K), Cardinality(K) = n,
           NEW g \in [1..n -> K], \A k, l \in 1..n : k # l => g[k] # g[l],
           NEW x \in K
    PROVE  \E k \in 1..n : g[k] = x
  <1>1. Cardinality(1..n) = n
    BY FS_Interval
  <1>2. g \in Injection(1..n, K)
    BY DEF Injection, IsInjective
  <1>3. g \in Surjection(1..n, K)
    BY <1>1, <1>2, FS_Injection
  <1> QED
    BY <1>3 DEF Surjection

\* A module called valid has exactly one node in opencl.kernels for each of its kernels,
\* and no node for anything else.  (VerifyMetadataKernels, VerifyMetadataKernel)
THEOREM KernelsCorrespond == Spec => []KernelsMatched
  <1>1. IInv => KernelsMatched
    <2> SUFFICES ASSUME IInv, out = "valid" PROVE Rules!KernelRule(M)
      BY DEF KernelsMatched
    <2>1. at = "reported" /\ Tested(M, at, i, j)
      BY DEF IInv, TypeOK, Done
    <2>2. "kernels" \in DOMAIN M.md /\ Cardinality(Kernels(M)) = Len(Nodes(M))
      BY <2>1 DEF Tested, ModuleTested, CountsDiffer, Nodes
    <2>3. \A k \in DOMAIN Nodes(M) : GoodNode(M, k)
      BY <2>1, <2>2 DEF Tested, NodesTested
    <2> DEFINE n == Len(Nodes(M))
               g == [k \in 1..n |-> Nodes(M)[k].fn]
    <2>4. /\ DOMAIN Nodes(M) = 1..n /\ n \in Nat
          /\ DOMAIN M.functions = 1..Len(M.functions) /\ Len(M.functions) \in Nat
          /\ \A k \in 1..n : Nodes(M)[k].fn \in 0..Len(M.functions)
      BY <2>2, ModuleShape DEF IInv
    <2>5. IsFiniteSet(Kernels(M))
      <3>1. Kernels(M) \subseteq 1..Len(M.functions)
        BY <2>4 DEF Kernels
      <3>2. IsFiniteSet(1..Len(M.functions))
        BY <2>4, FS_Interval
      <3> QED
        BY <3>1, <3>2, FS_Subset
    <2>6. g \in [1..n -> Kernels(M)]
      BY <2>3, <2>4 DEF GoodNode, Kernels
    <2>7. \A k, l \in 1..n : k # l => g[k] # g[l]
      BY <2>3, <2>4 DEF GoodNode
    <2>8. \A k \in DOMAIN Nodes(M) : Rules!IsKernel(M, Nodes(M)[k].fn)
      BY <2>4, <2>6 DEF Rules!IsKernel, Kernels
    <2>9. ASSUME NEW f \in DOMAIN M.functions, Rules!IsKernel(M, f)
          PROVE  \E k \in DOMAIN Nodes(M) : \A l \in DOMAIN Nodes(M) : (Nodes(M)[l].fn = f) <=> (l = k)
      <3>1. f \in Kernels(M)
        BY <2>9 DEF Rules!IsKernel, Kernels
      <3>2. Cardinality(Kernels(M)) = n /\ n \in Nat
        BY <2>2, <2>4
      <3> HIDE DEF n, g
      <3>3. \E k \in 1..n : g[k] = f
        BY <2>5, <2>6, <2>7, <3>1, <3>2, PigeonHole
      <3>4. PICK k \in 1..n : g[k] = f
        BY <3>3
      <3>5. \A l \in 1..n : Nodes(M)[l].fn = g[l]
        BY DEF n, g
      <3>6. \A l \in 1..n : (Nodes(M)[l].fn = f) <=> (l = k)
        BY <2>7, <3>4, <3>5
      <3>7. k \in DOMAIN Nodes(M) /\ \A l \in DOMAIN Nodes(M) : (Nodes(M)[l].fn = f) <=> (l = k)
        BY <2>4, <3>6
      <3> USE <3>7
      <3> WITNESS k \in DOMAIN Nodes(M)
      <3> QED
        BY <3>7
    <2> QED
      BY <2>2, <2>8, <2>9 DEF Rules!KernelRule, Nodes
  <1> QED
    BY <1>1, Invariance, PTL

-----------------------------------------------------------------------------
\* Among the nodes visited so far, one whose function another names too is marked, and
\* so is one that names none; FoundMap holds, for a function, a node that names it.
Visited(k) == at \notin {"triple", "kernels"} /\ (at = "kernel" => k < i)
Marked(N, E) == [t |-> "ERR_INVALID_METADATA_KERNEL", x |-> <<"node", N>>] \in E

RepeatsSoFar ==
    "kernels" \in DOMAIN M.md /\ Kernels(M) # {} =>
        /\ at = "kernel" =>
             \A f \in DOMAIN FoundMap :
                 \E k \in 1..(i - 1) : Nodes(M)[k].fn = f /\ FoundMap[f] = Nodes(M)[k]
        /\ \A k \in DOMAIN Nodes(M) : Visited(k) /\ Nodes(M)[k].fn = 0 => Marked(Nodes(M)[k], EL)
        /\ \A k, l \in DOMAIN Nodes(M) :
             Visited(k) /\ Visited(l) /\ k # l /\ Nodes(M)[k].fn = Nodes(M)[l].fn => Marked(Nodes(M)[k], EL)

LEMMA RepeatsOnVisit == ASSUME IInv, RepeatsSoFar, VerifyMetadataKernel PROVE RepeatsSoFar'
  <1> DEFINE P(k) == Nodes(M)[k]
             seen(f) == \E k \in 1..(i - 1) : P(k).fn = f /\ FoundMap[f] = P(k)
  <1>1. /\ at = "kernel" /\ M' = M /\ EL \subseteq EL' /\ i \in DOMAIN Nodes(M) /\ i \in Nat \ {0}
        /\ DOMAIN Nodes(M) = 1..Len(Nodes(M)) /\ Len(Nodes(M)) \in Nat
        /\ DOMAIN FoundMap = {P(k).fn : k \in 1..(i - 1)} \ {0}
        /\ i < Len(Nodes(M)) => at' = "kernel" /\ i' = i + 1
        /\ ~(i < Len(Nodes(M))) => at' = "ocl"
    BY ModuleShape DEF VerifyMetadataKernel, Goto, IInv, TypeOK, FoundSoFar, KernelNodes, Nodes
  <1>2. /\ P(i).fn = 0 => Marked(P(i), EL') /\ FoundMap' = FoundMap
        /\ P(i).fn # 0 => FoundMap' = [f \in DOMAIN FoundMap \cup {P(i).fn} |->
                                         IF f = P(i).fn THEN P(i) ELSE FoundMap[f]]
        /\ P(i).fn # 0 /\ P(i).fn \in DOMAIN FoundMap =>
             Marked(P(i), EL') /\ Marked(FoundMap[P(i).fn], EL')
    BY DEF VerifyMetadataKernel, RepeatErrors, Marked, BadNode, addError, Nodes, KernelNodes
  <1> SUFFICES ASSUME "kernels" \in DOMAIN M.md, Kernels(M) # {} PROVE RepeatsSoFar'
    BY <1>1 DEF RepeatsSoFar, Kernels
  <1>3. \A f \in DOMAIN FoundMap : seen(f)
    BY <1>1 DEF RepeatsSoFar
  <1>4. \A k \in 1..(i - 1) : P(k).fn = 0 => Marked(P(k), EL')
    BY <1>1 DEF RepeatsSoFar, Visited, Marked
  <1>5. \A k, l \in 1..(i - 1) : k # l /\ P(k).fn = P(l).fn => Marked(P(k), EL')
    <2>1. \A k \in 1..(i - 1) : k \in DOMAIN Nodes(M) /\ Visited(k)
      BY <1>1 DEF Visited
    <2>2. \A N : Marked(N, EL) => Marked(N, EL')
      BY <1>1 DEF Marked
    <2> QED
      BY <2>1, <2>2 DEF RepeatsSoFar
  <1> HIDE DEF P
  <1>6. \A k \in 1..(i - 1) : P(k).fn = P(i).fn => Marked(P(k), EL') /\ Marked(P(i), EL')
    <2> SUFFICES ASSUME NEW k \in 1..(i - 1), P(k).fn = P(i).fn
                 PROVE  Marked(P(k), EL') /\ Marked(P(i), EL')
      OBVIOUS
    <2>1. CASE P(i).fn = 0
      BY <1>2, <1>4, <2>1
    <2>2. CASE P(i).fn # 0
      <3>1. P(i).fn \in DOMAIN FoundMap
        BY <1>1, <2>2
      <3>2. PICK l \in 1..(i - 1) : P(l).fn = P(i).fn /\ FoundMap[P(i).fn] = P(l)
        BY <1>3, <3>1
      <3>3. Marked(P(i), EL') /\ Marked(P(l), EL')
        BY <1>2, <2>2, <3>1, <3>2
      <3> QED
        BY <1>5, <3>2, <3>3
    <2> QED
      BY <2>1, <2>2
  <1>7. \A f \in DOMAIN FoundMap' : \E k \in 1..i : P(k).fn = f /\ FoundMap'[f] = P(k)
    <2> SUFFICES ASSUME NEW f \in DOMAIN FoundMap'
                 PROVE  \E k \in 1..i : P(k).fn = f /\ FoundMap'[f] = P(k)
      OBVIOUS
    <2>1. CASE P(i).fn # 0 /\ f = P(i).fn
      BY <1>1, <1>2, <2>1
    <2>2. CASE ~(P(i).fn # 0 /\ f = P(i).fn)
      <3>1. f \in DOMAIN FoundMap /\ FoundMap'[f] = FoundMap[f]
        BY <1>2, <2>2
      <3>2. PICK k \in 1..(i - 1) : P(k).fn = f /\ FoundMap[f] = P(k)
        BY <1>3, <3>1
      <3> QED
        BY <1>1, <3>1, <3>2
    <2> QED
      BY <2>1, <2>2
  <1>8. \A k \in 1..i : P(k).fn = 0 => Marked(P(k), EL')
    BY <1>1, <1>2, <1>4
  <1>9. \A k, l \in 1..i : k # l /\ P(k).fn = P(l).fn => Marked(P(k), EL')
    <2> SUFFICES ASSUME NEW k \in 1..i, NEW l \in 1..i, k # l, P(k).fn = P(l).fn
                 PROVE  Marked(P(k), EL')
      OBVIOUS
    <2>1. k \in 1..(i - 1) \/ k = i
      BY <1>1
    <2>2. l \in 1..(i - 1) \/ l = i
      BY <1>1
    <2> QED
      BY <1>5, <1>6, <2>1, <2>2
  <1>10. \A k \in DOMAIN Nodes(M) : Visited(k)' => k \in 1..i
    BY <1>1 DEF Visited
  <1>11. at' = "kernel" => i' - 1 = i
    BY <1>1
  <1>12. Nodes(M)' = Nodes(M) /\ Kernels(M)' = Kernels(M) /\ (\A k : P(k) = Nodes(M)[k])
    BY <1>1 DEF Nodes, P, Kernels
  <1> QED
    BY <1>1, <1>7, <1>8, <1>9, <1>10, <1>11, <1>12 DEF RepeatsSoFar

LEMMA RepeatsKept == IInv /\ RepeatsSoFar /\ [Next]_vars => RepeatsSoFar'
  <1> SUFFICES ASSUME IInv, RepeatsSoFar, [Next]_vars PROVE RepeatsSoFar'
    OBVIOUS
  <1>1. CASE UNCHANGED vars
    BY <1>1 DEF vars, RepeatsSoFar, Visited, Marked, Nodes, Kernels
  <1>2. CASE VerifyTripleAndDataLayout
    BY <1>2 DEF VerifyTripleAndDataLayout, Goto, RepeatsSoFar, Visited
  <1>3. CASE VerifyMetadataKernels
    <2>1. /\ at = "kernels" /\ M' = M /\ i' = 1 /\ FoundMap' = FoundMap /\ DOMAIN FoundMap = {}
          /\ "kernels" \in DOMAIN M.md => at' = IF NothingToVisit(M) THEN "ocl" ELSE "kernel"
      BY <1>3 DEF VerifyMetadataKernels, Goto, IInv, FoundSoFar
    <2>2. "kernels" \in DOMAIN M.md => DOMAIN Nodes(M) = 1..Len(Nodes(M)) /\ Len(Nodes(M)) \in Nat
      BY ModuleShape DEF IInv
    <2>3. "kernels" \in DOMAIN M.md /\ Kernels(M) # {} => \A k \in DOMAIN Nodes(M) : ~Visited(k)'
      BY <2>1, <2>2 DEF Visited, NothingToVisit, Nodes
    <2>4. Nodes(M)' = Nodes(M) /\ Kernels(M)' = Kernels(M)
      BY <2>1 DEF Nodes, Kernels
    <2> QED
      BY <2>1, <2>3, <2>4 DEF RepeatsSoFar
  <1>4. CASE VerifyMetadataKernel
    BY <1>4, RepeatsOnVisit
  <1>5. ASSUME M' = M, EL \subseteq EL', at \notin {"triple", "kernels", "kernel"},
               at' \notin {"triple", "kernels", "kernel"}
        PROVE  RepeatsSoFar'
    BY <1>5 DEF RepeatsSoFar, Visited, Marked, Nodes, Kernels
  <1>6. CASE \/ VerifyMetadataVersions("ocl", "spir") \/ VerifyMetadataVersions("spir", "core")
             \/ VerifyMetadataCoreFeatures \/ VerifyMetadataKHRExtensions \/ VerifyMetadataCompilerOptions
    BY <1>5, <1>6 DEF VerifyMetadataVersions, VerifyMetadataCoreFeatures, VerifyMetadataKHRExtensions,
       VerifyMetadataCompilerOptions, Goto
  <1>7. CASE VerifyFunction \/ VerifyInstruction \/ NextFunction \/ VerifyGlobalVariable \/ Report
    BY <1>5, <1>7 DEF VerifyFunction, VerifyInstruction, NextFunction, VerifyGlobalVariable, Report, Goto
  <1> QED
    BY <1>1, <1>2, <1>3, <1>4, <1>6, <1>7 DEF Next

\* When several nodes of opencl.kernels name one function, or none, every one of them is in
\* the errors, the ones before the repetition was met too.  (VerifyMetadataKernel, FoundMap)
THEOREM RepeatsReported == Spec => []RepeatedNodesMarked
  <1>1. Init => RepeatsSoFar
    BY DEF Init, RepeatsSoFar, Visited
  <1>2. RepeatsSoFar => RepeatedNodesMarked
    BY DEF RepeatsSoFar, RepeatedNodesMarked, Visited, Marked, Nodes, KernelNodes
  <1> QED
    BY <1>1, <1>2, RepeatsKept, Invariance, PTL DEF Spec
-------------------------------------------------------------------------------
\* The tests and the rules

-----------------------------------------------------------------------------
\* Types

LEMMA SequenceShape ==
    ASSUME NEW s, IsSeq(s)
    PROVE  DOMAIN s = 1..Len(s) /\ Len(s) \in Nat /\ s \in Seq(ToSet(s))
  BY DEF IsSeq

OuterFlags(boolVec) == [bool |-> TRUE, opaque |-> TRUE, boolVec |-> boolVec, pointer |-> FALSE]
FlagSet == [bool : BOOLEAN, opaque : BOOLEAN, boolVec : BOOLEAN, pointer : BOOLEAN]

LEMMA InsideFlags ==
    ASSUME NEW w, NEW flags \in FlagSet
    PROVE  /\ Inside(w, flags) \in FlagSet
           /\ Inside(w, flags).boolVec = flags.boolVec
           /\ Inside(w, flags).pointer <=> w = "*" \/ flags.pointer
           /\ Inside(w, flags).opaque <=> w = "*"
           /\ Inside(w, flags).bool <=> w = "*" \/ (flags.boolVec /\ w \in VectorElementsNum /\ flags.bool)
  <1>1. CASE w = "*"
    <2>1. Inside(w, flags) = [flags EXCEPT !.bool = TRUE, !.opaque = TRUE, !.pointer = TRUE]
      BY <1>1 DEF Inside, VectorElementsNum
    <2> QED
      BY <1>1, <2>1 DEF FlagSet
  <1>2. CASE w \in VectorElementsNum
    <2>1. w # "*"
      BY <1>2 DEF VectorElementsNum
    <2>2. Inside(w, flags) = [flags EXCEPT !.bool = @ /\ flags.boolVec, !.opaque = FALSE]
      BY <1>2, <2>1 DEF Inside
    <2> QED
      BY <1>2, <2>1, <2>2 DEF FlagSet
  <1>3. CASE w # "*" /\ w \notin VectorElementsNum
    <2>1. Inside(w, flags) = [flags EXCEPT !.bool = FALSE, !.opaque = FALSE]
      BY <1>3 DEF Inside
    <2> QED
      BY <1>3, <2>1 DEF FlagSet
  <1> QED
    BY <1>1, <1>2, <1>3

\* The descent is defined: the flags at a depth are what the constructor entered there
\* makes of those around it.
LEMMA FlagsStep ==
    ASSUME NEW c, IsSeq(c), c # <<>>, NEW boolVec \in BOOLEAN
    PROVE  LET F == FlagsAt(c, boolVec)
           IN  /\ F[0] = OuterFlags(boolVec)
               /\ \A k \in 1..(Len(c) - 1) : F[k] = Inside(c[Len(c) + 1 - k], F[k - 1])
  <1> DEFINE n == Len(c) - 1
             base == OuterFlags(boolVec)
             step == [k \in 1..n |-> [x \in FlagSet |-> Inside(c[Len(c) + 1 - k], x)]]
             Rec(f) == f = [k \in 0..n |-> IF k = 0 THEN base ELSE Inside(c[Len(c) + 1 - k], f[k - 1])]
  <1>1. n \in Nat
    BY DEF IsSeq
  <1>2. step \in [1..n -> [FlagSet -> FlagSet]] /\ base \in FlagSet
    <2>1. base \in FlagSet
      BY DEF OuterFlags, FlagSet
    <2> QED
      BY <2>1, InsideFlags
  <1>3. \E f : Rec(f)
    <2> HIDE DEF step, n, base
    <2>1. PICK f : Iterates(f, step, n, FlagSet, base)
      BY <1>1, <1>2, RecursionDefines DEF Steps
    <2>2. \A k \in 1..n : f[k] = Inside(c[Len(c) + 1 - k], f[k - 1])
      <3> SUFFICES ASSUME NEW k \in 1..n PROVE f[k] = Inside(c[Len(c) + 1 - k], f[k - 1])
        OBVIOUS
      <3>1. f[k] = step[k][f[k - 1]] /\ f[k - 1] \in FlagSet
        BY <2>1, <1>1 DEF Iterates
      <3> QED
        BY <3>1 DEF step
    <2>3. Rec(f)
      BY <2>1, <2>2, <1>1 DEF Iterates
    <2> QED
      BY <2>3
  <1>4. FlagsAt(c, boolVec) = CHOOSE f : Rec(f)
    BY DEF FlagsAt, OuterFlags
  <1>5. Rec(FlagsAt(c, boolVec))
    <2> HIDE DEF Rec
    <2> QED
      BY <1>3, <1>4
  <1> HIDE DEF base
  <1> QED
    BY <1>1, <1>5 DEF base

\* What is at k lets a bool through, inside the k outermost constructors of c.
Admits(c, boolVec, k) == boolVec /\ c[k] \in VectorElementsNum
Allows(c, boolVec, from) ==
    \A k \in from..Len(c) : Admits(c, boolVec, k) \/ \E l \in from..k : c[l] = "*"

FlagsMeaning(c, boolVec, from, flags) ==
    /\ flags \in FlagSet
    /\ flags.boolVec = boolVec
    /\ flags.pointer <=> \E k \in from..Len(c) : c[k] = "*"
    /\ flags.opaque <=> from = Len(c) + 1 \/ c[from] = "*"
    /\ flags.bool <=> Allows(c, boolVec, from)

LEMMA FlagsMean ==
    ASSUME NEW c, IsSeq(c), c # <<>>, NEW boolVec \in BOOLEAN
    PROVE  FlagsMeaning(c, boolVec, 2, FlagsAt(c, boolVec)[Len(c) - 1])
  <1> DEFINE F == FlagsAt(c, boolVec)
             n == Len(c)
             S == {k \in Nat : k <= n - 1 => FlagsMeaning(c, boolVec, n + 1 - k, F[k])}
  <1>1. n \in Nat \ {0}
    BY DEF IsSeq
  <1>2. F[0] = OuterFlags(boolVec) /\ \A k \in 1..(n - 1) : F[k] = Inside(c[n + 1 - k], F[k - 1])
    BY FlagsStep
  <1> HIDE DEF F, n
  <1>3. 0 \in S
    <2>1. FlagsMeaning(c, boolVec, n + 1, OuterFlags(boolVec))
      BY <1>1 DEF FlagsMeaning, OuterFlags, FlagSet, Allows, n
    <2> QED
      BY <1>1, <1>2, <2>1
  <1>4. ASSUME NEW k \in Nat, k \in S PROVE k + 1 \in S
    <2> SUFFICES ASSUME k + 1 <= n - 1 PROVE FlagsMeaning(c, boolVec, n - k, F[k + 1])
      BY <1>1
    <2> DEFINE q == n - k
               w == c[q]
    <2>1. q \in 2..n /\ q \in Nat /\ n + 1 - k = q + 1
      BY <1>1
    <2>2. F[k + 1] = Inside(w, F[k])
      BY <1>1, <1>2
    <2>3. FlagsMeaning(c, boolVec, q + 1, F[k])
      BY <1>1, <1>4
    <2> HIDE DEF q, w
    <2>4. \A l \in q..n : l = q \/ l \in (q + 1)..n
      BY <1>1, <2>1
    <2>5. Allows(c, boolVec, q) <=> w = "*" \/ (Admits(c, boolVec, q) /\ Allows(c, boolVec, q + 1))
      <3>1. CASE w = "*"
        <4>1. \A l \in q..n : q \in q..l
          BY <1>1, <2>1
        <4> QED
          BY <3>1, <4>1 DEF Allows, n, w
      <3>2. CASE w # "*"
        <4>1. \A l \in (q + 1)..n : (\E p \in q..l : c[p] = "*") <=> (\E p \in (q + 1)..l : c[p] = "*")
          BY <1>1, <2>1, <3>2 DEF w
        <4>2. ~(\E p \in q..q : c[p] = "*")
          BY <2>1, <3>2 DEF w
        <4>3. Allows(c, boolVec, q) <=> Admits(c, boolVec, q) /\ \A l \in (q + 1)..n :
                 Admits(c, boolVec, l) \/ \E p \in q..l : c[p] = "*"
          BY <1>1, <2>1, <2>4, <4>2 DEF Allows, n
        <4> QED
          BY <3>2, <4>1, <4>3 DEF Allows, n
      <3> QED
        BY <3>1, <3>2
    <2>6. (\E l \in q..n : c[l] = "*") <=> w = "*" \/ \E l \in (q + 1)..n : c[l] = "*"
      BY <1>1, <2>1, <2>4 DEF w
    <2>7. F[k] \in FlagSet /\ F[k].boolVec = boolVec
      BY <2>3 DEF FlagsMeaning
    <2>8. /\ F[k + 1] \in FlagSet /\ F[k + 1].boolVec = boolVec
          /\ F[k + 1].pointer <=> w = "*" \/ F[k].pointer
          /\ F[k + 1].opaque <=> w = "*"
          /\ F[k + 1].bool <=> w = "*" \/ (boolVec /\ w \in VectorElementsNum /\ F[k].bool)
      BY <2>2, <2>7, InsideFlags
    <2>9. q # n + 1
      BY <1>1, <2>1
    <2> QED
      BY <2>3, <2>5, <2>6, <2>8, <2>9 DEF FlagsMeaning, Admits, n, q, w
  <1> HIDE DEF S
  <1>5. n - 1 \in S
    BY <1>1, <1>3, <1>4, NatSetInduction
  <1> QED
    BY <1>1, <1>5 DEF S, n, F

LEMMA TailElements ==
    ASSUME NEW c, IsSeq(c), c # <<>>
    PROVE  /\ \A X : ToSet(Tail(c)) \subseteq X <=> \A k \in 2..Len(c) : c[k] \in X
           /\ \A x : Contains(Tail(c), x) <=> \E k \in 2..Len(c) : c[k] = x
  <1>1. /\ Len(Tail(c)) = Len(c) - 1 /\ DOMAIN Tail(c) = 1..(Len(c) - 1)
        /\ \A k \in 1..(Len(c) - 1) : Tail(c)[k] = c[k + 1]
        /\ Len(c) \in Nat
    BY DEF IsSeq
  <1>2. \A k \in 2..Len(c) : k - 1 \in 1..(Len(c) - 1) /\ Tail(c)[k - 1] = c[k]
    BY <1>1
  <1>3. ASSUME NEW X PROVE ToSet(Tail(c)) \subseteq X <=> \A k \in 2..Len(c) : c[k] \in X
    <2>1. \A k \in 2..Len(c) : c[k] \in ToSet(Tail(c))
      BY <1>1, <1>2 DEF ToSet
    <2>2. \A x \in ToSet(Tail(c)) : \E k \in 2..Len(c) : x = c[k]
      <3>1. \A l \in 1..(Len(c) - 1) : l + 1 \in 2..Len(c) /\ Tail(c)[l] = c[l + 1]
        BY <1>1
      <3> QED
        BY <1>1, <3>1 DEF ToSet
    <2> QED
      BY <2>1, <2>2
  <1>4. ASSUME NEW x PROVE Contains(Tail(c), x) <=> \E k \in 2..Len(c) : c[k] = x
    BY <1>1, <1>2 DEF Contains
  <1> QED
    BY <1>3, <1>4

\* SpirRules is an instance, with its own copy of the tables and the library operators.
LEMMA SameTables ==
    /\ \A s : Rules!ToSet(s) = ToSet(s)
    /\ \A s, x : Rules!Contains(s, x) <=> Contains(s, x)
    /\ Rules!Lengths = VectorElementsNum
    /\ Rules!ScalarTypes = VectorElements \cup {"double", "half"}
    /\ Rules!OpenCLOpaque = isValidOCLOpaqueType
    /\ Rules!OtherOpaque = OtherOpaque
    /\ Rules!g_valid_llvm_image_types = g_valid_llvm_image_types
    /\ Rules!g_valid_core_feature = g_valid_core_feature
    /\ Rules!g_valid_khr_ext = g_valid_khr_ext
    /\ Rules!g_valid_compiler_options = g_valid_compiler_options
  <1>1. /\ \A s : Rules!ToSet(s) = ToSet(s)
        /\ \A s, x : Rules!Contains(s, x) <=> Contains(s, x)
    BY DEF Rules!ToSet, ToSet, Rules!Contains, Contains
  <1>2. Rules!Lengths = VectorElementsNum /\ Rules!ScalarTypes = VectorElements \cup {"double", "half"}
    BY DEF Rules!Lengths, Rules!g_valid_vector_type_lengths, VectorElementsNum, Rules!ScalarTypes, VectorElements
  <1>3. /\ Rules!OpenCLOpaque = isValidOCLOpaqueType /\ Rules!OtherOpaque = OtherOpaque
        /\ Rules!g_valid_llvm_image_types = g_valid_llvm_image_types
    BY DEF Rules!OpenCLOpaque, isValidOCLOpaqueType, Rules!OtherOpaque, OtherOpaque,
       Rules!g_valid_llvm_opaque_types, g_valid_llvm_opaque_types, Rules!g_valid_llvm_image_types, g_valid_llvm_image_types
  <1>4. /\ Rules!g_valid_core_feature = g_valid_core_feature
        /\ Rules!g_valid_khr_ext = g_valid_khr_ext
        /\ Rules!g_valid_compiler_options = g_valid_compiler_options
    BY DEF Rules!g_valid_core_feature, g_valid_core_feature, Rules!g_valid_khr_ext, g_valid_khr_ext,
       Rules!g_valid_compiler_options, g_valid_compiler_options
  <1> QED
    BY <1>1, <1>2, <1>3, <1>4

\* The flag that HasDoubleFeature is, either list setting it.
DoubleFlag(m) == Rules!Lists(m, "core", "cl_doubles") \/ Rules!Lists(m, "khr", "cl_khr_fp16")

LEMMA DeclaredMeans ==
    ASSUME NEW m \in Modules
    PROVE  /\ Declared(m).HasDoubleFeature <=> DoubleFlag(m)
           /\ ~Declared(m).HASFp16Extension
           /\ \A name, s : name \in {"core", "khr"} => (Listed(m, name, s) <=> Rules!Lists(m, name, s))
  <1>1. ASSUME NEW name \in {"core", "khr"}, NEW s PROVE Listed(m, name, s) <=> Rules!Lists(m, name, s)
    <2>1. CASE OneEntry(m, name)
      <3>1. IsSeq(m.md[name]) /\ Len(m.md[name]) = 1 /\ name \in DOMAIN m.md \ {"kernels"}
        BY <2>1, ModulesAssumption DEF OneEntry, MetadataShape
      <3>2. m.md[name][1] \in ToSet(m.md[name])
        BY <3>1, SequenceShape DEF ToSet
      <3>3. IsSeq(m.md[name][1])
        BY <3>1, <3>2, ModulesAssumption DEF MetadataShape
      <3>4. DOMAIN m.md[name][1] = 1..Len(m.md[name][1])
        BY <3>3, SequenceShape
      <3>5. Names(m, name) = m.md[name][1]
        BY <2>1 DEF Names
      <3>6. Listed(m, name, s) <=> \E k \in DOMAIN m.md[name][1] : m.md[name][1][k] = s
        BY <3>5 DEF Listed
      <3>7. Rules!Lists(m, name, s) <=> Contains(m.md[name][1], s)
        BY <3>1, SameTables DEF Rules!Lists
      <3> QED
        BY <3>4, <3>6, <3>7 DEF Contains
    <2>2. CASE ~OneEntry(m, name)
      BY <2>2 DEF Listed, Names, OneEntry, Rules!Lists
    <2> QED
      BY <2>1, <2>2
  <1> QED
    BY <1>1 DEF Declared, DoubleFlag

\* What isValidType asks of one leaf of a type and the constructors around it, and what
\* SpirRules asks.
Chain(c) == \A k \in 2..Len(c) : c[k] \in Wrappers \cup VectorElementsNum
BehindPointer(c) == \E k \in 2..Len(c) : c[k] = "*"
PlainLeaf(c, compares) ==
    /\ c[1] \in {"i1", "void", "metadata"} => Allows(c, compares, 2)
    /\ c[1] \in AnyOpaque => Len(c) = 1 \/ c[2] = "*"
    /\ c[1] \in VectorElements \cup AnyOpaque \cup {"double", "half", "i1", "void", "metadata"}

LeafPasses(m, c, compares) ==
    /\ Chain(c) /\ PlainLeaf(c, compares)
    /\ c[1] = "double" => DoubleFlag(m)
    /\ c[1] = "half" => BehindPointer(c)

LeafFits(m, c, compares) ==
    /\ Chain(c) /\ PlainLeaf(c, compares)
    /\ c[1] = "double" => Rules!Lists(m, "core", "cl_doubles")
    /\ c[1] = "half" => BehindPointer(c) \/ Rules!Lists(m, "khr", "cl_khr_fp16")
    /\ c[1] \in g_valid_llvm_image_types => Rules!Lists(m, "core", "cl_images")

TypePasses(m, t, compares) == \A c \in t : LeafPasses(m, c, compares)

LEMMA FitIsOfLeaves ==
    ASSUME NEW m, NEW t, TypeShape(t), NEW b \in BOOLEAN
    PROVE  Rules!Fit(m, t, b) <=> \A c \in t : LeafFits(m, c, b)
  <1>1. ASSUME NEW c \in t
        PROVE  /\ ToSet(Tail(c)) \subseteq {"*", "[]", "{}"} \cup VectorElementsNum <=> Chain(c)
               /\ Contains(Tail(c), "*") <=> BehindPointer(c)
    <2>1. IsSeq(c) /\ c # <<>>
      BY DEF TypeShape
    <2>2. {"*", "[]", "{}"} = Wrappers
      BY DEF Wrappers
    <2> HIDE DEF Wrappers, VectorElementsNum
    <2> QED
      BY <2>1, <2>2, TailElements DEF Chain, BehindPointer
  <1>2. Rules!Fit(m, t, b) <=>
          \A c \in t :
            /\ ToSet(Tail(c)) \subseteq {"*", "[]", "{}"} \cup VectorElementsNum
            /\ c[1] = "double" => Rules!Lists(m, "core", "cl_doubles")
            /\ c[1] = "half" => Contains(Tail(c), "*") \/ Rules!Lists(m, "khr", "cl_khr_fp16")
            /\ c[1] \in g_valid_llvm_image_types => Rules!Lists(m, "core", "cl_images")
            /\ PlainLeaf(c, b)
    <2>1. ASSUME NEW c
          PROVE  PlainLeaf(c, b) <=>
                   /\ c[1] \in {"i1", "void", "metadata"} => Allows(c, b, 2)
                   /\ c[1] \in isValidOCLOpaqueType \cup OtherOpaque => Len(c) = 1 \/ c[2] = "*"
                   /\ c[1] \in VectorElements \cup {"double", "half"} \cup isValidOCLOpaqueType \cup OtherOpaque
                                 \cup {"i1", "void", "metadata"}
      BY DEF PlainLeaf, AnyOpaque
    <2> QED
      BY <2>1, SameTables DEF Rules!Fit, Allows, Admits
  <1> QED
    BY <1>1, <1>2, Zenon DEF LeafFits

LEMMA LeafIsTested ==
    ASSUME NEW m \in Modules, NEW c, IsSeq(c), c # <<>>, NEW b \in BOOLEAN
    PROVE  isValidLeaf(c, Declared(m), b) <=> LeafPasses(m, c, b)
  <1> DEFINE flags == FlagsAt(c, b)[Len(c) - 1]
             x == c[1]
             D == Declared(m)
  <1>1. /\ flags.pointer <=> BehindPointer(c)
        /\ flags.opaque <=> Len(c) = 1 \/ c[2] = "*"
        /\ flags.bool <=> Allows(c, b, 2)
    <2>1. Len(c) \in Nat
      BY SequenceShape
    <2>2. FlagsMeaning(c, b, 2, flags)
      BY FlagsMean
    <2> HIDE DEF flags
    <2>3. flags.pointer <=> BehindPointer(c)
      BY <2>2 DEF FlagsMeaning, BehindPointer
    <2>4. flags.opaque <=> Len(c) = 1 \/ c[2] = "*"
      <3>1. flags.opaque <=> 2 = Len(c) + 1 \/ c[2] = "*"
        BY <2>2 DEF FlagsMeaning
      <3>2. \A n \in Nat : 2 = n + 1 <=> n = 1
        OBVIOUS
      <3> QED
        BY <2>1, <3>1, <3>2
    <2>5. flags.bool <=> Allows(c, b, 2)
      BY <2>2 DEF FlagsMeaning
    <2> QED
      BY <2>3, <2>4, <2>5
  <1>2. D.HasDoubleFeature <=> DoubleFlag(m)
    BY DeclaredMeans
  <1>3. ~D.HASFp16Extension
    BY DeclaredMeans
  <1> HIDE DEF flags, D
  <1>4. isValidLeaf(c, D, b) <=>
          /\ Chain(c)
          /\ IF x \in AnyOpaque THEN flags.opaque
             ELSE \/ flags.bool /\ isValidPrimitiveType(x, D, flags.pointer)
                  \/ isValidVectorElementType(x, D, flags.pointer)
    BY DEF isValidLeaf, Chain, flags
  <1>5. isValidVectorElementType(x, D, flags.pointer) <=>
          \/ x = "double" /\ DoubleFlag(m)
          \/ x = "half" /\ BehindPointer(c)
          \/ x \in VectorElements
    BY <1>1, <1>2, <1>3 DEF isValidVectorElementType
  <1>6. isValidPrimitiveType(x, D, flags.pointer) <=>
          isValidVectorElementType(x, D, flags.pointer) \/ x \in {"i1", "void", "metadata"}
    BY DEF isValidPrimitiveType
  <1>7. AnyOpaque \cap (VectorElements \cup {"double", "half", "i1", "void", "metadata"}) = {}
    BY DEF AnyOpaque, VectorElements, isValidOCLOpaqueType, OtherOpaque, g_valid_llvm_opaque_types,
       g_valid_llvm_image_types
  <1>8. VectorElements \cap {"double", "half", "i1", "void", "metadata"} = {}
    BY DEF VectorElements
  <1>9. x \in AnyOpaque => (isValidLeaf(c, D, b) <=> LeafPasses(m, c, b))
    BY <1>1, <1>4, <1>7 DEF LeafPasses, PlainLeaf
  <1>10. x \notin AnyOpaque => (isValidLeaf(c, D, b) <=> LeafPasses(m, c, b))
    BY <1>1, <1>4, <1>5, <1>6, <1>8 DEF LeafPasses, PlainLeaf
  <1> QED
    BY <1>9, <1>10 DEF D

\* isValidType, with the flags the metadata declares.
LEMMA TypeIsTested ==
    ASSUME NEW m \in Modules, NEW t, TypeShape(t), NEW b \in BOOLEAN
    PROVE  isValidType(t, Declared(m), b) <=> TypePasses(m, t, b)
  BY LeafIsTested DEF isValidType, TypePasses, TypeShape

\* A type that a function or an instruction of the module has.
HasType(m, t) ==
    \E F \in ToSet(m.functions) :
        t = F.ret \/ (\E p \in ToSet(F.params) : t = p.ty) \/ (\E I \in ToSet(F.body) : t = I.ty)

\* Where the module does none of what SpirRules names, a type of it is fit if it passes, and
\* passes if it is fit.
LEMMA TypeDocumented ==
    ASSUME NEW m, NEW t, TypeShape(t), HasType(m, t), NEW b \in BOOLEAN
    PROVE  /\ TypePasses(m, t, b) /\ ~Rules!LenientCode(m) => Rules!Fit(m, t, b)
           /\ Rules!Fit(m, t, b) /\ ~Rules!Harsh(m) => TypePasses(m, t, b)
  <1>1. \A c \in t : c[1] \in Rules!Leaves(m)
    <2>1. t \in Rules!TypesOf(m)
      <3>1. PICK F \in ToSet(m.functions) :
              t = F.ret \/ (\E p \in ToSet(F.params) : t = p.ty) \/ (\E I \in ToSet(F.body) : t = I.ty)
        BY DEF HasType
      <3>2. t \in {F.ret} \cup {p.ty : p \in ToSet(F.params)} \cup {I.ty : I \in ToSet(F.body)}
        BY <3>1
      <3> QED
        BY <3>2, SameTables DEF Rules!TypesOf
    <2> QED
      BY <2>1 DEF Rules!Leaves
  <1>2. ASSUME ~Rules!LenientCode(m), NEW c \in t, LeafPasses(m, c, b) PROVE LeafFits(m, c, b)
    <2>1. c[1] \in g_valid_llvm_image_types => Rules!Lists(m, "core", "cl_images")
      BY <1>1, <1>2, SameTables DEF Rules!LenientCode, Rules!ImagesUndeclared
    <2>2. c[1] = "double" => Rules!Lists(m, "core", "cl_doubles")
      BY <1>1, <1>2 DEF Rules!LenientCode, Rules!DoublesByHalf, LeafPasses, DoubleFlag
    <2> QED
      BY <1>2, <2>1, <2>2 DEF LeafPasses, LeafFits
  <1>3. ASSUME ~Rules!Harsh(m), NEW c \in t, LeafFits(m, c, b) PROVE LeafPasses(m, c, b)
    BY <1>1, <1>3 DEF Rules!Harsh, Rules!HalvesRefused, LeafPasses, LeafFits, DoubleFlag
  <1> QED
    BY <1>2, <1>3, FitIsOfLeaves DEF TypePasses

-----------------------------------------------------------------------------
\* The module's own metadata

LEMMA NoErrorIf == ASSUME NEW c, NEW t, NEW x PROVE ErrorIf(c, t, x) = {} <=> ~c
  BY DEF ErrorIf, addError

LEMMA NoMissing == ASSUME NEW name PROVE Missing(name) # {}
  BY DEF Missing, addError

LEMMA TripleAsRule == ASSUME NEW m \in Modules PROVE TripleErrors(m) = {} <=> Rules!TripleRule(m)
  <1>1. m.triple \in {0, 32, 64} /\ m.layout \in {0, 32, 64}
    BY ModulesAssumption
  <1>2. TripleErrors(m) = {} <=> m.triple # 0 /\ m.layout # 0 /\ {m.triple, m.layout} # {32, 64}
    BY DEF TripleErrors, ErrorIf, addError
  <1> QED
    BY <1>1, <1>2 DEF Rules!TripleRule

\* A list of lists with one entry has a list there.
LEMMA OnlyEntry ==
    ASSUME NEW m \in Modules, NEW name, name \in DOMAIN m.md, name # "kernels", Len(m.md[name]) = 1
    PROVE  IsSeq(m.md[name][1]) /\ Names(m, name) = m.md[name][1] /\ OneEntry(m, name)
  <1>1. IsSeq(m.md[name])
    BY ModulesAssumption DEF MetadataShape
  <1>2. m.md[name][1] \in ToSet(m.md[name])
    BY <1>1, SequenceShape DEF ToSet
  <1> QED
    BY <1>2, ModulesAssumption DEF MetadataShape, Names, OneEntry

VersionPasses(m, name) ==
    /\ name \in DOMAIN m.md /\ Len(m.md[name]) = 1
    /\ LET v == m.md[name][1]
       IN  Len(v) = 2 /\ v[1] # NotConst /\ v[2] # NotConst /\ Unsigned32(v[1]) = 1 /\ Unsigned32(v[2]) = 2

LEMMA VersionIsTested ==
    ASSUME NEW m \in Modules, NEW name
    PROVE  VersionErrors(m, name) = {} <=> VersionPasses(m, name)
  <1>1. CASE name \notin DOMAIN m.md
    BY <1>1, NoMissing DEF VersionErrors, VersionPasses
  <1>2. CASE name \in DOMAIN m.md
    <2>1. VersionErrors(m, name) = {} <=> ~BadVersion(m.md[name])
      BY <1>2, NoErrorIf DEF VersionErrors
    <2> QED
      BY <1>2, <2>1 DEF BadVersion, VersionPasses
  <1> QED
    BY <1>1, <1>2

\* A number within unsigned int is kept, and one that is kept is no marker.
LEMMA Kept ==
    /\ \A n \in Numbers : n # NotConst => n \in Nat
    /\ \A n \in Nat : ~Rules!Wide(n) => Unsigned32(n) = n
    /\ \A n \in 0..4 : Unsigned32(n) = n /\ n # NotConst
  <1>1. \A n \in Numbers : n # NotConst => n \in Nat
    BY DEF Numbers
  <1>2. ASSUME NEW n \in Nat, n < UIntRange PROVE n % UIntRange = n
    BY <1>2, WidthAssumption
  <1>3. \A n \in Nat : ~Rules!Wide(n) => Unsigned32(n) = n
    BY <1>2, WidthAssumption DEF Rules!Wide, Unsigned32
  <1>4. \A n \in 0..4 : Unsigned32(n) = n /\ n # NotConst
    BY <1>2, WidthAssumption DEF Unsigned32, NotConst
  <1> QED
    BY <1>1, <1>3, <1>4

OneVersion(m, name) == name \in DOMAIN m.md /\ m.md[name] = <<<<1, 2>>>>

LEMMA VersionDocumented ==
    ASSUME NEW m \in Modules, NEW name \in {"ocl", "spir"}
    PROVE  /\ VersionPasses(m, name) /\ ~Rules!WideVersions(m) => OneVersion(m, name)
           /\ OneVersion(m, name) => VersionPasses(m, name)
  <1>1. ASSUME VersionPasses(m, name), ~Rules!WideVersions(m) PROVE OneVersion(m, name)
    <2> DEFINE nodes == m.md[name]
               v == nodes[1]
    <2>1. name \in DOMAIN m.md /\ Len(nodes) = 1
      BY <1>1 DEF VersionPasses
    <2>2. IsSeq(nodes)
      BY <2>1, ModulesAssumption DEF MetadataShape
    <2>3. IsSeq(v) /\ v \in ToSet(nodes)
      BY <2>1, <2>2, OnlyEntry, SequenceShape DEF ToSet
    <2>4. ToSet(v) \subseteq Numbers
      <3>1. name \in DOMAIN m.md \cap {"ocl", "spir"}
        BY <2>1
      <3> HIDE DEF v
      <3> QED
        BY <2>3, <3>1, ModulesAssumption DEF MetadataShape
    <2>5. \A n \in ToSet(v) : ~Rules!Wide(n)
      <3>1. ~Rules!WideVersions(m)
        BY <1>1
      <3>2. name \in {"ocl", "spir"} \cap DOMAIN m.md
        BY <2>1
      <3> HIDE DEF v
      <3> QED
        BY <2>3, <3>1, <3>2, SameTables DEF Rules!WideVersions
    <2>6. Len(v) = 2 /\ v[1] # NotConst /\ v[2] # NotConst /\ Unsigned32(v[1]) = 1 /\ Unsigned32(v[2]) = 2
      BY <1>1 DEF VersionPasses
    <2> HIDE DEF v
    <2>7. v[1] \in ToSet(v) /\ v[2] \in ToSet(v)
      <3>1. DOMAIN v = 1..2
        BY <2>3, <2>6, SequenceShape
      <3> QED
        BY <3>1 DEF ToSet
    <2>8. v[1] = 1 /\ v[2] = 2
      BY <2>4, <2>5, <2>6, <2>7, Kept
    <2>9. v = <<1, 2>>
      <3>1. v \in Seq(ToSet(v))
        BY <2>3 DEF IsSeq
      <3>2. v = <<v[1], v[2]>>
        BY <2>6, <3>1
      <3> QED
        BY <2>8, <3>2
    <2>10. nodes = <<v>>
      <3>1. nodes \in Seq(ToSet(nodes))
        BY <2>2 DEF IsSeq
      <3> HIDE DEF nodes
      <3> QED
        BY <2>1, <3>1 DEF v
    <2> QED
      BY <2>1, <2>9, <2>10 DEF OneVersion
  <1>2. ASSUME OneVersion(m, name) PROVE VersionPasses(m, name)
    <2>1. name \in DOMAIN m.md /\ m.md[name] = <<<<1, 2>>>>
      BY <1>2 DEF OneVersion
    <2>2. Len(m.md[name]) = 1 /\ m.md[name][1] = <<1, 2>>
      BY <2>1
    <2> QED
      BY <2>1, <2>2, Kept DEF VersionPasses
  <1> QED
    BY <1>1, <1>2

\* A sequence with no element twice is injective.
LEMMA NoneTwice ==
    ASSUME NEW s, IsSeq(s)
    PROVE  (\A k \in DOMAIN s : ~Twice(s, k)) <=> IsInjective(s)
  <1>1. DOMAIN s = 1..Len(s) /\ Len(s) \in Nat
    BY SequenceShape
  <1>2. ASSUME \A k \in 1..Len(s) : ~Twice(s, k), NEW k \in 1..Len(s), NEW l \in 1..Len(s), s[k] = s[l] PROVE k = l
    <2>1. CASE k < l
      BY <1>1, <1>2, <2>1 DEF Twice
    <2>2. CASE l < k
      BY <1>1, <1>2, <2>2 DEF Twice
    <2> QED
      BY <1>1, <2>1, <2>2
  <1>3. ASSUME IsInjective(s), NEW k \in 1..Len(s) PROVE ~Twice(s, k)
    BY <1>1, <1>3 DEF Twice, IsInjective
  <1> QED
    BY <1>1, <1>2, <1>3 DEF IsInjective

LEMMA ListsAsRule ==
    ASSUME NEW m \in Modules
    PROVE  CoreFeatureErrors(m, NewData) = {} /\ KHRExtensionErrors(m, NewData) = {} /\ CompilerOptionErrors(m) = {}
             <=> Rules!ListRule(m)
  <1>1. \A name, t : EntryErrors(m, name, t) = {} <=> name \in DOMAIN m.md /\ Len(m.md[name]) = 1
    BY NoErrorIf, NoMissing DEF EntryErrors
  <1>2. \A E, F : E \cup F = {} <=> E = {} /\ F = {}
    OBVIOUS
  <1>3. ASSUME NEW name \in {"core", "khr", "options"}, name \in DOMAIN m.md /\ Len(m.md[name]) = 1, NEW S
        PROVE  (\A k \in DOMAIN Names(m, name) : Names(m, name)[k] \in S) <=> ToSet(m.md[name][1]) \subseteq S
    BY <1>3, OnlyEntry DEF ToSet
  <1>4. CoreFeatureErrors(m, NewData) = {} <=>
          /\ "core" \in DOMAIN m.md /\ Len(m.md["core"]) = 1
          /\ ToSet(m.md["core"][1]) \subseteq g_valid_core_feature
          /\ IsInjective(m.md["core"][1])
    <2> DEFINE names == Names(m, "core")
               bad == \E k \in DOMAIN names : BadCoreFeature(names, NewData, k)
    <2>1. EntryErrors(m, "core", "ERR_INVALID_CORE_FEATURE") = {}
            <=> "core" \in DOMAIN m.md /\ Len(m.md["core"]) = 1
      BY <1>1
    <2>2. ErrorIf(bad, "ERR_INVALID_CORE_FEATURE", <<"core list">>) = {} <=> ~bad
      BY NoErrorIf
    <2>3. CoreFeatureErrors(m, NewData) = EntryErrors(m, "core", "ERR_INVALID_CORE_FEATURE") \cup ErrorIf(bad, "ERR_INVALID_CORE_FEATURE", <<"core list">>)
      BY DEF CoreFeatureErrors
    <2>4. bad <=> \E k \in DOMAIN names : names[k] \notin g_valid_core_feature \/ Twice(names, k)
      BY DEF BadCoreFeature, NewData
    <2>5. "core" \in DOMAIN m.md /\ Len(m.md["core"]) = 1 =>
            ((\A k \in DOMAIN names : ~Twice(names, k)) <=>
               IsInjective(m.md["core"][1]))
      BY OnlyEntry, NoneTwice
    <2> HIDE DEF bad, names
    <2>6. CoreFeatureErrors(m, NewData) = {} <=> "core" \in DOMAIN m.md /\ Len(m.md["core"]) = 1 /\ ~bad
      BY <2>1, <2>2, <2>3
    <2> QED
      BY <1>3, <2>4, <2>5, <2>6 DEF names
  <1>5. KHRExtensionErrors(m, NewData) = {} <=>
          /\ "khr" \in DOMAIN m.md /\ Len(m.md["khr"]) = 1
          /\ ToSet(m.md["khr"][1]) \subseteq g_valid_khr_ext
    <2> DEFINE names == Names(m, "khr")
               bad == \E k \in DOMAIN names :
                        \/ names[k] \notin g_valid_khr_ext
                        \/ names[k] = "cl_khr_fp16" /\ NewData.HASFp16Extension
    <2>1. EntryErrors(m, "khr", "ERR_INVALID_CORE_FEATURE") = {}
            <=> "khr" \in DOMAIN m.md /\ Len(m.md["khr"]) = 1
      BY <1>1
    <2>2. ErrorIf(bad, "ERR_INVALID_KHR_EXT", <<"khr list">>) = {} <=> ~bad
      BY NoErrorIf
    <2>3. KHRExtensionErrors(m, NewData) = EntryErrors(m, "khr", "ERR_INVALID_CORE_FEATURE") \cup ErrorIf(bad, "ERR_INVALID_KHR_EXT", <<"khr list">>)
      BY DEF KHRExtensionErrors
    <2>4. bad <=> \E k \in DOMAIN names : names[k] \notin g_valid_khr_ext
      BY DEF NewData
    <2> HIDE DEF bad, names
    <2>5. KHRExtensionErrors(m, NewData) = {} <=> "khr" \in DOMAIN m.md /\ Len(m.md["khr"]) = 1 /\ ~bad
      BY <2>1, <2>2, <2>3
    <2> QED
      BY <1>3, <2>4, <2>5 DEF names
  <1>6. CompilerOptionErrors(m) = {} <=>
          /\ "options" \in DOMAIN m.md /\ Len(m.md["options"]) = 1
          /\ ToSet(m.md["options"][1]) \subseteq g_valid_compiler_options
    <2> DEFINE names == Names(m, "options")
               bad == \E k \in DOMAIN names : names[k] \notin g_valid_compiler_options
    <2>1. EntryErrors(m, "options", "ERR_INVALID_COMPILER_OPTION") = {}
            <=> "options" \in DOMAIN m.md /\ Len(m.md["options"]) = 1
      BY <1>1
    <2>2. ErrorIf(bad, "ERR_INVALID_COMPILER_OPTION", <<"options list">>) = {} <=> ~bad
      BY NoErrorIf
    <2>3. CompilerOptionErrors(m) = EntryErrors(m, "options", "ERR_INVALID_COMPILER_OPTION") \cup ErrorIf(bad, "ERR_INVALID_COMPILER_OPTION", <<"options list">>)
      BY DEF CompilerOptionErrors
    <2>4. bad <=> \E k \in DOMAIN names : names[k] \notin g_valid_compiler_options
      OBVIOUS
    <2> HIDE DEF bad, names
    <2>5. CompilerOptionErrors(m) = {} <=> "options" \in DOMAIN m.md /\ Len(m.md["options"]) = 1 /\ ~bad
      BY <2>1, <2>2, <2>3
    <2> QED
      BY <1>3, <2>4, <2>5 DEF names
  <1>7. Rules!ListRule(m) <=>
          /\ \A name \in {"core", "khr", "options"} : name \in DOMAIN m.md /\ Len(m.md[name]) = 1
          /\ ToSet(m.md["core"][1]) \subseteq g_valid_core_feature
          /\ IsInjective(m.md["core"][1])
          /\ ToSet(m.md["khr"][1]) \subseteq g_valid_khr_ext
          /\ ToSet(m.md["options"][1]) \subseteq g_valid_compiler_options
    <2>1. /\ Rules!ToSet(m.md["core"][1]) = ToSet(m.md["core"][1])
          /\ Rules!ToSet(m.md["khr"][1]) = ToSet(m.md["khr"][1])
          /\ Rules!ToSet(m.md["options"][1]) = ToSet(m.md["options"][1])
      BY SameTables
    <2>2. Rules!IsInjective(m.md["core"][1]) <=> IsInjective(m.md["core"][1])
      BY DEF Rules!IsInjective, IsInjective
    <2>3. /\ Rules!g_valid_core_feature = g_valid_core_feature
          /\ Rules!g_valid_khr_ext = g_valid_khr_ext
          /\ Rules!g_valid_compiler_options = g_valid_compiler_options
      BY SameTables
    <2> QED
      BY <2>1, <2>2, <2>3, Zenon DEF Rules!ListRule
  <1> QED
    BY <1>4, <1>5, <1>6, <1>7

-----------------------------------------------------------------------------
\* Functions, instructions and global variables

\* What each executor tests, stated without the errors it makes (... is tested); where the
\* module does none of what SpirRules names that is what the documents ask (... documented).
LEMMA LinkageAsRule == \A x : x.linkage \in ValidLinkage <=> Rules!LinkageRule(x)
  BY DEF ValidLinkage, Rules!LinkageRule

LEMMA NoTypeErrors ==
    ASSUME NEW m \in Modules, NEW t, TypeShape(t), NEW b \in BOOLEAN, NEW x
    PROVE  TypeErrors(t, Declared(m), b, x) = {} <=> TypePasses(m, t, b)
  BY TypeIsTested, NoErrorIf DEF TypeErrors

\* The last constructors of a leaf, as the executors look at them and as the rule does.
LEMMA Outermost ==
    ASSUME NEW t, TypeShape(t)
    PROVE  /\ IsPointer(t) <=> \E c \in t : Rules!Last(c) = "*"
           /\ IsPointerToPointer(t) <=>
                \E c \in t : Len(c) > 2 /\ SubSeq(c, Len(c) - 1, Len(c)) = <<"*", "*">>
  <1>1. IsPointer(t) <=> \E c \in t : Rules!Last(c) = "*"
    BY DEF IsPointer, Rules!Last
  <1>2. ASSUME NEW c \in t, Len(c) > 2
        PROVE  SubSeq(c, Len(c) - 1, Len(c)) = <<"*", "*">> <=> c[Len(c)] = "*" /\ c[Len(c) - 1] = "*"
    <2>1. c \in Seq(ToSet(c)) /\ Len(c) \in Nat
      BY SequenceShape DEF TypeShape
    <2> DEFINE d == SubSeq(c, Len(c) - 1, Len(c))
    <2>2. Len(d) = 2 /\ d \in Seq(ToSet(c))
      BY <1>2, <2>1
    <2>3. d[1] = c[Len(c) - 1] /\ d[2] = c[Len(c)]
      BY <1>2, <2>1
    <2> HIDE DEF d
    <2>4. d = <<d[1], d[2]>>
      BY <2>2
    <2> QED
      BY <2>3, <2>4 DEF d
  <1> QED
    BY <1>1, <1>2 DEF IsPointerToPointer

PrototypePasses(m, F) ==
    /\ F.decl \/ F.cc \in {"SPIR_KERNEL", "SPIR_FUNC"}
    /\ Rules!LinkageRule(F)
    /\ TypePasses(m, F.ret, FALSE)
    /\ \A p \in ToSet(F.params) : TypePasses(m, p.ty, FALSE)

LEMMA PrototypeIsTested ==
    ASSUME NEW m \in Modules, NEW F \in ToSet(m.functions)
    PROVE  FunctionPrototypeErrors(F, Declared(m)) = {} <=> PrototypePasses(m, F)
  <1>1. TypeShape(F.ret) /\ \A p \in ToSet(F.params) : TypeShape(p.ty)
    BY ModulesAssumption DEF FunctionShape
  <1> DEFINE D == Declared(m)
             cc == ErrorIf(~F.decl /\ F.cc \notin ValidCC, "ERR_INVALID_CALLING_CONVENTION", <<"name", F.name>>)
             ofParam(p) == TypeErrors(p.ty, D, FALSE, <<"param", p, F.name>>)
             ps == UNION {ofParam(p) : p \in ToSet(F.params)}
             link == ErrorIf(F.linkage \notin ValidLinkage, "ERR_INVALID_LINKAGE_TYPE", <<"name", F.name>>)
             ret == TypeErrors(F.ret, D, FALSE, <<"ret", F.ret, F.name>>)
  <1>2. cc = {} <=> F.decl \/ F.cc \in {"SPIR_KERNEL", "SPIR_FUNC"}
    BY NoErrorIf DEF ValidCC
  <1>3. ps = {} <=> \A p \in ToSet(F.params) : TypePasses(m, p.ty, FALSE)
    <2>1. \A p \in ToSet(F.params) : ofParam(p) = {} <=> TypePasses(m, p.ty, FALSE)
      BY <1>1, NoTypeErrors
    <2>2. ps = {} <=> \A p \in ToSet(F.params) : ofParam(p) = {}
      <3> HIDE DEF ofParam
      <3> QED
        OBVIOUS
    <2> QED
      BY <2>1, <2>2
  <1>4. link = {} <=> Rules!LinkageRule(F)
    BY NoErrorIf, LinkageAsRule
  <1>5. ret = {} <=> TypePasses(m, F.ret, FALSE)
    BY <1>1, NoTypeErrors
  <1>6. FunctionPrototypeErrors(F, D) = cc \cup ps \cup link \cup ret
    BY DEF FunctionPrototypeErrors
  <1> HIDE DEF cc, ps, link, ret
  <1> QED
    BY <1>2, <1>3, <1>4, <1>5, <1>6 DEF PrototypePasses

KernelParamPasses(p) ==
    \A c \in p.ty : /\ Rules!Last(c) = "*" => p.as # 0
                    /\ Len(c) > 2 => SubSeq(c, Len(c) - 1, Len(c)) # <<"*", "*">>

KernelPrototypePasses(F) ==
    F.cc = "SPIR_KERNEL" => F.ret = {<<"void">>} /\ \A p \in ToSet(F.params) : KernelParamPasses(p)

LEMMA KernelPrototypeIsTested ==
    ASSUME NEW m \in Modules, NEW F \in ToSet(m.functions)
    PROVE  KernelPrototypeErrors(F) = {} <=> KernelPrototypePasses(F)
  <1>1. CASE F.cc # "SPIR_KERNEL"
    BY <1>1 DEF KernelPrototypeErrors, KernelPrototypePasses
  <1>2. CASE F.cc = "SPIR_KERNEL"
    <2>1. \A p \in ToSet(F.params) : TypeShape(p.ty)
      BY ModulesAssumption DEF FunctionShape
    <2>2. ASSUME NEW p \in ToSet(F.params)
          PROVE  KernelParamErrors(p, F) = {} <=> KernelParamPasses(p)
      <3>1. KernelParamErrors(p, F) = {} <=> ~IsPointerToPointer(p.ty) /\ ~(IsPointer(p.ty) /\ p.as = 0)
        BY DEF KernelParamErrors, ErrorIf, addError
      <3> QED
        BY <2>1, <3>1, Outermost DEF KernelParamPasses
    <2> DEFINE ps == UNION {KernelParamErrors(p, F) : p \in ToSet(F.params)}
               ret == ErrorIf(F.ret # {<<"void">>}, "ERR_INVALID_KERNEL_RETURN_TYPE", <<"ret", F.ret, F.name>>)
    <2>3. ps = {} <=> \A p \in ToSet(F.params) : KernelParamErrors(p, F) = {}
      OBVIOUS
    <2>4. ret = {} <=> F.ret = {<<"void">>}
      BY NoErrorIf
    <2>5. KernelPrototypeErrors(F) = ps \cup ret
      BY <1>2 DEF KernelPrototypeErrors
    <2> HIDE DEF ps, ret
    <2> QED
      BY <1>2, <2>2, <2>3, <2>4, <2>5 DEF KernelPrototypePasses
  <1> QED
    BY <1>1, <1>2

FunctionPasses(m, F) == PrototypePasses(m, F) /\ KernelPrototypePasses(F)

LEMMA FunctionIsTested ==
    ASSUME NEW m \in Modules, NEW f \in DOMAIN m.functions
    PROVE  FunctionErrors(m, f, Declared(m)) = {} <=> FunctionPasses(m, m.functions[f])
  <1> DEFINE F == m.functions[f]
  <1>1. F \in ToSet(m.functions)
    BY DEF ToSet
  <1> HIDE DEF F
  <1>2. FunctionErrors(m, f, Declared(m)) = FunctionPrototypeErrors(F, Declared(m)) \cup KernelPrototypeErrors(F)
    BY DEF FunctionErrors, F
  <1> QED
    BY <1>1, <1>2, PrototypeIsTested, KernelPrototypeIsTested DEF F, FunctionPasses

LEMMA FunctionDocumented ==
    ASSUME NEW m \in Modules, NEW F \in ToSet(m.functions)
    PROVE  /\ FunctionPasses(m, F) /\ ~Rules!LenientCode(m) => Rules!FunctionRule(m, F)
           /\ Rules!FunctionRule(m, F) /\ ~Rules!Harsh(m) => FunctionPasses(m, F)
  <1>1. /\ TypeShape(F.ret) /\ HasType(m, F.ret)
        /\ \A p \in ToSet(F.params) : TypeShape(p.ty) /\ HasType(m, p.ty) /\ p.as \in Nat
    BY ModulesAssumption DEF FunctionShape, HasType
  <1>2. Rules!ToSet(F.params) = ToSet(F.params) /\ Rules!ToSet(m.functions) = ToSet(m.functions)
    BY SameTables
  <1>3. Rules!FunctionRule(m, F) <=>
          /\ F.decl \/ F.cc \in {"SPIR_KERNEL", "SPIR_FUNC"}
          /\ Rules!LinkageRule(F)
          /\ Rules!Fit(m, F.ret, FALSE)
          /\ \A p \in ToSet(F.params) : Rules!Fit(m, p.ty, FALSE)
          /\ F.cc = "SPIR_KERNEL" => F.ret = {<<"void">>} /\ \A p \in ToSet(F.params) : Rules!KernelParamRule(p)
    BY <1>2 DEF Rules!FunctionRule
  <1>4. ASSUME ~Rules!LenientCode(m), F.cc = "SPIR_KERNEL", NEW p \in ToSet(F.params), KernelParamPasses(p)
        PROVE  Rules!KernelParamRule(p)
    <2>1. ~(p.as > 3)
      BY <1>2, <1>4 DEF Rules!LenientCode, Rules!FarArguments
    <2>2. p.as # 0 => p.as \in 1..3
      BY <1>1, <2>1
    <2> QED
      BY <1>4, <2>2 DEF KernelParamPasses, Rules!KernelParamRule
  <1>5. \A p \in ToSet(F.params) : Rules!KernelParamRule(p) => KernelParamPasses(p)
    BY DEF KernelParamPasses, Rules!KernelParamRule
  <1>6. ASSUME FunctionPasses(m, F), ~Rules!LenientCode(m) PROVE Rules!FunctionRule(m, F)
    BY <1>1, <1>3, <1>4, <1>6, TypeDocumented DEF FunctionPasses, PrototypePasses, KernelPrototypePasses
  <1>7. ASSUME Rules!FunctionRule(m, F), ~Rules!Harsh(m) PROVE FunctionPasses(m, F)
    BY <1>1, <1>3, <1>5, <1>7, TypeDocumented DEF FunctionPasses, PrototypePasses, KernelPrototypePasses
  <1> QED
    BY <1>6, <1>7

CastPasses(I) == Rules!SameSpace(I.cast) /\ \A o \in ToSet(I.operands) : Rules!SameSpace(o.cast)
CallPasses(m, I) ==
    /\ I.callee # 0
    /\ LET F == m.functions[I.callee]
       IN  /\ F.decl \/ I.cc \in {"SPIR_KERNEL", "SPIR_FUNC"}
           /\ F.builtin = "barrier" => Len(I.args) = 1 /\ isValidMemfence(I.args[1])
           /\ F.builtin # "llvm.other"
InstructionPasses(m, I) ==
    CastPasses(I) /\ (I.op = "call" => CallPasses(m, I)) /\ TypePasses(m, I.ty, I.op = "cmp")

LEMMA CallIsTested ==
    ASSUME NEW m \in Modules, NEW I
    PROVE  CallErrors(m, I) = {} <=> (I.op = "call" => CallPasses(m, I))
  <1>1. CASE I.op # "call"
    BY <1>1 DEF CallErrors
  <1>2. CASE I.op = "call" /\ I.callee = 0
    BY <1>2 DEF CallErrors, addError, CallPasses
  <1>3. CASE I.op = "call" /\ I.callee # 0
    <2> DEFINE F == m.functions[I.callee]
    <2>1. CallErrors(m, I) = {} <=>
            /\ ~(~F.decl /\ I.cc \notin ValidCC)
            /\ ~(F.builtin = "barrier" /\ Len(I.args) # 1)
            /\ ~(F.builtin = "barrier" /\ ~isValidMemfence(FirstOperand(I)))
            /\ F.builtin # "llvm.other"
      BY <1>3 DEF CallErrors, ErrorIf, addError
    <2>2. Len(I.args) = 1 => FirstOperand(I) = I.args[1]
      <3>1. Len(I.args) = 1 => I.args # <<>>
        OBVIOUS
      <3> QED
        BY <3>1 DEF FirstOperand
    <2> QED
      BY <1>3, <2>1, <2>2 DEF ValidCC, CallPasses
  <1> QED
    BY <1>1, <1>2, <1>3

LEMMA InstructionIsTested ==
    ASSUME NEW m \in Modules, NEW I, TypeShape(I.ty)
    PROVE  InstructionErrors(m, I, Declared(m)) = {} <=> InstructionPasses(m, I)
  <1> DEFINE types == TypeErrors(I.ty, Declared(m), I.op = "cmp", <<"inst type", I>>)
  <1>1. types = {} <=> TypePasses(m, I.ty, I.op = "cmp")
    BY NoTypeErrors
  <1>2. InstructionErrors(m, I, Declared(m)) = BitcastErrors(I) \cup CallErrors(m, I) \cup types
    BY DEF InstructionErrors
  <1>3. BitcastErrors(I) = {} <=> CastPasses(I)
    BY DEF BitcastErrors, ErrorIf, addError, isValidAddrSpaceCast, Rules!SameSpace, CastPasses
  <1> HIDE DEF types
  <1> QED
    BY <1>1, <1>2, <1>3, CallIsTested DEF InstructionPasses

LEMMA CallDocumented ==
    ASSUME NEW m \in Modules, NEW F \in ToSet(m.functions), NEW I \in ToSet(F.body)
    PROVE  /\ CallPasses(m, I) /\ ~Rules!LenientCode(m) => Rules!CallRule(m, I)
           /\ Rules!CallRule(m, I) => CallPasses(m, I)
  <1> DEFINE n == I.args[1]
  <1>1. Len(I.args) = 1 => n \in ToSet(I.args) /\ n \in Numbers
    <2>1. IsSeq(I.args) /\ ToSet(I.args) \subseteq Numbers
      BY ModulesAssumption DEF FunctionShape
    <2>2. DOMAIN I.args = 1..Len(I.args)
      BY <2>1, SequenceShape
    <2>3. Len(I.args) = 1 => n \in ToSet(I.args)
      BY <2>2 DEF ToSet
    <2> QED
      BY <2>1, <2>3
  <1>2. ~Rules!LenientCode(m) /\ Len(I.args) = 1 => ~Rules!Wide(n)
    <2> HIDE DEF n
    <2>1. ~Rules!LenientCode(m) => ~Rules!WideFences(m)
      BY DEF Rules!LenientCode
    <2>2. Rules!ToSet(m.functions) = ToSet(m.functions) /\ Rules!ToSet(F.body) = ToSet(F.body)
          /\ Rules!ToSet(I.args) = ToSet(I.args)
      BY SameTables
    <2> QED
      BY <1>1, <2>1, <2>2 DEF Rules!WideFences
  <1>3. Len(I.args) = 1 /\ ~Rules!LenientCode(m) /\ isValidMemfence(n) => n \in 1..3
    <2> HIDE DEF n
    <2> QED
      BY <1>1, <1>2, Kept DEF isValidMemfence
  <1>4. n \in 1..3 => isValidMemfence(n)
    <2> HIDE DEF n
    <2>1. n \in 1..3 => n \in 0..4
      OBVIOUS
    <2> QED
      BY <2>1, Kept DEF isValidMemfence
  <1> QED
    BY <1>3, <1>4 DEF CallPasses, Rules!CallRule

LEMMA InstructionDocumented ==
    ASSUME NEW m \in Modules, NEW F \in ToSet(m.functions), NEW I \in ToSet(F.body)
    PROVE  /\ InstructionPasses(m, I) /\ ~Rules!LenientCode(m) => Rules!InstructionRule(m, I)
           /\ Rules!InstructionRule(m, I) /\ ~Rules!Harsh(m) => InstructionPasses(m, I)
  <1>1. TypeShape(I.ty) /\ HasType(m, I.ty)
    BY ModulesAssumption DEF FunctionShape, HasType
  <1>2. /\ Rules!ToSet(m.functions) = ToSet(m.functions) /\ Rules!ToSet(F.body) = ToSet(F.body)
        /\ Rules!ToSet(I.operands) = ToSet(I.operands)
    BY SameTables
  <1>3. ~Rules!LenientCode(m) /\ CastPasses(I) => Rules!CastRule(I)
    BY <1>2 DEF Rules!LenientCode, Rules!CastsInside, CastPasses, Rules!CastRule
  <1>4. Rules!CastRule(I) => CastPasses(I)
    BY <1>2 DEF CastPasses, Rules!CastRule
  <1>5. /\ TypePasses(m, I.ty, I.op = "cmp") /\ ~Rules!LenientCode(m) => Rules!Fit(m, I.ty, I.op = "cmp")
        /\ Rules!Fit(m, I.ty, I.op = "cmp") /\ ~Rules!Harsh(m) => TypePasses(m, I.ty, I.op = "cmp")
    BY <1>1, TypeDocumented
  <1> QED
    BY <1>3, <1>4, <1>5, CallDocumented DEF InstructionPasses, Rules!InstructionRule

GlobalPasses(G) ==
    Rules!LinkageRule(G) /\ G.as \in {2, 3} /\ (G.as = 3 => ToSet(G.users) \ {0} \subseteq G.owners)

LEMMA GlobalIsTested == ASSUME NEW G PROVE GlobalErrors(G) = {} <=> GlobalPasses(G)
  <1> DEFINE link == ErrorIf(G.linkage \notin ValidLinkage, "ERR_INVALID_LINKAGE_TYPE", <<"global", G>>)
             users == ErrorIf(\E k \in DOMAIN G.users : G.users[k] \notin G.owners \cup {0},
                              "ERR_INVALID_GLOBAL_AS3_VAR", <<"global", G>>)
  <1>1. link = {} <=> Rules!LinkageRule(G)
    BY NoErrorIf, LinkageAsRule
  <1>2. users = {} <=> ToSet(G.users) \ {0} \subseteq G.owners
    <2>1. users = {} <=> \A k \in DOMAIN G.users : G.users[k] \in G.owners \cup {0}
      BY NoErrorIf
    <2> QED
      BY <2>1 DEF ToSet
  <1>3. GlobalErrors(G) = link \cup CASE G.as = 2 -> {}
                                   [] G.as = 3 -> users
                                   [] OTHER -> addError("ERR_INVALID_GLOBAL_VAR_ADDRESS_SPACE", <<"global", G>>)
    BY DEF GlobalErrors
  <1> HIDE DEF link, users
  <1>5. CASE G.as = 2
    BY <1>1, <1>3, <1>5 DEF GlobalPasses
  <1>6. CASE G.as = 3
    BY <1>1, <1>2, <1>3, <1>6 DEF GlobalPasses
  <1>7. CASE G.as \notin {2, 3}
    BY <1>3, <1>7 DEF addError, GlobalPasses
  <1> QED
    BY <1>5, <1>6, <1>7

LEMMA GlobalDocumented ==
    ASSUME NEW m, NEW G \in ToSet(m.globals)
    PROVE  /\ GlobalPasses(G) /\ ~Rules!StrayLocals(m) => Rules!GlobalRule(G)
           /\ Rules!GlobalRule(G) => GlobalPasses(G)
  <1>1. Rules!ToSet(m.globals) = ToSet(m.globals) /\ Rules!ToSet(G.users) = ToSet(G.users)
    BY SameTables
  <1>2. ASSUME GlobalPasses(G), ~Rules!StrayLocals(m), G.as = 3
        PROVE  \E f \in G.owners : ToSet(G.users) \ {0} \subseteq {f}
    <2>2. \E f \in G.owners : ToSet(G.users) \ {0} = {f}
      BY <1>1, <1>2 DEF Rules!StrayLocals
    <2> QED
      BY <2>2
  <1>3. Rules!GlobalRule(G) => GlobalPasses(G)
    BY <1>1 DEF Rules!GlobalRule, GlobalPasses
  <1> QED
    BY <1>1, <1>2, <1>3 DEF Rules!GlobalRule, GlobalPasses

-----------------------------------------------------------------------------
\* Kernels and their argument information

\* Kernels and nodes that correspond one to one are as many.  (KernelsCorrespond is the
\* converse.)
LEMMA KernelRuleTested ==
    ASSUME NEW m \in Modules, Rules!KernelRule(m)
    PROVE  /\ "kernels" \in DOMAIN m.md /\ ~CountsDiffer(m)
           /\ \A k \in DOMAIN Nodes(m) :
                /\ Nodes(m)[k].fn # 0
                /\ m.functions[Nodes(m)[k].fn].cc = "SPIR_KERNEL"
                /\ \A l \in 1..(k - 1) : Nodes(m)[l].fn # Nodes(m)[k].fn
  <1> DEFINE n == Len(Nodes(m))
             g == [k \in 1..n |-> Nodes(m)[k].fn]
             K == Kernels(m)
  <1>1. "kernels" \in DOMAIN m.md
    BY DEF Rules!KernelRule
  <1>2. /\ DOMAIN Nodes(m) = 1..n /\ n \in Nat
        /\ DOMAIN m.functions = 1..Len(m.functions) /\ Len(m.functions) \in Nat
    BY <1>1, ModuleShape
  <1>3. \A f : f \in K <=> Rules!IsKernel(m, f)
    BY DEF Kernels, Rules!IsKernel
  <1>4. \A k \in 1..n : Nodes(m)[k].fn \in K
    BY <1>2, <1>3 DEF Rules!KernelRule, Nodes
  <1>5. \A f \in K : \E k \in 1..n : \A l \in 1..n : Nodes(m)[l].fn = f <=> l = k
    <2>1. ASSUME NEW f \in K PROVE \E k \in 1..n : \A l \in 1..n : Nodes(m)[l].fn = f <=> l = k
      <3>1. f \in DOMAIN m.functions /\ Rules!IsKernel(m, f)
        BY <1>3, <2>1 DEF Kernels
      <3>2. \E k \in DOMAIN Nodes(m) : \A l \in DOMAIN Nodes(m) : Nodes(m)[l].fn = f <=> l = k
        BY <3>1 DEF Rules!KernelRule, Nodes
      <3> QED
        BY <1>2, <3>2
    <2> QED
      BY <2>1
  <1>6. \A k, l \in 1..n : Nodes(m)[k].fn = Nodes(m)[l].fn => k = l
    BY <1>4, <1>5
  <1> HIDE DEF n, K
  <1>7. g \in [1..n -> K] /\ \A k \in 1..n : g[k] = Nodes(m)[k].fn
    BY <1>4
  <1> HIDE DEF g
  <1>8. g \in Bijection(1..n, K)
    <2>1. g \in Injection(1..n, K)
      BY <1>6, <1>7 DEF Injection, IsInjective
    <2>2. \A f \in K : \E k \in 1..n : g[k] = f
      BY <1>5, <1>7
    <2>3. g \in Surjection(1..n, K)
      BY <1>7, <2>2 DEF Surjection
    <2> QED
      BY <2>1, <2>3 DEF Bijection
  <1>9. Cardinality(K) = n
    <2>1. ExistsBijection(1..n, K)
      BY <1>8 DEF ExistsBijection
    <2> QED
      BY <1>2, <2>1, FS_CountingElements
  <1>10. ~CountsDiffer(m)
    BY <1>9 DEF CountsDiffer, n, K, Nodes
  <1>11. ASSUME NEW k \in 1..n
         PROVE  /\ Nodes(m)[k].fn # 0
                /\ m.functions[Nodes(m)[k].fn].cc = "SPIR_KERNEL"
                /\ \A l \in 1..(k - 1) : Nodes(m)[l].fn # Nodes(m)[k].fn
    <2>1. Nodes(m)[k].fn \in DOMAIN m.functions /\ m.functions[Nodes(m)[k].fn].cc = "SPIR_KERNEL"
      BY <1>4 DEF Kernels, K
    <2>2. \A l \in 1..(k - 1) : l \in 1..n /\ l # k
      BY <1>2
    <2> QED
      BY <1>2, <1>6, <2>1, <2>2
  <1> QED
    BY <1>1, <1>2, <1>10, <1>11 DEF n

LEMMA FourSpaces == Cardinality(g_valid_address_space) = 4
  <1> DEFINE S == g_valid_address_space
  <1>1. S = {"private"} \cup {"global"} \cup {"constant"} \cup {"local"}
    BY DEF g_valid_address_space
  <1>2. IsFiniteSet({"private"}) /\ Cardinality({"private"}) = 1
    BY FS_Singleton
  <1>3. LET T == {"private"} \cup {"global"} IN IsFiniteSet(T) /\ Cardinality(T) = 2
    BY <1>2, FS_AddElement
  <1>4. LET T == {"private"} \cup {"global"} \cup {"constant"} IN IsFiniteSet(T) /\ Cardinality(T) = 3
    BY <1>3, FS_AddElement
  <1> QED
    BY <1>1, <1>4, FS_AddElement

-----------------------------------------------------------------------------
\* The names of the OpenCL C types, as the code reads them and as the documents have them

LEMMA SameNameTables ==
    /\ Rules!g_ignored_ocl_types = g_ignored_ocl_types
    /\ Rules!g_valid_ocl_opaque_types = g_valid_ocl_opaque_types
    /\ Rules!g_valid_ocl_vector_element_types = g_valid_ocl_vector_element_types
    /\ Rules!g_valid_ocl_primitives = g_valid_ocl_primitives
    /\ Rules!NotString = NotString
    /\ Rules!SizeTypes = PointerSized
    /\ Rules!Lengths = g_valid_vector_type_lengths
  <1>1. Rules!g_valid_ocl_vector_element_types = g_valid_ocl_vector_element_types
    BY DEF Rules!g_valid_ocl_vector_element_types, g_valid_ocl_vector_element_types
  <1>2. Rules!g_valid_ocl_primitives = g_valid_ocl_primitives
    BY <1>1 DEF Rules!g_valid_ocl_primitives, g_valid_ocl_primitives
  <1> QED
    BY <1>1, <1>2 DEF Rules!g_ignored_ocl_types, g_ignored_ocl_types, Rules!g_valid_ocl_opaque_types,
       g_valid_ocl_opaque_types, Rules!NotString, NotString, Rules!SizeTypes, PointerSized,
       Rules!Lengths, Rules!g_valid_vector_type_lengths, g_valid_vector_type_lengths

IsVector(s) ==
    s[1] \in g_valid_ocl_vector_element_types /\ Len(s) > 1 /\ s[2] \in g_valid_vector_type_lengths
Cut(s) == IF IsVector(s) THEN 2 ELSE 1
\* The words behind the known ones are stars and blanks up to a bracket.
Starred(s) ==
    \A k \in (Cut(s) + 1)..Len(s) : s[k] \in {"*", " "} \/ \E l \in 2..k : s[l] = "[]"

\* Remainder cuts the known words off.
LEMMA RemainderIs ==
    ASSUME NEW s, IsSeq(s), s # <<>>, s[1] \in g_valid_ocl_primitives
    PROVE  /\ DOMAIN Remainder(s) = 1..(Len(s) - Cut(s)) /\ Cut(s) <= Len(s) /\ Cut(s) \in 1..2
           /\ \A k \in 1..(Len(s) - Cut(s)) : Remainder(s)[k] = s[k + Cut(s)]
  <1>1. s \in Seq(ToSet(s)) /\ Len(s) \in Nat /\ Len(s) > 0
    BY SequenceShape DEF IsSeq
  <1>2. First(s) = s[1]
    BY DEF First
  <1>3. CASE IsVector(s)
    <2>1. Remainder(s) = SubSeq(s, 3, Len(s)) /\ Cut(s) = 2 /\ Len(s) > 1
      BY <1>2, <1>3 DEF Remainder, IsVector, Cut
    <2>2. Len(SubSeq(s, 3, Len(s))) = Len(s) - 2
      <3>1. CASE Len(s) = 2
        <4>1. Len(SubSeq(s, 3, 2)) = 0
          OBVIOUS
        <4> QED
          BY <3>1, <4>1
      <3>2. CASE Len(s) > 2
        <4>1. 3 \in 1..Len(s) /\ Len(s) \in 3..Len(s)
          BY <1>1, <3>2
        <4>2. Len(SubSeq(s, 3, Len(s))) = Len(s) - 3 + 1
          BY <1>1, <4>1
        <4> QED
          BY <1>1, <4>2
      <3>3. Len(s) = 2 \/ Len(s) > 2
        <4>1. \A n \in Nat : n > 1 => n = 2 \/ n > 2
          OBVIOUS
        <4> QED
          BY <1>1, <2>1, <4>1
      <3> QED
        BY <3>1, <3>2, <3>3, Zenon
    <2>3. DOMAIN SubSeq(s, 3, Len(s)) = 1..(Len(s) - 2)
      BY <1>1, <2>1, <2>2
    <2>4. \A k \in 1..(Len(s) - 2) : SubSeq(s, 3, Len(s))[k] = s[k + 2]
      BY <1>1, <2>1
    <2> QED
      BY <1>1, <2>1, <2>3, <2>4
  <1>4. CASE ~IsVector(s)
    <2>1. Remainder(s) = Tail(s) /\ Cut(s) = 1
      BY <1>2, <1>4 DEF Remainder, IsVector, Cut
    <2>2. DOMAIN Tail(s) = 1..(Len(s) - 1)
      BY <1>1
    <2>3. \A k \in 1..(Len(s) - 1) : Tail(s)[k] = s[k + 1]
      BY <1>1
    <2> QED
      BY <1>1, <2>1, <2>2, <2>3
  <1> QED
    BY <1>3, <1>4

Skips(r) == \A k \in DOMAIN r : r[k] \in {"*", " "} \/ \E l \in 1..k : r[l] = "[]"

LEMMA SkipsStarred ==
    ASSUME NEW s, IsSeq(s), s # <<>>, s[1] \in g_valid_ocl_primitives
    PROVE  Skips(Remainder(s)) <=> Starred(s)
  <1> DEFINE r == Remainder(s)
             c == Cut(s)
             n == Len(s)
  <1>1. /\ DOMAIN r = 1..(n - c) /\ c <= n /\ c \in 1..2
        /\ \A k \in 1..(n - c) : r[k] = s[k + c]
    BY RemainderIs
  <1>2. n \in Nat
    BY SequenceShape
  <1>3. c = 2 => s[2] # "[]"
    BY DEF Cut, IsVector, g_valid_vector_type_lengths
  <1> HIDE DEF r, c, n
  <1>4. ASSUME NEW k \in (c + 1)..n
        PROVE  (\E l \in 2..k : s[l] = "[]") <=> \E l \in 1..(k - c) : r[l] = "[]"
    <2>1. ASSUME NEW l \in 2..k, s[l] = "[]" PROVE \E p \in 1..(k - c) : r[p] = "[]"
      <3>1. l > c
        BY <1>1, <1>3, <2>1
      <3>2. l - c \in 1..(k - c) /\ l - c \in 1..(n - c) /\ (l - c) + c = l
        BY <1>1, <1>2, <1>4, <3>1
      <3> QED
        BY <1>1, <2>1, <3>2
    <2>2. ASSUME NEW l \in 1..(k - c), r[l] = "[]" PROVE \E p \in 2..k : s[p] = "[]"
      <3>1. l \in 1..(n - c) /\ l + c \in 2..k
        BY <1>1, <1>2, <1>4
      <3> QED
        BY <1>1, <2>2, <3>1
    <2> QED
      BY <2>1, <2>2
  <1>5. ASSUME Skips(r), NEW k \in (c + 1)..n PROVE s[k] \in {"*", " "} \/ \E l \in 2..k : s[l] = "[]"
    <2>1. k - c \in 1..(n - c) /\ (k - c) + c = k
      BY <1>1, <1>2
    <2>2. r[k - c] = s[k]
      BY <1>1, <2>1
    <2>3. r[k - c] \in {"*", " "} \/ \E l \in 1..(k - c) : r[l] = "[]"
      BY <1>1, <1>5, <2>1 DEF Skips
    <2> QED
      BY <1>4, <2>2, <2>3
  <1>6. ASSUME Starred(s), NEW k \in DOMAIN r PROVE r[k] \in {"*", " "} \/ \E l \in 1..k : r[l] = "[]"
    <2>1. k \in 1..(n - c) /\ k + c \in (c + 1)..n /\ (k + c) - c = k
      BY <1>1, <1>2
    <2>2. r[k] = s[k + c]
      BY <1>1, <2>1
    <2>3. s[k + c] \in {"*", " "} \/ \E l \in 2..(k + c) : s[l] = "[]"
      BY <1>6, <2>1 DEF Starred, c, n
    <2> QED
      BY <1>4, <2>1, <2>2, <2>3
  <1> QED
    BY <1>5, <1>6 DEF Skips, Starred, r, c, n

\* A name passes the test if it is one, and is one if it passes and there is a word in front.
LEMMA NameDocumented ==
    ASSUME NEW s, IsSeq(s)
    PROVE  /\ isValidTypeName(s) /\ ~Rules!Nameless(s) /\ s # NotString => Rules!NameRule(s)
           /\ Rules!NameRule(s) => isValidTypeName(s) /\ s # NotString /\ s # <<>>
  <1>1. CASE s = <<>>
    BY <1>1 DEF Rules!Nameless, Rules!NameRule
  <1>2. CASE s # <<>>
    <2>1. First(s) = s[1] /\ DOMAIN s = 1..Len(s) /\ Len(s) \in Nat /\ Len(s) > 0
      BY <1>2, SequenceShape DEF First, IsSeq
    <2>2. isValidTypeName(s) <=>
            \/ s[1] \in g_ignored_ocl_types
            \/ Len(s) = 1 /\ s[1] \in g_valid_ocl_opaque_types
            \/ Skips(Remainder(s))
      BY <2>1 DEF isValidTypeName, Skips
    <2>3. Rules!NameRule(s) <=>
            /\ s # NotString
            /\ \/ s[1] \in g_ignored_ocl_types
               \/ Len(s) = 1 /\ s[1] \in g_valid_ocl_opaque_types
               \/ s[1] \in g_valid_ocl_primitives /\ Starred(s)
      <3>1. /\ IsVector(s) => Cut(s) + 1 = 3
            /\ ~IsVector(s) => Cut(s) + 1 = 2
        BY DEF Cut
      <3>2. (IF IsVector(s) THEN 3 ELSE 2) = Cut(s) + 1
        BY <3>1
      <3> QED
        BY <1>2, <3>2, SameNameTables DEF Rules!NameRule, Starred, IsVector
    <2>4. s[1] \in g_valid_ocl_primitives => (Skips(Remainder(s)) <=> Starred(s))
      BY <1>2, SkipsStarred
    <2>5. ASSUME s[1] \notin g_valid_ocl_primitives, Skips(Remainder(s)) PROVE Rules!Nameless(s)
      <3>1. Remainder(s) = s
        BY <2>1, <2>5 DEF Remainder, g_valid_ocl_primitives
      <3>2. 1 \in DOMAIN s /\ \A l \in 1..1 : l = 1
        BY <2>1
      <3>3. s[1] \in {"*", " "} \/ \E l \in 1..1 : s[l] = "[]"
        BY <2>5, <3>1, <3>2 DEF Skips
      <3> QED
        BY <3>2, <3>3 DEF Rules!Nameless
    <2> QED
      BY <1>2, <2>2, <2>3, <2>4, <2>5
  <1> QED
    BY <1>1, <1>2

-----------------------------------------------------------------------------
\* What an OpenCL C type maps to

Floats == {"float", "double", "half"}
Ints == {"i1", "i8", "i16", "i32", "i64"}

\* The name MapLLVMToOCL has for each leaf.
LEMMA OCLNames ==
    /\ DOMAIN LLVMToOCL = Floats \cup Ints \cup isValidOCLOpaqueType
    /\ \A x \in Floats \cup isValidOCLOpaqueType : LLVMToOCL[x] = x
    /\ LLVMToOCL["i1"] = "bool" /\ LLVMToOCL["i8"] = "char" /\ LLVMToOCL["i16"] = "short"
    /\ LLVMToOCL["i32"] = "int" /\ LLVMToOCL["i64"] = "long"
  <1>1. isValidOCLOpaqueType \cap {"float", "double", "half", "i1", "i8", "i16", "i32", "i64"} = {}
    BY DEF isValidOCLOpaqueType, g_valid_llvm_opaque_types, g_valid_llvm_image_types
  <1>2. DOMAIN LLVMToOCL = {"float", "double", "half", "i1", "i8", "i16", "i32", "i64"} \cup isValidOCLOpaqueType
    BY DEF LLVMToOCL
  <1>3. \A x \in {"float", "double", "half"} \cup isValidOCLOpaqueType : LLVMToOCL[x] = x
    BY <1>1 DEF LLVMToOCL
  <1>4. LLVMToOCL["i1"] = "bool" /\ LLVMToOCL["i8"] = "char" /\ LLVMToOCL["i16"] = "short"
        /\ LLVMToOCL["i32"] = "int" /\ LLVMToOCL["i64"] = "long"
    BY DEF LLVMToOCL
  <1> QED
    BY <1>2, <1>3, <1>4 DEF Floats, Ints

Spelled == {"unsigned char", "unsigned short", "unsigned int", "unsigned long"}
LEMMA SpelledNames == DOMAIN SpelledOut = Spelled
  BY DEF SpelledOut, Spelled

\* Two sequences are equal when their heads and their tails are.
LEMMA SameCons ==
    ASSUME NEW a, NEW b, NEW x, NEW y, IsSeq(x), IsSeq(y)
    PROVE  <<a>> \o x = <<b>> \o y <=> a = b /\ x = y
  <1> DEFINE S == {a, b} \cup ToSet(x) \cup ToSet(y)
             u == <<a>> \o x
             v == <<b>> \o y
  <1>1. x \in Seq(S) /\ y \in Seq(S)
    <2>1. x \in Seq(ToSet(x)) /\ y \in Seq(ToSet(y))
      BY DEF IsSeq
    <2> HIDE DEF S
    <2>2. ToSet(x) \subseteq S /\ ToSet(y) \subseteq S
      BY DEF S
    <2> QED
      BY <2>1, <2>2
  <1> HIDE DEF S
  <1>2. a \in S /\ b \in S
    BY DEF S
  <1>3. u[1] = a /\ Tail(u) = x
    BY <1>1, <1>2
  <1>4. v[1] = b /\ Tail(v) = y
    BY <1>1, <1>2
  <1> QED
    BY <1>3, <1>4

LEMMA SeqOfItsOwn == ASSUME NEW S, NEW s \in Seq(S) PROVE IsSeq(s)
  <1>1. DOMAIN s = 1..Len(s) /\ Len(s) \in Nat
    OBVIOUS
  <1>2. s = [k \in 1..Len(s) |-> s[k]]
    BY <1>1
  <1>3. \A k \in 1..Len(s) : s[k] \in ToSet(s)
    BY <1>1 DEF ToSet
  <1>4. s \in [1..Len(s) -> ToSet(s)]
    BY <1>2, <1>3
  <1> QED
    BY <1>1, <1>4 DEF IsSeq

\* A sequence that is not empty is its head and its tail.
LEMMA HeadAndTail ==
    ASSUME NEW s, IsSeq(s), s # <<>>
    PROVE  s = <<s[1]>> \o Tail(s) /\ IsSeq(Tail(s))
  <1>1. s \in Seq(ToSet(s))
    BY DEF IsSeq
  <1>2. s[1] \in ToSet(s)
    BY SequenceShape DEF ToSet
  <1> DEFINE S == ToSet(s)
  <1> HIDE DEF S
  <1>3. s \in Seq(S) /\ s[1] \in S
    BY <1>1, <1>2 DEF S
  <1>4. s = <<s[1]>> \o Tail(s)
    BY <1>3
  <1>5. Tail(s) \in Seq(S)
    BY <1>3
  <1>6. IsSeq(Tail(s))
    BY <1>5, SeqOfItsOwn
  <1> QED
    BY <1>4, <1>6

LEMMA FrontWord ==
    ASSUME NEW w, NEW r, IsSeq(r)
    PROVE  1 \in DOMAIN (<<w>> \o r) /\ (<<w>> \o r)[1] = w /\ IsSeq(<<w>> \o r)
  <1> DEFINE S == {w} \cup ToSet(r)
  <1>1. w \in S /\ ToSet(r) \subseteq S
    OBVIOUS
  <1> HIDE DEF S
  <1>2. r \in Seq(S)
    BY <1>1 DEF IsSeq
  <1>3. <<w>> \o r \in Seq(S) /\ Len(<<w>> \o r) = 1 + Len(r) /\ Len(r) \in Nat /\ (<<w>> \o r)[1] = w
    BY <1>1, <1>2
  <1>4. 1 \in DOMAIN (<<w>> \o r)
    BY <1>3
  <1> QED
    BY <1>3, <1>4, SeqOfItsOwn

Signs == {"uchar", "ushort", "uint", "ulong"}
Sign(w) == IF w \in Signs THEN Unsigned[w] ELSE w
OpaqueName(w) == w \in g_valid_ocl_opaque_types \ ({"sampler_t"} \cup PointerSized)

LEMMA OpaqueNames == \A w : OpaqueName(w) <=> w \in isValidOCLOpaqueType
  BY DEF OpaqueName, g_valid_ocl_opaque_types, PointerSized, isValidOCLOpaqueType, g_valid_llvm_opaque_types,
     g_valid_llvm_image_types

\* The kinds of names that are not ignored.
Sized(s) == Len(s) = 1 /\ s[1] \in PointerSized
Opaque(s) == Len(s) = 1 /\ s[1] \in isValidOCLOpaqueType
Primitive(s) == s[1] \in g_valid_ocl_primitives \ {"void"}

LEMMA NameKinds ==
    ASSUME NEW s, IsSeq(s), Rules!NameRule(s), s[1] \notin g_ignored_ocl_types, s[1] # "void"
    PROVE  s = <<"sampler_t">> \/ Sized(s) \/ Opaque(s) \/ Primitive(s)
  <1>1. (Len(s) = 1 /\ s[1] \in g_valid_ocl_opaque_types) \/ s[1] \in g_valid_ocl_primitives
    BY SameNameTables DEF Rules!NameRule
  <1>2. Len(s) = 1 /\ s[1] = "sampler_t" => s = <<"sampler_t">>
    BY DEF IsSeq
  <1>3. s[1] \in g_valid_ocl_opaque_types => s[1] = "sampler_t" \/ s[1] \in PointerSized \/ OpaqueName(s[1])
    BY DEF OpaqueName
  <1> QED
    BY <1>1, <1>2, <1>3, OpaqueNames DEF Sized, Opaque, Primitive

\* SignedName, case by case.
LEMMA SignedIs ==
    ASSUME NEW s, IsSeq(s), s # <<>>, NEW b \in BOOLEAN
    PROVE  /\ s = <<"sampler_t">> => SignedName(s, b) = <<"int">> \o <<>>
           /\ Sized(s) => SignedName(s, b) = <<IF b THEN "int" ELSE "long">> \o <<>>
           /\ Opaque(s) => SignedName(s, b) = <<s[1]>> \o <<"*">>
           /\ Primitive(s) /\ s[1] \in Spelled =>
                \E r : IsSeq(r) /\ SignedName(s, b) = <<" ">> \o r
           /\ Primitive(s) /\ s[1] \notin Spelled => SignedName(s, b) = <<Sign(s[1])>> \o Tail(s)
  <1>1. First(s) = s[1] /\ s \in Seq(ToSet(s)) /\ s = <<s[1]>> \o Tail(s) /\ IsSeq(Tail(s))
    BY HeadAndTail DEF First, IsSeq
  <1>2. s[1] \in g_valid_ocl_primitives => s[1] \notin g_valid_ocl_opaque_types
    BY DEF g_valid_ocl_primitives, g_valid_ocl_vector_element_types, g_valid_ocl_opaque_types
  <1>3. PointerSized \subseteq g_valid_ocl_opaque_types
    BY DEF PointerSized, g_valid_ocl_opaque_types
  <1>4. s = <<"sampler_t">> => s[1] = "sampler_t" /\ "sampler_t" \in g_valid_ocl_opaque_types /\ "sampler_t" \notin PointerSized
    BY DEF g_valid_ocl_opaque_types, PointerSized
  <1>5. DOMAIN Unsigned = Signs
    BY DEF Unsigned, Signs
  <1>6. "sampler_t" \notin isValidOCLOpaqueType /\ PointerSized \cap isValidOCLOpaqueType = {}
    BY OpaqueNames DEF OpaqueName
  <1>7. s = <<"sampler_t">> => SignedName(s, b) = <<"int">>
    BY DEF SignedName
  <1>8. Sized(s) => SignedName(s, b) = <<IF b THEN "int" ELSE "long">>
    <2>1. Sized(s) => s # <<"sampler_t">>
      BY <1>4 DEF Sized
    <2> QED
      BY <1>1, <2>1 DEF SignedName, Sized
  <1>9. Opaque(s) => SignedName(s, b) = <<s[1]>> \o <<"*">>
    <2> SUFFICES ASSUME Opaque(s) PROVE SignedName(s, b) = <<s[1]>> \o <<"*">>
      OBVIOUS
    <2>1. s # <<"sampler_t">> /\ s[1] \notin PointerSized /\ s[1] \in g_valid_ocl_opaque_types /\ Len(s) = 1
      BY <1>4, <1>6, OpaqueNames DEF Opaque, OpaqueName
    <2>2. SignedName(s, b) = Append(s, "*")
      BY <1>1, <2>1 DEF SignedName
    <2>3. s = <<s[1]>>
      <3>1. s \in Seq(ToSet(s))
        BY <1>1
      <3> QED
        BY <2>1, <3>1
    <2>4. Append(<<s[1]>>, "*") = <<s[1]>> \o <<"*">>
      OBVIOUS
    <2> QED
      BY <2>2, <2>3, <2>4
  <1>10. Primitive(s) => /\ s # <<"sampler_t">> /\ s[1] \notin PointerSized
                         /\ s[1] \notin g_valid_ocl_opaque_types
    BY <1>2, <1>3, <1>4 DEF Primitive
  <1>11. Primitive(s) /\ s[1] \in Spelled => SignedName(s, b) = <<" ">> \o [s EXCEPT ![1] = SpelledOut[s[1]]]
    BY <1>1, <1>10, SpelledNames DEF SignedName
  <1>12. \A w : IsSeq([s EXCEPT ![1] = w])
    <2> SUFFICES ASSUME NEW w PROVE IsSeq([s EXCEPT ![1] = w])
      OBVIOUS
    <2> DEFINE S == ToSet(s) \cup {w}
    <2>1. w \in S /\ ToSet(s) \subseteq S
      OBVIOUS
    <2> HIDE DEF S
    <2>2. s \in Seq(S)
      BY <1>1, <2>1
    <2>3. [s EXCEPT ![1] = w] \in Seq(S)
      BY <2>1, <2>2
    <2> QED
      BY <2>3, SeqOfItsOwn
  <1>13. Signs \cap Spelled = {}
    BY DEF Signs, Spelled
  <1>14. Primitive(s) /\ s[1] \in Signs => SignedName(s, b) = <<Unsigned[s[1]]>> \o Tail(s)
    BY <1>1, <1>5, <1>10, <1>13, SpelledNames DEF SignedName
  <1>15. Primitive(s) /\ s[1] \notin Signs /\ s[1] \notin Spelled => SignedName(s, b) = s
    BY <1>1, <1>5, <1>10, SpelledNames DEF SignedName
  <1>16. \A w : <<w>> \o <<>> = <<w>>
    OBVIOUS
  <1>17. Primitive(s) /\ s[1] \notin Spelled => SignedName(s, b) = <<Sign(s[1])>> \o Tail(s)
    <2>1. s[1] \in Signs => Sign(s[1]) = Unsigned[s[1]]
      BY DEF Sign
    <2>2. s[1] \notin Signs => Sign(s[1]) = s[1]
      BY DEF Sign
    <2> QED
      BY <1>1, <1>14, <1>15, <2>1, <2>2
  <1>18. Primitive(s) /\ s[1] \in Spelled =>
           \E r : IsSeq(r) /\ SignedName(s, b) = <<" ">> \o r
    BY <1>11, <1>12
  <1>19. s = <<"sampler_t">> => SignedName(s, b) = <<"int">> \o <<>>
    BY <1>7, <1>16
  <1>20. Sized(s) => SignedName(s, b) = <<IF b THEN "int" ELSE "long">> \o <<>>
    BY <1>8, <1>16
  <1> QED
    BY <1>9, <1>17, <1>18, <1>19, <1>20

\* A leaf that a kernel's parameter may have.
Nameable(c) == c[1] \in Floats \cup Ints \cup isValidOCLOpaqueType

LEMMA MapIs ==
    ASSUME NEW c, IsSeq(c), c # <<>>
    PROVE  /\ Nameable(c) => MapLLVMToOCL(c) = <<LLVMToOCL[c[1]]>> \o Tail(c)
           /\ ~Nameable(c) => MapLLVMToOCL(c) = Tail(c)
  <1>1. <<>> \o Tail(c) = Tail(c)
    BY HeadAndTail DEF IsSeq
  <1> QED
    BY <1>1, OCLNames DEF MapLLVMToOCL, Nameable

LEMMA SignValues ==
    /\ Sign("uchar") = "char" /\ Sign("ushort") = "short" /\ Sign("uint") = "int" /\ Sign("ulong") = "long"
    /\ \A v \in {"char", "short", "int", "long", "bool", "half", "float", "double"} : Sign(v) = v
    /\ \A w \in g_valid_ocl_primitives \ {"void"} : w \notin Spelled =>
         w \in {"uchar", "ushort", "uint", "ulong", "char", "short", "int", "long", "bool", "half", "float", "double"}
  <1>1. Unsigned["uchar"] = "char" /\ Unsigned["ushort"] = "short" /\ Unsigned["uint"] = "int" /\ Unsigned["ulong"] = "long"
    BY DEF Unsigned
  <1>2. Sign("uchar") = "char" /\ Sign("ushort") = "short" /\ Sign("uint") = "int" /\ Sign("ulong") = "long"
    BY <1>1 DEF Sign, Signs
  <1>3. \A v \in {"char", "short", "int", "long", "bool", "half", "float", "double"} : Sign(v) = v
    BY DEF Sign, Signs
  <1> QED
    BY <1>2, <1>3 DEF g_valid_ocl_primitives, g_valid_ocl_vector_element_types, Spelled

\* The scalars of the documents are those the code compares.
LEMMA ScalarNames ==
    ASSUME NEW w \in g_valid_ocl_primitives \ {"void"}, w \notin Spelled, NEW x
    PROVE  <<w, x>> \in Rules!Scalars <=> x \in Floats \cup Ints /\ LLVMToOCL[x] = Sign(w)
  <1>2. Sign("uchar") = "char" /\ Sign("ushort") = "short" /\ Sign("uint") = "int" /\ Sign("ulong") = "long"
    BY SignValues
  <1>3. \A v \in {"char", "short", "int", "long", "bool", "half", "float", "double"} : Sign(v) = v
    BY SignValues
  <1>4. w \in {"uchar", "ushort", "uint", "ulong", "char", "short", "int", "long", "bool", "half", "float", "double"}
    BY SignValues
  <1>5. <<w, x>> \in Rules!Scalars <=>
          \/ <<w, x>> \in {<<"bool", "i1">>, <<"float", "float">>, <<"double", "double">>, <<"half", "half">>}
          \/ w \in {"char", "unsigned char", "uchar"} /\ x = "i8"
          \/ w \in {"short", "unsigned short", "ushort"} /\ x = "i16"
          \/ w \in {"int", "unsigned int", "uint"} /\ x = "i32"
          \/ w \in {"long", "unsigned long", "ulong"} /\ x = "i64"
    BY DEF Rules!Scalars
  <1>11. <<w, x>> \in {<<"bool", "i1">>, <<"float", "float">>, <<"double", "double">>, <<"half", "half">>} <=>
          \/ w = "bool" /\ x = "i1"
          \/ w \in {"float", "double", "half"} /\ x = w
    OBVIOUS
  <1>12. <<w, x>> \in Rules!Scalars <=>
          \/ w = "bool" /\ x = "i1"
          \/ w \in {"float", "double", "half"} /\ x = w
          \/ w \in {"char", "uchar"} /\ x = "i8"
          \/ w \in {"short", "ushort"} /\ x = "i16"
          \/ w \in {"int", "uint"} /\ x = "i32"
          \/ w \in {"long", "ulong"} /\ x = "i64"
    BY <1>5, <1>11 DEF Spelled
  <1>6. /\ LLVMToOCL["float"] = "float" /\ LLVMToOCL["double"] = "double" /\ LLVMToOCL["half"] = "half"
        /\ LLVMToOCL["i1"] = "bool" /\ LLVMToOCL["i8"] = "char" /\ LLVMToOCL["i16"] = "short"
        /\ LLVMToOCL["i32"] = "int" /\ LLVMToOCL["i64"] = "long"
    BY OCLNames DEF Floats
  <1>7. x \in Floats \cup Ints <=> x \in {"float", "double", "half", "i1", "i8", "i16", "i32", "i64"}
    BY DEF Floats, Ints
  <1>8. CASE w \in {"uchar", "ushort", "uint", "ulong"}
    BY <1>2, <1>6, <1>7, <1>8, <1>12
  <1>9. CASE w \in {"char", "short", "int", "long"}
    BY <1>3, <1>6, <1>7, <1>9, <1>12
  <1>10. CASE w \in {"bool", "half", "float", "double"}
    BY <1>3, <1>6, <1>7, <1>10, <1>12
  <1> QED
    BY <1>4, <1>8, <1>9, <1>10

\* No constructor of a type is a word of a name.
LEMMA ChainWords ==
    ASSUME NEW c, IsSeq(c), c # <<>>, Chain(c)
    PROVE  \A k \in DOMAIN Tail(c) : Tail(c)[k] \in Wrappers \cup VectorElementsNum
  <1>1. /\ DOMAIN Tail(c) = 1..(Len(c) - 1) /\ Len(c) \in Nat
        /\ \A k \in 1..(Len(c) - 1) : Tail(c)[k] = c[k + 1]
    BY DEF IsSeq
  <1>2. ASSUME NEW k \in 1..(Len(c) - 1) PROVE Tail(c)[k] \in Wrappers \cup VectorElementsNum
    <2>1. k + 1 \in 2..Len(c) /\ Tail(c)[k] = c[k + 1]
      BY <1>1
    <2> QED
      BY <2>1 DEF Chain
  <1> QED
    BY <1>1, <1>2

NameWords ==
    {"int", "long", "char", "short", "bool", "float", "double", "half", " "}
    \cup isValidOCLOpaqueType

\* The front of what SignedName makes is a name, and no constructor.
LEMMA SignedFront ==
    ASSUME NEW s, IsSeq(s), s # <<>>, NEW b \in BOOLEAN,
           s = <<"sampler_t">> \/ Sized(s) \/ Opaque(s) \/ Primitive(s)
    PROVE  \E h \in NameWords : \E r : IsSeq(r) /\ SignedName(s, b) = <<h>> \o r
  <1>1. IsSeq(Tail(s))
    BY HeadAndTail
  <1>2. IsSeq(<<>>) /\ IsSeq(<<"*">>)
    BY DEF IsSeq, ToSet
  <1>3. "int" \in NameWords /\ "long" \in NameWords /\ " " \in NameWords
    BY DEF NameWords
  <1>4. CASE s = <<"sampler_t">>
    BY <1>2, <1>3, <1>4, SignedIs
  <1>5. CASE Sized(s)
    BY <1>2, <1>3, <1>5, SignedIs
  <1>6. CASE Opaque(s)
    <2>1. s[1] \in NameWords
      BY <1>6 DEF Opaque, NameWords
    <2> QED
      BY <1>2, <1>6, <2>1, SignedIs
  <1>7. CASE Primitive(s) /\ s[1] \notin Spelled
    <2>1. Sign(s[1]) \in NameWords
      <3>1. s[1] \in {"uchar", "ushort", "uint", "ulong"} \/ s[1] \in {"char", "short", "int", "long", "bool", "half", "float", "double"}
        BY <1>7, SignValues DEF Primitive
      <3> QED
        BY <3>1, SignValues DEF NameWords
    <2> QED
      BY <1>1, <1>7, <2>1, SignedIs
  <1>8. CASE Primitive(s) /\ s[1] \in Spelled
    BY <1>3, <1>8, SignedIs
  <1> QED
    BY <1>4, <1>5, <1>6, <1>7, <1>8

LEMMA NamesAreWords == NameWords \cap (Wrappers \cup VectorElementsNum) = {}
  BY DEF NameWords, Wrappers, VectorElementsNum, isValidOCLOpaqueType, g_valid_llvm_opaque_types,
     g_valid_llvm_image_types

\* A name maps to no leaf that has none.
LEMMA NamelessLeaf ==
    ASSUME NEW s, IsSeq(s), s # <<>>, NEW b \in BOOLEAN,
           s = <<"sampler_t">> \/ Sized(s) \/ Opaque(s) \/ Primitive(s),
           NEW c, IsSeq(c), c # <<>>, Chain(c), ~Nameable(c)
    PROVE  SignedName(s, b) # MapLLVMToOCL(c)
  <1>1. PICK h \in NameWords : \E r : IsSeq(r) /\ SignedName(s, b) = <<h>> \o r
    BY SignedFront
  <1>2. PICK r : IsSeq(r) /\ SignedName(s, b) = <<h>> \o r
    BY <1>1
  <1> DEFINE d == Tail(c)
             u == <<h>> \o r
  <1>3. MapLLVMToOCL(c) = d
    BY MapIs
  <1>4. \A k \in DOMAIN d : d[k] \in Wrappers \cup VectorElementsNum
    BY ChainWords
  <1>5. 1 \in DOMAIN u /\ u[1] = h
    BY <1>2, FrontWord
  <1> HIDE DEF d, u
  <1>6. u # d
    BY <1>4, <1>5, NamesAreWords
  <1> QED
    BY <1>2, <1>3, <1>6 DEF u

\* The leaf of a name.
LEMMA OCLLeaves ==
    ASSUME NEW x \in Floats \cup Ints \cup isValidOCLOpaqueType
    PROVE  /\ LLVMToOCL[x] = "int" <=> x = "i32"
           /\ LLVMToOCL[x] = "long" <=> x = "i64"
           /\ LLVMToOCL[x] # " "
           /\ \A w \in isValidOCLOpaqueType : LLVMToOCL[x] = w <=> x = w
           /\ x \in isValidOCLOpaqueType => LLVMToOCL[x] \in isValidOCLOpaqueType
  <1>1. isValidOCLOpaqueType \cap ({"int", "long", " ", "bool", "char", "short"} \cup Floats \cup Ints) = {}
    BY DEF isValidOCLOpaqueType, g_valid_llvm_opaque_types, g_valid_llvm_image_types, Floats, Ints
  <1>2. CASE x \in Floats
    <2>1. LLVMToOCL[x] = x
      BY <1>2, OCLNames
    <2> QED
      BY <1>1, <1>2, <2>1 DEF Floats
  <1>3. CASE x \in Ints
    <2>1. /\ x = "i1" => LLVMToOCL[x] = "bool"
          /\ x = "i8" => LLVMToOCL[x] = "char"
          /\ x = "i16" => LLVMToOCL[x] = "short"
          /\ x = "i32" => LLVMToOCL[x] = "int"
          /\ x = "i64" => LLVMToOCL[x] = "long"
      BY OCLNames
    <2> QED
      BY <1>1, <1>3, <2>1 DEF Ints
  <1>4. CASE x \in isValidOCLOpaqueType
    <2>1. LLVMToOCL[x] = x
      BY <1>4, OCLNames
    <2> QED
      BY <1>1, <1>4, <2>1 DEF Ints
  <1> QED
    BY <1>2, <1>3, <1>4

LEMMA OfTwo ==
    ASSUME NEW c, IsSeq(c), c # <<>>, NEW x, NEW y, IsSeq(y)
    PROVE  c = <<x>> \o y <=> c[1] = x /\ Tail(c) = y
  <1> DEFINE a == c[1]
             d == Tail(c)
  <1>1. c = <<a>> \o d
    BY HeadAndTail
  <1>4. IsSeq(d) /\ IsSeq(y)
    BY HeadAndTail
  <1> HIDE DEF a, d
  <1>2. <<a>> \o d = <<x>> \o y <=> a = x /\ d = y
    BY <1>4, SameCons
  <1>3. c = <<x>> \o y <=> a = x /\ d = y
    BY <1>1, <1>2, Zenon
  <1> QED
    BY <1>3 DEF a, d

LEMMA ShortSeqs ==
    /\ \A x : <<x>> = <<x>> \o <<>>
    /\ \A x : <<x, "*">> = <<x>> \o <<"*">>
    /\ IsSeq(<<>>) /\ IsSeq(<<"*">>)
  <1>1. <<>> \in Seq({}) /\ <<"*">> \in Seq({"*"})
    OBVIOUS
  <1>2. \A x : <<x>> = <<x>> \o <<>>
    OBVIOUS
  <1>3. \A x : <<x, "*">> = <<x>> \o <<"*">>
    OBVIOUS
  <1>4. IsSeq(<<>>)
    BY <1>1, SeqOfItsOwn
  <1>5. IsSeq(<<"*">>)
    BY <1>1, SeqOfItsOwn
  <1> QED
    BY <1>2, <1>3, <1>4, <1>5

\* The rule about a leaf, for each kind of name.
LEMMA FitsByKind ==
    ASSUME NEW s, IsSeq(s), s # <<>>, NEW c, IsSeq(c), c # <<>>, NEW w \in {32, 64}
    PROVE  /\ s = <<"sampler_t">> => (Rules!NameFits(s, c, w) <=> c[1] = "i32" /\ Tail(c) = <<>>)
           /\ Sized(s) => (Rules!NameFits(s, c, w) <=> c[1] = (IF w = 32 THEN "i32" ELSE "i64") /\ Tail(c) = <<>>)
           /\ Opaque(s) => (Rules!NameFits(s, c, w) <=> c[1] = s[1] /\ Tail(c) = <<"*">>)
           /\ Primitive(s) => (Rules!NameFits(s, c, w) <=> <<s[1], c[1]>> \in Rules!Scalars /\ Tail(s) = Tail(c))
  <1> DEFINE Scalar == <<s[1], c[1]>> \in Rules!Scalars /\ Tail(s) = Tail(c)
             sized == IF w = 32 THEN "i32" ELSE "i64"
  <1>1. ASSUME NEW x
        PROVE  /\ c = <<x>> <=> c[1] = x /\ Tail(c) = <<>>
               /\ c = <<x, "*">> <=> c[1] = x /\ Tail(c) = <<"*">>
    <2> DEFINE none == <<>>
               star == <<"*">>
    <2>1. IsSeq(none) /\ IsSeq(star) /\ <<x>> = <<x>> \o none /\ <<x, "*">> = <<x>> \o star
      BY ShortSeqs
    <2> HIDE DEF none, star
    <2>2. c = <<x>> \o none <=> c[1] = x /\ Tail(c) = none
      BY <2>1, OfTwo
    <2>3. c = <<x>> \o star <=> c[1] = x /\ Tail(c) = star
      BY <2>1, OfTwo
    <2>4. /\ c = <<x>> <=> c[1] = x /\ Tail(c) = none
          /\ c = <<x, "*">> <=> c[1] = x /\ Tail(c) = star
      BY <2>1, <2>2, <2>3, Zenon
    <2> QED
      BY <2>4 DEF none, star
  <1>2. /\ c = <<"i32">> <=> c[1] = "i32" /\ Tail(c) = <<>>
        /\ c = <<sized>> <=> c[1] = sized /\ Tail(c) = <<>>
        /\ c = <<s[1], "*">> <=> c[1] = s[1] /\ Tail(c) = <<"*">>
    BY <1>1, Zenon
  <1>3. Rules!NameFits(s, c, w) <=>
          \/ Scalar
          \/ s[1] \in isValidOCLOpaqueType /\ Len(s) = 1 /\ c = <<s[1], "*">>
          \/ s = <<"sampler_t">> /\ c = <<"i32">>
          \/ s[1] \in PointerSized /\ Len(s) = 1 /\ c = <<sized>>
    BY SameTables, SameNameTables DEF Rules!NameFits
  <1>4. \A x \in {"sampler_t"} \cup PointerSized \cup isValidOCLOpaqueType : \A y : <<x, y>> \notin Rules!Scalars
    <2>1. \A x, y : <<x, y>> \in Rules!Scalars =>
            x \in {"bool", "float", "double", "half", "char", "unsigned char", "uchar", "short", "unsigned short", "ushort",
                   "int", "unsigned int", "uint", "long", "unsigned long", "ulong"}
      BY DEF Rules!Scalars
    <2> QED
      BY <2>1 DEF PointerSized, isValidOCLOpaqueType, g_valid_llvm_opaque_types, g_valid_llvm_image_types
  <1>5. "sampler_t" \notin isValidOCLOpaqueType \cup PointerSized /\ PointerSized \cap isValidOCLOpaqueType = {}
    BY DEF PointerSized, isValidOCLOpaqueType, g_valid_llvm_opaque_types, g_valid_llvm_image_types
  <1>6. g_valid_ocl_primitives \cap ({"sampler_t"} \cup PointerSized \cup isValidOCLOpaqueType) = {}
    BY DEF PointerSized, isValidOCLOpaqueType, g_valid_llvm_opaque_types, g_valid_llvm_image_types, g_valid_ocl_primitives,
       g_valid_ocl_vector_element_types
  <1>7. s = <<"sampler_t">> => s[1] = "sampler_t"
    OBVIOUS
  <1> HIDE DEF sized
  <1>8. s = <<"sampler_t">> => (Rules!NameFits(s, c, w) <=> c = <<"i32">>)
    BY <1>3, <1>4, <1>5, <1>7 DEF Scalar
  <1>9. Sized(s) => (Rules!NameFits(s, c, w) <=> c = <<sized>>)
    BY <1>3, <1>4, <1>5, <1>7 DEF Scalar, Sized
  <1>10. Opaque(s) => (Rules!NameFits(s, c, w) <=> c = <<s[1], "*">>)
    BY <1>3, <1>4, <1>5, <1>7 DEF Scalar, Opaque
  <1>11. Primitive(s) => (Rules!NameFits(s, c, w) <=> Scalar)
    BY <1>3, <1>6, <1>7 DEF Primitive
  <1> QED
    BY <1>2, <1>8, <1>9, <1>10, <1>11 DEF sized

\* The test of a leaf against a name, for each kind of name.
LEMMA TestByKind ==
    ASSUME NEW s, IsSeq(s), s # <<>>, NEW c, IsSeq(c), c # <<>>, Nameable(c), NEW b \in BOOLEAN
    PROVE  LET Same == SignedName(s, b) = MapLLVMToOCL(c)
           IN  /\ s = <<"sampler_t">> => (Same <=> c[1] = "i32" /\ Tail(c) = <<>>)
               /\ Sized(s) => (Same <=> c[1] = (IF b THEN "i32" ELSE "i64") /\ Tail(c) = <<>>)
               /\ Opaque(s) => (Same <=> c[1] = s[1] /\ Tail(c) = <<"*">>)
               /\ Primitive(s) /\ s[1] \in Spelled => ~Same
               /\ Primitive(s) /\ s[1] \notin Spelled => (Same <=> <<s[1], c[1]>> \in Rules!Scalars /\ Tail(s) = Tail(c))
  <1> DEFINE x == LLVMToOCL[c[1]]
             d == Tail(c)
             u == SignedName(s, b)
  <1>1. MapLLVMToOCL(c) = <<x>> \o d
    BY MapIs
  <1>10. IsSeq(d) /\ IsSeq(Tail(s))
    BY HeadAndTail
  <1>2. /\ x = "int" <=> c[1] = "i32"
        /\ x = "long" <=> c[1] = "i64"
        /\ x # " "
        /\ \A w \in isValidOCLOpaqueType : x = w <=> c[1] = w
        /\ c[1] \in isValidOCLOpaqueType => x \in isValidOCLOpaqueType
    BY OCLLeaves DEF Nameable
  <1>3. /\ s = <<"sampler_t">> => u = <<"int">> \o <<>>
        /\ Sized(s) => u = <<IF b THEN "int" ELSE "long">> \o <<>>
        /\ Opaque(s) => u = <<s[1]>> \o <<"*">>
        /\ Primitive(s) /\ s[1] \in Spelled => \E r : IsSeq(r) /\ u = <<" ">> \o r
        /\ Primitive(s) /\ s[1] \notin Spelled => u = <<Sign(s[1])>> \o Tail(s)
    BY SignedIs
  <1> HIDE DEF d, u
  <1>4. ASSUME NEW h, NEW r, IsSeq(r) PROVE <<h>> \o r = <<x>> \o d <=> h = x /\ r = d
    <2> HIDE DEF x
    <2> QED
      BY <1>4, <1>10, SameCons
  <1>11. ASSUME NEW h PROVE /\ <<h>> \o <<>> = <<x>> \o d <=> h = x /\ d = <<>>
                            /\ <<h>> \o <<"*">> = <<x>> \o d <=> h = x /\ d = <<"*">>
    <2> DEFINE none == <<>>
               star == <<"*">>
    <2>1. IsSeq(none) /\ IsSeq(star)
      BY ShortSeqs
    <2> HIDE DEF none, star, x
    <2>2. /\ <<h>> \o none = <<x>> \o d <=> h = x /\ none = d
          /\ <<h>> \o star = <<x>> \o d <=> h = x /\ star = d
      BY <2>1, <1>4
    <2>3. /\ <<h>> \o none = <<x>> \o d <=> h = x /\ d = none
          /\ <<h>> \o star = <<x>> \o d <=> h = x /\ d = star
      BY <2>2, Zenon
    <2> QED
      BY <2>3 DEF none, star
  <1>5. s = <<"sampler_t">> => (u = <<x>> \o d <=> c[1] = "i32" /\ d = <<>>)
    <2> HIDE DEF x
    <2>1. <<"int">> \o <<>> = <<x>> \o d <=> "int" = x /\ d = <<>>
      BY <1>11
    <2>2. "int" = x <=> c[1] = "i32"
      BY <1>2
    <2> QED
      BY <1>3, <2>1, <2>2, Zenon
  <1>6. Sized(s) => (u = <<x>> \o d <=> c[1] = (IF b THEN "i32" ELSE "i64") /\ d = <<>>)
    <2> DEFINE n == IF b THEN "int" ELSE "long"
    <2> HIDE DEF x
    <2>1. n = x <=> c[1] = (IF b THEN "i32" ELSE "i64")
      BY <1>2
    <2>2. Sized(s) => u = <<n>> \o <<>>
      BY <1>3
    <2> HIDE DEF n
    <2>3. <<n>> \o <<>> = <<x>> \o d <=> n = x /\ d = <<>>
      BY <1>11
    <2> QED
      BY <2>1, <2>2, <2>3, Zenon
  <1>7. Opaque(s) => (u = <<x>> \o d <=> c[1] = s[1] /\ d = <<"*">>)
    <2> HIDE DEF x
    <2>1. <<s[1]>> \o <<"*">> = <<x>> \o d <=> s[1] = x /\ d = <<"*">>
      BY <1>11
    <2>2. Opaque(s) => (s[1] = x <=> c[1] = s[1])
      BY <1>2 DEF Opaque
    <2> QED
      BY <1>3, <2>1, <2>2, Zenon
  <1>8. Primitive(s) /\ s[1] \in Spelled => u # <<x>> \o d
    <2> HIDE DEF x
    <2>1. ASSUME NEW r, IsSeq(r) PROVE <<" ">> \o r # <<x>> \o d
      BY <1>2, <1>4, <2>1
    <2> QED
      BY <1>3, <2>1
  <1>9. Primitive(s) /\ s[1] \notin Spelled => (u = <<x>> \o d <=> <<s[1], c[1]>> \in Rules!Scalars /\ Tail(s) = d)
    <2> SUFFICES ASSUME Primitive(s), s[1] \notin Spelled
                 PROVE  u = <<x>> \o d <=> <<s[1], c[1]>> \in Rules!Scalars /\ Tail(s) = d
      OBVIOUS
    <2>1. u = <<x>> \o d <=> Sign(s[1]) = x /\ Tail(s) = d
      <3> HIDE DEF x
      <3> QED
        BY <1>3, <1>4, <1>10
    <2>2. <<s[1], c[1]>> \in Rules!Scalars <=> c[1] \in Floats \cup Ints /\ x = Sign(s[1])
      BY ScalarNames DEF Primitive
    <2>3. Sign(s[1]) \notin isValidOCLOpaqueType
      <3>1. s[1] \in {"uchar", "ushort", "uint", "ulong"} \/ s[1] \in {"char", "short", "int", "long", "bool", "half", "float", "double"}
        BY SignValues DEF Primitive
      <3>2. Sign(s[1]) \in {"char", "short", "int", "long", "bool", "half", "float", "double"}
        BY <3>1, SignValues
      <3> QED
        BY <3>2 DEF isValidOCLOpaqueType, g_valid_llvm_opaque_types, g_valid_llvm_image_types
    <2>4. x = Sign(s[1]) => c[1] \in Floats \cup Ints
      <3>1. c[1] \in Floats \cup Ints \cup isValidOCLOpaqueType
        BY DEF Nameable
      <3> HIDE DEF x
      <3> QED
        BY <1>2, <2>3, <3>1
    <2> HIDE DEF x
    <2> QED
      BY <2>1, <2>2, <2>4
  <1> HIDE DEF x
  <1> QED
    BY <1>1, <1>5, <1>6, <1>7, <1>8, <1>9 DEF u, d

LEMMA LeafMapped ==
    ASSUME NEW s, IsSeq(s), s # <<>>, s = <<"sampler_t">> \/ Sized(s) \/ Opaque(s) \/ Primitive(s),
           NEW c, IsSeq(c), c # <<>>, NEW w \in {32, 64}
    PROVE  /\ SignedName(s, w # 64) = MapLLVMToOCL(c) /\ Chain(c) =>
                Rules!NameFits(s, c, w) /\ (Len(s) = 1 \/ Tail(s) = Tail(c))
           /\ Rules!NameFits(s, c, w) /\ s[1] \notin Spelled => SignedName(s, w # 64) = MapLLVMToOCL(c)
  <1> DEFINE b == w # 64
             Same == SignedName(s, b) = MapLLVMToOCL(c)
             Fits == Rules!NameFits(s, c, w)
             OneOf == Len(s) = 1 \/ Tail(s) = Tail(c)
             sized == IF w = 32 THEN "i32" ELSE "i64"
             scalar == <<s[1], c[1]>> \in Rules!Scalars
  <1>1. b \in BOOLEAN /\ (IF b THEN "i32" ELSE "i64") = sized
    OBVIOUS
  <1>2. s = <<"sampler_t">> => Len(s) = 1
    OBVIOUS
  <1>3. CASE ~Nameable(c)
    <2>1. Chain(c) => ~Same
      BY <1>1, <1>3, NamelessLeaf
    <2>2. ~Fits
      <3>1. \A x, y : <<x, y>> \in Rules!Scalars => y \in Floats \cup Ints
        BY DEF Rules!Scalars, Floats, Ints
      <3>2. sized \in Ints /\ "i32" \in Ints
        BY DEF Ints
      <3>3. c[1] \notin Floats /\ c[1] \notin Ints /\ c[1] \notin isValidOCLOpaqueType
        BY <1>3 DEF Nameable
      <3> HIDE DEF sized
      <3>4. ~scalar /\ c[1] # "i32" /\ c[1] # sized /\ (Opaque(s) => c[1] # s[1])
        BY <3>1, <3>2, <3>3 DEF Opaque
      <3> HIDE DEF scalar
      <3>9. /\ s = <<"sampler_t">> => (Fits => c[1] = "i32")
            /\ Sized(s) => (Fits => c[1] = sized)
            /\ Opaque(s) => (Fits => c[1] = s[1])
            /\ Primitive(s) => (Fits => scalar)
        <4>1. /\ s = <<"sampler_t">> => (Fits <=> c[1] = "i32" /\ Tail(c) = <<>>)
              /\ Sized(s) => (Fits <=> c[1] = sized /\ Tail(c) = <<>>)
              /\ Opaque(s) => (Fits <=> c[1] = s[1] /\ Tail(c) = <<"*">>)
              /\ Primitive(s) => (Fits <=> scalar /\ Tail(s) = Tail(c))
          BY FitsByKind DEF sized, scalar
        <4> HIDE DEF Fits
        <4> QED
          BY <4>1, Zenon
      <3> HIDE DEF Fits
      <3> QED
        BY <3>4, <3>9, Zenon
    <2> HIDE DEF Same, Fits
    <2> QED
      BY <2>1, <2>2 DEF Same, Fits
  <1>4. CASE Nameable(c)
    <2> HIDE DEF b
    <2>1. CASE s = <<"sampler_t">>
      <3>1. Same <=> c[1] = "i32" /\ Tail(c) = <<>>
        BY <1>1, <1>4, <2>1, TestByKind
      <3>2. Fits <=> c[1] = "i32" /\ Tail(c) = <<>>
        BY <2>1, FitsByKind
      <3>3. OneOf
        BY <1>2, <2>1
      <3> HIDE DEF Same, Fits, OneOf
      <3> QED
        BY <3>1, <3>2, <3>3 DEF Same, Fits, OneOf, b
    <2>2. CASE Sized(s)
      <3>1. Same <=> c[1] = (IF b THEN "i32" ELSE "i64") /\ Tail(c) = <<>>
        BY <1>1, <1>4, <2>2, TestByKind
      <3>2. Fits <=> c[1] = sized /\ Tail(c) = <<>>
        BY <2>2, FitsByKind
      <3>3. OneOf
        BY <2>2 DEF Sized
      <3> HIDE DEF Same, Fits, OneOf, sized
      <3>4. Same <=> Fits
        BY <1>1, <3>1, <3>2, Zenon
      <3> QED
        BY <3>3, <3>4 DEF Same, Fits, OneOf, b
    <2>3. CASE Opaque(s)
      <3>1. Same <=> c[1] = s[1] /\ Tail(c) = <<"*">>
        BY <1>1, <1>4, <2>3, TestByKind
      <3>2. Fits <=> c[1] = s[1] /\ Tail(c) = <<"*">>
        BY <2>3, FitsByKind
      <3>3. OneOf
        BY <2>3 DEF Opaque
      <3> HIDE DEF Same, Fits, OneOf
      <3> QED
        BY <3>1, <3>2, <3>3 DEF Same, Fits, OneOf, b
    <2>4. CASE Primitive(s)
      <3>1. s[1] \in Spelled => ~Same
        BY <1>1, <1>4, <2>4, TestByKind
      <3>2. s[1] \notin Spelled => (Same <=> scalar /\ Tail(s) = Tail(c))
        BY <1>1, <1>4, <2>4, TestByKind
      <3>3. Fits <=> scalar /\ Tail(s) = Tail(c)
        BY <2>4, FitsByKind
      <3> HIDE DEF Same, Fits, scalar
      <3> QED
        BY <3>1, <3>2, <3>3 DEF Same, Fits, OneOf, b
    <2> QED
      BY <2>1, <2>2, <2>3, <2>4
  <1> QED
    BY <1>3, <1>4

LEMMA NoBlank ==
    ASSUME NEW s, IsSeq(s), s # <<>>, s = <<"sampler_t">> \/ Sized(s) \/ Opaque(s) \/ Primitive(s),
           NEW c, IsSeq(c), c # <<>>, Chain(c), Len(s) = 1 \/ Tail(s) = Tail(c)
    PROVE  ~Contains(s, " ")
  <1>1. s[1] # " "
    <2>1. " " \notin PointerSized \cup isValidOCLOpaqueType \cup g_valid_ocl_primitives
      BY DEF PointerSized, isValidOCLOpaqueType, g_valid_llvm_opaque_types,
         g_valid_llvm_image_types, g_valid_ocl_primitives, g_valid_ocl_vector_element_types
    <2>2. s = <<"sampler_t">> => s[1] # " "
      OBVIOUS
    <2> QED
      BY <2>1, <2>2 DEF Sized, Opaque, Primitive
  <1>2. /\ DOMAIN Tail(s) = 1..(Len(s) - 1) /\ Len(s) \in Nat
        /\ \A k \in 1..(Len(s) - 1) : Tail(s)[k] = s[k + 1]
    BY DEF IsSeq
  <1>3. " " \notin Wrappers \cup VectorElementsNum
    BY DEF Wrappers, VectorElementsNum
  <1>4. ASSUME NEW k \in 2..Len(s) PROVE s[k] # " "
    <2>1. k - 1 \in 1..(Len(s) - 1) /\ (k - 1) + 1 = k /\ Len(s) # 1
      <3>1. \A n \in Nat : \A l \in 2..n : l - 1 \in 1..(n - 1) /\ (l - 1) + 1 = l /\ n # 1
        OBVIOUS
      <3> QED
        BY <1>2, <3>1
    <2>2. Tail(s)[k - 1] = s[k] /\ Tail(s) = Tail(c) /\ k - 1 \in DOMAIN Tail(s)
      BY <1>2, <2>1
    <2>3. Tail(s)[k - 1] \in Wrappers \cup VectorElementsNum
      BY <2>2, ChainWords
    <2> QED
      BY <1>3, <2>2, <2>3
  <1>5. \A k \in 1..Len(s) : k = 1 \/ k \in 2..Len(s)
    BY <1>2
  <1> QED
    BY <1>1, <1>4, <1>5 DEF Contains

LEMMA MapDocumented ==
    ASSUME NEW s, IsSeq(s), Rules!NameRule(s), NEW t, TypeShape(t), NEW w \in {32, 64}
    PROVE  /\ isValidMapOCLToLLVM(s, t, w # 64) /\ (\A c \in t : Chain(c)) => Rules!Maps(s, t, w)
           /\ Rules!Maps(s, t, w) /\ ~Contains(s, " ") /\ s[1] \notin Spelled => isValidMapOCLToLLVM(s, t, w # 64)
  <1> DEFINE b == w # 64
             Ignored == s[1] \in g_ignored_ocl_types \/ IgnoresType(t) \/ \E k \in DOMAIN s : s[k] = "void"
  <1>1. s # <<>> /\ First(s) = s[1]
    BY NameDocumented DEF First
  <1>2. Rules!NotMapped(s, t) <=> Ignored
    BY SameTables, SameNameTables DEF Rules!NotMapped, IgnoresType
  <1>3. isValidMapOCLToLLVM(s, t, b) <=> Ignored \/ \A c \in t : SignedName(s, b) = MapLLVMToOCL(c)
    BY <1>1 DEF isValidMapOCLToLLVM
  <1>4. Rules!WithoutBlanks(s) = s \/ Contains(s, " ")
    BY SameTables DEF Rules!WithoutBlanks
  <1>5. Rules!Maps(s, t, w) <=> Ignored \/ \A c \in t : Rules!NameFits(Rules!WithoutBlanks(s), c, w)
    BY <1>2 DEF Rules!Maps
  <1>6. CASE Ignored
    BY <1>3, <1>5, <1>6
  <1>7. CASE ~Ignored
    <2>1. s[1] \notin g_ignored_ocl_types /\ s[1] # "void" /\ t # {}
      <3>1. 1 \in DOMAIN s
        BY <1>1, SequenceShape
      <3> QED
        BY <1>7, <3>1 DEF IgnoresType
    <2>2. s = <<"sampler_t">> \/ Sized(s) \/ Opaque(s) \/ Primitive(s)
      BY <2>1, NameKinds
    <2>3. \A c \in t : IsSeq(c) /\ c # <<>>
      BY DEF TypeShape
    <2>4. ASSUME isValidMapOCLToLLVM(s, t, b), \A c \in t : Chain(c) PROVE Rules!Maps(s, t, w)
      <3>1. \A c \in t : SignedName(s, b) = MapLLVMToOCL(c)
        BY <1>3, <1>7, <2>4
      <3>2. \A c \in t : Rules!NameFits(s, c, w) /\ (Len(s) = 1 \/ Tail(s) = Tail(c))
        BY <1>1, <2>2, <2>3, <2>4, <3>1, LeafMapped
      <3>3. PICK c \in t : TRUE
        BY <2>1
      <3>4. ~Contains(s, " ")
        BY <1>1, <2>2, <2>3, <2>4, <3>2, <3>3, NoBlank
      <3> QED
        BY <1>4, <1>5, <3>2, <3>4
    <2>5. ASSUME Rules!Maps(s, t, w), ~Contains(s, " "), s[1] \notin Spelled PROVE isValidMapOCLToLLVM(s, t, b)
      <3>1. \A c \in t : Rules!NameFits(s, c, w)
        BY <1>4, <1>5, <1>7, <2>5
      <3>2. \A c \in t : SignedName(s, b) = MapLLVMToOCL(c)
        BY <1>1, <2>2, <2>3, <2>5, <3>1, LeafMapped
      <3> QED
        BY <1>3, <3>2
    <2> QED
      BY <2>4, <2>5
  <1> QED
    BY <1>6, <1>7

-----------------------------------------------------------------------------
\* The entries about a kernel's arguments, and the verdict

EntryPasses(F, node, e, is32) ==
    LET n == node[2][e]
    IN  /\ node[1] = "kernel_arg_addr_space" =>
             n # NotConst /\ Unsigned32(n) \in 0..3 /\ Unsigned32(n) = ParamType(F, e).as
        /\ node[1] = "kernel_arg_base_type" =>
             n # NotString /\ isValidTypeName(n) /\ isValidMapOCLToLLVM(n, ParamType(F, e).ty, is32)

LEMMA EntryTested ==
    ASSUME NEW F, NEW node, InfoShape(node), NEW e \in DOMAIN node[2], NEW is32
    PROVE  /\ node[1] = "kernel_arg_addr_space" =>
                (AddrSpaceErrors(node, F, e) = {} <=> EntryPasses(F, node, e, is32))
           /\ node[1] = "kernel_arg_base_type" =>
                (BaseTypeErrors(node, F, is32, e) = {} <=> EntryPasses(F, node, e, is32))
           /\ node[1] \notin {"kernel_arg_addr_space", "kernel_arg_base_type"} => EntryPasses(F, node, e, is32)
  <1> DEFINE n == node[2][e]
             p == ParamType(F, e)
  <1>1. ASSUME node[1] = "kernel_arg_addr_space"
        PROVE  AddrSpaceErrors(node, F, e) = {} <=> EntryPasses(F, node, e, is32)
    <2>1. n \in Nat \cup {NotConst}
      BY <1>1 DEF InfoShape, ToSet, Numbers
    <2> HIDE DEF n, p
    <2>2. n # NotConst => Unsigned32(n) \in Nat /\ (Unsigned32(n) >= 4 <=> Unsigned32(n) \notin 0..3)
      <3>1. ASSUME n # NotConst PROVE n % UIntRange \in Nat
        BY <2>1, <3>1, WidthAssumption
      <3> QED
        BY <3>1 DEF Unsigned32
    <2>3. EntryPasses(F, node, e, is32) <=>
            n # NotConst /\ Unsigned32(n) \in 0..3 /\ Unsigned32(n) = p.as
      BY <1>1 DEF EntryPasses, n, p
    <2>4. CASE n = NotConst
      BY <2>3, <2>4 DEF AddrSpaceErrors, addError, Entries, n
    <2>5. CASE n # NotConst
      <3>1. AddrSpaceErrors(node, F, e) =
              ErrorIf(Unsigned32(n) >= 4, "ERR_INVALID_ADDR_SPACE", <<"info", node>>)
              \cup IF p.as # Unsigned32(n)
                   THEN addError("ERR_INVALID_METADATA_KERNEL_INFO", <<"info", node>>)
                        \cup addError("ERR_MISMATCH_METADATA_ADDR_SPACE", <<"param", p, F.name>>)
                   ELSE {}
        BY <2>5, FourSpaces DEF AddrSpaceErrors, Entries, n, p
      <3> QED
        BY <2>2, <2>3, <2>5, <3>1 DEF ErrorIf, addError
    <2> QED
      BY <2>4, <2>5
  <1>2. ASSUME node[1] = "kernel_arg_base_type"
        PROVE  BaseTypeErrors(node, F, is32, e) = {} <=> EntryPasses(F, node, e, is32)
    <2>1. EntryPasses(F, node, e, is32) <=>
            n # NotString /\ isValidTypeName(n) /\ isValidMapOCLToLLVM(n, p.ty, is32)
      BY <1>2 DEF EntryPasses
    <2>2. BaseTypeErrors(node, F, is32, e) = {} <=>
            n # NotString /\ isValidTypeName(n) /\ isValidMapOCLToLLVM(n, p.ty, is32)
      BY DEF BaseTypeErrors, Entries, addError
    <2> QED
      BY <2>1, <2>2
  <1>3. node[1] \notin {"kernel_arg_addr_space", "kernel_arg_base_type"} => EntryPasses(F, node, e, is32)
    BY DEF EntryPasses
  <1> QED
    BY <1>1, <1>2, <1>3

EntryRule(m, F, node, e) ==
    /\ node[1] = "kernel_arg_addr_space" => Rules!SpaceEntry(F, node[2][e], e)
    /\ node[1] = "kernel_arg_base_type" => Rules!NameEntry(F, node[2][e], e, m.triple)

IsInfo(m, N, node) == "kernels" \in DOMAIN m.md /\ N \in ToSet(Nodes(m)) /\ node \in ToSet(N.infos)

LEMMA OfEntries ==
    ASSUME NEW m, NEW N, NEW node, IsInfo(m, N, node), NEW e \in DOMAIN node[2]
    PROVE  node[2][e] \in Rules!EntriesOf(m, node[1])
  <1>1. Rules!KernelNodesOf(m) = ToSet(Nodes(m)) /\ Rules!ToSet(N.infos) = ToSet(N.infos)
    BY SameTables DEF Rules!KernelNodesOf, IsInfo, Nodes
  <1>2. node \in UNION {Rules!ToSet(K.infos) : K \in Rules!KernelNodesOf(m)}
    BY <1>1 DEF IsInfo
  <1>3. node \in {info \in UNION {Rules!ToSet(K.infos) : K \in Rules!KernelNodesOf(m)} : info[1] = node[1]}
    BY <1>2
  <1>4. node[2][e] \in {node[2][d] : d \in DOMAIN node[2]}
    OBVIOUS
  <1> QED
    BY <1>3, <1>4 DEF Rules!EntriesOf

LEMMA EntryDocumented ==
    ASSUME NEW m \in Modules, m.triple \in {32, 64}, NEW N, NEW node, IsInfo(m, N, node),
           NEW e \in DOMAIN node[2], N.fn \in DOMAIN m.functions
    PROVE  LET F == m.functions[N.fn]
           IN  /\ /\ EntryPasses(F, node, e, m.triple # 64) /\ ~Rules!LenientInfo(m)
                  /\ \A p \in ToSet(F.params) : TypePasses(m, p.ty, FALSE)
                  => EntryRule(m, F, node, e)
               /\ EntryRule(m, F, node, e) /\ ~Rules!Harsh(m) => EntryPasses(F, node, e, m.triple # 64)
  <1> DEFINE F == m.functions[N.fn]
             n == node[2][e]
             w == m.triple
             params == F.params
             inside == e \in DOMAIN params
  <1>1. FunctionShape(F)
    BY ModulesAssumption DEF ToSet
  <1>2. InfoShape(node)
    BY ModulesAssumption DEF IsInfo, MetadataShape, Nodes
  <1>3. IsSeq(params) /\ IsSeq(node[2])
    BY <1>1, <1>2 DEF FunctionShape, InfoShape
  <1>4. inside => params[e] \in ToSet(params) /\ TypeShape(params[e].ty)
    BY <1>1 DEF ToSet, FunctionShape
  <1>5. inside => ParamType(F, e) = params[e]
    BY DEF ParamType
  <1>6. n \in Rules!EntriesOf(m, node[1])
    BY OfEntries
  <1>7. ~Rules!Harsh(m) /\ node[1] \in {"kernel_arg_addr_space", "kernel_arg_base_type"} => inside
    <2> SUFFICES ASSUME ~Rules!Harsh(m), node[1] \in {"kernel_arg_addr_space", "kernel_arg_base_type"}
                 PROVE  inside
      OBVIOUS
    <2>1. ~Rules!LongLists(m)
      BY DEF Rules!Harsh
    <2>2. N \in Rules!KernelNodesOf(m) /\ node \in Rules!ToSet(N.infos)
      BY SameTables DEF IsInfo, Rules!KernelNodesOf, Nodes
    <2>3. ~(Len(node[2]) > Len(params))
      BY <2>1, <2>2 DEF Rules!LongLists
    <2>4. /\ DOMAIN node[2] = 1..Len(node[2]) /\ Len(node[2]) \in Nat
          /\ DOMAIN params = 1..Len(params) /\ Len(params) \in Nat
      BY <1>3, SequenceShape
    <2> HIDE DEF params
    <2> QED
      BY <2>3, <2>4
  <1> HIDE DEF F, n, w, params, inside
  <1>8. CASE node[1] = "kernel_arg_addr_space"
    <2>1. n \in Numbers
      BY <1>2, <1>8 DEF InfoShape, n, ToSet
    <2>2. EntryPasses(F, node, e, w # 64) <=>
            n # NotConst /\ Unsigned32(n) \in 0..3 /\ Unsigned32(n) = ParamType(F, e).as
      BY <1>8 DEF EntryPasses, n
    <2>3. EntryRule(m, F, node, e) <=> n \in 0..3 /\ (inside => n = params[e].as)
      BY <1>8 DEF EntryRule, Rules!SpaceEntry, n, params, inside
    <2>4. ~Rules!LenientInfo(m) => ~Rules!Wide(n)
      BY <1>6, <1>8 DEF Rules!LenientInfo, Rules!WideSpaces
    <2>5. ASSUME EntryPasses(F, node, e, w # 64), ~Rules!LenientInfo(m) PROVE EntryRule(m, F, node, e)
      BY <1>5, <2>1, <2>2, <2>3, <2>4, <2>5, Kept
    <2>6. n \in 0..3 => n \in 0..4
      OBVIOUS
    <2>7. ASSUME EntryRule(m, F, node, e), ~Rules!Harsh(m) PROVE EntryPasses(F, node, e, w # 64)
      BY <1>5, <1>7, <1>8, <2>2, <2>3, <2>6, <2>7, Kept
    <2> QED
      BY <2>5, <2>7 DEF F, w
  <1>9. CASE node[1] = "kernel_arg_base_type"
    <2>1. IsSeq(n)
      BY <1>2, <1>9 DEF InfoShape, n, ToSet
    <2>2. EntryPasses(F, node, e, w # 64) <=>
            n # NotString /\ isValidTypeName(n) /\ isValidMapOCLToLLVM(n, ParamType(F, e).ty, w # 64)
      BY <1>9 DEF EntryPasses, n
    <2>3. EntryRule(m, F, node, e) <=> Rules!NameRule(n) /\ (inside => Rules!Maps(n, params[e].ty, w))
      BY <1>9 DEF EntryRule, Rules!NameEntry, n, params, inside, w
    <2>4. ~Rules!LenientInfo(m) => ~Rules!Nameless(n)
      BY <1>6, <1>9 DEF Rules!LenientInfo, Rules!NamelessTypes
    <2>5. ~Rules!Harsh(m) => ~Contains(n, " ") /\ (n # <<>> => n[1] \notin Spelled)
      <3>1. ~Rules!Harsh(m) => ~Rules!Contains(n, " ")
        BY <1>6, <1>9 DEF Rules!Harsh, Rules!Blanks
      <3>2. ~Rules!Harsh(m) => ~(Len(n) > 0 /\ n[1] \in Spelled)
        BY <1>6, <1>9 DEF Rules!Harsh, Rules!SpelledOut, Spelled
      <3>3. n # <<>> => Len(n) > 0
        BY <2>1 DEF IsSeq
      <3> QED
        BY <3>1, <3>2, <3>3, SameTables
    <2>6. w \in {32, 64}
      BY DEF w
    <2>7. ASSUME EntryPasses(F, node, e, w # 64), ~Rules!LenientInfo(m), \A p \in ToSet(params) : TypePasses(m, p.ty, FALSE)
          PROVE  EntryRule(m, F, node, e)
      <3>1. Rules!NameRule(n)
        BY <2>1, <2>2, <2>4, <2>7, NameDocumented
      <3>2. ASSUME inside PROVE Rules!Maps(n, params[e].ty, w)
        <4>1. isValidMapOCLToLLVM(n, params[e].ty, w # 64) /\ TypeShape(params[e].ty)
          BY <1>4, <1>5, <2>2, <2>7, <3>2
        <4>2. \A c \in params[e].ty : Chain(c)
          BY <1>4, <2>7, <3>2 DEF TypePasses, LeafPasses
        <4> QED
          BY <2>1, <2>6, <3>1, <4>1, <4>2, MapDocumented
      <3> QED
        BY <2>3, <3>1, <3>2
    <2>8. ASSUME EntryRule(m, F, node, e), ~Rules!Harsh(m) PROVE EntryPasses(F, node, e, w # 64)
      <3>1. inside /\ Rules!NameRule(n) /\ Rules!Maps(n, params[e].ty, w)
        BY <1>7, <1>9, <2>3, <2>8
      <3>2. isValidTypeName(n) /\ n # NotString /\ n # <<>>
        BY <2>1, <3>1, NameDocumented
      <3>3. isValidMapOCLToLLVM(n, params[e].ty, w # 64)
        BY <1>4, <2>1, <2>5, <2>6, <2>8, <3>1, <3>2, MapDocumented
      <3> QED
        BY <1>5, <2>2, <3>1, <3>2, <3>3
    <2> QED
      BY <2>7, <2>8 DEF F, w, params
  <1>10. CASE node[1] \notin {"kernel_arg_addr_space", "kernel_arg_base_type"}
    BY <1>10 DEF EntryPasses, EntryRule
  <1> QED
    BY <1>8, <1>9, <1>10

AllLists(N) == \A kind \in RequiredInfo : \E node \in ToSet(N.infos) : node[1] = kind
EntriesPass(m, N) ==
    \A node \in ToSet(N.infos) : \A e \in DOMAIN node[2] : EntryPasses(m.functions[N.fn], node, e, m.triple # 64)

LEMMA KernelInfoTested ==
    ASSUME NEW m, NEW N, \A node \in ToSet(N.infos) : InfoShape(node)
    PROVE  KernelInfoErrors(m, N, m.triple # 64) = {} <=> AllLists(N) /\ EntriesPass(m, N)
  <1> DEFINE F == m.functions[N.fn]
             is32 == m.triple # 64
             infos == UNION {InfoErrors(node, F, is32) : node \in ToSet(N.infos)}
             missing == ErrorIf(NotFound(N) # {}, "ERR_MISSING_METADATA_KERNEL_INFO", <<"node", N>>)
  <1>1. KernelInfoErrors(m, N, is32) = infos \cup missing
    BY DEF KernelInfoErrors
  <1>2. missing = {} <=> AllLists(N)
    <2>1. missing = {} <=> NotFound(N) = {}
      BY NoErrorIf
    <2> QED
      BY <2>1 DEF NotFound, AllLists, Kind, ToSet
  <1>3. ASSUME NEW node \in ToSet(N.infos)
        PROVE  InfoErrors(node, F, is32) = {} <=> \A e \in DOMAIN node[2] : EntryPasses(F, node, e, is32)
    <2> DEFINE Entry(k) == CASE node[1] = "kernel_arg_addr_space" -> AddrSpaceErrors(node, F, k)
                             [] node[1] = "kernel_arg_base_type" -> BaseTypeErrors(node, F, is32, k)
                             [] OTHER -> {}
    <2>1. InfoErrors(node, F, is32) = UNION {Entry(k) : k \in DOMAIN node[2]}
      BY DEF InfoErrors, Kind, Entries
    <2>2. ASSUME NEW e \in DOMAIN node[2] PROVE Entry(e) = {} <=> EntryPasses(F, node, e, is32)
      <3> HIDE DEF F, is32
      <3> QED
        BY EntryTested
    <2> HIDE DEF Entry, F, is32
    <2>3. (UNION {Entry(k) : k \in DOMAIN node[2]}) = {} <=> \A e \in DOMAIN node[2] : Entry(e) = {}
      OBVIOUS
    <2> QED
      BY <2>1, <2>2, <2>3
  <1> HIDE DEF missing, F, is32
  <1>4. infos = {} <=> EntriesPass(m, N)
    <2>1. infos = {} <=> \A node \in ToSet(N.infos) : InfoErrors(node, F, is32) = {}
      OBVIOUS
    <2> QED
      BY <1>3, <2>1 DEF EntriesPass, F, is32
  <1> HIDE DEF infos
  <1> QED
    BY <1>1, <1>2, <1>4 DEF is32

MandatoryLists(N) == \A kind \in Rules!MandatoryInfo : Rules!HasInfo(N, kind)
EntriesRule(m, N) ==
    \A node \in ToSet(N.infos) : \A e \in DOMAIN node[2] : EntryRule(m, m.functions[N.fn], node, e)

LEMMA ArgInfoMeans ==
    ASSUME NEW m
    PROVE  Rules!ArgInfoRule(m) <=> \A k \in DOMAIN Nodes(m) : MandatoryLists(Nodes(m)[k]) /\ EntriesRule(m, Nodes(m)[k])
  <1>1. \A s : Rules!ToSet(s) = ToSet(s)
    BY SameTables
  <1> QED
    BY <1>1 DEF Rules!ArgInfoRule, MandatoryLists, EntriesRule, EntryRule, Nodes

LEMMA ArgInfoDocumented ==
    ASSUME NEW m \in Modules, m.triple \in {32, 64}, "kernels" \in DOMAIN m.md, NEW N \in ToSet(Nodes(m)),
           N.fn \in DOMAIN m.functions
    PROVE  /\ /\ AllLists(N) /\ EntriesPass(m, N) /\ ~Rules!LenientInfo(m)
              /\ \A p \in ToSet(m.functions[N.fn].params) : TypePasses(m, p.ty, FALSE)
              => MandatoryLists(N) /\ EntriesRule(m, N)
           /\ MandatoryLists(N) /\ EntriesRule(m, N) /\ ~Rules!Harsh(m) => AllLists(N) /\ EntriesPass(m, N)
  <1>1. \A node \in ToSet(N.infos) : IsInfo(m, N, node)
    BY DEF IsInfo
  <1>2. N \in Rules!KernelNodesOf(m)
    BY SameTables DEF Rules!KernelNodesOf, Nodes
  <1>2a. \A kind : Rules!HasInfo(N, kind) <=> \E node \in ToSet(N.infos) : node[1] = kind
    BY SameTables DEF Rules!HasInfo
  <1>3. AllLists(N) /\ ~Rules!LenientInfo(m) => MandatoryLists(N)
    <2>1. Rules!MandatoryInfo = RequiredInfo \cup {"kernel_arg_access_qual", "kernel_arg_type_qual"}
      BY DEF RequiredInfo, Rules!MandatoryInfo
    <2>2. ~Rules!LenientInfo(m) => \A kind \in {"kernel_arg_access_qual", "kernel_arg_type_qual"} : Rules!HasInfo(N, kind)
      BY <1>2 DEF Rules!LenientInfo, Rules!PartialInfo
    <2> QED
      BY <1>2a, <2>1, <2>2 DEF AllLists, MandatoryLists
  <1>4. MandatoryLists(N) => AllLists(N)
    <2>1. RequiredInfo \subseteq Rules!MandatoryInfo
      BY DEF RequiredInfo, Rules!MandatoryInfo
    <2> QED
      BY <1>2a, <2>1 DEF MandatoryLists, AllLists
  <1>5. ASSUME EntriesPass(m, N), ~Rules!LenientInfo(m), \A p \in ToSet(m.functions[N.fn].params) : TypePasses(m, p.ty, FALSE)
        PROVE  EntriesRule(m, N)
    BY <1>1, <1>5, EntryDocumented DEF EntriesPass, EntriesRule
  <1>6. ASSUME EntriesRule(m, N), ~Rules!Harsh(m) PROVE EntriesPass(m, N)
    BY <1>1, <1>6, EntryDocumented DEF EntriesPass, EntriesRule
  <1> QED
    BY <1>3, <1>4, <1>5, <1>6

\* The functions with their instructions, and the global variables, as the executors go
\* over them.
ItemsPass(m) ==
    /\ \A F \in ToSet(m.functions) : FunctionPasses(m, F) /\ \A I \in ToSet(F.body) : InstructionPasses(m, I)
    /\ \A G \in ToSet(m.globals) : GlobalPasses(G)

LEMMA ItemsAreTested ==
    ASSUME NEW m \in Modules
    PROVE  FunctionsTested(m, "reported", 1, 0) /\ GlobalsTested(m, "reported", 1) <=> ItemsPass(m)
  <1>1. \A s : ToSet(s) = {s[k] : k \in DOMAIN s}
    BY DEF ToSet
  <1>2. FunctionsTested(m, "reported", 1, 0) <=>
          \A f \in DOMAIN m.functions :
            /\ FunctionErrors(m, f, Declared(m)) = {}
            /\ \A k \in DOMAIN m.functions[f].body :
                 InstructionErrors(m, m.functions[f].body[k], Declared(m)) = {}
    BY DEF FunctionsTested, PrototypeTested, InstructionTested
  <1>3. GlobalsTested(m, "reported", 1) <=> \A g \in DOMAIN m.globals : GlobalErrors(m.globals[g]) = {}
    BY DEF GlobalsTested
  <1>4. ASSUME NEW f \in DOMAIN m.functions, NEW k \in DOMAIN m.functions[f].body
        PROVE  InstructionErrors(m, m.functions[f].body[k], Declared(m)) = {} <=>
                 InstructionPasses(m, m.functions[f].body[k])
    <2>1. FunctionShape(m.functions[f])
      BY ModulesAssumption DEF ToSet
    <2>2. TypeShape(m.functions[f].body[k].ty)
      BY <2>1 DEF FunctionShape, ToSet
    <2> QED
      BY <2>2, InstructionIsTested
  <1>5. FunctionsTested(m, "reported", 1, 0) <=>
          \A f \in DOMAIN m.functions :
            /\ FunctionPasses(m, m.functions[f])
            /\ \A k \in DOMAIN m.functions[f].body : InstructionPasses(m, m.functions[f].body[k])
    BY <1>2, <1>4, FunctionIsTested
  <1>6. GlobalsTested(m, "reported", 1) <=> \A g \in DOMAIN m.globals : GlobalPasses(m.globals[g])
    BY <1>3, GlobalIsTested
  <1> QED
    BY <1>1, <1>5, <1>6 DEF ItemsPass

LEMMA ItemsDocumented ==
    ASSUME NEW m \in Modules
    PROVE  /\ ItemsPass(m) /\ ~Rules!LenientCode(m) => Rules!CodeRule(m)
           /\ ItemsPass(m) /\ ~Rules!StrayLocals(m) => Rules!GlobalsRule(m)
           /\ Rules!CodeRule(m) /\ Rules!GlobalsRule(m) /\ ~Rules!Harsh(m) => ItemsPass(m)
  <1>1. \A s : Rules!ToSet(s) = ToSet(s)
    BY SameTables
  <1>2. ItemsPass(m) /\ ~Rules!LenientCode(m) => Rules!CodeRule(m)
    BY <1>1, FunctionDocumented, InstructionDocumented DEF ItemsPass, Rules!CodeRule
  <1>3. ItemsPass(m) /\ ~Rules!StrayLocals(m) => Rules!GlobalsRule(m)
    BY <1>1, GlobalDocumented DEF ItemsPass, Rules!GlobalsRule
  <1>4. Rules!CodeRule(m) /\ Rules!GlobalsRule(m) /\ ~Rules!Harsh(m) => ItemsPass(m)
    BY <1>1, FunctionDocumented, InstructionDocumented, GlobalDocumented
       DEF ItemsPass, Rules!CodeRule, Rules!GlobalsRule
  <1> QED
    BY <1>2, <1>3, <1>4

MetadataPasses(m) ==
    /\ Rules!TripleRule(m) /\ Rules!ListRule(m)
    /\ VersionPasses(m, "ocl") /\ VersionPasses(m, "spir")
    /\ "kernels" \in DOMAIN m.md /\ ~CountsDiffer(m)

LEMMA MetadataIsTested == ASSUME NEW m \in Modules PROVE ModuleTested(m, "reported") <=> MetadataPasses(m)
  BY VersionIsTested, TripleAsRule, ListsAsRule DEF ModuleTested, MetadataPasses

LEMMA VersionsDocumented ==
    ASSUME NEW m \in Modules
    PROVE  /\ VersionPasses(m, "ocl") /\ VersionPasses(m, "spir") /\ ~Rules!WideVersions(m) => Rules!VersionRule(m)
           /\ Rules!VersionRule(m) => VersionPasses(m, "ocl") /\ VersionPasses(m, "spir")
  <1>1. Rules!VersionRule(m) <=> OneVersion(m, "ocl") /\ OneVersion(m, "spir")
    BY DEF Rules!VersionRule, OneVersion
  <1> QED
    BY <1>1, VersionDocumented

\* The verdict is what the documents say of the module as a whole, but for the departures
\* SpirRules names: no executor is skipped by an early return of another, no item by the way
\* the lists are walked, and no error is lost or made up.  (SpirValidation::runOnModule and
\* every executor under it)
THEOREM VerdictOfRules == Spec => []VerdictIsRules
  <1>1. IInv /\ VerdictOfAllTests /\ KernelsMatched => VerdictIsRules
    <2> SUFFICES ASSUME IInv, VerdictOfAllTests, KernelsMatched, Done
                 PROVE  /\ out = "valid" =>
                             /\ Rules!TripleRule(M) /\ Rules!KernelRule(M) /\ Rules!ListRule(M)
                             /\ Rules!CodeRule(M) \/ Rules!LenientCode(M)
                             /\ Rules!ArgInfoRule(M) \/ Rules!LenientInfo(M)
                             /\ Rules!VersionRule(M) \/ Rules!WideVersions(M)
                             /\ Rules!GlobalsRule(M) \/ Rules!StrayLocals(M)
                        /\ Rules!IsSpir(M) /\ ~Rules!Harsh(M) => out = "valid"
      BY DEF VerdictIsRules
    <2>1. M \in Modules /\ (out = "valid" <=> Tested(M, "reported", 1, 0))
      BY DEF IInv, VerdictOfAllTests
    <2>2. ItemsPass(M) <=> FunctionsTested(M, "reported", 1, 0) /\ GlobalsTested(M, "reported", 1)
      BY <2>1, ItemsAreTested
    <2>3. Rules!IsSpir(M) <=> /\ Rules!TripleRule(M) /\ Rules!KernelRule(M) /\ Rules!ArgInfoRule(M)
                              /\ Rules!VersionRule(M) /\ Rules!ListRule(M)
                              /\ Rules!CodeRule(M) /\ Rules!GlobalsRule(M)
      BY DEF Rules!IsSpir
    <2>4. \A k \in DOMAIN Nodes(M) : "kernels" \in DOMAIN M.md =>
            Nodes(M)[k] \in ToSet(Nodes(M)) /\ \A node \in ToSet(Nodes(M)[k].infos) : InfoShape(node)
      BY <2>1, ModulesAssumption DEF MetadataShape, Nodes, ToSet
    <2>5. Rules!TripleRule(M) => M.triple \in {32, 64}
      BY DEF Rules!TripleRule
    <2>6. ASSUME out = "valid"
          PROVE  /\ Rules!TripleRule(M) /\ Rules!KernelRule(M) /\ Rules!ListRule(M)
                 /\ Rules!CodeRule(M) \/ Rules!LenientCode(M)
                 /\ Rules!ArgInfoRule(M) \/ Rules!LenientInfo(M)
                 /\ Rules!VersionRule(M) \/ Rules!WideVersions(M)
                 /\ Rules!GlobalsRule(M) \/ Rules!StrayLocals(M)
      <3>1. /\ ModuleTested(M, "reported") /\ ItemsPass(M)
            /\ Rules!KernelRule(M)
            /\ \A k \in DOMAIN Nodes(M) : KernelInfoErrors(M, Nodes(M)[k], M.triple # 64) = {}
        BY <2>1, <2>2, <2>6 DEF Tested, ModuleTested, NodesTested, KernelsMatched, GoodNode
      <3>2. "kernels" \in DOMAIN M.md /\ \A k \in DOMAIN Nodes(M) : Nodes(M)[k].fn \in DOMAIN M.functions
        BY <3>1 DEF Rules!KernelRule, Rules!IsKernel, Nodes
      <3>3. MetadataPasses(M)
        BY <2>1, <3>1, MetadataIsTested
      <3>4. Rules!TripleRule(M) /\ Rules!ListRule(M) /\ (Rules!VersionRule(M) \/ Rules!WideVersions(M))
        BY <2>1, <3>3, VersionsDocumented DEF MetadataPasses
      <3>5. (Rules!CodeRule(M) \/ Rules!LenientCode(M)) /\ (Rules!GlobalsRule(M) \/ Rules!StrayLocals(M))
        BY <2>1, <3>1, ItemsDocumented
      <3>6. ASSUME ~Rules!LenientInfo(M), NEW k \in DOMAIN Nodes(M)
            PROVE  MandatoryLists(Nodes(M)[k]) /\ EntriesRule(M, Nodes(M)[k])
        <4> DEFINE N == Nodes(M)[k]
        <4>1. AllLists(N) /\ EntriesPass(M, N)
          BY <2>4, <3>1, <3>2, KernelInfoTested
        <4>2. \A p \in ToSet(M.functions[N.fn].params) : TypePasses(M, p.ty, FALSE)
          <5>1. M.functions[N.fn] \in ToSet(M.functions)
            BY <3>2 DEF ToSet
          <5>2. FunctionPasses(M, M.functions[N.fn])
            BY <3>1, <5>1 DEF ItemsPass
          <5> QED
            BY <5>2 DEF FunctionPasses, PrototypePasses
        <4> QED
          BY <2>1, <2>4, <2>5, <3>2, <3>4, <3>6, <4>1, <4>2, ArgInfoDocumented
      <3>7. Rules!ArgInfoRule(M) \/ Rules!LenientInfo(M)
        BY <3>6, ArgInfoMeans
      <3> QED
        BY <3>1, <3>4, <3>5, <3>7
    <2>7. ASSUME Rules!IsSpir(M), ~Rules!Harsh(M) PROVE out = "valid"
      <3>1. Rules!KernelRule(M) /\ Rules!ArgInfoRule(M) /\ Rules!CodeRule(M) /\ Rules!GlobalsRule(M) /\ Rules!TripleRule(M)
            /\ Rules!ListRule(M) /\ Rules!VersionRule(M)
        BY <2>3, <2>7
      <3>2. /\ "kernels" \in DOMAIN M.md /\ ~CountsDiffer(M)
            /\ \A k \in DOMAIN Nodes(M) :
                 /\ Nodes(M)[k].fn # 0
                 /\ M.functions[Nodes(M)[k].fn].cc = "SPIR_KERNEL"
                 /\ \A l \in 1..(k - 1) : Nodes(M)[l].fn # Nodes(M)[k].fn
        BY <2>1, <3>1, KernelRuleTested
      <3>3. ModuleTested(M, "reported")
        <4>1. MetadataPasses(M)
          BY <2>1, <3>1, <3>2, VersionsDocumented DEF MetadataPasses
        <4> QED
          BY <2>1, <4>1, MetadataIsTested
      <3>4. ASSUME NEW k \in DOMAIN Nodes(M) PROVE GoodNode(M, k)
        <4>1. Nodes(M)[k].fn \in DOMAIN M.functions
          BY <2>1, <3>2, ModuleShape
        <4>2. MandatoryLists(Nodes(M)[k]) /\ EntriesRule(M, Nodes(M)[k])
          BY <3>1, ArgInfoMeans
        <4>3. AllLists(Nodes(M)[k]) /\ EntriesPass(M, Nodes(M)[k])
          BY <2>1, <2>4, <2>5, <2>7, <3>1, <3>2, <4>1, <4>2, ArgInfoDocumented
        <4>4. KernelInfoErrors(M, Nodes(M)[k], M.triple # 64) = {}
          BY <2>4, <3>2, <4>3, KernelInfoTested
        <4> QED
          BY <3>2, <4>4 DEF GoodNode
      <3>5. NodesTested(M, "reported", 1)
        BY <3>4 DEF NodesTested
      <3>6. ItemsPass(M)
        BY <2>1, <2>7, <3>1, ItemsDocumented
      <3> QED
        BY <2>1, <2>2, <3>3, <3>5, <3>6 DEF Tested
    <2> QED
      BY <2>6, <2>7
  <1> QED
    BY <1>1, Invariance, VerdictCovers, KernelsCorrespond, PTL

-----------------------------------------------------------------------------
\* The errors that can be found

ErrorTypes == DOMAIN Holder!InfoList
Sound(E) == IsFiniteSet(E) /\ \A e \in E : e.t \in ErrorTypes

LEMMA TheTypes ==
    ErrorTypes =
      {"ERR_INVALID_TRIPLE", "ERR_INVALID_DATA_LAYOUT", "ERR_MISMATCH_TRIPLE_AND_DATA_LAYOUT",
       "ERR_INVALID_OCL_TYPE", "ERR_INVALID_LLVM_TYPE", "ERR_INVALID_KERNEL_RETURN_TYPE",
       "ERR_KERNEL_ARG_PTRPTR", "ERR_KERNEL_ARG_AS0", "ERR_MISMATCH_OCL_AND_LLVM_TYPES",
       "ERR_INVALID_GLOBAL_AS3_VAR", "ERR_INVALID_GLOBAL_VAR_ADDRESS_SPACE", "ERR_INVALID_INTRINSIC",
       "ERR_INVALID_ADDR_SPACE", "ERR_INVALID_ADDR_SPACE_CAST", "ERR_INVALID_INDIRECT_CALL",
       "ERR_INVALID_MEM_FENCE", "ERR_INVALID_CALLING_CONVENTION", "ERR_INVALID_LINKAGE_TYPE",
       "ERR_INVALID_CORE_FEATURE", "ERR_INVALID_KHR_EXT", "ERR_INVALID_COMPILER_OPTION",
       "ERR_MISSING_NAMED_METADATA", "ERR_INVALID_METADATA_KERNEL", "ERR_INVALID_METADATA_KERNEL_INFO",
       "ERR_MISSING_METADATA_KERNEL_INFO", "ERR_INVALID_METADATA_VERSION",
       "ERR_MISMATCH_METADATA_ADDR_SPACE"}
  BY DEF ErrorTypes, Holder!InfoList

LEMMA SoundNone == Sound({})
  BY FS_EmptySet DEF Sound

LEMMA SoundOne == ASSUME NEW t \in ErrorTypes, NEW x PROVE Sound(addError(t, x))
  <1> DEFINE e == [t |-> t, x |-> x]
  <1>1. addError(t, x) = {e} /\ e.t = t
    BY DEF addError
  <1> HIDE DEF e
  <1> QED
    BY <1>1, FS_Singleton DEF Sound

LEMMA SoundIf == ASSUME NEW c, NEW t \in ErrorTypes, NEW x PROVE Sound(ErrorIf(c, t, x))
  BY SoundNone, SoundOne DEF ErrorIf

LEMMA SoundBoth == ASSUME NEW E, NEW F, Sound(E), Sound(F) PROVE Sound(E \cup F)
  BY FS_Union DEF Sound

LEMMA SoundAll ==
    ASSUME NEW I, IsFiniteSet(I), NEW f, DOMAIN f = I, \A k \in I : Sound(f[k])
    PROVE  Sound(UNION {f[k] : k \in I})
  <1> DEFINE T == {f[k] : k \in I}
  <1>1. IsFiniteSet(T)
    <2> DEFINE g == [k \in I |-> f[k]]
    <2>1. g \in Surjection(I, T)
      BY DEF Surjection
    <2> QED
      BY <2>1, FS_Surjection
  <1>2. IsFiniteSet(UNION T)
    BY <1>1, FS_UNION DEF Sound
  <1> QED
    BY <1>2 DEF Sound

LEMMA FiniteSequence ==
    ASSUME NEW s, IsSeq(s)
    PROVE  IsFiniteSet(DOMAIN s) /\ IsFiniteSet(ToSet(s))
  <1>1. DOMAIN s = 1..Len(s) /\ Len(s) \in Nat
    BY DEF IsSeq
  <1>2. IsFiniteSet(DOMAIN s)
    BY <1>1, FS_Interval
  <1>3. [k \in DOMAIN s |-> s[k]] \in Surjection(DOMAIN s, ToSet(s))
    BY DEF Surjection, ToSet
  <1> QED
    BY <1>2, <1>3, FS_Surjection

LEMMA ModuleSound == ASSUME NEW m PROVE Sound(TripleErrors(m))
  BY TheTypes, SoundIf, SoundBoth DEF TripleErrors

LEMMA MissingSound == ASSUME NEW name PROVE Sound(Missing(name))
  BY TheTypes, SoundOne DEF Missing

LEMMA VersionSound == ASSUME NEW m, NEW name PROVE Sound(VersionErrors(m, name))
  BY TheTypes, MissingSound, SoundIf DEF VersionErrors

LEMMA EntrySound ==
    ASSUME NEW m, NEW name, NEW t \in ErrorTypes PROVE Sound(EntryErrors(m, name, t))
  BY MissingSound, SoundIf DEF EntryErrors

LEMMA ListSound ==
    ASSUME NEW m, NEW D
    PROVE  Sound(CoreFeatureErrors(m, D)) /\ Sound(KHRExtensionErrors(m, D)) /\ Sound(CompilerOptionErrors(m))
  <1>1. Sound(CoreFeatureErrors(m, D))
    BY TheTypes, EntrySound, SoundIf, SoundBoth DEF CoreFeatureErrors
  <1>2. Sound(KHRExtensionErrors(m, D))
    BY TheTypes, EntrySound, SoundIf, SoundBoth DEF KHRExtensionErrors
  <1>3. Sound(CompilerOptionErrors(m))
    BY TheTypes, EntrySound, SoundIf, SoundBoth DEF CompilerOptionErrors
  <1> QED
    BY <1>1, <1>2, <1>3

LEMMA EntriesSound ==
    ASSUME NEW node, IsSeq(Entries(node)), NEW F, NEW is32
    PROVE  Sound(InfoErrors(node, F, is32))
  <1> DEFINE Entry(k) == CASE Kind(node) = "kernel_arg_addr_space" -> AddrSpaceErrors(node, F, k)
                           [] Kind(node) = "kernel_arg_base_type" -> BaseTypeErrors(node, F, is32, k)
                           [] OTHER -> {}
             f == [k \in DOMAIN Entries(node) |-> Entry(k)]
  <1>1. ASSUME NEW k PROVE Sound(AddrSpaceErrors(node, F, k))
    BY TheTypes, SoundNone, SoundOne, SoundIf, SoundBoth DEF AddrSpaceErrors
  <1>2. ASSUME NEW k PROVE Sound(BaseTypeErrors(node, F, is32, k))
    BY TheTypes, SoundNone, SoundOne, SoundBoth DEF BaseTypeErrors
  <1>3. ASSUME NEW k PROVE Sound(Entry(k))
    BY <1>1, <1>2, SoundNone
  <1>4. InfoErrors(node, F, is32) = UNION {f[k] : k \in DOMAIN Entries(node)}
    BY DEF InfoErrors
  <1>5. IsFiniteSet(DOMAIN Entries(node))
    BY FiniteSequence
  <1>6. DOMAIN f = DOMAIN Entries(node) /\ \A k \in DOMAIN Entries(node) : f[k] = Entry(k)
    OBVIOUS
  <1> HIDE DEF f, Entry
  <1> QED
    BY <1>3, <1>4, <1>5, <1>6, SoundAll

LEMMA KernelInfoSound ==
    ASSUME NEW m, NEW N, IsSeq(N.infos), \A node \in ToSet(N.infos) : InfoShape(node), NEW is32
    PROVE  Sound(KernelInfoErrors(m, N, is32))
  <1> DEFINE I == ToSet(N.infos)
             f == [node \in I |-> InfoErrors(node, m.functions[N.fn], is32)]
  <1>1. \A node \in I : Sound(f[node])
    BY EntriesSound DEF InfoShape, Entries
  <1>2. DOMAIN f = I /\ UNION {f[node] : node \in I} = UNION {InfoErrors(node, m.functions[N.fn], is32) : node \in I}
    OBVIOUS
  <1>3. IsFiniteSet(I)
    BY FiniteSequence
  <1> HIDE DEF f, I
  <1>4. Sound(UNION {f[node] : node \in I})
    BY <1>1, <1>2, <1>3, SoundAll
  <1>5. Sound(ErrorIf(NotFound(N) # {}, "ERR_MISSING_METADATA_KERNEL_INFO", <<"node", N>>))
    BY TheTypes, SoundIf
  <1> QED
    BY <1>2, <1>4, <1>5, SoundBoth DEF KernelInfoErrors, I

LEMMA FunctionSound ==
    ASSUME NEW m, NEW f, IsSeq(m.functions[f].params), NEW D
    PROVE  Sound(FunctionErrors(m, f, D))
  <1> DEFINE F == m.functions[f]
             I == ToSet(F.params)
             g == [p \in I |-> TypeErrors(p.ty, D, FALSE, <<"param", p, F.name>>)]
             h == [p \in I |-> KernelParamErrors(p, F)]
  <1>1. IsFiniteSet(I)
    BY FiniteSequence
  <1>2. \A t, boolVec, x : Sound(TypeErrors(t, D, boolVec, x))
    BY TheTypes, SoundIf DEF TypeErrors
  <1>3. \A p : Sound(KernelParamErrors(p, F))
    BY TheTypes, SoundIf, SoundBoth DEF KernelParamErrors
  <1>4. Sound(UNION {TypeErrors(p.ty, D, FALSE, <<"param", p, F.name>>) : p \in I})
    <2>1. DOMAIN g = I /\ UNION {g[p] : p \in I} = UNION {TypeErrors(p.ty, D, FALSE, <<"param", p, F.name>>) : p \in I}
          /\ \A p \in I : Sound(g[p])
      BY <1>2
    <2> HIDE DEF g, I
    <2>2. Sound(UNION {g[p] : p \in I})
      BY <1>1, <2>1, SoundAll
    <2> QED
      BY <2>1, <2>2
  <1>5. Sound(UNION {KernelParamErrors(p, F) : p \in I})
    <2>1. DOMAIN h = I /\ UNION {h[p] : p \in I} = UNION {KernelParamErrors(p, F) : p \in I}
          /\ \A p \in I : Sound(h[p])
      BY <1>3
    <2> HIDE DEF h, I
    <2>2. Sound(UNION {h[p] : p \in I})
      BY <1>1, <2>1, SoundAll
    <2> QED
      BY <2>1, <2>2
  <1> HIDE DEF F
  <1>6. Sound(FunctionPrototypeErrors(F, D))
    BY TheTypes, <1>2, <1>4, SoundIf, SoundBoth DEF FunctionPrototypeErrors
  <1>7. Sound(KernelPrototypeErrors(F))
    BY TheTypes, <1>5, SoundNone, SoundIf, SoundBoth DEF KernelPrototypeErrors
  <1> QED
    BY <1>6, <1>7, SoundBoth DEF FunctionErrors, F

LEMMA InstructionSound ==
    ASSUME NEW m, NEW I, NEW D
    PROVE  Sound(InstructionErrors(m, I, D))
  <1>1. Sound(BitcastErrors(I))
    BY TheTypes, SoundIf, SoundBoth DEF BitcastErrors
  <1>2. Sound(CallErrors(m, I))
    BY TheTypes, SoundNone, SoundOne, SoundIf, SoundBoth DEF CallErrors
  <1>3. Sound(TypeErrors(I.ty, D, I.op = "cmp", <<"inst type", I>>))
    BY TheTypes, SoundIf DEF TypeErrors
  <1> QED
    BY <1>1, <1>2, <1>3, SoundBoth DEF InstructionErrors

LEMMA GlobalSound == ASSUME NEW G PROVE Sound(GlobalErrors(G))
  BY TheTypes, SoundNone, SoundOne, SoundIf, SoundBoth DEF GlobalErrors

LEMMA NodeSound == ASSUME NEW N PROVE Sound(BadNode(N))
  BY TheTypes, SoundOne DEF BadNode

\* Whatever the executors find goes into the errors.
LEMMA SoundKept == IInv /\ Sound(EL) /\ [Next]_vars => Sound(EL')
  <1> SUFFICES ASSUME IInv, Sound(EL), [Next]_vars PROVE Sound(EL')
    OBVIOUS
  <1>0. M \in Modules /\ TypeOK
    BY DEF IInv
  <1>1. CASE VerifyTripleAndDataLayout
    BY <1>1, ModuleSound, SoundBoth DEF VerifyTripleAndDataLayout
  <1>2. CASE VerifyMetadataKernels
    BY <1>2, TheTypes, MissingSound, SoundIf, SoundBoth DEF VerifyMetadataKernels
  <1>3. CASE VerifyMetadataKernel
    <2> DEFINE N == KernelNodes[i]
    <2>1. i \in DOMAIN KernelNodes /\ "kernels" \in DOMAIN M.md
      BY <1>0, <1>3 DEF TypeOK, VerifyMetadataKernel, IInv, FoundSoFar
    <2>2. IsSeq(N.infos) /\ \A node \in ToSet(N.infos) : InfoShape(node)
      <3>1. N \in ToSet(M.md["kernels"])
        BY <2>1 DEF KernelNodes, ToSet
      <3> QED
        BY <1>0, <2>1, <3>1, ModulesAssumption DEF MetadataShape
    <2> HIDE DEF N
    <2>3. Sound(KernelInfoErrors(M, N, Data.Is32Bit)) /\ Sound(BadNode(N))
      BY <2>2, KernelInfoSound, NodeSound
    <2>4. Sound(RepeatErrors(N, FoundMap))
      BY NodeSound, SoundNone, SoundBoth DEF RepeatErrors
    <2>5. Sound(IF M.functions[N.fn].cc # "SPIR_KERNEL" THEN BadNode(N) ELSE {})
      BY <2>3, SoundNone
    <2>6. EL' = EL \cup BadNode(N)
          \/ EL' = ((EL \cup (IF M.functions[N.fn].cc # "SPIR_KERNEL" THEN BadNode(N) ELSE {}))
                      \cup RepeatErrors(N, FoundMap)) \cup KernelInfoErrors(M, N, Data.Is32Bit)
      BY <1>3 DEF VerifyMetadataKernel, N
    <2> QED
      BY <2>3, <2>4, <2>5, <2>6, SoundBoth
  <1>4. CASE VerifyMetadataVersions("ocl", "spir") \/ VerifyMetadataVersions("spir", "core")
    BY <1>4, VersionSound, SoundBoth DEF VerifyMetadataVersions
  <1>5. CASE VerifyMetadataCoreFeatures
    BY <1>5, ListSound, SoundBoth DEF VerifyMetadataCoreFeatures
  <1>6. CASE VerifyMetadataKHRExtensions
    BY <1>6, ListSound, SoundBoth DEF VerifyMetadataKHRExtensions
  <1>7. CASE VerifyMetadataCompilerOptions
    BY <1>7, ListSound, SoundBoth DEF VerifyMetadataCompilerOptions
  <1>8. CASE VerifyFunction
    <2>1. IsSeq(M.functions[i].params)
      BY <1>0, <1>8, ModulesAssumption DEF VerifyFunction, FunctionShape, ToSet
    <2> QED
      BY <1>8, <2>1, FunctionSound, SoundBoth DEF VerifyFunction
  <1>9. CASE VerifyInstruction
    BY <1>9, InstructionSound, SoundBoth DEF VerifyInstruction
  <1>10. CASE VerifyGlobalVariable
    BY <1>10, GlobalSound, SoundBoth DEF VerifyGlobalVariable
  <1>11. CASE NextFunction \/ Report \/ UNCHANGED vars
    BY <1>11 DEF NextFunction, Report, vars
  <1> QED
    BY <1>1, <1>2, <1>3, <1>4, <1>5, <1>6, <1>7, <1>8, <1>9, <1>10, <1>11 DEF Next
-----------------------------------------------------------------------------
\* The first loop: the errors without their repetitions

\* The loop is defined: each turn adds its error unless it is there.
LEMMA UniqueErrorsStep ==
    ASSUME NEW E, NEW list \in Seq(E)
    PROVE  \E UEL : /\ UEL \in [0..Len(list) -> Seq(E)]
                    /\ UEL[0] = <<>>
                    /\ \A n \in 1..Len(list) : UEL[n] = Holder!AddUnique(UEL[n - 1], list[n])
                    /\ Holder!UniqueErrors(list) = UEL[Len(list)]
  <1> DEFINE n == Len(list)
             A == Seq(E)
             step == [k \in 1..n |-> [x \in A |-> Holder!AddUnique(x, list[k])]]
             Rec(f) == f = [k \in 0..n |-> IF k = 0 THEN <<>> ELSE Holder!AddUnique(f[k - 1], list[k])]
             Good(f) == /\ f \in [0..n -> A] /\ f[0] = <<>>
                        /\ \A k \in 1..n : f[k] = Holder!AddUnique(f[k - 1], list[k])
  <1>1. n \in Nat /\ <<>> \in A
    OBVIOUS
  <1>2. \A k \in 1..n : list[k] \in E
    OBVIOUS
  <1>3. \A u \in A, e \in E : Holder!AddUnique(u, e) \in A
    BY DEF Holder!AddUnique
  <1>4. step \in [1..n -> [A -> A]]
    BY <1>2, <1>3
  <1>5. \A f \in [0..n -> A] : Iterates(f, step, n, A, <<>>) => Good(f)
    <2> HIDE DEF n, A
    <2> QED
      BY <1>1 DEF Iterates
  <1>6. \E f : Rec(f)
    <2> HIDE DEF step, n, A
    <2>1. PICK f : Iterates(f, step, n, A, <<>>)
      BY <1>1, <1>4, RecursionDefines DEF Steps
    <2>2. Good(f)
      BY <1>5, <2>1 DEF Iterates
    <2>3. Rec(f)
      BY <2>2, <1>1
    <2> QED
      BY <2>3
  <1>7. \A f : Rec(f) => Good(f)
    <2> HIDE DEF n, A
    <2> SUFFICES ASSUME NEW f, Rec(f) PROVE Good(f)
      OBVIOUS
    <2>1. f[0] = <<>> /\ \A k \in 1..n : f[k] = Holder!AddUnique(f[k - 1], list[k])
      BY <1>1
    <2> DEFINE S == {k \in Nat : k <= n => f[k] \in A}
    <2>2. 0 \in S
      BY <1>1, <2>1
    <2>3. ASSUME NEW k \in Nat, k \in S PROVE k + 1 \in S
      <3> SUFFICES ASSUME k + 1 <= n PROVE f[k + 1] \in A
        OBVIOUS
      <3>1. f[k + 1] = Holder!AddUnique(f[k], list[k + 1]) /\ f[k] \in A /\ list[k + 1] \in E
        BY <1>1, <1>2, <2>1, <2>3
      <3> QED
        BY <1>3, <3>1
    <2> HIDE DEF S
    <2>4. Nat \subseteq S
      BY <2>2, <2>3, NatSetInduction
    <2>5. \A k \in 0..n : f[k] \in A
      BY <1>1, <2>4 DEF S
    <2> QED
      BY <2>1, <2>5
  <1> DEFINE X == CHOOSE f : Rec(f)
  <1>8. Holder!UniqueErrors(list) = X[n]
    BY DEF Holder!UniqueErrors
  <1>9. Rec(X)
    <2> HIDE DEF Rec
    <2> QED
      BY <1>6
  <1>10. Good(X)
    <2> HIDE DEF X, Rec, Good
    <2> QED
      BY <1>7, <1>9
  <1> HIDE DEF X
  <1> QED
    BY <1>8, <1>10

\* A list without repetitions, and it backwards, come to the list.
LEMMA UniqueErrorsOnce ==
    ASSUME NEW E, NEW order \in Seq(E), IsInjective(order)
    PROVE  Holder!UniqueErrors(Found(order)) = order
  <1> DEFINE n == Len(order)
             list == Found(order)
  <1>1. n \in Nat /\ list \in Seq(E) /\ Len(list) = n + n
    BY DEF Found, Reverse
  <1>2. \A k \in 1..n : list[k] = order[k]
    BY DEF Found, Reverse
  <1>3. \A k \in (n + 1)..(n + n) : \E l \in 1..n : list[k] = order[l]
    <2> SUFFICES ASSUME NEW k \in (n + 1)..(n + n) PROVE list[k] = order[n + n + 1 - k] /\ n + n + 1 - k \in 1..n
      OBVIOUS
    <2>1. list[k] = Reverse(order)[k - n]
      BY <1>1 DEF Found, Reverse
    <2> QED
      BY <2>1 DEF Reverse
  <1> HIDE DEF list
  <1>4. PICK UEL : /\ UEL \in [0..Len(list) -> Seq(E)]
                   /\ UEL[0] = <<>>
                   /\ \A k \in 1..Len(list) : UEL[k] = Holder!AddUnique(UEL[k - 1], list[k])
                   /\ Holder!UniqueErrors(list) = UEL[Len(list)]
    BY <1>1, UniqueErrorsStep
  <1> DEFINE S == {k \in Nat : k <= n + n => UEL[k] = SubSeq(order, 1, IF k <= n THEN k ELSE n)}
  <1>5. 0 \in S
    BY <1>1, <1>4
  <1>6. ASSUME NEW k \in Nat, k \in S PROVE k + 1 \in S
    <2> SUFFICES ASSUME k + 1 <= n + n PROVE UEL[k + 1] = SubSeq(order, 1, IF k + 1 <= n THEN k + 1 ELSE n)
      OBVIOUS
    <2>1. UEL[k + 1] = Holder!AddUnique(UEL[k], list[k + 1])
      BY <1>1, <1>4
    <2>2. CASE k + 1 <= n
      <3> DEFINE s == SubSeq(order, 1, k)
      <3>1. UEL[k] = s /\ list[k + 1] = order[k + 1]
        BY <1>1, <1>2, <1>6, <2>2
      <3>2. DOMAIN s = 1..k /\ \A l \in 1..k : s[l] = order[l]
        BY <1>1, <2>2
      <3>3. ~ \E l \in DOMAIN s : s[l] = order[k + 1]
        BY <1>1, <2>2, <3>2 DEF IsInjective
      <3>4. UEL[k + 1] = Append(s, order[k + 1])
        BY <2>1, <3>1, <3>3 DEF Holder!AddUnique
      <3> QED
        BY <1>1, <2>2, <3>4
    <2>3. CASE n < k + 1
      <3>1. UEL[k] = order
        <4>1. (IF k <= n THEN k ELSE n) = n /\ k <= n + n
          BY <1>1, <2>3
        <4>2. UEL[k] = SubSeq(order, 1, n)
          <5>1. UEL[k] = SubSeq(order, 1, IF k <= n THEN k ELSE n)
            BY <1>6, <4>1
          <5> QED
            BY <4>1, <5>1
        <4>3. SubSeq(order, 1, n) = order
          OBVIOUS
        <4> QED
          BY <4>2, <4>3
      <3>2. \E l \in DOMAIN order : order[l] = list[k + 1]
        BY <1>1, <1>3, <2>3
      <3>3. UEL[k + 1] = order
        BY <2>1, <3>1, <3>2 DEF Holder!AddUnique
      <3> QED
        BY <1>1, <2>3, <3>3
    <2> QED
      BY <1>1, <2>2, <2>3
  <1> HIDE DEF S
  <1>7. n + n \in S
    BY <1>1, <1>5, <1>6, NatSetInduction
  <1>8. UEL[n + n] = SubSeq(order, 1, n)
    BY <1>1, <1>7 DEF S
  <1> QED
    BY <1>1, <1>4, <1>8 DEF list

-----------------------------------------------------------------------------
\* The second loop: the numbers of the paragraphs

Infos == ToSet(Holder!InfoData)

\* Where the loop is after n turns.
NumberedSoFar(keys, n, s) ==
    /\ s.ITmap \in [keys -> Nat] /\ s.infos \in Seq(keys)
    /\ \A k \in 1..n : Holder!InfoData[k] \in keys =>
         /\ s.ITmap[Holder!InfoData[k]] \in 1..Len(s.infos)
         /\ s.infos[s.ITmap[Holder!InfoData[k]]] = Holder!InfoData[k]
    /\ \A p \in 1..Len(s.infos) :
         /\ s.ITmap[s.infos[p]] = p
         /\ \E k \in 1..n : Holder!InfoData[k] = s.infos[p]

LEMMA TheInfos ==
    /\ Len(Holder!InfoData) = 21 /\ DOMAIN Holder!InfoData = 1..21
    /\ \A k, l \in 1..21 : Holder!InfoData[k] = Holder!InfoData[l] => k = l
  <1>1. Len(Holder!InfoData) = 21 /\ DOMAIN Holder!InfoData = 1..21
    BY DEF Holder!InfoData
  <1>2. \A k, l \in 1..21 : Holder!InfoData[k] = Holder!InfoData[l] => k = l
    BY DEF Holder!InfoData
  <1> QED
    BY <1>1, <1>2

\* What the errors refer to is described.
LEMMA InfosDescribed ==
    \A t \in ErrorTypes : Holder!InfoList[t] \in Seq(Infos)
  <1> DEFINE I == Holder!InfoData
  <1>1. \A k \in 1..21 : I[k] \in Infos
    BY TheInfos DEF Infos, ToSet
  <1>2. \A a, b, c \in Infos :
           <<>> \in Seq(Infos) /\ <<a>> \in Seq(Infos) /\ <<a, b>> \in Seq(Infos) /\ <<a, b, c>> \in Seq(Infos)
    OBVIOUS
  <1>3. \A k \in 1..21 : <<I[k]>> \in Seq(Infos)
    BY <1>1, <1>2
  <1>4. <<>> \in Seq(Infos) /\ <<I[1], I[2]>> \in Seq(Infos)
        /\ <<I[3], I[10], I[11]>> \in Seq(Infos) /\ <<I[4], I[10], I[11]>> \in Seq(Infos)
    BY <1>1, <1>2
  <1> HIDE DEF Infos
  <1> SUFFICES ASSUME NEW t \in ErrorTypes PROVE Holder!InfoList[t] \in Seq(Infos)
    OBVIOUS
  <1>5. Holder!InfoList[t] \in {<<I[k]>> : k \in 1..21}
            \cup {<<>>, <<I[1], I[2]>>, <<I[3], I[10], I[11]>>, <<I[4], I[10], I[11]>>}
    BY TheTypes DEF Holder!InfoList, Holder!InfoData
  <1> QED
    BY <1>3, <1>4, <1>5
LEMMA NumberInfoKeeps ==
    ASSUME NEW keys, NEW n \in 0..20, NEW s, NumberedSoFar(keys, n, s)
    PROVE  NumberedSoFar(keys, n + 1, Holder!NumberInfo(s, Holder!InfoData[n + 1]))
  <1> DEFINE I == Holder!InfoData
             x == I[n + 1]
             r == Holder!NumberInfo(s, x)
             m == Len(s.infos)
  <1>1. s.ITmap \in [keys -> Nat] /\ s.infos \in Seq(keys) /\ m \in Nat
    BY DEF NumberedSoFar
  <1>2. \A k \in 1..n : I[k] \in keys => s.ITmap[I[k]] \in 1..m /\ s.infos[s.ITmap[I[k]]] = I[k]
    BY DEF NumberedSoFar
  <1>3. \A p \in 1..m : s.ITmap[s.infos[p]] = p /\ \E k \in 1..n : I[k] = s.infos[p]
    BY DEF NumberedSoFar
  <1>4. \A k \in 1..(n + 1) : k \in 1..n \/ k = n + 1
    OBVIOUS
  <1>5. \A k \in 1..n : I[k] # x
    BY TheInfos
  <1>6. n + 1 \in 1..(n + 1) /\ 1..n \subseteq 1..(n + 1)
    OBVIOUS
  <1> HIDE DEF I, x, m
  <1>7. CASE x \notin keys
    <2>1. r = s
      BY <1>1, <1>7 DEF Holder!NumberInfo
    <2>2. \A k \in 1..(n + 1) : I[k] \in keys => k \in 1..n
      BY <1>4, <1>7 DEF x
    <2> HIDE DEF r
    <2> QED
      BY <1>1, <1>2, <1>3, <1>6, <2>1, <2>2 DEF NumberedSoFar, I, m, r, x
  <1>8. CASE x \in keys
    <2> DEFINE T == [s.ITmap EXCEPT ![x] = m + 1]
               Q == Append(s.infos, x)
    <2>1. r = [ITmap |-> T, infos |-> Q]
      BY <1>1, <1>8 DEF Holder!NumberInfo, m
    <2>2. r.ITmap = T /\ r.infos = Q
      BY <2>1
    <2>3. T \in [keys -> Nat] /\ Q \in Seq(keys) /\ Len(Q) = m + 1
      BY <1>1, <1>8 DEF m
    <2>4. Q[m + 1] = x /\ \A p \in 1..m : Q[p] = s.infos[p]
      BY <1>1, <1>8 DEF m
    <2>5. T[x] = m + 1 /\ \A k \in 1..n : I[k] \in keys => T[I[k]] = s.ITmap[I[k]]
      BY <1>1, <1>5, <1>8
    <2> HIDE DEF T, Q, r
    <2>6. \A p \in 1..m : s.infos[p] \in keys
      BY <1>1 DEF m
    <2>7. \A k \in 1..(n + 1) : I[k] \in keys => T[I[k]] \in 1..(m + 1) /\ Q[T[I[k]]] = I[k]
      <3> SUFFICES ASSUME NEW k \in 1..(n + 1), I[k] \in keys
                   PROVE  T[I[k]] \in 1..(m + 1) /\ Q[T[I[k]]] = I[k]
        OBVIOUS
      <3>1. CASE k = n + 1
        BY <1>1, <2>4, <2>5, <3>1 DEF x
      <3>2. CASE k \in 1..n
        BY <1>1, <1>2, <2>4, <2>5, <3>2
      <3> QED
        BY <1>4, <3>1, <3>2
    <2>8. \A p \in 1..(m + 1) : T[Q[p]] = p /\ \E k \in 1..(n + 1) : I[k] = Q[p]
      <3> SUFFICES ASSUME NEW p \in 1..(m + 1)
                   PROVE  T[Q[p]] = p /\ \E k \in 1..(n + 1) : I[k] = Q[p]
        OBVIOUS
      <3>1. CASE p = m + 1
        BY <1>6, <2>4, <2>5, <3>1 DEF x
      <3>2. CASE p \in 1..m
        <4>1. PICK k \in 1..n : I[k] = s.infos[p]
          BY <1>3, <3>2
        <4>2. T[Q[p]] = s.ITmap[s.infos[p]]
          BY <2>4, <2>5, <2>6, <3>2, <4>1
        <4> QED
          BY <1>3, <1>6, <2>4, <3>2, <4>1, <4>2
      <3> QED
        BY <1>1, <3>1, <3>2
    <2> QED
      BY <2>2, <2>3, <2>7, <2>8 DEF NumberedSoFar, I, m, r, x
  <1> QED
    BY <1>7, <1>8

\* The loop is defined, and numbers every key.
LEMMA NumberedKeys ==
    ASSUME NEW keys
    PROVE  NumberedSoFar(keys, 21, Holder!Numbered(keys))
  <1> DEFINE A == [ITmap : [keys -> Nat], infos : Seq(keys)]
             base == [ITmap |-> [x \in keys |-> 0], infos |-> <<>>]
             step == [k \in 1..21 |-> [s \in A |-> Holder!NumberInfo(s, Holder!InfoData[k])]]
             Rec(f) == f = [n \in 0..21 |-> IF n = 0 THEN base ELSE Holder!NumberInfo(f[n - 1], Holder!InfoData[n])]
  <1>1. \A s \in A : \A x : Holder!NumberInfo(s, x) \in A
    <2> SUFFICES ASSUME NEW s \in A, NEW x PROVE Holder!NumberInfo(s, x) \in A
      OBVIOUS
    <2>1. CASE x \in keys
      <3>1. Len(s.infos) + 1 \in Nat /\ Append(s.infos, x) \in Seq(keys)
        BY <2>1
      <3> QED
        BY <2>1, <3>1 DEF Holder!NumberInfo
    <2>2. CASE x \notin keys
      BY <2>2 DEF Holder!NumberInfo
    <2> QED
      BY <2>1, <2>2
  <1>2. step \in [1..21 -> [A -> A]] /\ base \in A
    <2>1. base \in A
      OBVIOUS
    <2> HIDE DEF A, base
    <2> QED
      BY <1>1, <2>1
  <1>3. \E f : Rec(f)
    <2> HIDE DEF step, base, A
    <2>1. PICK f : Iterates(f, step, 21, A, base)
      BY <1>2, RecursionDefines DEF Steps
    <2>2. \A k \in 1..21 : f[k] = Holder!NumberInfo(f[k - 1], Holder!InfoData[k])
      <3> SUFFICES ASSUME NEW k \in 1..21 PROVE f[k] = Holder!NumberInfo(f[k - 1], Holder!InfoData[k])
        OBVIOUS
      <3>1. f[k] = step[k][f[k - 1]] /\ f[k - 1] \in A
        BY <2>1 DEF Iterates
      <3> QED
        BY <3>1 DEF step
    <2>3. Rec(f)
      BY <2>1, <2>2 DEF Iterates
    <2> QED
      BY <2>3
  <1> DEFINE X == CHOOSE f : Rec(f)
  <1>4. Holder!Numbered(keys) = X[21]
    BY TheInfos DEF Holder!Numbered
  <1>5. Rec(X)
    <2> HIDE DEF Rec
    <2> QED
      BY <1>3
  <1> HIDE DEF X, base
  <1>6. X[0] = base /\ \A k \in 1..21 : X[k] = Holder!NumberInfo(X[k - 1], Holder!InfoData[k])
    BY <1>5
  <1> DEFINE S == {n \in Nat : n <= 21 => NumberedSoFar(keys, n, X[n])}
  <1>7. 0 \in S
    <2>1. base.ITmap = [x \in keys |-> 0] /\ base.infos = <<>>
      BY DEF base
    <2>2. NumberedSoFar(keys, 0, base)
      BY <2>1 DEF NumberedSoFar
    <2> QED
      BY <1>6, <2>2
  <1>8. ASSUME NEW n \in Nat, n \in S PROVE n + 1 \in S
    <2> SUFFICES ASSUME n + 1 <= 21 PROVE NumberedSoFar(keys, n + 1, X[n + 1])
      OBVIOUS
    <2>1. X[n + 1] = Holder!NumberInfo(X[n], Holder!InfoData[n + 1])
      BY <1>6
    <2> QED
      BY <1>8, <2>1, NumberInfoKeeps
  <1> HIDE DEF S
  <1>9. 21 \in S
    BY <1>7, <1>8, NatSetInduction
  <1> QED
    BY <1>4, <1>9 DEF S
-----------------------------------------------------------------------------
\* The report

LEMMA NumberingMeans ==
    ASSUME NEW keys, NEW s, NumberedSoFar(keys, 21, s), \A x \in keys : \E m \in 1..21 : x = Holder!InfoData[m]
    PROVE  /\ s.ITmap \in [keys -> Nat]
           /\ \A x \in keys : s.ITmap[x] \in DOMAIN s.infos /\ s.infos[s.ITmap[x]] = x
           /\ \A p \in DOMAIN s.infos : s.infos[p] \in keys /\ s.ITmap[s.infos[p]] = p
  <1>1. s.ITmap \in [keys -> Nat] /\ s.infos \in Seq(keys)
    BY DEF NumberedSoFar
  <1>2. DOMAIN s.infos = 1..Len(s.infos) /\ \A p \in DOMAIN s.infos : s.infos[p] \in keys
    BY <1>1
  <1>3. \A x \in keys : s.ITmap[x] \in DOMAIN s.infos /\ s.infos[s.ITmap[x]] = x
    <2> SUFFICES ASSUME NEW x \in keys PROVE s.ITmap[x] \in DOMAIN s.infos /\ s.infos[s.ITmap[x]] = x
      OBVIOUS
    <2>1. PICK m \in 1..21 : x = Holder!InfoData[m]
      OBVIOUS
    <2>2. s.ITmap[x] \in 1..Len(s.infos) /\ s.infos[s.ITmap[x]] = x
      BY <2>1 DEF NumberedSoFar
    <2> QED
      BY <1>2, <2>2
  <1>4. \A p \in DOMAIN s.infos : s.ITmap[s.infos[p]] = p
    BY <1>2 DEF NumberedSoFar
  <1> QED
    BY <1>1, <1>2, <1>3, <1>4

LEMMA ReportOf ==
    ASSUME NEW E, Sound(E), NEW order \in SetToSeqs(E)
    PROVE  LET r == Holder!print(Found(order), FALSE)
           IN  /\ r.errors = order
               /\ \A k \in DOMAIN r.errors :
                     /\ ToSet(r.cites[k]) \subseteq DOMAIN r.infos
                     /\ [n \in DOMAIN r.cites[k] |-> r.infos[r.cites[k][n]]]
                           = Holder!InfoList[r.errors[k].t]
               /\ (UNION {ToSet(r.cites[k]) : k \in DOMAIN r.errors}) = DOMAIN r.infos
  <1> DEFINE r == Holder!print(Found(order), FALSE)
             keys == Holder!InsertInfos(order)
             N == Holder!Numbered(keys)
             L(k) == Holder!InfoList[order[k].t]
             D == DOMAIN order
             C(k) == [n \in DOMAIN L(k) |-> Holder!InfoNumber(N.ITmap, L(k)[n])]
  <1>1. order \in Seq(E) /\ D = 1..Len(order) /\ \A k \in D : order[k] \in E
    <2>1. Cardinality(E) \in Nat
      BY FS_CardinalityType DEF Sound
    <2>2. order \in [1..Cardinality(E) -> E]
      BY DEF SetToSeqs
    <2> QED
      BY <2>1, <2>2
  <1>2. IsInjective(order)
    <2>1. \A k, l \in 1..Cardinality(E) : k # l => order[k] # order[l]
      BY DEF SetToSeqs
    <2>2. D = 1..Cardinality(E)
      BY DEF SetToSeqs
    <2> QED
      BY <2>1, <2>2 DEF IsInjective
  <1>3. Holder!UniqueErrors(Found(order)) = order
    BY <1>1, <1>2, UniqueErrorsOnce
  <1>4. r.errors = order /\ r.infos = N.infos /\ r.cites = [k \in D |-> C(k)]
    BY <1>3 DEF Holder!print
  <1>5. \A k \in D : L(k) \in Seq(Infos)
    BY <1>1, InfosDescribed DEF Sound
  <1>6. \A x : x \in keys <=> \E k \in D : \E n \in DOMAIN L(k) : x = L(k)[n]
    BY DEF Holder!InsertInfos, Holder!ToSet
  <1>7. NumberedSoFar(keys, 21, N)
    BY NumberedKeys
  <1> HIDE DEF r, N, keys, L, D
  <1>8. \A x \in keys : \E m \in 1..21 : x = Holder!InfoData[m]
    <2> SUFFICES ASSUME NEW x \in keys PROVE \E m \in 1..21 : x = Holder!InfoData[m]
      OBVIOUS
    <2>1. PICK k \in D : \E n \in DOMAIN L(k) : x = L(k)[n]
      BY <1>6
    <2>2. x \in Infos
      BY <1>5, <2>1
    <2> QED
      BY <2>2, TheInfos DEF Infos, ToSet
  <1>9. NumberedSoFar(keys, 21, N) /\ \A x \in keys : \E m \in 1..21 : x = Holder!InfoData[m]
    BY <1>7, <1>8
  <1>10. N.ITmap \in [keys -> Nat] /\ \A x \in keys : N.ITmap[x] \in DOMAIN N.infos /\ N.infos[N.ITmap[x]] = x
    BY <1>9, NumberingMeans
  <1>11. \A p \in DOMAIN N.infos : N.infos[p] \in keys /\ N.ITmap[N.infos[p]] = p
    BY <1>9, NumberingMeans
  <1>12. \A k \in D : DOMAIN C(k) = DOMAIN L(k)
                      /\ \A n \in DOMAIN L(k) : L(k)[n] \in keys /\ C(k)[n] = N.ITmap[L(k)[n]]
    BY <1>6, <1>10 DEF Holder!InfoNumber
  <1> HIDE DEF C
  <1>13. \A k \in D : ToSet(C(k)) = {N.ITmap[L(k)[n]] : n \in DOMAIN L(k)}
    BY <1>12 DEF ToSet
  <1>14. \A k \in D : ToSet(C(k)) \subseteq DOMAIN N.infos
    BY <1>10, <1>12, <1>13
  <1>15. \A k \in D : [n \in DOMAIN C(k) |-> N.infos[C(k)[n]]] = L(k)
    <2> SUFFICES ASSUME NEW k \in D PROVE [n \in DOMAIN C(k) |-> N.infos[C(k)[n]]] = L(k)
      OBVIOUS
    <2>1. L(k) = [n \in DOMAIN L(k) |-> L(k)[n]]
      BY <1>5
    <2>2. \A n \in DOMAIN L(k) : N.infos[C(k)[n]] = L(k)[n]
      BY <1>10, <1>12
    <2> QED
      BY <1>12, <2>1, <2>2
  <1>16. UNION {ToSet(C(k)) : k \in D} = DOMAIN N.infos
    <2>1. ASSUME NEW p \in DOMAIN N.infos PROVE \E k \in D : p \in ToSet(C(k))
      <3>1. PICK k \in D : \E n \in DOMAIN L(k) : N.infos[p] = L(k)[n]
        BY <1>6, <1>11
      <3> QED
        BY <1>11, <1>13, <3>1
    <2> QED
      BY <1>14, <2>1
  <1>17. \A k \in D : r.cites[k] = C(k) /\ L(k) = Holder!InfoList[r.errors[k].t]
    BY <1>4 DEF L
  <1>18. DOMAIN r.errors = D /\ DOMAIN r.infos = DOMAIN N.infos
    BY <1>4 DEF D
  <1>19. ASSUME NEW k \in D
         PROVE  /\ ToSet(r.cites[k]) \subseteq DOMAIN r.infos
                /\ [n \in DOMAIN r.cites[k] |-> r.infos[r.cites[k][n]]] = Holder!InfoList[r.errors[k].t]
    BY <1>4, <1>14, <1>15, <1>17, <1>18
  <1>20. {ToSet(r.cites[k]) : k \in D} = {ToSet(C(k)) : k \in D}
    BY <1>17
  <1>21. (UNION {ToSet(r.cites[k]) : k \in DOMAIN r.errors}) = DOMAIN r.infos
    BY <1>16, <1>18, <1>20
  <1> QED
    BY <1>4, <1>18, <1>19, <1>21 DEF r

\* Whatever a module has wrong, and in whatever order it is found, the report names every
\* error once, in the order it was found first, with the numbers of the paragraphs that
\* explain its type, and has no paragraph that none of them cites.  (ErrorHolder::print
\* over SpirValidation::runOnModule)
THEOREM ReportIsFaithful == Spec => []ReportFaithful
  <1>1. Init => Sound(EL)
    BY SoundNone DEF Init
  <1>2. Sound(EL) => ReportFaithful
    <2> SUFFICES ASSUME Sound(EL), NEW order \in SetToSeqs(EL)
                 PROVE  LET r == Holder!print(Found(order), FALSE)
                        IN  /\ r.errors = order
                            /\ \A k \in DOMAIN r.errors :
                                  /\ ToSet(r.cites[k]) \subseteq DOMAIN r.infos
                                  /\ [n \in DOMAIN r.cites[k] |-> r.infos[r.cites[k][n]]]
                                        = Holder!InfoList[r.errors[k].t]
                            /\ (UNION {ToSet(r.cites[k]) : k \in DOMAIN r.errors}) = DOMAIN r.infos
      BY DEF ReportFaithful
    <2> QED
      BY ReportOf
  <1>3. IInv /\ Sound(EL) /\ [Next]_vars => Sound(EL)'
    BY SoundKept DEF Sound
  <1> QED
    BY <1>1, <1>2, <1>3, Invariance, PTL DEF Spec
=============================================================================
