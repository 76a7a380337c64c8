---------------------------- MODULE VerifiedModules ----------------------------
(***************************************************************************)
(* What a module is when it is written: what LLVM's verifier lets through  *)
(* and how LLVM's ValueEnumerator has numbered it.  The writer rests on    *)
(* this and checks none of it, and so do the proofs.                       *)
(***************************************************************************)
EXTENDS SpirBitcodeReader

Texts == Seq(0..255)
Alignments == {0} \cup {2 ^ k : k \in 0..(Width - 1)}
\* The words of an integer.  Those of a switch's cases are of one: SPIR has no wider
\* integers, and EmitAPInt would send one word by word (SpirBitcodeWriter.cpp:769-785).
Integers64 == (-(2 ^ (2 * Width - 1)))..(2 ^ (2 * Width - 1) - 1)

\* A list, whatever its elements are.
IsSeq(s) == Len(s) \in Nat /\ s = [k \in 1..Len(s) |-> s[k]]

Attributes ==
  [slot : Nat, low : 0..(2 ^ Half - 1), high : 0..(2 ^ Half - 1),
   align : {0} \cup {2 ^ k : k \in 0..(2 ^ AlignmentBits - 2)}]

\* Only structures have names.
TypeRecords ==
  {T \in [id : DOMAIN TypeCode, vals : Seq(Nat), name : Texts] :
     T.name # <<>> => T.id \in {"Struct", "OpaqueStruct"}}

GlobalVars(mod) ==
  [ty : Nat, isconst : Nat, init : Nat \cup {NoInit}, linkage : DOMAIN getEncodedLinkage(mod),
   align : Alignments, section : Texts, visibility : DOMAIN getEncodedVisibility,
   threadlocal : DOMAIN getEncodedThreadLocalMode, unnamed : Nat]
Functions(mod) ==
  [ty : Nat, cc : Nat, isproto : {0, 1}, linkage : DOMAIN getEncodedLinkage(mod), attrs : Nat,
   align : Alignments, section : Texts, visibility : DOMAIN getEncodedVisibility, gc : Texts,
   unnamed : Nat]
Aliases(mod) ==
  [ty : Nat, aliasee : Nat, linkage : DOMAIN getEncodedLinkage(mod),
   visibility : DOMAIN getEncodedVisibility]

\* What a pointer of type ty points to is a function.
PointsToFunction(mod, ty) ==
  /\ ty + 1 \in DOMAIN mod.types /\ mod.types[ty + 1].id = "Pointer"
  /\ mod.types[ty + 1].vals[1] + 1 \in DOMAIN mod.types
  /\ PointedTo(mod, ty).id = "Function" /\ Len(PointedTo(mod, ty).vals) >= 2

Operation(mod, ty, op, flags) ==
  /\ op \in DOMAIN GetEncodedBinaryOpcode
  /\ isFloat(mod, ty) <=> op \in {"FAdd", "FSub", "FMul", "FDiv", "FRem"}
  /\ flags \subseteq (IF op \in OverflowingBinaryOperator THEN {"NUW", "NSW"}
                      ELSE IF op \in PossiblyExactOperator THEN {"Exact"} ELSE {})

\* A constant among the values whose types tys lists.
IsConstant(mod, tys, C) ==
  LET values == 0..(Len(tys) - 1)
      has(ops, lits, strs) == C = [ty |-> C.ty, is |-> C.is, ops |-> ops, lits |-> lits, strs |-> strs]
  IN /\ C.ty \in Nat
     /\ CASE C.is \in {"INTEGER", "WIDE_INTEGER"} -> has(<<>>, C.lits, <<>>) /\ C.lits \in Seq(Integers64)
          [] C.is = "String"  -> has(<<>>, <<>>, <<C.strs[1]>>) /\ C.strs[1] \in Texts
          [] C.is = "CE_CAST" ->
               /\ has(<<C.ops[1]>>, <<C.lits[1]>>, <<>>)
               /\ C.ops[1] \in values /\ C.lits[1] \in DOMAIN GetEncodedCastOpcode
          [] C.is = "CE_BINOP" ->
               has(<<C.ops[1], C.ops[2]>>, <<C.lits[1], C.lits[2]>>, <<>>)
                 /\ Operation(mod, C.ty, C.lits[1], C.lits[2])
          [] C.is \in {"CE_GEP", "CE_INBOUNDS_GEP"} -> has(C.ops, <<>>, <<>>) /\ C.ops \in Seq(values)
          [] C.is = "CE_EXTRACTELT" -> has(<<C.ops[1], C.ops[2]>>, <<>>, <<>>) /\ C.ops[1] \in values
          [] C.is = "CE_SHUFFLEVEC" ->
               has(<<C.ops[1], C.ops[2], C.ops[3]>>, <<>>, <<>>) /\ C.ops[1] \in values
          [] C.is = "CE_CMP" ->
               has(<<C.ops[1], C.ops[2]>>, <<C.lits[1]>>, <<>>) /\ C.ops[1] \in values
          [] C.is = "BLOCKADDRESS" -> has(<<C.ops[1]>>, <<C.lits[1]>>, <<>>) /\ C.ops[1] \in values
          [] C.is = "INLINEASM" ->
               /\ has(<<>>, <<C.lits[1]>>, <<C.strs[1], C.strs[2]>>)
               /\ C.strs[1] \in Texts /\ C.strs[2] \in Texts
          [] C.is \in {"FLOAT", "DATA"} -> has(<<>>, C.lits, <<>>) /\ C.lits \in Seq(Nat)
          [] C.is \in {"NULL", "UNDEF", "AGGREGATE", "CE_SELECT", "CE_INSERTELT"} ->
               has(C.ops, <<>>, <<>>) /\ C.ops \in Seq(Nat)
          [] OTHER -> FALSE

\* An operand of a node is none or not of the type void; none is written as of that type.
IsNode(mod, node, local) ==
  /\ node = [ops |-> node.ops, local |-> local] /\ IsSeq(node.ops)
  /\ \A k \in DOMAIN node.ops :
       IF node.ops[k] = <<>> THEN \E t \in DOMAIN mod.types : mod.types[t].id = "Void"
       ELSE node.ops[k] \in Nat \X Nat /\ mod.types[node.ops[k][1] + 1].id # "Void"
IsMetadata(mod, md) ==
  IF isString(md) THEN md \in [str : Texts] ELSE IsNode(mod, md, FALSE)

NameEntries == [of : Nat, name : Texts, bb : BOOLEAN]

\* An instruction among the values whose types tys lists.
WithoutValue ==
  {"RET", "BR", "SWITCH", "INDIRECTBR", "UNREACHABLE", "RESUME", "STORE", "STOREATOMIC", "FENCE"}
Calls == {"CALL", "INVOKE"}
Opcodes == DOMAIN FunctionCodes \ {"DECLAREBLOCKS", "SELECT", "CMP", "DEBUG_LOC", "DEBUG_LOC_AGAIN"}

IsCall(mod, tys, i) ==
  LET callee == TypeOf(tys, i.ops[1])
      params == ParamTypes(PointedTo(mod, callee))
  IN /\ i.ops # <<>> /\ i.ops[1] \in 0..(Len(tys) - 1) /\ PointsToFunction(mod, callee)
     /\ Len(i.ops) - 1 >= Len(params)
     /\ \A k \in 2..Len(i.ops) :
          \/ i.ops[k] \in 0..(Len(tys) - 1)
          \/ i.op = "CALL" /\ k - 1 <= Len(params) /\ isLabel(mod, params[k - 1])
     /\ i.ty = ReturnType(PointedTo(mod, callee))

IsInstruction(mod, tys, i) ==
  LET has(ops, blocks, lits) == Len(i.ops) = ops /\ Len(i.blocks) = blocks /\ Len(i.lits) = lits
      memory(k) == i.lits[k] \in Alignments /\ i.lits[k + 1] \in Nat
      atomic(k) == i.lits[k] \in DOMAIN GetEncodedOrdering /\ i.lits[k + 1] \in DOMAIN GetEncodedSynchScope
  IN /\ i.op \in Opcodes /\ i.ty \in Nat
     /\ i.ops \in Seq(Nat) /\ i.blocks \in Seq(Nat) /\ IsSeq(i.lits)
     /\ i.op \notin Calls => i.ops \in Seq(0..(Len(tys) - 1))
     /\ i.dl = Unknown \/ i.dl \in Nat \X Nat \X Int \X Int
     /\ i.mds \in Seq(Nat \X Nat)
     /\ i.op \in WithoutValue => isVoid(mod, i.ty)
     /\ i.op \notin WithoutValue \cup Calls => ~isVoid(mod, i.ty)
     /\ i.op \in Calls => IsCall(mod, tys, i)
     /\ CASE i.op = "CAST"  -> has(1, 0, 1) /\ i.lits[1] \in DOMAIN GetEncodedCastOpcode
          [] i.op = "BINOP" ->
               has(2, 0, 2) /\ Operation(mod, TypeOf(tys, i.ops[1]), i.lits[1], i.lits[2])
          [] i.op \in {"GEP", "INBOUNDS_GEP"} -> i.ops # <<>> /\ i.lits = <<>>
          [] i.op = "EXTRACTVAL" -> Len(i.ops) = 1 /\ i.lits \in Seq(Nat)
          [] i.op = "INSERTVAL"  -> Len(i.ops) = 2 /\ i.lits \in Seq(Nat)
          [] i.op = "RESUME"     -> has(1, 0, 0)
          [] i.op = "RET"        -> i.lits = <<>>
          [] i.op = "EXTRACTELT" -> has(2, 0, 0)
          [] i.op \in {"VSELECT", "INSERTELT", "SHUFFLEVEC"} -> has(3, 0, 0)
          [] i.op = "CMP2"       -> has(2, 0, 1) /\ i.lits[1] \in Nat
          [] i.op = "BR"         -> has(0, 1, 0) \/ has(1, 2, 0)
          [] i.op = "SWITCH"     ->
               Len(i.ops) = 1 /\ i.lits \in Seq(Integers64) /\ Len(i.blocks) = Len(i.lits) + 1
          [] i.op = "INDIRECTBR" -> Len(i.ops) = 1
          [] i.op = "INVOKE"     -> Len(i.blocks) = 2 /\ Len(i.lits) = 2 /\ i.lits \in Seq(Nat)
          [] i.op = "PHI"        -> Len(i.blocks) = Len(i.ops)
          [] i.op = "LANDINGPAD" -> i.ops # <<>> /\ Len(i.lits) = Len(i.ops) /\ i.lits \in Seq(Nat)
          [] i.op = "ALLOCA"     -> has(1, 0, 1) /\ i.lits[1] \in Alignments
          [] i.op = "LOAD"       -> has(1, 0, 2) /\ memory(1)
          [] i.op = "STORE"      -> has(2, 0, 2) /\ memory(1)
          [] i.op = "LOADATOMIC" -> has(1, 0, 4) /\ memory(1) /\ atomic(3)
          [] i.op = "STOREATOMIC" -> has(2, 0, 4) /\ memory(1) /\ atomic(3)
          [] i.op = "CMPXCHG"    -> Len(i.ops) = 3 /\ Len(i.lits) >= 3 /\ i.lits[1] \in Nat /\ atomic(2)
          [] i.op = "ATOMICRMW"  ->
               has(2, 0, 4) /\ i.lits[1] \in DOMAIN GetEncodedRMWOperation /\ i.lits[2] \in Nat /\ atomic(3)
          [] i.op = "FENCE"      -> has(0, 0, 2) /\ atomic(1)
          [] i.op = "CALL"       -> Len(i.lits) = 3 /\ i.lits \in Seq(Nat)
          [] i.op = "VAARG"      -> has(1, 0, 0)
          [] i.op = "UNREACHABLE" -> has(0, 0, 0)

\* What is called is no result of an instruction before the call: SPIR knows no pointers
\* to functions (SpirIterators.cpp:493-496).
IsDirect(mod, f, k) ==
  LET body == mod.bodies[f]
      callee == body.insts[k].ops[1]
      first == Len(ModuleTypes(mod)) + Len(body.args) + Len(body.consts)
  IN callee < first \/ callee >= first + Cardinality({j \in 1..(k - 1) : ~isVoid(mod, body.insts[j].ty)})

IsBody(mod, f) ==
  LET body == mod.bodies[f]
      tys == FunctionValueTypes(mod, f)
      ty == mod.functions[f].ty
  IN /\ PointsToFunction(mod, ty)
     /\ body.args = ParamTypes(PointedTo(mod, ty))
     /\ IsSeq(body.consts) /\ \A k \in DOMAIN body.consts : IsConstant(mod, tys, body.consts[k])
     /\ IsSeq(body.local) /\ \A k \in DOMAIN body.local : IsNode(mod, body.local[k], TRUE)
     /\ IsSeq(body.insts) /\ \A k \in DOMAIN body.insts : IsInstruction(mod, tys, body.insts[k])
     /\ \A k \in DOMAIN body.insts : body.insts[k].op \in Calls => IsDirect(mod, f, k)
     /\ body.names \in Seq(NameEntries)
     /\ Len(tys) < 2 ^ Width

IsModule(mod) ==
  /\ mod.llvm \in {34, 35} /\ mod.darwin \in BOOLEAN /\ mod.preserveUseLists \in BOOLEAN
  /\ mod.attrs \in Seq(Seq(Attributes))
  /\ mod.triple \in Texts /\ mod.layout \in Texts /\ mod.asm \in Texts
  /\ mod.types \in Seq(TypeRecords)
  /\ mod.globals \in Seq(GlobalVars(mod))
  /\ mod.functions \in Seq(Functions(mod))
  /\ mod.aliases \in Seq(Aliases(mod))
  /\ IsSeq(mod.consts) /\ \A k \in DOMAIN mod.consts : IsConstant(mod, ModuleTypes(mod), mod.consts[k])
  /\ IsSeq(mod.mds) /\ \A k \in DOMAIN mod.mds : IsMetadata(mod, mod.mds[k])
  /\ mod.named \in Seq([name : Texts, ops : Seq(Nat)])
  /\ mod.kinds \in Seq(Texts)
  /\ mod.names \in Seq(NameEntries)
  /\ \A f \in DOMAIN mod.functions : mod.functions[f].isproto = 0 => IsBody(mod, f)

ASSUME WidthAssumption == Width \in Nat /\ Width >= 8 /\ Width % 2 = 0
ASSUME ModulesAssumption == \A input \in Inputs : IsModule(Module(input))
=============================================================================
