-------------------------- MODULE InstructionRecords --------------------------
(***************************************************************************)
(* WriteInstruction of encoder/SpirBitcodeWriter.cpp and the pushValue     *)
(* family it uses: the record of one instruction.                          *)
(*                                                                         *)
(* An instruction is [op, ty, ops, blocks, lits, dl, mds]: what it is (the *)
(* FunctionCodes its opcode and flags select), its type, its operands, the *)
(* basic blocks it names, what else it says (numbers, and LLVM's names of  *)
(* opcodes, flags and orderings), its debug location and its other         *)
(* metadata.  The callee of a call and the personality of a landing pad    *)
(* are the first of ops.                                                   *)
(***************************************************************************)
EXTENDS ModuleRecords

\* What is pushed for an operand: a value with its type if it is a forward reference, a
\* value whose type the reader knows, the same in 64 bits, the same signed, a number.
VT(v) == [push |-> "PushValueAndType", n |-> v]
V(v) == [push |-> "pushValue", n |-> v]
V64(v) == [push |-> "pushValue64", n |-> v]
VS(v) == [push |-> "pushValueSigned", n |-> v]
N(n) == [push |-> "push_back", n |-> n]

Forward_Later(v, InstID) == v > InstID   \* fault: the next value is taken for a known one
Forward(v, InstID) == v >= InstID

Relative(v, InstID, w) == (InstID - v) % 2 ^ w

Push(tys, InstID, s) ==
  CASE s.push = "PushValueAndType" ->
         <<Relative(s.n, InstID, Width)>> \o One(Forward(s.n, InstID), TypeOf(tys, s.n))
    [] s.push = "pushValue"        -> <<Relative(s.n, InstID, Width)>>
    [] s.push = "pushValue64"      -> <<Relative(s.n, InstID, 2 * Width)>>
    [] s.push = "pushValueSigned"  -> <<emitSignedInt64(InstID - s.n)>>
    [] s.push = "push_back"        -> <<s.n>>

\* The type of what the pointer v points to, when that is a function.
FunctionType(M, tys, v) == M.types[M.types[TypeOf(tys, v) + 1].vals[1] + 1]
ReturnType(FT) == FT.vals[2]
ParamTypes(FT) == SubSeq(FT.vals, 3, Len(FT.vals))

isVoid(M, ty) == M.types[ty + 1].id = "Void"
isLabel(M, ty) == M.types[ty + 1].id = "Label"

\* Arguments for parameters by value alone, those for the dots with their types.  Only a
\* call looks for labels.
Arguments(M, tys, I) ==
  LET params == ParamTypes(FunctionType(M, tys, I.ops[1]))
      argument(k) == I.ops[k + 1]
  IN [k \in 1..(Len(I.ops) - 1) |->
        IF k > Len(params) THEN VT(argument(k))
        ELSE IF I.op = "CALL" /\ isLabel(M, params[k]) THEN N(argument(k)) ELSE V(argument(k))]

\* The header of a switch: the magic in its high half, a hash of the cases in its low one.
\* The code starts the hash at the number of cases XOR that number >> 16 (1218), which is
\* the number for fewer than 2 ^ 16 cases.
SWITCH_INST_MAGIC == 1205
Hash(cases) == FoldLeft(LAMBDA h, case : (2 * h + 1) % 2 ^ 16, Len(cases) % 2 ^ 16, cases)
SwitchRecordHeader(cases) == Hash(cases) + SWITCH_INST_MAGIC * 2 ^ 16

Atomic(order, scope) == <<N(GetEncodedOrdering[order]), N(GetEncodedSynchScope[scope])>>

AlignFirst(lits) == <<N(Log2_32(Head(lits)) + 1)>> \o Map(N, Tail(lits))

Operands(M, tys, I) ==
  LET all(push(_), seq) == Map(push, seq)
      op(k) == I.ops[k]
      lit(k) == I.lits[k]
      typeOf(k) == N(TypeOf(tys, op(k)))
      rest(seq) == SubSeq(seq, 2, Len(seq))
      pairs(f(_)) == Flat(f, [k \in DOMAIN I.lits |-> k])
  IN CASE I.op = "CAST"            -> <<VT(op(1)), N(I.ty), N(GetEncodedCastOpcode[lit(1)])>>
       [] I.op = "BINOP"           ->
            LET flags == GetOptimizationFlags(lit(1), lit(2))
            IN <<VT(op(1)), V(op(2)), N(GetEncodedBinaryOpcode[lit(1)])>> \o One(flags # 0, N(flags))
       [] I.op \in {"GEP", "INBOUNDS_GEP", "EXTRACTVAL", "INSERTVAL", "RESUME", "RET"} ->
            all(VT, I.ops) \o all(N, I.lits)
       [] I.op = "VSELECT"         -> <<VT(op(2)), V(op(3)), VT(op(1))>>
       [] I.op \in {"EXTRACTELT", "INSERTELT", "SHUFFLEVEC", "CMP2"} ->
            <<VT(op(1))>> \o all(V, rest(I.ops)) \o all(N, I.lits)
       [] I.op = "BR"              -> all(N, I.blocks) \o all(V, I.ops)
       [] I.op = "SWITCH"          ->
            <<N(SwitchRecordHeader(I.lits)), typeOf(1), V64(op(1)), N(I.blocks[1]), N(Len(I.lits))>>
              \o pairs(LAMBDA k : <<N(1), N(1), N(emitSignedInt64(I.lits[k])), N(I.blocks[k + 1])>>)
       [] I.op = "INDIRECTBR"      -> <<typeOf(1), V(op(1))>> \o all(N, I.blocks)
       [] I.op = "INVOKE"          ->
            all(N, I.lits) \o all(N, I.blocks) \o <<VT(op(1))>> \o Arguments(M, tys, I)
       [] I.op = "PHI"             ->
            <<N(I.ty)>> \o Flat(LAMBDA k : <<VS(op(k)), N(I.blocks[k])>>, [k \in DOMAIN I.ops |-> k])
       [] I.op = "LANDINGPAD"      ->
            <<N(I.ty), VT(op(1)), N(I.lits[1]), N(Len(I.ops) - 1)>>
              \o Flat(LAMBDA k : <<N(I.lits[k]), VT(op(k))>>, [k \in 1..(Len(I.ops) - 1) |-> k + 1])
       [] I.op = "ALLOCA"          -> <<N(I.ty), typeOf(1), N(op(1))>> \o AlignFirst(I.lits)
       [] I.op = "LOAD"            -> <<VT(op(1))>> \o AlignFirst(I.lits)
       [] I.op = "STORE"           -> <<VT(op(2)), V(op(1))>> \o AlignFirst(I.lits)
       [] I.op = "LOADATOMIC"      ->
            <<VT(op(1))>> \o AlignFirst(SubSeq(I.lits, 1, 2)) \o Atomic(lit(3), lit(4))
       [] I.op = "STOREATOMIC"     ->
            <<VT(op(2)), V(op(1))>> \o AlignFirst(SubSeq(I.lits, 1, 2)) \o Atomic(lit(3), lit(4))
       [] I.op = "CMPXCHG"         ->   \* the ordering of a failure, in LLVM 3.5, is not written
            <<VT(op(1)), V(op(2)), V(op(3)), N(lit(1))>> \o Atomic(lit(2), lit(3))
       [] I.op = "ATOMICRMW"       ->
            <<VT(op(1)), V(op(2)), N(GetEncodedRMWOperation[lit(1)]), N(lit(2))>> \o Atomic(lit(3), lit(4))
       [] I.op = "FENCE"           -> Atomic(lit(1), lit(2))
       [] I.op = "CALL"            ->
            <<N(I.lits[1]), N(I.lits[2] * 2 + I.lits[3]), VT(op(1))>> \o Arguments(M, tys, I)
       [] I.op = "VAARG"           -> <<typeOf(1), V(op(1)), N(I.ty)>>
       [] I.op = "UNREACHABLE"     -> <<>>

\* The abbreviations of operands that come first have no room for a type.
AbbrevToUse(InstID, I) ==
  LET known(abbrev) == IF Forward(I.ops[1], InstID) THEN 0 ELSE abbrev
  IN CASE I.op = "CAST"        -> known(FUNCTION_ABBREV.CAST)
       [] I.op = "LOAD"        -> known(FUNCTION_ABBREV.LOAD)
       [] I.op = "BINOP"       ->
            known(IF GetOptimizationFlags(I.lits[1], I.lits[2]) = 0 THEN FUNCTION_ABBREV.BINOP
                  ELSE FUNCTION_ABBREV.BINOP_FLAGS)
       [] I.op = "RET"         ->
            IF I.ops = <<>> THEN FUNCTION_ABBREV.RET_VOID
            ELSE IF Len(I.ops) = 1 THEN known(FUNCTION_ABBREV.RET_VAL) ELSE 0
       [] I.op = "UNREACHABLE" -> FUNCTION_ABBREV.UNREACHABLE
       [] OTHER                -> 0

WriteInstruction(M, tys, InstID, I) ==
  Record(FunctionCodes[I.op],
         Flat(LAMBDA s : Push(tys, InstID, s), Operands(M, tys, I)), AbbrevToUse(InstID, I))
=============================================================================
