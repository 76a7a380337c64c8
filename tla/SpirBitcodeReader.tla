--------------------------- MODULE SpirBitcodeReader ---------------------------
(***************************************************************************)
(* A reader of the items SpirBitcodeWriter sends.  It is LLVM's, outside   *)
(* this repository: modelled from the record layouts that LLVMBitCodes.h   *)
(* documents and the writer produces.  It has the items only; it numbers   *)
(* the values itself and learns the abbreviations as they are defined.     *)
(***************************************************************************)
EXTENDS SpirBitcodeWriter

VARIABLE R   \* what the reader knows

NoType == -1
Set(r, field, x) == [r EXCEPT ![field] = x]
Add(r, field, x) == [r EXCEPT ![field] = Append(@, x)]
Top(r) == Last(r.open)
SetTop(r, field, x) == [r EXCEPT !.open[Len(r.open)] = [@ EXCEPT ![field] = x]]
SetBody(r, field, x) == [r EXCEPT !.bodies[Len(r.bodies)] = [@ EXCEPT ![field] = x]]
AddBody(r, field, x) == SetBody(r, field, Append(Last(r.bodies)[field], x))
InFunction(r) == \E k \in DOMAIN r.open : r.open[k].id = BlockIDs.FUNCTION_BLOCK

Byte(v) == v % 256
ToBytes(vs) == Map(Byte, vs)
FromSigned(v) ==   \* decodeSignRotatedValue: minus zero is the least number
  IF v % 2 = 0 THEN v \div 2 ELSE IF v = 1 THEN -(2 ^ (2 * Width - 1)) ELSE -(v \div 2)
Odd(vs) == [k \in 1..((Len(vs) + 1) \div 2) |-> vs[2 * k - 1]]
Even(vs) == [k \in 1..(Len(vs) \div 2) |-> vs[2 * k]]
Pairs(vs) == [k \in 1..(Len(vs) \div 2) |-> <<vs[2 * k - 1], vs[2 * k]>>]
From(vs, k) == SubSeq(vs, k, Len(vs))
At(vs, k, default) == IF k <= Len(vs) THEN vs[k] ELSE default

------------------------------------------------------------------------------
(* What the numbers mean.  LLVM 3.2 knows every linkage of 3.4 and 3.5.     *)

Meaning(names, code) == At(names, code + 1, "Invalid")

Casts == <<"Trunc", "ZExt", "SExt", "FPToUI", "FPToSI", "UIToFP", "SIToFP", "FPTrunc", "FPExt",
           "PtrToInt", "IntToPtr", "BitCast">>
IntegerOps == <<"Add", "Sub", "Mul", "UDiv", "SDiv", "URem", "SRem", "Shl", "LShr", "AShr", "And",
                "Or", "Xor">>
FloatOps == <<"FAdd", "FSub", "FMul", "Invalid", "FDiv", "Invalid", "FRem">>
RMWs == <<"Xchg", "Add", "Sub", "And", "Nand", "Or", "Xor", "Max", "Min", "UMax", "UMin">>
Orderings == <<"NotAtomic", "Unordered", "Monotonic", "Acquire", "Release", "AcquireRelease",
               "SequentiallyConsistent">>
Scopes == <<"SingleThread", "CrossThread">>
Linkages == <<"External", "WeakAny", "Appending", "Internal", "LinkOnceAny", "DLLImport", "DLLExport",
              "ExternalWeak", "Common", "Private", "WeakODR", "LinkOnceODR", "AvailableExternally",
              "LinkerPrivate", "LinkerPrivateWeak">>
Visibilities == <<"Default", "Hidden", "Protected">>
TLSModels == <<"NotThreadLocal", "GeneralDynamicTLSModel", "LocalDynamicTLSModel",
               "InitialExecTLSModel", "LocalExecTLSModel">>

FloatTypes == {"Half", "Float", "Double", "X86_FP80", "FP128", "PPC_FP128"}
isFloat(r, ty) ==
  LET T == r.types[ty + 1]
  IN T.id \in FloatTypes \/ (T.id = "Vector" /\ r.types[T.vals[2] + 1].id \in FloatTypes)

\* The opcode and the flags of a binary operation on values of type ty.
BinaryMeaning(r, ty, code, flags) ==
  LET op == Meaning(IF isFloat(r, ty) THEN FloatOps ELSE IntegerOps, code)
      has(bit) == (flags \div 2 ^ bit) % 2 = 1
      told == IF op \in {"Add", "Sub", "Mul", "Shl"} THEN {<<0, "NUW">>, <<1, "NSW">>}
              ELSE IF op \in {"UDiv", "SDiv", "LShr", "AShr"} THEN {<<0, "Exact">>} ELSE {}
  IN <<op, {t[2] : t \in {u \in told : has(u[1])}}>>

\* decodeLLVMAttributesForBitcode.
AttributesOf(p) ==
  [slot |-> p[1], low |-> p[2] % 2 ^ Half, align |-> (p[2] \div 2 ^ Half) % 2 ^ Half,
   high |-> p[2] \div 2 ^ Width]

------------------------------------------------------------------------------
(* Types, globals, functions, aliases.                                     *)

ReadType(r, x) ==
  LET id == CHOOSE t \in DOMAIN TypeCode : TypeCode[t] = x.code
      named == id \in {"Struct", "OpaqueStruct"}
  IN CASE x.code = TypeCodes.NUMENTRY -> r
       [] x.code = TypeCodes.STRUCT_NAME -> Set(r, "tname", ToBytes(x.vals))
       [] OTHER -> Add(IF named THEN Set(r, "tname", <<>>) ELSE r, "types",
                       [id |-> id, vals |-> x.vals, name |-> IF named THEN r.tname ELSE <<>>])

Alignment(code) == IF code = 0 THEN 0 ELSE 2 ^ (code - 1)
Invalid == <<-1>>   \* what no name is: the reader refuses the record
NameOf(table, k) == IF k = 0 THEN <<>> ELSE IF k \in DOMAIN table THEN table[k] ELSE Invalid

ReadModule(r, x) ==
  LET v == x.vals
      value(field, g) == Add(Add(r, "tys", g.ty), field, g)
  IN CASE x.code = ModuleCodes.VERSION    -> r
       [] x.code = ModuleCodes.TRIPLE     -> Set(r, "triple", ToBytes(v))
       [] x.code = ModuleCodes.DATALAYOUT -> Set(r, "layout", ToBytes(v))
       [] x.code = ModuleCodes.ASM        -> Set(r, "asm", ToBytes(v))
       [] x.code = ModuleCodes.SECTIONNAME -> Add(r, "sections", ToBytes(v))
       [] x.code = ModuleCodes.GCNAME     -> Add(r, "gcs", ToBytes(v))
       [] x.code = ModuleCodes.GLOBALVAR  ->
            value("globals", [ty |-> v[1], isconst |-> v[2], init |-> v[3] - 1,
                              linkage |-> Meaning(Linkages, v[4]),
                              align |-> Alignment(v[5]), section |-> NameOf(r.sections, v[6]),
                              visibility |-> Meaning(Visibilities, At(v, 7, 0)),
                              threadlocal |-> Meaning(TLSModels, At(v, 8, 0)),
                              unnamed |-> At(v, 9, 0)])
       [] x.code = ModuleCodes.FUNCTION   ->
            value("functions", [ty |-> v[1], cc |-> v[2], isproto |-> v[3],
                                linkage |-> Meaning(Linkages, v[4]),
                                attrs |-> v[5], align |-> Alignment(v[6]),
                                section |-> NameOf(r.sections, v[7]),
                                visibility |-> Meaning(Visibilities, v[8]),
                                gc |-> NameOf(r.gcs, v[9]), unnamed |-> v[10]])
       [] x.code = ModuleCodes.ALIAS      ->
            value("aliases", [ty |-> v[1], aliasee |-> v[2], linkage |-> Meaning(Linkages, v[3]),
                              visibility |-> Meaning(Visibilities, v[4])])

------------------------------------------------------------------------------
(* Constants.  told are the types that came with operands.                 *)

ConstantOf(r, x) ==
  LET v == x.vals
      is == CHOOSE c \in DOMAIN ConstantsCodes : ConstantsCodes[c] = x.code
      constant(name, ops, lits, strs) ==
        [ty |-> Top(r).ty, is |-> name, ops |-> ops, lits |-> lits, strs |-> strs]
      asm == SubSeq(v, 3, v[2] + 2)
  IN CASE is \in {"INTEGER", "WIDE_INTEGER"} -> constant(is, <<>>, Map(FromSigned, v), <<>>)
       [] is = "STRING"    -> constant("String", <<>>, <<>>, <<v>>)
       [] is = "CSTRING"   -> constant("String", <<>>, <<>>, <<v \o <<0>>>>)
       [] is = "CE_CAST"   -> constant(is, <<v[3]>>, <<Meaning(Casts, v[1])>>, <<>>)
       [] is = "CE_BINOP"  -> constant(is, <<v[2], v[3]>>, BinaryMeaning(r, Top(r).ty, v[1], At(v, 4, 0)), <<>>)
       [] is \in {"CE_GEP", "CE_INBOUNDS_GEP"} -> constant(is, Even(v), <<>>, <<>>)
       [] is = "CE_EXTRACTELT" -> constant(is, From(v, 2), <<>>, <<>>)
       [] is = "CE_SHUFVEC_EX" -> constant("CE_SHUFFLEVEC", From(v, 2), <<>>, <<>>)
       [] is = "CE_CMP"    -> constant(is, <<v[2], v[3]>>, <<v[4]>>, <<>>)
       [] is = "BLOCKADDRESS" -> constant(is, <<v[2]>>, <<v[3]>>, <<>>)
       [] is = "INLINEASM" -> constant(is, <<>>, <<v[1]>>, <<ToBytes(asm), ToBytes(From(v, Len(asm) + 4))>>)
       [] is \in {"FLOAT", "DATA"} -> constant(is, <<>>, v, <<>>)
       [] OTHER            -> constant(is, v, <<>>, <<>>)

ToldByConstant(x) ==
  LET v == x.vals
  IN CASE x.code = ConstantsCodes.CE_CAST -> {<<v[3], v[2]>>}
       [] x.code \in {ConstantsCodes.CE_GEP, ConstantsCodes.CE_INBOUNDS_GEP} ->
            {<<v[2 * k], v[2 * k - 1]>> : k \in 1..(Len(v) \div 2)}
       [] x.code \in {ConstantsCodes.CE_EXTRACTELT, ConstantsCodes.CE_SHUFVEC_EX,
                      ConstantsCodes.CE_CMP, ConstantsCodes.BLOCKADDRESS} -> {<<v[2], v[1]>>}
       [] OTHER -> {}

ReadConstant(r, x) ==
  IF x.code = ConstantsCodes.SETTYPE THEN SetTop(r, "ty", x.vals[1])
  ELSE LET s == [Add(r, "tys", Top(r).ty) EXCEPT !.told = @ \cup ToldByConstant(x)]
       IN IF InFunction(r) THEN AddBody(s, "consts", ConstantOf(r, x))
          ELSE Add(s, "consts", ConstantOf(r, x))

------------------------------------------------------------------------------
(* Metadata and names.                                                     *)

ReadMetadata(r, x) ==
  LET v == x.vals
      operand(p) == IF r.types[p[1] + 1].id = "Void" THEN <<>> ELSE p
      node == [ops |-> Map(operand, Pairs(v)), local |-> x.code = MetadataCodes.FN_NODE]
      body == Last(r.bodies)
  IN CASE x.code = MetadataCodes.STRING     -> Add(r, "mds", [str |-> ToBytes(v)])
       [] x.code \in {MetadataCodes.NODE, MetadataCodes.FN_NODE} ->
            IF InFunction(r) THEN AddBody(r, "local", node) ELSE Add(r, "mds", node)
       [] x.code = MetadataCodes.NAME       -> Add(r, "named", [name |-> ToBytes(v), ops |-> <<>>])
       [] x.code = MetadataCodes.NAMED_NODE -> [r EXCEPT !.named[Len(r.named)].ops = v]
       [] x.code = MetadataCodes.KIND       -> Add(r, "kinds", <<v[1], ToBytes(From(v, 2))>>)
       [] x.code = MetadataCodes.ATTACHMENT ->
            SetBody(r, "insts", [body.insts EXCEPT ![v[1] + 1].mds = Pairs(From(v, 2))])

ReadName(r, x) ==
  LET entry == [of |-> x.vals[1], name |-> From(x.vals, 2), bb |-> x.code = ValueSymtabCodes.BBENTRY]
  IN IF InFunction(r) THEN AddBody(r, "names", entry) ELSE Add(r, "names", entry)

------------------------------------------------------------------------------
(* Instructions.  A record is a head of operands and then, to its end, a    *)
(* group repeated: "vt" a value and its type if it is not known yet, "v" a  *)
(* value, "vs" a signed one, "n" a number.                                  *)

Leading(code, args) ==
  LET is == CHOOSE c \in DOMAIN FunctionCodes : FunctionCodes[c] = code
  IN CASE is \in {"GEP", "INBOUNDS_GEP", "RET", "UNREACHABLE"} -> <<>>
       [] is = "CAST"                        -> <<"vt", "n", "n">>
       [] is \in {"BINOP", "CMP2"}           -> <<"vt", "v", "n">>
       [] is \in {"EXTRACTVAL", "RESUME"}    -> <<"vt">>
       [] is = "INSERTVAL"                   -> <<"vt", "vt">>
       [] is = "VSELECT"                     -> <<"vt", "v", "vt">>
       [] is = "EXTRACTELT"                  -> <<"vt", "v">>
       [] is \in {"INSERTELT", "SHUFFLEVEC"} -> <<"vt", "v", "v">>
       [] is = "BR"                          -> <<"n", "n", "v">>
       [] is = "SWITCH"                      -> <<"n", "n", "v", "n", "n">>
       [] is = "INDIRECTBR"                  -> <<"n", "v">>
       [] is = "INVOKE"                      -> <<"n", "n", "n", "n", "vt">> \o args
       [] is = "CALL"                        -> <<"n", "n", "vt">> \o args
       [] is = "PHI"                         -> <<"n">>
       [] is = "LANDINGPAD"                  -> <<"n", "vt", "n", "n">>
       [] is = "ALLOCA"                      -> <<"n", "n", "n", "n">>
       [] is \in {"LOAD", "LOADATOMIC"}      -> <<"vt", "n", "n", "n", "n">>
       [] is \in {"STORE", "STOREATOMIC", "ATOMICRMW"} -> <<"vt", "v", "n", "n", "n", "n">>
       [] is = "CMPXCHG"                     -> <<"vt", "v", "v", "n", "n", "n">>
       [] is = "FENCE"                       -> <<"n", "n">>
       [] is = "VAARG"                       -> <<"n", "v", "n">>

Repeated(code) ==
  CASE code = FunctionCodes.PHI        -> <<"vs", "n">>
    [] code = FunctionCodes.LANDINGPAD -> <<"n", "vt">>
    [] code \in {FunctionCodes.GEP, FunctionCodes.INBOUNDS_GEP, FunctionCodes.RET,
                 FunctionCodes.CALL, FunctionCodes.INVOKE} -> <<"vt">>
    [] OTHER                           -> <<"n">>

Absolute(r, rel) == (Len(r.tys) - rel) % 2 ^ Width

KindAt(head, loop, k) ==
  IF k <= Len(head) THEN head[k] ELSE loop[((k - Len(head) - 1) % Len(loop)) + 1]

\* One operand: pos is where it is, values what was read, told the types that came along.
ReadNumber(c, n) == [c EXCEPT !.pos = @ + 1, !.values = Append(@, n)]
ReadTyped(r, x, c, v) ==
  IF v < Len(r.tys) THEN ReadNumber(c, v)
  ELSE [pos |-> c.pos + 2, values |-> Append(c.values, v),
        told |-> c.told \cup {<<v, At(x.vals, c.pos + 1, NoType)>>}]

ReadOperand(r, x, kind, c) ==
  IF c.pos > Len(x.vals) THEN c
  ELSE CASE kind = "vt" -> ReadTyped(r, x, c, Absolute(r, x.vals[c.pos]))
         [] kind = "v"  -> ReadNumber(c, Absolute(r, x.vals[c.pos]))
         [] kind = "vs" -> ReadNumber(c, Absolute(r, FromSigned(x.vals[c.pos])))
         [] kind = "n"  -> ReadNumber(c, x.vals[c.pos])

ReadAs(r, x, head, loop) ==
  FoldLeftDomain(LAMBDA c, k : ReadOperand(r, x, KindAt(head, loop, k), c),
                 [pos |-> 1, values |-> <<>>, told |-> {}], x.vals)
ReadOperands(r, x, args) == ReadAs(r, x, Leading(x.code, args), Repeated(x.code))

isCall(x) == x.code \in {FunctionCodes.CALL, FunctionCodes.INVOKE}

\* The type of the callee is known or came with it.
CalleeAt(x) == IF x.code = FunctionCodes.CALL THEN 3 ELSE 5
PointedTo(r, ty) == r.types[r.types[ty + 1].vals[1] + 1]
Callee(r, x) ==   \* only single numbers come before it
  LET k == CalleeAt(x)
      v == Absolute(r, x.vals[k])
  IN PointedTo(r, IF v < Len(r.tys) THEN TypeOf(r.tys, v) ELSE x.vals[k + 1])

ArgumentKinds(r, x) ==
  IF isCall(x)
  THEN Map(LAMBDA ty : IF x.code = FunctionCodes.CALL /\ isLabel(r, ty) THEN "n" ELSE "v",
           ParamTypes(Callee(r, x)))
  ELSE <<>>

\* The type of the result, where the record or the callee gives it; Valued where the
\* operands would, which this reader does not follow.
Valued == -2
ResultType(r, x) ==
  CASE isCall(x) -> ReturnType(Callee(r, x))
    [] x.code \in {FunctionCodes.PHI, FunctionCodes.ALLOCA, FunctionCodes.LANDINGPAD} -> x.vals[1]
    [] x.code \in {FunctionCodes.CAST, FunctionCodes.VAARG} -> x.vals[Len(x.vals) - (IF x.code = FunctionCodes.CAST THEN 1 ELSE 0)]
    [] x.code \in {FunctionCodes.RET, FunctionCodes.BR, FunctionCodes.SWITCH, FunctionCodes.INDIRECTBR,
                   FunctionCodes.UNREACHABLE, FunctionCodes.RESUME, FunctionCodes.STORE,
                   FunctionCodes.STOREATOMIC, FunctionCodes.FENCE} -> NoType
    [] OTHER -> Valued
HasValue(r, ty) == ty # NoType /\ (ty >= 0 => ~isVoid(r, ty))

SetLocation(r, dl) ==
  LET body == Last(r.bodies)
  IN SetBody(SetBody(r, "lastloc", dl), "insts", [body.insts EXCEPT ![Len(body.insts)].dl = dl])

\* What an instruction says besides its operands and blocks, from its values v: of a
\* module where the values have the types tys.
Said(mod, tys, is, v) ==
  LET n == Len(v)
      memory(k) == <<Alignment(v[k]), v[k + 1]>>
      atomic == <<Meaning(Orderings, v[n - 1]), Meaning(Scopes, v[n])>>
  IN CASE is = "CAST"        -> <<Meaning(Casts, v[3])>>
       [] is = "BINOP"       -> BinaryMeaning(mod, TypeOf(tys, v[1]), v[3], At(v, 4, 0))
       [] is = "LOAD"        -> memory(2)
       [] is = "STORE"       -> memory(3)
       [] is = "LOADATOMIC"  -> memory(2) \o atomic
       [] is = "STOREATOMIC" -> memory(3) \o atomic
       [] is = "CMPXCHG"     -> <<v[4]>> \o atomic
       [] is = "ATOMICRMW"   -> <<Meaning(RMWs, v[3]), v[4]>> \o atomic
       [] is = "FENCE"       -> atomic
       [] is = "SWITCH"      ->   \* the header has the magic, or it is an older layout
            IF v[1] \div 2 ^ 16 = 1205 THEN [k \in 1..v[5] |-> FromSigned(v[4 * k + 4])] ELSE Invalid
       [] OTHER              -> <<>>

ReadInstruction(r, x, got, ty) ==
  LET is == CHOOSE c \in DOMAIN FunctionCodes : FunctionCodes[c] = x.code
  IN AddBody(IF HasValue(r, ty) THEN Add(r, "tys", ty) ELSE r, "insts",
             [is |-> is, values |-> got.values, told |-> got.told, dl |-> Unknown, mds |-> <<>>])

ReadFunction(r, x) ==
  LET v == x.vals
  IN CASE x.code = FunctionCodes.DECLAREBLOCKS   -> SetBody(r, "blocks", v[1])
       [] x.code = FunctionCodes.DEBUG_LOC       -> SetLocation(r, <<v[1], v[2], v[3] - 1, v[4] - 1>>)
       [] x.code = FunctionCodes.DEBUG_LOC_AGAIN -> SetLocation(r, Last(r.bodies).lastloc)
       [] OTHER -> ReadInstruction(r, x, ReadOperands(r, x, ArgumentKinds(r, x)), ResultType(r, x))

------------------------------------------------------------------------------
(* Blocks, abbreviations, records.                                         *)

Abbreviable(r, x) ==
  x.abbrev # 0 =>
    LET k == x.abbrev - FIRST_APPLICATION_ABBREV + 1
    IN /\ k \in DOMAIN Top(r).abbrevs
       /\ x.abbrev < 2 ^ Top(r).width
       /\ Encodable(Top(r).abbrevs[k], <<x.code>> \o x.vals, NoBlob)

ReadRecord(r, x) ==
  LET s == IF Abbreviable(r, x) THEN r ELSE Set(r, "misfits", r.misfits \cup {x})
  IN CASE Top(r).id = BlockIDs.MODULE_BLOCK       -> ReadModule(s, x)
       [] Top(r).id = BlockIDs.PARAMATTR_BLOCK    -> Add(s, "attrs", Map(AttributesOf, Pairs(x.vals)))
       [] Top(r).id = BlockIDs.TYPE_BLOCK         -> ReadType(s, x)
       [] Top(r).id = BlockIDs.CONSTANTS_BLOCK    -> ReadConstant(s, x)
       [] Top(r).id \in {BlockIDs.METADATA_BLOCK, BlockIDs.METADATA_ATTACHMENT} -> ReadMetadata(s, x)
       [] Top(r).id = BlockIDs.VALUE_SYMTAB_BLOCK -> ReadName(s, x)
       [] Top(r).id = BlockIDs.FUNCTION_BLOCK     -> ReadFunction(s, x)

\* The bodies come in the order of the functions that are not declarations.
EnterBody(r) ==
  LET defined == Kept(LAMBDA f : f.isproto = 0, r.functions)
      params == ParamTypes(PointedTo(r, defined[Len(r.bodies) + 1].ty))
  IN [r EXCEPT !.tys = @ \o params, !.moduleTys = r.tys, !.moduleTold = r.told, !.told = {},
               !.bodies = Append(@, [args |-> params, blocks |-> 0, consts |-> <<>>, local |-> <<>>,
                                     insts |-> <<>>, names |-> <<>>, told |-> {}, lastloc |-> Unknown])]

LeaveBody(r) ==
  SetBody([r EXCEPT !.tys = r.moduleTys, !.told = r.moduleTold], "told", r.told)

Infos(r, id) == IF id \in DOMAIN r.infos THEN r.infos[id] ELSE <<>>
Open(r, x) ==
  Add(r, "open", [id |-> x.id, width |-> x.width, abbrevs |-> Infos(r, x.id), ty |-> NoType])
Close(r) == Set(r, "open", Front(r.open))

Read(r, x) ==
  CASE x.item = "magic"  -> r
    [] x.item = "enter"  -> Open(IF x.id = BlockIDs.FUNCTION_BLOCK THEN EnterBody(r) ELSE r, x)
    [] x.item = "exit"   -> Close(IF Top(r).id = BlockIDs.FUNCTION_BLOCK THEN LeaveBody(r) ELSE r)
    [] x.item = "define" -> SetTop(r, "abbrevs", Append(Top(r).abbrevs, x.ops))
    [] x.item = "info"   -> Set(r, "infos", (x.id :> Append(Infos(r, x.id), x.ops)) @@ r.infos)
    [] x.item = "record" -> ReadRecord(r, x)

Nothing ==
  [open |-> <<>>, infos |-> <<>>, misfits |-> {}, bytes |-> 0, attrs |-> <<>>, types |-> <<>>, tname |-> <<>>,
   triple |-> <<>>, layout |-> <<>>, asm |-> <<>>, sections |-> <<>>, gcs |-> <<>>, globals |-> <<>>,
   functions |-> <<>>, aliases |-> <<>>, tys |-> <<>>, consts |-> <<>>, told |-> {}, mds |-> <<>>,
   named |-> <<>>, kinds |-> <<>>, names |-> <<>>, bodies |-> <<>>, moduleTys |-> <<>>,
   moduleTold |-> {}]

RInit == Init /\ R = Nothing
RNext == Next /\ R' = [FoldLeft(Read, R, sent') EXCEPT !.bytes = R.bytes + Streamed(sent')]
RSpec == RInit /\ [][RNext]_<<vars, R>>
------------------------------------------------------------------------------

(* The writer's state is well formed: the next instruction is one of the   *)
(* body or its end, and every instruction before it has its number, which  *)
(* counts instructions, with and without a value, from 0 on                *)
(* (SpirBitcodeWriter.cpp:1513-1556, setInstructionID at 1100).            *)
TypeOK ==
  /\ F \in 1..(Len(M.functions) + 1)
  /\ at = "insts" =>
       /\ ~isDeclaration(F) /\ I \in 1..(Len(Insts) + 1)
       /\ InstID \in CstEnd..(CstEnd + I - 1)
       /\ InstructionIDs = [k \in 1..(I - 1) |-> k - 1]

(* The writer's InstID, which every relative number and every decision     *)
(* that an operand is a forward reference is taken against, is the number  *)
(* the reader gives the next value, whatever was written before            *)
(* (SpirBitcodeWriter.cpp:1513-1541).                                      *)
Lockstep == at = "insts" => InstID = Len(R.tys)

\* A metadata string goes through char, which is signed, to the eight bits of MDSAbbrev.
HighStrings ==
  {WriteMD(M, M.mds[k]) : k \in {j \in DOMAIN M.mds : isString(M.mds[j]) /\ ~All7Bit(M.mds[j].str)}}

(* Every record written with an abbreviation fits it: it is defined in the *)
(* block, its literals are the values, each field has room for its value,  *)
(* nothing is left over (the assertions of BitstreamWriter.h:123, 282,     *)
(* 300, 332-334, 397-399; the widths computed at 211-251, 480-505, 805 and *)
(* 1562-1720 of SpirBitcodeWriter.cpp).  Metadata strings with a byte of   *)
(* 128 or more that are abbreviated are the only ones that do not, and     *)
(* they never do (SpirBitcodeWriter.cpp:641).                              *)
AbbreviationsFit ==
  /\ R.misfits \subseteq HighStrings
  /\ at = "done" /\ StringStarts(M) => R.misfits = HighStrings
  /\ ~StringStarts(M) => R.misfits = {}

\* A stream with a field its value does not fit is not one to read.
Readable == at = "done" /\ R.misfits = {}

Value(word) == word[1] + 256 * (word[2] + 256 * (word[3] + 256 * word[4]))

(* A reader finds the stream in the file and nothing else: the whole file, *)
(* in words, or what the Darwin header names, by an offset and a size that *)
(* leave out the padding, in a file of a multiple of 16 bytes (1861-1970). *)
FileUnwraps == at = "done" =>
  IF M.darwin
  THEN LET header(k) == Value(Buffer.header[k])
           offset == header(3)
       IN /\ header(1) = WrapperMagic
          /\ offset = WordBytes * Len(Buffer.header)
          /\ header(4) = R.bytes /\ offset + header(4) <= Buffer.size
          /\ Buffer.size % 16 = 0 /\ Buffer.size - (offset + header(4)) < 16
  ELSE Buffer.header = <<>> /\ Buffer.size = R.bytes

ToldRight(told, tys) == \A t \in told : t[1] < Len(tys) /\ t[2] = TypeOf(tys, t[1])

(* What was written outside of the bodies is read back: the same types,    *)
(* globals with their sections and alignments, functions with their        *)
(* collectors, constants each of its type, metadata and names, and of all  *)
(* of these the opcodes, linkages and the like by name; attributes too,    *)
(* but of the alignment what has 16 bits; every type told with an operand  *)
(* is the operand's (84-127, 180-571, 591-674, 729-1047, 1432-1487).       *)
ModuleReadBack == Readable =>
  /\ R.attrs = Map(LAMBDA A : Map(LAMBDA a : [a EXCEPT !.align = @ % 2 ^ Half], A), M.attrs)
  /\ \A part \in {"types", "triple", "asm", "globals", "functions", "aliases", "consts", "mds",
                   "named", "names"} : R[part] = M[part]
  /\ R.layout = IF M.layout = <<>> THEN <<>> ELSE DataLayoutOf(M)
  /\ R.kinds = [k \in DOMAIN M.kinds |-> <<k - 1, M.kinds[k]>>]
  /\ ToldRight(R.told, ModuleTypes(M))

\* The functions whose bodies are sent, in order.
Defined == Kept(LAMBDA f : ~isDeclaration(f), [f \in DOMAIN M.functions |-> f])

\* The instructions that say more than their operands, and what remains of it.
Saying == {"CAST", "BINOP", "LOAD", "STORE", "LOADATOMIC", "STOREATOMIC", "CMPXCHG", "ATOMICRMW",
           "FENCE", "SWITCH"}
Remains(inst) == IF inst.op = "CMPXCHG" THEN SubSeq(inst.lits, 1, 3) ELSE inst.lits

(* Every body is read back: its constants and local metadata, and each     *)
(* instruction with the operands it had, found from relative numbers, and  *)
(* its opcode, flags, alignment, ordering and cases; a type is told for    *)
(* exactly the values the reader does not know yet, and is theirs (84-165, *)
(* 573-589, 1057-1092, 1095-1429, 1490-1559).                              *)
BodiesReadBack == Readable =>
  /\ Len(R.bodies) = Len(Defined)
  /\ \A b \in DOMAIN Defined :
       LET body == M.bodies[Defined[b]]
           tys == FunctionValueTypes(M, Defined[b])
           read == R.bodies[b]
       IN /\ \A part \in {"args", "blocks", "consts", "local", "names"} : read[part] = body[part]
          /\ ToldRight(read.told, tys)
          /\ Len(read.insts) = Len(body.insts)
          /\ \A k \in DOMAIN body.insts :
               LET inst == body.insts[k]
               IN /\ read.insts[k].is = inst.op
                  /\ inst.op \in Saying => Said(M, tys, inst.op, read.insts[k].values) = Remains(inst)
                  /\ read.insts[k].values = Map(LAMBDA s : s.n, Operands(M, tys, inst))
                  /\ ToldRight(read.insts[k].told, tys)

(* Each instruction gets the debug location and the metadata it had, and   *)
(* one that has no location gets none: neither the location of the         *)
(* function before nor what an instruction without a value is counted as   *)
(* moves them to another (696-727, 1513-1556).                             *)
LocationsReadBack == Readable =>
  \A b \in DOMAIN Defined :
    \A k \in DOMAIN M.bodies[Defined[b]].insts :
      LET inst == M.bodies[Defined[b]].insts[k]
      IN R.bodies[b].insts[k].dl = inst.dl /\ R.bodies[b].insts[k].mds = inst.mds
=============================================================================
