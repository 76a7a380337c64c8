----------------------------- MODULE MCSpirBitcode -----------------------------
(***************************************************************************)
(* One small module and, part by part, what may stand in its place: tables *)
(* of types, attributes, globals with sections and alignments, linkages    *)
(* and visibilities for either encoder, lists of constants, of metadata    *)
(* and of names, every opcode with its flags, every instruction with known *)
(* and with forward operands, every pair of instructions, every way to     *)
(* place debug locations and attachments in two bodies, files for Darwin.  *)
(* Numbers have 10 bits.                                                   *)
(***************************************************************************)
EXTENDS VerifiedModules

Ty(id, vals) == [id |-> id, vals |-> vals, name |-> <<>>]
Ab == <<97, 98>>     \* "ab"
A7 == <<97, 126>>    \* "a~": seven bits, not char6
A8 == <<97, 233>>    \* eight bits

BaseTypes == <<
  Ty("Void", <<>>), Ty("Integer", <<32>>), Ty("Label", <<>>), Ty("Metadata", <<>>),   \* 0..3
  Ty("Pointer", <<1, 0>>), Ty("Pointer", <<1, 1>>),                                   \* 4, 5
  Ty("Function", <<0, 1, 1, 1>>), Ty("Pointer", <<6, 0>>),                            \* 6, 7
  Ty("Function", <<1, 0, 1>>), Ty("Pointer", <<8, 0>>),                               \* 8, 9
  Ty("Integer", <<1>>), Ty("LiteralStruct", <<0, 1, 1>>), Ty("Vector", <<2, 1>>),     \* 10..12
  Ty("Integer", <<8>>), Ty("Array", <<2, 13>>), Ty("Pointer", <<13, 0>>),             \* 13..15
  Ty("Function", <<0, 0, 2>>), Ty("Pointer", <<16, 0>>), Ty("Float", <<>>),           \* 16..18
  Ty("LiteralStruct", <<0, 1, 10>>) >>                                                \* 19
CmpXchgType == 19   \* what was there and whether it was exchanged, in LLVM 3.5

Global(ty) ==
  [ty |-> ty, isconst |-> 0, init |-> NoInit, linkage |-> "External", align |-> 0, section |-> <<>>,
   visibility |-> "Default", threadlocal |-> "NotThreadLocal", unnamed |-> 0]
Fn(ty, proto) ==
  [ty |-> ty, cc |-> 75, isproto |-> proto, linkage |-> "External", attrs |-> 1, align |-> 0,
   section |-> <<>>, visibility |-> "Default", gc |-> <<>>, unnamed |-> 0]
Const(ty, is, ops, lits) == [ty |-> ty, is |-> is, ops |-> ops, lits |-> lits, strs |-> <<>>]
Text(ty, is, lits, strs) == [ty |-> ty, is |-> is, ops |-> <<>>, lits |-> lits, strs |-> strs]

\* Values 0, 1 are globals, 2 to 4 functions, 5 an alias, 6 to 11 these constants.
BaseConsts == <<Const(1, "INTEGER", <<>>, <<5>>), Const(11, "UNDEF", <<>>, <<>>),
                Const(12, "UNDEF", <<>>, <<>>), Const(10, "INTEGER", <<>>, <<-1>>),
                Const(15, "BLOCKADDRESS", <<2>>, <<1>>), Text(17, "INLINEASM", <<1>>, <<Ab, A8>>)>>
Five == 6  Struct == 7  Vec == 8  Bit == 9  Address == 10  Asm == 11

Node(ops) == [ops |-> ops, local |-> FALSE]
Local(ops) == [ops |-> ops, local |-> TRUE]
Name(of, name, bb) == [of |-> of, name |-> name, bb |-> bb]
Inst(op, ty, ops, blocks, lits) ==
  [op |-> op, ty |-> ty, ops |-> ops, blocks |-> blocks, lits |-> lits, dl |-> Unknown, mds |-> <<>>]

\* The two bodies: the arguments are the values nv and on, then comes a constant.
BodyOf(args, insts) ==
  [args |-> args, consts |-> <<Const(1, "INTEGER", <<>>, <<7>>)>>, local |-> <<>>, blocks |-> 2,
   insts |-> insts, names |-> <<>>]
Bodies(first, second) == [f \in {1, 3} |-> IF f = 1 THEN BodyOf(<<1, 1>>, first) ELSE BodyOf(<<1>>, second)]
RetVal(nv) == Inst("RET", 0, <<nv>>, <<>>, <<>>)
RetVoid == Inst("RET", 0, <<>>, <<>>, <<>>)

Base ==
  [llvm |-> 35, darwin |-> FALSE, arch |-> "spir", preserveUseLists |-> FALSE, attrs |-> <<>>, triple |-> SPIR, layout |-> Ab, asm |-> <<>>, types |-> BaseTypes,
   globals |-> <<Global(4), Global(5)>>, functions |-> <<Fn(7, 0), Fn(9, 1), Fn(9, 0)>>,
   aliases |-> <<[ty |-> 4, aliasee |-> 0, linkage |-> "External", visibility |-> "Default"]>>,
   consts |-> BaseConsts, mds |-> <<Node(<<>>)>>, named |-> <<>>, kinds |-> <<Ab, A8>>,
   names |-> <<>>, bodies |-> Bodies(<<RetVal(12)>>, <<RetVoid>>)]

------------------------------------------------------------------------------

MoreTypes == {Ty("Pointer", <<1, 3>>), Ty("OpaqueStruct", <<0>>), Ty("Half", <<>>), Ty("Array", <<300, 1>>),
              Ty("Struct", <<1, 1, 4>>)}
             \cup {[Ty("Struct", <<0>>) EXCEPT !.name = n] : n \in {Ab, A7, A8}}
             \cup {[Ty("OpaqueStruct", <<0>>) EXCEPT !.name = Ab]}
TypeInputs == {"types"} \X BoundedSeq(MoreTypes, 2)
WithTypes(in) == [Base EXCEPT !.types = @ \o in[2]]

TextInputs == {"text"} \X {34, 35} \X {<<>>, SPIR, SPIR64, Ab} \X {<<>>, Ab} \X {<<>>, A8}
WithTexts(in) == [Base EXCEPT !.llvm = in[2], !.triple = in[3], !.layout = in[4], !.asm = in[5]]

\* The last slot is the function's, ~0U; an alignment of 32 has a bit too many.
Slots(highs) == [slot : {0, 2 ^ Width - 1}, low : {0, 1, 31}, align : {0, 1, 16, 32}, high : highs]
AttributeInputs ==
  {"attrs"} \X ({<< <<a>> >> : a \in Slots({0, 1, 31})} \cup {<< <<a, b>>, <<>> >> : a, b \in Slots({1})})
WithAttributes(in) == [Base EXCEPT !.attrs = in[2]]

\* The files: with and without the wrapper, of sizes that are padded by 0 to 12 bytes.
FileInputs ==
  {"file"} \X BOOLEAN \X {"x86_64", "x86", "ppc", "ppc64", "arm", "thumb", "spir"} \X BOOLEAN \X (0..3)
WithFile(in) ==
  [Base EXCEPT !.darwin = in[2], !.arch = in[3], !.preserveUseLists = in[4],
               !.attrs = [k \in 1..in[5] |-> <<>>]]

Keys(f) == DOMAIN f
Linked(v, in) == [v EXCEPT !.linkage = in[3], !.visibility = in[4]]
LinkageInputs ==
  ({"linkage"} \X {34} \X Keys(getEncodedLinkage34) \X Keys(getEncodedVisibility)
     \X Keys(getEncodedThreadLocalMode))
  \cup ({"linkage"} \X {35} \X Keys(getEncodedLinkage35) \X Keys(getEncodedVisibility)
     \X Keys(getEncodedThreadLocalMode))
WithLinkage(in) ==
  [Base EXCEPT !.llvm = in[2], !.globals[1] = [Linked(@, in) EXCEPT !.threadlocal = in[5]],
               !.functions[2] = Linked(@, in), !.aliases[1] = Linked(@, in)]

\* Sections and alignments at the powers of two that widen the fields.
GlobalInputs ==
  {"globals"} \X [section1 : {<<>>, Ab}, align1 : {0, 1, 4, 64}, section2 : {Ab, A8}, unnamed2 : {0, 1},
                 section : {<<>>, Ab, A7}, align : {0, 8}, gc : {<<>>, Ab}, gc2 : {<<>>, Ab, A7}]
WithGlobals(in) ==
  LET g == in[2]
  IN [Base EXCEPT !.globals = <<[Global(4) EXCEPT !.section = g.section1, !.align = g.align1],
                                [Global(5) EXCEPT !.section = g.section2, !.init = Five,
                                                  !.unnamed = g.unnamed2]>>,
                  !.functions[1] = [@ EXCEPT !.section = g.section, !.gc = g.gc, !.align = g.align],
                  !.functions[2] = [@ EXCEPT !.gc = g.gc2]]

MoreConsts ==
  Map(LAMBDA n : Const(1, "INTEGER", <<>>, <<n>>), <<1, -3, -(2 ^ 19)>>)
  \o Map(LAMBDA s : Text(14, "String", <<>>, <<s>>), <<<<97, 0>>, <<126, 0>>, <<233, 0>>, A8, <<0, 0>>>>)
  \o <<Const(1, "NULL", <<>>, <<>>), Const(13, "CE_CAST", <<Five>>, <<"Trunc">>),
        Const(11, "AGGREGATE", <<Five, Five>>, <<>>),
        Const(1, "CE_BINOP", <<Five, Five>>, <<"Add", {"NUW"}>>), Const(4, "CE_INBOUNDS_GEP", <<0, Five>>, <<>>),
        Const(1, "CE_SELECT", <<Bit, Five, Five>>, <<>>), Const(1, "CE_EXTRACTELT", <<Vec, Five>>, <<>>),
        Const(12, "CE_SHUFFLEVEC", <<Vec, Vec, Vec>>, <<>>), Const(10, "CE_CMP", <<Five, Five>>, <<32>>),
        Const(18, "FLOAT", <<>>, <<9>>)>>
ConstInputs == {"consts"} \X BoundedSeq(DOMAIN MoreConsts, 2)
WithConsts(in) ==
  [Base EXCEPT !.consts = @ \o [k \in DOMAIN in[2] |-> MoreConsts[in[2][k]]], !.bodies = Bodies(<<RetVal(12 + Len(in[2]))>>, <<RetVoid>>)]

MetadataInputs ==
  {"metadata"} \X BoundedSeq({[str |-> Ab], [str |-> A8], Node(<<>>), Node(<<<<>>, <<1, Five>>>>), Node(<<<<3, 0>>>>)}, 3)
    \X {<<>>, <<[name |-> A8, ops |-> <<0>>]>>} \X {<<>>, <<A8>>} \X {<<>>, <<Local(<<<<1, 12>>>>)>>}
WithMetadata(in) ==
  [Base EXCEPT !.mds = in[2], !.named = in[3], !.kinds = in[4], !.bodies[1].local = in[5]]

NameInputs == {"names"} \X {Ab, A7, A8} \X {Ab, A7, A8}
WithNames(in) ==
  [Base EXCEPT !.names = <<Name(0, in[2], FALSE)>>,
               !.bodies[1].names = <<Name(0, in[3], TRUE), Name(12, in[2], FALSE)>>]

------------------------------------------------------------------------------

\* a and b are integers, p a pointer to one, f a function like the first.
Menu(a, b, p, f) == <<
  Inst("CAST", 13, <<a>>, <<>>, <<"Trunc">>), Inst("BINOP", 1, <<a, b>>, <<>>, <<"Xor", {}>>),
  Inst("BINOP", 1, <<a, b>>, <<>>, <<"Add", {"NSW", "NUW"}>>),
  Inst("GEP", 4, <<p, a>>, <<>>, <<>>), Inst("INBOUNDS_GEP", 4, <<p, a>>, <<>>, <<>>),
  Inst("EXTRACTVAL", 1, <<Struct>>, <<>>, <<1>>), Inst("INSERTVAL", 11, <<Struct, a>>, <<>>, <<0>>),
  Inst("VSELECT", 1, <<Bit, a, b>>, <<>>, <<>>), Inst("EXTRACTELT", 1, <<Vec, a>>, <<>>, <<>>),
  Inst("INSERTELT", 12, <<Vec, a, b>>, <<>>, <<>>), Inst("SHUFFLEVEC", 12, <<Vec, Vec, Vec>>, <<>>, <<>>),
  Inst("CMP2", 10, <<a, b>>, <<>>, <<32>>), RetVal(a), Inst("BR", 0, <<>>, <<1>>, <<>>),
  Inst("BR", 0, <<Bit>>, <<0, 1>>, <<>>), Inst("SWITCH", 0, <<a>>, <<0, 1, 1>>, <<5, -3>>),
  Inst("INDIRECTBR", 0, <<Address>>, <<1>>, <<>>), Inst("INVOKE", 1, <<f, a, b>>, <<0, 1>>, <<1, 75>>),
  Inst("INVOKE", 0, <<3, a, b>>, <<0, 1>>, <<1, 75>>), Inst("RESUME", 0, <<Struct>>, <<>>, <<>>),
  Inst("UNREACHABLE", 0, <<>>, <<>>, <<>>), Inst("PHI", 1, <<a, b>>, <<0, 1>>, <<>>),
  Inst("LANDINGPAD", 11, <<f, p>>, <<>>, <<1, 0>>), Inst("ALLOCA", 4, <<Five>>, <<>>, <<4>>),
  Inst("LOAD", 1, <<p>>, <<>>, <<4, 1>>), Inst("LOADATOMIC", 1, <<p>>, <<>>, <<4, 0, "Monotonic", "CrossThread">>),
  Inst("STORE", 0, <<a, p>>, <<>>, <<4, 1>>), Inst("STOREATOMIC", 0, <<a, p>>, <<>>, <<0, 0, "Release", "CrossThread">>),
  Inst("CMPXCHG", CmpXchgType, <<p, a, b>>, <<>>, <<0, "AcquireRelease", "CrossThread", "Acquire">>),
  Inst("ATOMICRMW", 1, <<p, a>>, <<>>, <<"Add", 0, "Acquire", "SingleThread">>),
  Inst("FENCE", 0, <<>>, <<>>, <<"Release", "CrossThread">>), Inst("CALL", 1, <<f, a, b>>, <<>>, <<1, 75, 1>>),
  Inst("CALL", 0, <<3, a, b, p>>, <<>>, <<1, 75, 0>>), Inst("CALL", 0, <<Asm, 1>>, <<>>, <<0, 0, 0>>),
  Inst("VAARG", 1, <<p>>, <<>>, <<>>) >>
Kinds == DOMAIN Menu(0, 0, 0, 2)

\* What comes after the instructions: an integer, a pointer and a function to refer to.
Later == <<Inst("LOAD", 1, <<0>>, <<>>, <<4, 0>>), Inst("ALLOCA", 4, <<Five>>, <<>>, <<4>>),
           Inst("CAST", 7, <<2>>, <<>>, <<"BitCast">>)>>
NumValued(ks) == Cardinality({i \in DOMAIN ks : Menu(0, 0, 0, 2)[ks[i]].ty # 0})
First == 15   \* the number of the first instruction with a value in the first body

\* The instructions ks, each operand known or among the later ones.
Chosen(ks, a, b, p) ==
  LET later == First + NumValued(ks)
      value(known, k, x) == IF x THEN known ELSE later + k
      menu == Menu(value(12, 0, a), value(13, 0, b), value(0, 1, p), value(2, 2, p))
  IN [i \in DOMAIN ks |-> menu[ks[i]]] \o Later

InstructionInputs == {"instruction"} \X Kinds \X BOOLEAN \X BOOLEAN \X BOOLEAN
WithInstruction(in) == [Base EXCEPT !.bodies = Bodies(Chosen(<<in[2]>>, in[3], in[4], in[5]), <<RetVoid>>)]

\* Every opcode: casts and binary operations as instructions and as constants, the latter
\* with all their flags, and every operation and ordering of an atomic.  The types and
\* values added to those of the base.
OpcodeTypes == <<Ty("Double", <<>>)>>   \* 20
Undefs == <<Const(13, "UNDEF", <<>>, <<>>), Const(18, "UNDEF", <<>>, <<>>),
            Const(4, "UNDEF", <<>>, <<>>), Const(20, "UNDEF", <<>>, <<>>)>>
Byte8 == 12  Single == 13  Ptr == 14  Dbl == 15

\* What is cast, and to which type.
CastOf ==
  [Trunc |-> <<Five, 13>>, ZExt |-> <<Byte8, 1>>, SExt |-> <<Byte8, 1>>, FPToUI |-> <<Single, 1>>,
   FPToSI |-> <<Dbl, 1>>, UIToFP |-> <<Five, 18>>, SIToFP |-> <<Five, 20>>, FPTrunc |-> <<Dbl, 18>>,
   FPExt |-> <<Single, 20>>, PtrToInt |-> <<Ptr, 1>>, IntToPtr |-> <<Five, 4>>, BitCast |-> <<Ptr, 15>>]
FlagsOf(op) ==
  IF op \in OverflowingBinaryOperator THEN SUBSET {"NSW", "NUW"}
  ELSE IF op \in PossiblyExactOperator THEN SUBSET {"Exact"} ELSE {{}}
OperandOf(op) == IF op \in {"FAdd", "FSub", "FMul", "FDiv", "FRem"} THEN <<Single, 18>> ELSE <<Five, 1>>

OpcodeInputs ==
  ({"opcode"} \X {"cast"} \X Keys(GetEncodedCastOpcode) \X {{}})
  \cup UNION {{"opcode"} \X {"binary"} \X {op} \X FlagsOf(op) : op \in DOMAIN GetEncodedBinaryOpcode}
  \cup ({"opcode"} \X {"rmw"} \X Keys(GetEncodedRMWOperation) \X {{}})
  \cup ({"opcode"} \X {"fence"} \X {"Acquire", "Release", "AcquireRelease", "SequentiallyConsistent"}
         \X {{scope} : scope \in DOMAIN GetEncodedSynchScope})
  \cup ({"opcode"} \X {"load"} \X {"Unordered", "Monotonic", "Acquire", "SequentiallyConsistent"}
         \X {{scope} : scope \in DOMAIN GetEncodedSynchScope})

OpcodeConsts(in) ==
  LET op == in[3]
  IN CASE in[2] = "cast"   -> <<Const(CastOf[op][2], "CE_CAST", <<CastOf[op][1]>>, <<op>>)>>
       [] in[2] = "binary" ->
            <<Const(OperandOf(op)[2], "CE_BINOP", <<OperandOf(op)[1], OperandOf(op)[1]>>, <<op, in[4]>>)>>
       [] OTHER            -> <<>>
OpcodeInst(in) ==
  LET op == in[3]
      scope == CHOOSE s \in in[4] : TRUE
  IN CASE in[2] = "cast"   -> Inst("CAST", CastOf[op][2], <<CastOf[op][1]>>, <<>>, <<op>>)
       [] in[2] = "binary" ->
            Inst("BINOP", OperandOf(op)[2], <<OperandOf(op)[1], OperandOf(op)[1]>>, <<>>, <<op, in[4]>>)
       [] in[2] = "rmw"    -> Inst("ATOMICRMW", 1, <<Ptr, Five>>, <<>>, <<op, 1, "Monotonic", "CrossThread">>)
       [] in[2] = "fence"  -> Inst("FENCE", 0, <<>>, <<>>, <<op, scope>>)
       [] in[2] = "load"   -> Inst("LOADATOMIC", 1, <<Ptr>>, <<>>, <<4, 1, op, scope>>)
WithOpcode(in) ==
  [Base EXCEPT !.types = @ \o OpcodeTypes, !.consts = @ \o Undefs \o OpcodeConsts(in),
               !.bodies = Bodies(<<OpcodeInst(in), RetVoid>>, <<RetVoid>>)]

\* A callee without parameters, 12, the last operand of its record.
CallInputs == {"call"} \X {"CALL", "INVOKE"}
WithCall(in) ==
  [Base EXCEPT !.types = @ \o <<Ty("Function", <<0, 0>>), Ty("Pointer", <<20, 0>>)>>,
               !.consts = @ \o <<Text(21, "INLINEASM", <<1>>, <<Ab, A8>>)>>,
               !.bodies = Bodies(<<IF in[2] = "CALL" THEN Inst("CALL", 0, <<12>>, <<>>, <<1, 75, 0>>)
                                   ELSE Inst("INVOKE", 0, <<12>>, <<0, 1>>, <<1, 75>>), RetVal(13)>>, <<RetVoid>>)]

PairInputs == {"pair"} \X Kinds \X Kinds \X BOOLEAN \X BOOLEAN
WithPair(in) == [Base EXCEPT !.bodies = Bodies(Chosen(<<in[2], in[3]>>, in[4], in[5], in[4]), <<RetVoid>>)]

Placed(i, d) == [i EXCEPT !.dl = d[1], !.mds = d[2]]
Places == {Unknown, <<1, 1, 0, -1>>, <<2, 1, 0, 0>>} \X {<<>>, << <<1, 0>> >>}
PlaceInputs == {"places"} \X Places \X Places \X Places \X Places
WithPlaces(in) ==
  [Base EXCEPT !.bodies = Bodies(<<Placed(Inst("STORE", 0, <<12, 0>>, <<>>, <<4, 0>>), in[2]),
                                   Placed(Inst("LOAD", 1, <<0>>, <<>>, <<4, 0>>), in[3]), RetVal(First)>>,
                                 <<Placed(Inst("FENCE", 0, <<>>, <<>>, <<"Acquire", "CrossThread">>), in[4]), Placed(RetVoid, in[5])>>)]

MCInputs == TypeInputs \cup TextInputs \cup AttributeInputs \cup FileInputs \cup LinkageInputs
              \cup OpcodeInputs \cup GlobalInputs \cup ConstInputs \cup MetadataInputs
              \cup NameInputs \cup InstructionInputs \cup CallInputs \cup PairInputs \cup PlaceInputs
MCModule(in) ==
  CASE in[1] = "types"       -> WithTypes(in)
    [] in[1] = "text"        -> WithTexts(in)
    [] in[1] = "attrs"       -> WithAttributes(in)
    [] in[1] = "file"        -> WithFile(in)
    [] in[1] = "linkage"     -> WithLinkage(in)
    [] in[1] = "opcode"      -> WithOpcode(in)
    [] in[1] = "globals"     -> WithGlobals(in)
    [] in[1] = "consts"      -> WithConsts(in)
    [] in[1] = "metadata"    -> WithMetadata(in)
    [] in[1] = "names"       -> WithNames(in)
    [] in[1] = "instruction" -> WithInstruction(in)
    [] in[1] = "call"        -> WithCall(in)
    [] in[1] = "pair"        -> WithPair(in)
    [] in[1] = "places"      -> WithPlaces(in)
=============================================================================
