----------------------------- MODULE ModuleRecords -----------------------------
(***************************************************************************)
(* The records a module is written as, block by block: what each Write...  *)
(* of encoder/SpirBitcodeWriter.cpp sends to the BitstreamWriter, given    *)
(* the module as the ValueEnumerator numbered it.  Types, values and       *)
(* metadata are their numbers from 0 on, in the order of the lists here; a *)
(* string is a sequence of bytes; predicates and calling conventions are    *)
(* numbers, as they are in LLVM.  M.llvm is the LLVM whose module it is, 34 *)
(* or 35, and so which of the two encoders writes it.                       *)
(*                                                                         *)
(* The writer sends items: a block entered or left, an abbreviation        *)
(* defined in the block or in BLOCKINFO, a record.                         *)
(***************************************************************************)
EXTENDS BitCodes, EncodedValues, FiniteSetsExt, SequencesExt

CONSTANT Width   \* bits of an unsigned: 32 in the code, and twice as many in a uint64_t

Enter(id, CodeLen) == [item |-> "enter", id |-> id, width |-> CodeLen]
Exit == [item |-> "exit"]
Define(ops) == [item |-> "define", ops |-> ops]
DefineInfo(id, ops) == [item |-> "info", id |-> id, ops |-> ops]
Record(Code, Vals, Abbrev) == [item |-> "record", code |-> Code, vals |-> Vals, abbrev |-> Abbrev]

BLOCKINFO == 0
Map(f(_), seq) == [k \in DOMAIN seq |-> f(seq[k])]
Flat(f(_), seq) == FlattenSeq(Map(f, seq))
One(cond, x) == IF cond THEN <<x>> ELSE <<>>
Kept(test(_), seq) == Flat(LAMBDA x : One(test(x), x), seq)

Log2_32_Ceil(n) == CHOOSE k \in 0..Width : 2 ^ k >= n /\ \A j \in 0..(k - 1) : 2 ^ j < n
Log2_32(n) == CHOOSE k \in -1..Width : IF n = 0 THEN k = -1 ELSE k >= 0 /\ n \in 2 ^ k..2 ^ (k + 1) - 1

\* A char that becomes an integer of w bits: char is signed.
FromChar(c, w) == IF c < 128 THEN c ELSE 2 ^ w - 256 + c
Chars(str, w) == [k \in DOMAIN str |-> FromChar(str[k], w)]
AllChar6(str) == \A k \in DOMAIN str : isChar6(str[k])
All7Bit(str) == \A k \in DOMAIN str : str[k] < 128

\* The high bit of the number is kept in the low one.
emitSignedInt64(v) ==
  IF v >= 0 THEN (v * 2) % 2 ^ (2 * Width) ELSE ((-v * 2) % 2 ^ (2 * Width)) + 1

WriteStringRecord(Code, str, Abbrev) ==
  Record(Code, Chars(str, Width), IF AllChar6(str) THEN Abbrev ELSE 0)

\* The number EmitAbbrev returns for the k-th abbreviation of a block that has some already.
NthAbbrev(inherited, k) == FIRST_APPLICATION_ABBREV + inherited + k - 1

------------------------------------------------------------------------------
(* Standard abbreviations.                                                 *)

VST_ABBREV == [ENTRY_8 |-> 4, ENTRY_7 |-> 5, ENTRY_6 |-> 6, BBENTRY_6 |-> 7]
CONSTANTS_ABBREV == [SETTYPE |-> 4, INTEGER |-> 5, CE_CAST |-> 6, NULL |-> 7]
FUNCTION_ABBREV ==
  [LOAD |-> 4, BINOP |-> 5, BINOP_FLAGS |-> 6, CAST |-> 7, RET_VOID |-> 8, RET_VAL |-> 9,
   UNREACHABLE |-> 10]

TypeBits(M) == Log2_32_Ceil(Len(M.types) + 1)

VSTAbbrevs ==
  << <<Fixed(3), VBR(8), Array, Fixed(8)>>,
     <<Literal(ValueSymtabCodes.ENTRY), VBR(8), Array, Fixed(7)>>,
     <<Literal(ValueSymtabCodes.ENTRY), VBR(8), Array, Char6>>,
     <<Literal(ValueSymtabCodes.BBENTRY), VBR(8), Array, Char6>> >>

ConstantsAbbrevs(M) ==
  << <<Literal(ConstantsCodes.SETTYPE), Fixed(TypeBits(M))>>,
     <<Literal(ConstantsCodes.INTEGER), VBR(8)>>,
     <<Literal(ConstantsCodes.CE_CAST), Fixed(4), Fixed(TypeBits(M)), VBR(8)>>,
     <<Literal(ConstantsCodes.NULL)>> >>

FunctionAbbrevs(M) ==
  << <<Literal(FunctionCodes.LOAD), VBR(6), VBR(4), Fixed(1)>>,
     <<Literal(FunctionCodes.BINOP), VBR(6), VBR(6), Fixed(4)>>,
     <<Literal(FunctionCodes.BINOP), VBR(6), VBR(6), Fixed(4), Fixed(7)>>,
     <<Literal(FunctionCodes.CAST), VBR(6), Fixed(TypeBits(M)), Fixed(4)>>,
     <<Literal(FunctionCodes.RET)>>,
     <<Literal(FunctionCodes.RET), VBR(6)>>,
     <<Literal(FunctionCodes.UNREACHABLE)>> >>

WriteBlockInfo(M) ==
  LET all(id, abbrevs) == Map(LAMBDA a : DefineInfo(id, a), abbrevs)
  IN <<Enter(BLOCKINFO, 2)>> \o all(BlockIDs.VALUE_SYMTAB_BLOCK, VSTAbbrevs)
       \o all(BlockIDs.CONSTANTS_BLOCK, ConstantsAbbrevs(M))
       \o all(BlockIDs.FUNCTION_BLOCK, FunctionAbbrevs(M)) \o <<Exit>>

InBlock(id, CodeLen, items) ==
  IF items = <<>> THEN <<>> ELSE <<Enter(id, CodeLen)>> \o items \o <<Exit>>

\* An attribute set is its slots: a slot's attributes are the bits of a uint64_t, of which
\* low and high are those below and above the logarithm of the alignment.
Half == Width \div 2   \* 16
AlignmentBits == 3     \* 5: bits 16 to 20
Raw(A) == A.low + (IF A.align = 0 THEN 0 ELSE Log2_32(A.align) + 1) * 2 ^ Half
            + A.high * 2 ^ (Half + AlignmentBits)

\* As LLVM 3.2 lays them out: the alignment itself, in an unsigned, and then the high bits.
EncodedAttrs(A) ==
  (Raw(A) % 2 ^ Half) + ((A.align * 2 ^ Half) % 2 ^ Width)
    + ((Raw(A) \div 2 ^ (Half + AlignmentBits)) % 2 ^ Half) * 2 ^ Width

WriteAttributeTable(M) ==
  LET set(A) == Record(AttributeCodes.ENTRY, Flat(LAMBDA a : <<a.slot, EncodedAttrs(a)>>, A), 0)
  IN InBlock(BlockIDs.PARAMATTR_BLOCK, 3, Map(set, M.attrs))

------------------------------------------------------------------------------
(* Types.  A type is [id, vals, name]; vals are the operands of its record. *)

TypeCode ==
  [Void |-> TypeCodes.VOID, Half |-> TypeCodes.HALF, Float |-> TypeCodes.FLOAT,
   Double |-> TypeCodes.DOUBLE, X86_FP80 |-> TypeCodes.X86_FP80, FP128 |-> TypeCodes.FP128,
   PPC_FP128 |-> TypeCodes.PPC_FP128, X86_MMX |-> TypeCodes.X86_MMX,
   Label |-> TypeCodes.LABEL, Metadata |-> TypeCodes.METADATA,
   Integer |-> TypeCodes.INTEGER, Pointer |-> TypeCodes.POINTER,
   Function |-> TypeCodes.FUNCTION, LiteralStruct |-> TypeCodes.STRUCT_ANON,
   OpaqueStruct |-> TypeCodes.OPAQUE, Struct |-> TypeCodes.STRUCT_NAMED,
   Array |-> TypeCodes.ARRAY, Vector |-> TypeCodes.VECTOR]

\* Every pointer shares the abbreviation whose address space is 0.
InAddressSpace0_Any(T) == T.id = "Pointer"   \* fault: the address space is not looked at
InAddressSpace0(T) == T.id = "Pointer" /\ T.vals[2] = 0

TypeAbbrevs(M) ==
  LET types == Fixed(TypeBits(M))
  IN << <<Literal(TypeCodes.POINTER), types, Literal(0)>>,
        <<Literal(TypeCodes.FUNCTION), Fixed(1), Array, types>>,
        <<Literal(TypeCodes.STRUCT_ANON), Fixed(1), Array, types>>,
        <<Literal(TypeCodes.STRUCT_NAME), Array, Char6>>,
        <<Literal(TypeCodes.STRUCT_NAMED), Fixed(1), Array, types>>,
        <<Literal(TypeCodes.ARRAY), VBR(8), types>> >>

TypeAbbrev(T) ==
  CASE InAddressSpace0(T)      -> NthAbbrev(0, 1)
    [] T.id = "Function"       -> NthAbbrev(0, 2)
    [] T.id = "LiteralStruct"  -> NthAbbrev(0, 3)
    [] T.id = "Struct"         -> NthAbbrev(0, 5)
    [] T.id = "Array"          -> NthAbbrev(0, 6)
    [] OTHER                   -> 0

WriteType(T) ==
  One(T.name # <<>>, WriteStringRecord(TypeCodes.STRUCT_NAME, T.name, NthAbbrev(0, 4)))
    \o <<Record(TypeCode[T.id], T.vals, TypeAbbrev(T))>>

WriteTypeTable(M) ==
  <<Enter(BlockIDs.TYPE_BLOCK, 4)>> \o Map(Define, TypeAbbrevs(M))
    \o <<Record(TypeCodes.NUMENTRY, <<Len(M.types)>>, 0)>>
    \o Flat(WriteType, M.types) \o <<Exit>>

------------------------------------------------------------------------------
(* Globals, functions and aliases.  <<>> is the name of no section and no   *)
(* collector, and the text of no triple.                                   *)

SPIR == <<115, 112, 105, 114>>
SPIR64 == SPIR \o <<54, 52>>
SPIR32_DATALAYOUT == <<101, 51, 50>>   \* stands for the text of lines 40-43
SPIR64_DATALAYOUT == <<101, 54, 52>>   \* stands for the text of lines 45-48

\* The encoder for LLVM 3.4 writes the layout as it is.  That for 3.5 asserts that the
\* layout of a SPIR module means the same as the text it writes (423-424): a build without
\* assertions, the one modelled, puts that text in the place of any other.
DataLayoutOf(M) ==
  IF M.llvm = 34 \/ ~IsPrefix(SPIR, M.triple) THEN M.layout
  ELSE IF IsPrefix(SPIR64, M.triple) THEN SPIR64_DATALAYOUT ELSE SPIR32_DATALAYOUT

\* The names of the sections and collectors, as records in the order of first use.
Uses(M) ==
  Map(LAMBDA g : <<ModuleCodes.SECTIONNAME, g.section>>, M.globals)
    \o Flat(LAMBDA f : <<<<ModuleCodes.SECTIONNAME, f.section>>, <<ModuleCodes.GCNAME, f.gc>>>>,
            M.functions)
AddName(names, use) == IF use[2] = <<>> \/ Contains(names, use) THEN names ELSE Append(names, use)
Names(M) == FoldLeft(AddName, <<>>, Uses(M))

\* SectionMap[name] and GCMap[name].
Number_Shared(M, Code, name) ==   \* fault: one map for both kinds of names
  IF name = <<>> THEN 0 ELSE CHOOSE k \in DOMAIN Names(M) : Names(M)[k] = <<Code, name>>
Number(M, Code, name) ==
  LET map == Kept(LAMBDA use : use[1] = Code, Names(M))
  IN IF name = <<>> THEN 0 ELSE CHOOSE k \in DOMAIN map : map[k][2] = name
Sections(M) == Len(Kept(LAMBDA use : use[1] = ModuleCodes.SECTIONNAME, Names(M)))

Largest(seq) == Max({0} \cup ToSet(seq))
MaxAlignment(M) ==
  Largest(Map(LAMBDA g : g.align, M.globals) \o Map(LAMBDA f : f.align, M.functions))
MaxGlobalType(M) == Largest(Map(LAMBDA g : g.ty, M.globals))

SimpleGVarAbbrev(M) ==
  LET align == IF MaxAlignment(M) = 0 THEN Literal(0)
               ELSE Fixed(Log2_32_Ceil(Log2_32(MaxAlignment(M)) + 1 + 1))
      section == IF Sections(M) = 0 THEN Literal(0) ELSE Fixed(Log2_32_Ceil(Sections(M) + 1))
  IN <<Literal(ModuleCodes.GLOBALVAR), Fixed(Log2_32_Ceil(MaxGlobalType(M) + 1)), Fixed(1),
       VBR(6), Fixed(4), align, section>>

NoInit == -1   \* the initializer of a declaration

getEncodedLinkage(M) == IF M.llvm = 34 THEN getEncodedLinkage34 ELSE getEncodedLinkage35

Simple(g) == g.threadlocal = "NotThreadLocal" /\ g.visibility = "Default" /\ g.unnamed = 0

WriteGlobalVar(M, g) ==
  Record(ModuleCodes.GLOBALVAR,
         <<g.ty, g.isconst, g.init + 1, getEncodedLinkage(M)[g.linkage], Log2_32(g.align) + 1,
           Number(M, ModuleCodes.SECTIONNAME, g.section)>>
           \o (IF Simple(g) THEN <<>>
               ELSE <<getEncodedVisibility[g.visibility],
                      getEncodedThreadLocalMode[g.threadlocal], g.unnamed>>),
         IF Simple(g) THEN NthAbbrev(0, 1) ELSE 0)

WriteFunctionProto(M, f) ==
  Record(ModuleCodes.FUNCTION,
         <<f.ty, f.cc, f.isproto, getEncodedLinkage(M)[f.linkage], f.attrs, Log2_32(f.align) + 1,
           Number(M, ModuleCodes.SECTIONNAME, f.section), getEncodedVisibility[f.visibility],
           Number(M, ModuleCodes.GCNAME, f.gc), f.unnamed>>, 0)

WriteAlias(M, a) ==
  Record(ModuleCodes.ALIAS,
         <<a.ty, a.aliasee, getEncodedLinkage(M)[a.linkage], getEncodedVisibility[a.visibility]>>, 0)

WriteModuleInfo(M) ==
  LET text(Code, str) == One(str # <<>>, WriteStringRecord(Code, str, 0))
  IN text(ModuleCodes.TRIPLE, M.triple)
       \o One(M.layout # <<>>, WriteStringRecord(ModuleCodes.DATALAYOUT, DataLayoutOf(M), 0))
       \o text(ModuleCodes.ASM, M.asm)
       \o Map(LAMBDA use : WriteStringRecord(use[1], use[2], 0), Names(M))
       \o One(M.globals # <<>>, Define(SimpleGVarAbbrev(M)))
       \o Map(LAMBDA g : WriteGlobalVar(M, g), M.globals)
       \o Map(LAMBDA f : WriteFunctionProto(M, f), M.functions)
       \o Map(LAMBDA a : WriteAlias(M, a), M.aliases)

------------------------------------------------------------------------------
(* Constants.  A constant is [ty, is, ops, lits, strs]: its type, what it   *)
(* is, its operands, the opcodes and numbers, and the strings it has.  tys     *)
(* lists the types of all values, so tys[v + 1] is the type of value v.     *)

TypeOf(tys, v) == tys[v + 1]
Typed(tys, v) == <<TypeOf(tys, v), v>>

isCString(str) == str # <<>> /\ Last(str) = 0 /\ \A k \in 1..(Len(str) - 1) : str[k] # 0
SameShape(tys, C) == C.ty = TypeOf(tys, C.ops[1])

Code(tys, C) ==
  CASE C.is = "String"  -> IF isCString(C.strs[1]) THEN ConstantsCodes.CSTRING
                           ELSE ConstantsCodes.STRING
    [] C.is = "CE_SHUFFLEVEC" -> IF SameShape(tys, C) THEN ConstantsCodes.CE_SHUFFLEVEC
                                 ELSE ConstantsCodes.CE_SHUFVEC_EX
    [] OTHER -> ConstantsCodes[C.is]

StringBytes(C) == IF isCString(C.strs[1]) THEN Front(C.strs[1]) ELSE C.strs[1]

Vals(tys, C) ==
  LET withTypes == Flat(LAMBDA v : Typed(tys, v), C.ops)
  IN CASE C.is \in {"INTEGER", "WIDE_INTEGER"} -> Map(emitSignedInt64, C.lits)
       [] C.is = "String"        -> StringBytes(C)
       [] C.is = "CE_CAST"       -> <<GetEncodedCastOpcode[C.lits[1]]>> \o withTypes
       [] C.is = "CE_BINOP"      ->
            LET flags == GetOptimizationFlags(C.lits[1], C.lits[2])
            IN <<GetEncodedBinaryOpcode[C.lits[1]]>> \o C.ops \o One(flags # 0, flags)
       [] C.is \in {"CE_GEP", "CE_INBOUNDS_GEP"} -> withTypes
       [] C.is = "CE_EXTRACTELT" -> <<TypeOf(tys, C.ops[1])>> \o C.ops
       [] C.is = "CE_SHUFFLEVEC" -> One(~SameShape(tys, C), TypeOf(tys, C.ops[1])) \o C.ops
       [] C.is = "CE_CMP"        -> <<TypeOf(tys, C.ops[1])>> \o C.ops \o C.lits
       [] C.is = "BLOCKADDRESS"  -> withTypes \o C.lits
       [] C.is = "INLINEASM"     ->
            C.lits \o Flat(LAMBDA str : <<Len(str)>> \o Chars(str, 2 * Width), C.strs)
       [] OTHER                  -> C.ops \o C.lits

\* The module's constants have four abbreviations of their own.
ModuleConstantsAbbrevs(LastVal) ==
  << <<Literal(ConstantsCodes.AGGREGATE), Array, Fixed(Log2_32_Ceil(LastVal + 1))>>,
     <<Literal(ConstantsCodes.STRING), Array, Fixed(8)>>,
     <<Literal(ConstantsCodes.CSTRING), Array, Fixed(7)>>,
     <<Literal(ConstantsCodes.CSTRING), Array, Char6>> >>

ConstantAbbrev(C, isGlobal) ==
  LET own(k) == IF isGlobal THEN NthAbbrev(4, k) ELSE 0
  IN CASE C.is = "INTEGER"   -> CONSTANTS_ABBREV.INTEGER
       [] C.is = "CE_CAST"   -> CONSTANTS_ABBREV.CE_CAST
       [] C.is = "AGGREGATE" -> own(1)
       [] C.is = "String"    ->
            IF ~isCString(C.strs[1]) THEN own(2)
            ELSE IF AllChar6(StringBytes(C)) THEN own(4)
            ELSE IF All7Bit(StringBytes(C)) THEN own(3) ELSE 0
       [] OTHER              -> 0

SameTypeAsLast(consts, k) == k > 1 /\ consts[k].ty = consts[k - 1].ty   \* LastTy

WriteConstants(consts, tys, LastVal, isGlobal) ==
  LET constant(k) ==
        LET C == consts[k]
        IN One(~SameTypeAsLast(consts, k),
               Record(ConstantsCodes.SETTYPE, <<C.ty>>, CONSTANTS_ABBREV.SETTYPE))
             \o <<Record(Code(tys, C), Vals(tys, C), ConstantAbbrev(C, isGlobal))>>
  IN IF consts = <<>> THEN <<>>
     ELSE <<Enter(BlockIDs.CONSTANTS_BLOCK, 4)>>
            \o (IF isGlobal THEN Map(Define, ModuleConstantsAbbrevs(LastVal)) ELSE <<>>)
            \o Flat(constant, [k \in DOMAIN consts |-> k]) \o <<Exit>>

ModuleTypes(M) ==
  Map(LAMBDA v : v.ty, M.globals) \o Map(LAMBDA v : v.ty, M.functions)
    \o Map(LAMBDA v : v.ty, M.aliases) \o Map(LAMBDA v : v.ty, M.consts)

WriteModuleConstants(M) == WriteConstants(M.consts, ModuleTypes(M), Len(ModuleTypes(M)), TRUE)

------------------------------------------------------------------------------
(* Metadata.  A node is [ops, local]: each operand <<>> or its type and     *)
(* number; local says the node is local to a function.  A string is [str].  *)

VoidType(M) == (CHOOSE k \in DOMAIN M.types : M.types[k].id = "Void") - 1

WriteMDNode(M, N) ==
  Record(IF N.local THEN MetadataCodes.FN_NODE ELSE MetadataCodes.NODE,
         Flat(LAMBDA op : IF op = <<>> THEN <<VoidType(M), 0>> ELSE op, N.ops), 0)

isString(md) == "str" \in DOMAIN md
MDSAbbrevOps == <<Literal(MetadataCodes.STRING), Array, Fixed(8)>>

\* MDSAbbrev is defined only by a string that starts the block.
StringStarts(M) == M.mds # <<>> /\ isString(M.mds[1])

WriteMD(M, md) ==
  IF isString(md)
  THEN Record(MetadataCodes.STRING, Chars(md.str, 2 * Width),
              IF StringStarts(M) THEN NthAbbrev(0, 1) ELSE 0)
  ELSE WriteMDNode(M, md)

WriteNamedMD(N) ==
  <<Record(MetadataCodes.NAME, Chars(N.name, 2 * Width), 0),
    Record(MetadataCodes.NAMED_NODE, N.ops, 0)>>

WriteModuleMetadata(M) ==
  InBlock(BlockIDs.METADATA_BLOCK, 3,
          One(StringStarts(M), Define(MDSAbbrevOps))
            \o Map(LAMBDA md : WriteMD(M, md), M.mds) \o Flat(WriteNamedMD, M.named))

WriteModuleMetadataStore(M) ==
  LET kind(k) == Record(MetadataCodes.KIND, <<k - 1>> \o Chars(M.kinds[k], 2 * Width), 0)
  IN InBlock(BlockIDs.METADATA_BLOCK, 3, Map(kind, [k \in DOMAIN M.kinds |-> k]))

\* Use-lists are looked at and nothing is written of them.
WriteModuleUseLists(M) ==
  IF M.preserveUseLists THEN <<Enter(BlockIDs.USELIST_BLOCK, 3), Exit>> ELSE <<>>

WriteFunctionLocalMetadata(M, F) ==
  InBlock(BlockIDs.METADATA_BLOCK, 3, Map(LAMBDA N : WriteMDNode(M, N), F.local))

------------------------------------------------------------------------------
(* Names.  An entry is [of, name, bb]: the number of what it names, which   *)
(* is a basic block if bb.                                                  *)

NameAbbrev(N) ==
  IF AllChar6(N.name) THEN IF N.bb THEN VST_ABBREV.BBENTRY_6 ELSE VST_ABBREV.ENTRY_6
  ELSE IF All7Bit(N.name) /\ ~N.bb THEN VST_ABBREV.ENTRY_7 ELSE VST_ABBREV.ENTRY_8

WriteValueSymbolTable(names) ==
  InBlock(BlockIDs.VALUE_SYMTAB_BLOCK, 4,
          Map(LAMBDA N : Record(IF N.bb THEN ValueSymtabCodes.BBENTRY ELSE ValueSymtabCodes.ENTRY,
                                <<N.of>> \o N.name, NameAbbrev(N)), names))
=============================================================================
