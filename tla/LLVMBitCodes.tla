----------------------------- MODULE LLVMBitCodes -----------------------------
(***************************************************************************)
(* The numbers of the blocks of a module and of their records: the enums   *)
(* of encoder/LLVMBitCodes.h, each a record of its names without their     *)
(* common prefix.                                                          *)
(***************************************************************************)

BlockIDs ==
  [MODULE_BLOCK |-> 8, PARAMATTR_BLOCK |-> 9, CONSTANTS_BLOCK |-> 11, FUNCTION_BLOCK |-> 12,
   VALUE_SYMTAB_BLOCK |-> 14, METADATA_BLOCK |-> 15, METADATA_ATTACHMENT |-> 16,
   TYPE_BLOCK |-> 17, USELIST_BLOCK |-> 18]

ModuleCodes ==
  [VERSION |-> 1, TRIPLE |-> 2, DATALAYOUT |-> 3, ASM |-> 4, SECTIONNAME |-> 5,
   DEPLIB |-> 6, GLOBALVAR |-> 7, FUNCTION |-> 8, ALIAS |-> 9, PURGEVALS |-> 10,
   GCNAME |-> 11]

AttributeCodes == [ENTRY |-> 1]

TypeCodes ==
  [NUMENTRY |-> 1, VOID |-> 2, FLOAT |-> 3, DOUBLE |-> 4, LABEL |-> 5, OPAQUE |-> 6,
   INTEGER |-> 7, POINTER |-> 8, FUNCTION_OLD |-> 9, HALF |-> 10, ARRAY |-> 11,
   VECTOR |-> 12, X86_FP80 |-> 13, FP128 |-> 14, PPC_FP128 |-> 15, METADATA |-> 16,
   X86_MMX |-> 17, STRUCT_ANON |-> 18, STRUCT_NAME |-> 19, STRUCT_NAMED |-> 20,
   FUNCTION |-> 21]

ValueSymtabCodes ==
  [ENTRY |-> 1, BBENTRY |-> 2]

MetadataCodes ==
  [STRING |-> 1, NAME |-> 4, KIND |-> 6, NODE |-> 8, FN_NODE |-> 9, NAMED_NODE |-> 10,
   ATTACHMENT |-> 11]

ConstantsCodes ==
  [SETTYPE |-> 1, NULL |-> 2, UNDEF |-> 3, INTEGER |-> 4, WIDE_INTEGER |-> 5,
   FLOAT |-> 6, AGGREGATE |-> 7, STRING |-> 8, CSTRING |-> 9, CE_BINOP |-> 10,
   CE_CAST |-> 11, CE_GEP |-> 12, CE_SELECT |-> 13, CE_EXTRACTELT |-> 14,
   CE_INSERTELT |-> 15, CE_SHUFFLEVEC |-> 16, CE_CMP |-> 17, INLINEASM_OLD |-> 18,
   CE_SHUFVEC_EX |-> 19, CE_INBOUNDS_GEP |-> 20, BLOCKADDRESS |-> 21, DATA |-> 22,
   INLINEASM |-> 23]

CastOpcodes ==
  [TRUNC |-> 0, ZEXT |-> 1, SEXT |-> 2, FPTOUI |-> 3, FPTOSI |-> 4, UITOFP |-> 5, SITOFP |-> 6,
   FPTRUNC |-> 7, FPEXT |-> 8, PTRTOINT |-> 9, INTTOPTR |-> 10, BITCAST |-> 11]

BinaryOpcodes ==
  [ADD |-> 0, SUB |-> 1, MUL |-> 2, UDIV |-> 3, SDIV |-> 4, UREM |-> 5, SREM |-> 6, SHL |-> 7,
   LSHR |-> 8, ASHR |-> 9, AND |-> 10, OR |-> 11, XOR |-> 12]

RMWOperations ==
  [XCHG |-> 0, ADD |-> 1, SUB |-> 2, AND |-> 3, NAND |-> 4, OR |-> 5, XOR |-> 6, MAX |-> 7,
   MIN |-> 8, UMAX |-> 9, UMIN |-> 10]

\* The numbers of the bits of the flags.
OverflowingBinaryOperatorOptionalFlags == [NO_UNSIGNED_WRAP |-> 0, NO_SIGNED_WRAP |-> 1]
PossiblyExactOperatorOptionalFlags == [EXACT |-> 0]

AtomicOrderingCodes ==
  [NOTATOMIC |-> 0, UNORDERED |-> 1, MONOTONIC |-> 2, ACQUIRE |-> 3, RELEASE |-> 4, ACQREL |-> 5,
   SEQCST |-> 6]

AtomicSynchScopeCodes == [SINGLETHREAD |-> 0, CROSSTHREAD |-> 1]

\* FUNC_CODE_INST_x is x here.
FunctionCodes ==
  [DECLAREBLOCKS |-> 1, BINOP |-> 2, CAST |-> 3, GEP |-> 4, SELECT |-> 5,
   EXTRACTELT |-> 6, INSERTELT |-> 7, SHUFFLEVEC |-> 8, CMP |-> 9, RET |-> 10,
   BR |-> 11, SWITCH |-> 12, INVOKE |-> 13, UNREACHABLE |-> 15, PHI |-> 16,
   ALLOCA |-> 19, LOAD |-> 20, VAARG |-> 23, STORE |-> 24, EXTRACTVAL |-> 26,
   INSERTVAL |-> 27, CMP2 |-> 28, VSELECT |-> 29, INBOUNDS_GEP |-> 30,
   INDIRECTBR |-> 31, DEBUG_LOC_AGAIN |-> 33, CALL |-> 34, DEBUG_LOC |-> 35,
   FENCE |-> 36, CMPXCHG |-> 37, ATOMICRMW |-> 38, RESUME |-> 39, LANDINGPAD |-> 40,
   LOADATOMIC |-> 41, STOREATOMIC |-> 42]
=============================================================================
