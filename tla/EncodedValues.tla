----------------------------- MODULE EncodedValues -----------------------------
(***************************************************************************)
(* The numbers that opcodes, flags, orderings, linkages and the like are   *)
(* encoded as: the GetEncoded... functions of encoder/SpirBitcodeWriter.cpp,*)
(* each a function of LLVM's names.  The two encoders share all of them but *)
(* the linkages: LLVM 3.4 has four that 3.5 has no more.                   *)
(***************************************************************************)
EXTENDS LLVMBitCodes, Integers

GetEncodedCastOpcode ==
  [Trunc |-> CastOpcodes.TRUNC, ZExt |-> CastOpcodes.ZEXT, SExt |-> CastOpcodes.SEXT,
   FPToUI |-> CastOpcodes.FPTOUI, FPToSI |-> CastOpcodes.FPTOSI, UIToFP |-> CastOpcodes.UITOFP,
   SIToFP |-> CastOpcodes.SITOFP, FPTrunc |-> CastOpcodes.FPTRUNC, FPExt |-> CastOpcodes.FPEXT,
   PtrToInt |-> CastOpcodes.PTRTOINT, IntToPtr |-> CastOpcodes.INTTOPTR,
   BitCast |-> CastOpcodes.BITCAST]

\* An operation on floating point shares the number of one on integers.
GetEncodedBinaryOpcode ==
  [Add |-> BinaryOpcodes.ADD, FAdd |-> BinaryOpcodes.ADD, Sub |-> BinaryOpcodes.SUB,
   FSub |-> BinaryOpcodes.SUB, Mul |-> BinaryOpcodes.MUL, FMul |-> BinaryOpcodes.MUL,
   UDiv |-> BinaryOpcodes.UDIV, FDiv |-> BinaryOpcodes.SDIV, SDiv |-> BinaryOpcodes.SDIV,
   URem |-> BinaryOpcodes.UREM, FRem |-> BinaryOpcodes.SREM, SRem |-> BinaryOpcodes.SREM,
   Shl |-> BinaryOpcodes.SHL, LShr |-> BinaryOpcodes.LSHR, AShr |-> BinaryOpcodes.ASHR,
   And |-> BinaryOpcodes.AND, Or |-> BinaryOpcodes.OR, Xor |-> BinaryOpcodes.XOR]

GetEncodedRMWOperation ==
  [Xchg |-> RMWOperations.XCHG, Add |-> RMWOperations.ADD, Sub |-> RMWOperations.SUB,
   And |-> RMWOperations.AND, Nand |-> RMWOperations.NAND, Or |-> RMWOperations.OR,
   Xor |-> RMWOperations.XOR, Max |-> RMWOperations.MAX, Min |-> RMWOperations.MIN,
   UMax |-> RMWOperations.UMAX, UMin |-> RMWOperations.UMIN]

GetEncodedOrdering ==
  [NotAtomic |-> AtomicOrderingCodes.NOTATOMIC, Unordered |-> AtomicOrderingCodes.UNORDERED,
   Monotonic |-> AtomicOrderingCodes.MONOTONIC, Acquire |-> AtomicOrderingCodes.ACQUIRE,
   Release |-> AtomicOrderingCodes.RELEASE, AcquireRelease |-> AtomicOrderingCodes.ACQREL,
   SequentiallyConsistent |-> AtomicOrderingCodes.SEQCST]

GetEncodedSynchScope ==
  [SingleThread |-> AtomicSynchScopeCodes.SINGLETHREAD,
   CrossThread |-> AtomicSynchScopeCodes.CROSSTHREAD]

\* The flags an operation may have in LLVM.
OverflowingBinaryOperator == {"Add", "Sub", "Mul", "Shl"}
PossiblyExactOperator == {"UDiv", "SDiv", "LShr", "AShr"}

Flag(n, set) == IF set THEN 2 ^ n ELSE 0
GetOptimizationFlags(op, flags) ==
  IF op \in OverflowingBinaryOperator
  THEN Flag(OverflowingBinaryOperatorOptionalFlags.NO_SIGNED_WRAP, "NSW" \in flags)
         + Flag(OverflowingBinaryOperatorOptionalFlags.NO_UNSIGNED_WRAP, "NUW" \in flags)
  ELSE IF op \in PossiblyExactOperator
  THEN Flag(PossiblyExactOperatorOptionalFlags.EXACT, "Exact" \in flags) ELSE 0

getEncodedLinkage35 ==
  [External |-> 0, WeakAny |-> 1, Appending |-> 2, Internal |-> 3, LinkOnceAny |-> 4,
   ExternalWeak |-> 7, Common |-> 8, Private |-> 9, WeakODR |-> 10, LinkOnceODR |-> 11,
   AvailableExternally |-> 12]

getEncodedLinkage34 ==
  [External |-> 0, WeakAny |-> 1, Appending |-> 2, Internal |-> 3, LinkOnceAny |-> 4,
   DLLImport |-> 5, DLLExport |-> 6, ExternalWeak |-> 7, Common |-> 8, Private |-> 9,
   WeakODR |-> 10, LinkOnceODR |-> 11, AvailableExternally |-> 12, LinkerPrivate |-> 13,
   LinkerPrivateWeak |-> 14]

getEncodedVisibility == [Default |-> 0, Hidden |-> 1, Protected |-> 2]

getEncodedThreadLocalMode ==
  [NotThreadLocal |-> 0, GeneralDynamicTLSModel |-> 1, LocalDynamicTLSModel |-> 2,
   InitialExecTLSModel |-> 3, LocalExecTLSModel |-> 4]
=============================================================================
