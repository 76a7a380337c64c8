--------------------------- MODULE SpirBitcodeWriter ---------------------------
(***************************************************************************)
(* WriteBitcodeToFile_SPIR, WriteModule and WriteFunction of               *)
(* encoder/SpirBitcodeWriter.cpp: the file around a module, the order of   *)
(* its blocks, and what the writer carries from one record of a function   *)
(* body to the next.  A module M is                                        *)
(*   [llvm, darwin, arch, preserveUseLists, attrs, triple, layout, asm,    *)
(*    types, globals, functions, aliases, consts, mds, named, kinds,       *)
(*    names, bodies]                                                       *)
(* where darwin and arch are what llvm::Triple finds in the triple and     *)
(* preserveUseLists is the option of the command line, with a body         *)
(* [args, consts, local, blocks, insts, names] for every function that is  *)
(* not a declaration.                                                      *)
(*                                                                         *)
(* The ValueEnumerator is LLVM's: it numbers the values of the module,     *)
(* then, while a function is incorporated, its arguments, its constants    *)
(* and its instructions that have a value.                                 *)
(***************************************************************************)
EXTENDS InstructionRecords

CONSTANTS
  Inputs,     \* what a caller may give
  Module(_)   \* the module of an input

VARIABLES
  M,                 \* the module
  at,                \* what is written next
  sent,              \* the items the last call sent to the container writer
  Buffer,            \* what is to be the file: its header and how many bytes it is in all
  F,                 \* the function whose body is being written, or the next one
  I,                 \* the instruction to write next
  InstID, LastDL, NeedsMetadataAttachment,
  InstructionIDs     \* the numbers the enumerator gave the instructions: InstructionMap

writer == <<F, I, InstID, LastDL, NeedsMetadataAttachment, InstructionIDs>>
vars == <<M, at, sent, Buffer, writer>>

Unknown == <<>>   \* the debug location of an instruction that has none
Body == M.bodies[F]
Insts == Body.insts

\* The types of the values of a module with function f incorporated.
FunctionValueTypes(mod, f) ==
  ModuleTypes(mod) \o mod.bodies[f].args \o Map(LAMBDA c : c.ty, mod.bodies[f].consts)
    \o Kept(LAMBDA ty : ~isVoid(mod, ty), Map(LAMBDA i : i.ty, mod.bodies[f].insts))
Types == FunctionValueTypes(M, F)

\* getFunctionConstantRange: CstEnd.
CstEnd == Len(ModuleTypes(M)) + Len(Body.args) + Len(Body.consts)

isDeclaration(f) == M.functions[f].isproto = 1
NextBody(f) ==
  CHOOSE g \in f..(Len(M.functions) + 1) :
    /\ g \in DOMAIN M.functions => ~isDeclaration(g)
    /\ \A h \in f..(g - 1) : isDeclaration(h)

------------------------------------------------------------------------------
(* The file.  Darwin's archiver wants a header before the stream and the   *)
(* whole padded to 16 bytes.                                               *)

WordBytes == 4
DarwinBCHeaderSize == 5 * WordBytes
Magic == [item |-> "magic"]   \* 'B' 'C' 0xC0DE, a word

Move(here, next, items) == at = here /\ at' = next /\ sent' = items /\ UNCHANGED M

\* How many bytes an item comes to is the container writer's; a word stands for them here.
Streamed(items) == WordBytes * Len(items)

BeginFile ==
  /\ Move("file", "module", <<Magic>>)
  /\ Buffer' = IF M.darwin
               THEN [header |-> [k \in 1..5 |-> <<0, 0, 0, 0>>],
                     size |-> DarwinBCHeaderSize + Streamed(<<Magic>>)]
               ELSE [header |-> <<>>, size |-> Streamed(<<Magic>>)]
  /\ UNCHANGED writer

\* WriteInt32ToBuffer; ~0U is minus one.
Int32(v) == [k \in 1..WordBytes |-> (v \div 2 ^ (8 * (k - 1))) % 256]

DARWIN_CPU_ARCH_ABI64 == 2 ^ 24
DARWIN_CPU_TYPE == [X86 |-> 7, ARM |-> 12, POWERPC |-> 18]
CPUType(arch) ==
  CASE arch = "x86_64"           -> DARWIN_CPU_TYPE.X86 + DARWIN_CPU_ARCH_ABI64
    [] arch = "x86"              -> DARWIN_CPU_TYPE.X86
    [] arch = "ppc"              -> DARWIN_CPU_TYPE.POWERPC
    [] arch = "ppc64"            -> DARWIN_CPU_TYPE.POWERPC + DARWIN_CPU_ARCH_ABI64
    [] arch \in {"arm", "thumb"} -> DARWIN_CPU_TYPE.ARM
    [] OTHER                     -> -1

WrapperMagic == 186106078   \* 0x0B17C0DE
Padded(size) == ((size + 15) \div 16) * 16
BCSize_Padded(size) == Padded(size) - DarwinBCHeaderSize   \* fault: the file is padded first
BCSize(size) == size - DarwinBCHeaderSize

EndFile ==
  /\ Move("trailer", "done", <<>>)
  /\ Buffer' = IF M.darwin
               THEN [header |-> <<Int32(WrapperMagic), Int32(0), Int32(DarwinBCHeaderSize),
                                  Int32(BCSize(Buffer.size)), Int32(CPUType(M.arch))>>,
                     size |-> Padded(Buffer.size)]
               ELSE Buffer
  /\ UNCHANGED writer

------------------------------------------------------------------------------
(* WriteModule.  Each call it makes is one step.                           *)

Write(here, next, items) ==
  /\ Move(here, next, items)
  /\ Buffer' = [Buffer EXCEPT !.size = @ + Streamed(items)]

BeginModule ==
  /\ Write("module", "blockinfo", <<Enter(BlockIDs.MODULE_BLOCK, 3), Record(ModuleCodes.VERSION, <<1>>, 0)>>)
  /\ UNCHANGED writer
WriteStandardAbbrevs == Write("blockinfo", "attributes", WriteBlockInfo(M)) /\ UNCHANGED writer
WriteAttributes == Write("attributes", "types", WriteAttributeTable(M)) /\ UNCHANGED writer
WriteTypes == Write("types", "info", WriteTypeTable(M)) /\ UNCHANGED writer
WriteInfo == Write("info", "constants", WriteModuleInfo(M)) /\ UNCHANGED writer
WriteGlobalConstants == Write("constants", "metadata", WriteModuleConstants(M)) /\ UNCHANGED writer
WriteMetadata == Write("metadata", "kinds", WriteModuleMetadata(M)) /\ UNCHANGED writer
WriteMetadataKinds == Write("kinds", "names", WriteModuleMetadataStore(M)) /\ UNCHANGED writer

WriteGlobalNames == Write("names", "uselists", WriteValueSymbolTable(M.names)) /\ UNCHANGED writer

WriteUseLists ==
  /\ Write("uselists", "function", WriteModuleUseLists(M))
  /\ F' = NextBody(1)
  /\ UNCHANGED <<I, InstID, LastDL, NeedsMetadataAttachment, InstructionIDs>>

EndModule ==
  /\ F > Len(M.functions)
  /\ Write("function", "trailer", <<Exit>>)
  /\ UNCHANGED writer

------------------------------------------------------------------------------
(* WriteFunction.                                                          *)

NoLocation_Kept == LastDL    \* fault: the location of the function before
NoLocation == Unknown

FirstInstID_Kept == InstID   \* fault: numbers go on from the function before
FirstInstID == CstEnd

\* Up to the loop over the instructions.
BeginFunction ==
  /\ F <= Len(M.functions)
  /\ Write("function", "insts",
           <<Enter(BlockIDs.FUNCTION_BLOCK, 4), Record(FunctionCodes.DECLAREBLOCKS, <<Body.blocks>>, 0)>>
             \o WriteConstants(Body.consts, Types, CstEnd, FALSE)
             \o WriteFunctionLocalMetadata(M, Body))
  /\ I' = 1
  /\ InstID' = FirstInstID
  /\ LastDL' = NoLocation
  /\ NeedsMetadataAttachment' = FALSE
  /\ InstructionIDs' = <<>>
  /\ UNCHANGED F

WriteDebugLoc(dl) ==
  CASE dl = Unknown -> <<>>
    [] dl # Unknown /\ dl = LastDL -> <<Record(FunctionCodes.DEBUG_LOC_AGAIN, <<>>, 0)>>
    [] OTHER -> <<Record(FunctionCodes.DEBUG_LOC, <<dl[1], dl[2], dl[3] + 1, dl[4] + 1>>, 0)>>

CountsValue_Always(inst) == TRUE     \* fault: instructions without a value counted too
CountsValue(inst) == ~isVoid(M, inst.ty)

\* One round of the loop.
WriteNextInstruction ==
  /\ at = "insts" /\ I \in DOMAIN Insts
  /\ LET inst == Insts[I]
     IN /\ Write("insts", "insts",
                 <<WriteInstruction(M, Types, InstID, inst)>> \o WriteDebugLoc(inst.dl))
        /\ InstID' = IF CountsValue(inst) THEN InstID + 1 ELSE InstID
        /\ NeedsMetadataAttachment' = (NeedsMetadataAttachment \/ inst.mds # <<>>)
        /\ LastDL' = IF inst.dl = Unknown THEN LastDL ELSE inst.dl
        /\ InstructionIDs' = Append(InstructionIDs, Len(InstructionIDs))
        /\ I' = I + 1
  /\ UNCHANGED F

WriteMetadataAttachment ==
  LET attachment(k) ==
        One(Insts[k].mds # <<>>,
            Record(MetadataCodes.ATTACHMENT, <<InstructionIDs[k]>> \o FlattenSeq(Insts[k].mds), 0))
  IN <<Enter(BlockIDs.METADATA_ATTACHMENT, 3)>> \o Flat(attachment, [k \in DOMAIN Insts |-> k]) \o <<Exit>>

\* What follows the loop.
EndFunction ==
  /\ at = "insts" /\ I > Len(Insts)
  /\ Write("insts", "function",
           WriteValueSymbolTable(Body.names)
             \o (IF NeedsMetadataAttachment THEN WriteMetadataAttachment ELSE <<>>) \o <<Exit>>)
  /\ F' = NextBody(F + 1)
  /\ UNCHANGED <<I, InstID, LastDL, NeedsMetadataAttachment, InstructionIDs>>

------------------------------------------------------------------------------

Init ==
  /\ \E input \in Inputs : M = Module(input)
  /\ at = "file"
  /\ sent = <<>>
  /\ Buffer = [header |-> <<>>, size |-> 0]
  /\ F = 1
  /\ I = 1
  /\ InstID = 0
  /\ LastDL = Unknown
  /\ NeedsMetadataAttachment = FALSE
  /\ InstructionIDs = <<>>

Next ==
  \/ BeginFile
  \/ BeginModule \/ WriteStandardAbbrevs \/ WriteAttributes \/ WriteTypes \/ WriteInfo \/ WriteGlobalConstants
  \/ WriteMetadata \/ WriteMetadataKinds \/ WriteGlobalNames \/ WriteUseLists
  \/ BeginFunction \/ WriteNextInstruction \/ EndFunction
  \/ EndModule
  \/ EndFile

Spec == Init /\ [][Next]_vars
=============================================================================
