# SPIR-Tools in TLA+

A verification development for this repository: TLA+ modules of the SPIR encoder, the SPIR name
mangler and the SPIR verifier, TLC runs on small instances, and TLAPS proofs for every value of the
constants. Paths are relative to the repository; `E/` stands for
`spir-encoder/llvm_3.5_spir_encoder/encoder/`, `N/` for `spir-tools/spir_name_mangler/`, `V/` for
`spir-tools/spir_verifier/validation/`. `PROJECT.json` maps every definition to the lines it models.

    tlc -config MCRefCount.cfg MCRefCount        a run
    tlapm RefCountProofs.tla                     a module of proofs

## 1. The system

All of it is sequential: three command-line programs or libraries that read a structure in memory
and produce bytes, a name or a verdict. Nothing is concurrent, nothing is retried, nothing survives a
crash. What is hard is state carried from one step to a much later one - a count, a cached type, a
selected block, a flag in a shared record - and a reader, elsewhere, that has to reconstruct it from
the output alone.

| Component | State it keeps | Operations | What makes it correct |
|---|---|---|---|
| Container writer, `E/BitstreamWriter.h` | open blocks, code width, abbreviation list, BLOCKINFO records, selected block id; reference counts in `E/BitCodes.h` | EnterSubblock, ExitBlock, EnterBlockInfoBlock, EmitAbbrev, EmitBlockInfoAbbrev, EmitRecord, the destructor | sizes are those of the blocks; blocks nest; counts are exact; a reader follows widths, lists and BLOCKINFO |
| Bit primitives, `E/BitstreamWriter.h:63-155` | `Out`, `CurBit`, `CurValue` | Emit, Emit64, FlushToWord, WriteWord, WriteByte | the bits reach the stream whole, in order, with only alignment zeros between |
| Records, `E/BitstreamWriter.h:157-486`, `E/BitCodes.h` | the abbreviations of a block | EmitVBR, EmitVBR64, EncodeAbbrev, EmitRecord with and without abbreviation and blob | a reader that has only the bits reads the same records |
| SPIR bitcode writer, `E/SpirBitcodeWriter.cpp` and its LLVM 3.4 twin | InstID, LastDL, NeedsMetadataAttachment, LastTy, MDSAbbrev, SectionMap, GCMap | the file around the stream, one function per block of a module, WriteInstruction | values fit their abbreviations; a reader of the file recovers the module and stays in step with the value numbers |
| Counted handles, `N/Refcount.h`, `N/ParameterType.h` | a counter and a pointer per handle | constructors, init, operator=, destructor, setParam | counts are exact; nothing is used after it is freed, or leaked |
| Types and descriptors, `N/ParameterType.*`, `N/FunctionDescriptor.*` | values | equals, toString, operator==, operator< | the order and the equality agree, so that a map keyed by descriptors works |
| Mangler, `N/Mangler.cpp`, `N/ManglingUtils.cpp` | the substitutions, their next number, the name so far | mangle and one visit per kind of type | a name denotes its prototype and is the string the unit tests expect; a type that a version lacks is refused |
| OpenCL header, `headers/opencl_spir.h` | - | declarations of the built-in functions | each has a name that denotes it |
| Verifier, `V/SpirIterators.*`, `V/SpirTables.*`, `V/SpirValidation.*` | the DataHolder, FoundMap, the errors | thirteen executors in a fixed order | the verdict is that of the rules; no flag is read before it is set |
| Error report, `V/SpirErrors.*` | the list of errors | addError, print | each error once, citing the paragraphs that explain it |
| Encoder drivers, LIT tests, build files | - | - | not modelled, section 8 |

How they interact: the bitcode writer calls the container writer, record by record, and both take
numbers from LLVM's ValueEnumerator; the container writer packs records into words with the bit
primitives; the mangler visits types that own each other through counted handles; the executors of
the verifier share the DataHolder and the error holder, and the driver asks only whether there are
errors.

The hazards of this code, at their lines, are the list `hazards` of `PROJECT.json`. The main ones:

- backpatching under nesting, and code widths, abbreviation lists and `BlockInfoCurBID` that must
  come back or be forgotten at the right moment (`E/BitstreamWriter.h:210-268`, `503-542`);
- shared abbreviations whose last holder deletes them (`E/BitCodes.h:161-171`);
- fields that end exactly at a word, VBR chunk limits, zero widths, blobs at every alignment;
- operand numbers relative to `InstID`, forward references, counts with and without void
  instructions, a location carried over (`E/SpirBitcodeWriter.cpp:1057-1092`, `1512-1556`);
- field widths computed from counts that the values must fit (`217`, `480-508`, `805`), and bytes of
  128 and more that a signed `char` makes too wide for their field (`641`);
- sizes and offsets of the file around the stream, known only when the stream has ended
  (`E/SpirBitcodeWriter.cpp:1888-1970`);
- `operator=` that disposes before it copies (`N/Refcount.h:36-43`);
- substitutions found by address (`N/Mangler.cpp:102`) and numbered in base 36, from `S0_` for the
  first (`97-129`);
- an order of descriptors on what is written and an equality on what is meant, with names of
  user-defined types that can be anything (`N/FunctionDescriptor.cpp:56-81`);
- executors whose order decides what they see (`V/SpirValidation.cpp:77-101`), early returns, results
  dropped (`V/SpirIterators.cpp:275`, `437`), a list of metadata longer than the parameters it is
  matched with (`692`), texts compared with their blanks (`417`), numbers cut to `unsigned` (`896`).

## 2. Modules

    BitStream  <- BitEmitter             bits of a stream; words that implement it (refinement)
    BitCodes   <- AbbrevRecords <- AbbrevRecordsReader     records bit by bit; a reader of them
    BitstreamWriter <- BitstreamReader   blocks and abbreviations; a reader of them
    LLVMBitCodes <- EncodedValues        numbers of codes, of flags, opcodes, orderings, linkages
    EncodedValues, BitCodes <- ModuleRecords <- InstructionRecords <- SpirBitcodeWriter
                            <- SpirBitcodeReader           a whole file; a reader of it
    SpirBitcodeReader <- VerifiedModules what LLVM's verifier lets through
    RefCount                             handles and the objects they own
    ManglingUtils <- ParameterTypes <- FunctionDescriptor, NameMangler <- NameManglerTwice
    OpenCLBuiltins, MangleTest           prototypes of the header; inputs and strings of the tests
    SpirTables <- SpirTypes <- SpirRules; SpirTypes <- SpirVerifier (INSTANCE SpirRules)
    SpirVerifier <- SpirReport (INSTANCE ErrorHolder)

The proofs, each module extending the one it is about:

    BitstreamReader <- BitstreamProofs         AbbrevRecordsReader, RecursionLemmas <- AbbrevRecordsProofs
    BitEmitter <- BitstreamProofs              FunctionDescriptor, NameMangler, RecursionLemmas <- NameManglerProofs
    RefCount <- RefCountProofs                 SpirReport <- SpirVerifierProofs
    VerifiedModules, RecursionLemmas <- SpirRecordsProofs <- SpirBitcodeProofs

The three layers of the encoder are modelled separately and meet at their interfaces. `BitEmitter`
shows that the primitives are a stream of bits, so `AbbrevRecords` writes bits; `AbbrevRecords` shows
that a record with an abbreviation that fits is read back, so `SpirBitcodeWriter` sends records and
checks that they fit (`Encodable` of `BitCodes` on both sides); `BitstreamWriter` has the sizes,
nesting and lifetimes, with contents as numbers of bits.

**BitstreamWriter** has one action per public operation: `EnterBlock`, `EnterBlockInfoBlock`,
`ExitBlock`, `EmitAbbrev`, `EmitBlockInfoAbbrev`, `EmitRecord`, `EmitRecordWithAbbrev`, `Destroy`.
`bitNo` is `GetCurrentBitNo()`; `sizeAt` is the size words of `Out`; the other variables have the names
of the fields. The uninitialized `BlockInfoCurBID` starts as any id. An operation of a BLOCKINFO block
is made only there and no other is, as the one caller does. `emitted` is what the operation put in the
stream, and all that **BitstreamReader** sees.

**BitEmitter** keeps `Out`, `CurBit` and `CurValue`; a word is a function from bit numbers to bits, so
shifts and masks are what they are in the code, and a shift by the width of the word cannot hide.
**BitStream** is its abstract specification: a sequence of bits to which values are appended.

**AbbrevRecords** writes definitions and records into one block. **AbbrevRecordsReader** has the bits and
the code width only, learns the abbreviations from the bits, and after as many turns as there were items
must have what the writer meant and be where it stopped.

**SpirBitcodeWriter** has one action per call of `WriteModule` and one per round of the instruction
loop of `WriteFunction`; `sent` is what the call sent to the container writer. **ModuleRecords** has the
functions that write the tables, **InstructionRecords** the operands of each instruction,
**EncodedValues** the conversions of attributes, opcodes, flags, orderings, linkages, and
**LLVMBitCodes** the numbers of the header. Two fields of a module say how it is written: `llvm`, which
of the two encoders does it (they differ in the layout string and in four linkages), and `darwin`,
whether the triple asks for the Darwin header around the stream; `Buffer` is the file, its header in
bytes and its size.
**SpirBitcodeReader** is LLVM's reader, which is outside the repository: written from the layouts that
`E/LLVMBitCodes.h` documents, it has the file only, finds the stream in it, numbers values itself,
learns abbreviations, turns numbers back into opcodes and flags by its own tables, and rebuilds the
module in `R`.

**RefCount** has one action per call and runs a call handle by handle: `dying` are the handles whose
`dispose()` is still to come, `call` the assignment that waits for it. A caller wraps a raw pointer once
and reads a slot only through a handle it does not overwrite, which `Refcount.h` cannot enforce.

**ParameterTypes** has types as nodes of a heap, which name the nodes they are built of by address: the
six classes of `N/ParameterType.h` are the six kinds of node (`IsNode`), a heap is built bottom up
(`IsHeap`), and `equals` and `toString` are tables over it, computed node by node. `toString` gives a
sequence of characters, those that a `Spelling` has for each word, one word behind the other as the code
puts them, so that where a word ends is forgotten. **NameMangler** builds such a heap, where an address may be shared, pushes parameters, and mangles: `todo` is what the C++ stack
has left to write. A name is kept as the words written to the
stream, and `mangledName` is their text, the string that `mangle` returns. Its demangler
(`Demangled`) reads one word after the other and lays the types out as numbered nodes: it knows the
blocks that are open, the node whose part comes next and the nodes a back reference can mean. What it has
laid out at the end is compared, to the depth of the heap, with what the heap says (`TypeAt`).
**ManglingUtils** has
the tables of names, letters and versions. **OpenCLBuiltins** lists the prototypes of the header, written
in families as the header has them (a name, the types its parameters range over), and **MangleTest** the
descriptors of the unit tests with the strings they expect: both are inputs of the mangler beside the
heaps. **NameManglerTwice** mangles two descriptors. **FunctionDescriptor** inserts descriptors in a map as
`std::map` does with `operator<`, which compares those strings; a user-defined type has any name, `int`,
`int2` or `atomic_s` included. `Alike` descriptors are those with the same strings, and `toldTypes` those
types in which no user-defined name begins with another word or begins one.

**SpirVerifier** is a run of `runOnModule` on one module: an action is a call of an executor.
**SpirTables** has the tables the executors look names up in, under their names. `getParamType(i)` with
`i` past the parameters reads memory that is not the function's: `ParamType` then gives `beyond`, any
type at all, and a process that dies of the read is one that stops there.
A name of an OpenCL type in the metadata is its text in words, of which a blank is one and an empty text
has none. **SpirRules** says what the documents ask of a module (`TODOList.txt`, the explanations that
`V/SpirTables.cpp` prints, the comments of `V/SpirIterators.h`), of the module as a whole, with no order of
visits and none of the verifier's own tests, and names apart each case in which the verifier is known to
decide otherwise.
**ErrorHolder** is `print`, its three loops over the list of errors. **SpirReport** hands it what a run
found, in every order and with repetitions, since the list has an error as often as an executor met it.

## 3. Runs

`CHECK_DEADLOCK FALSE` is said where the program ends or a bound is reached; `MCRefCount` alone never
stops and is checked for deadlock.

| Run | States | What it shows | Why the bounds are enough |
|---|---|---|---|
| `bitstream` | 1,064,662 | `RefsExact`, `SizesExact`, `WellNested`, `Balanced`, `ClosedFrozen`, `ReaderAgrees` | three abbreviations and three nested blocks give an abbreviation every kind of holder at once; a record that leaves the word and one that fills it; two code widths, so that one left over is seen; two BLOCKINFO blocks fit |
| `bit_emitter` | 9,071 | `Implements`: the words are the stream | all fields shorter than a word of four bits, full ones and longer ones, at all alignments |
| `abbrev_records` | 41,479 | `RoundTrip` | one abbreviation of each shape, values on both sides of each chunk limit, four items in one stream |
| `spir_bitcode` | 201,819 | `Lockstep`, `AbbreviationsFit`, `FileUnwraps`, `ModuleReadBack`, `BodiesReadBack`, `LocationsReadBack` | 9,147 modules, each varying one part of a small one; both encoders, bare and Darwin files of each remainder by 16, every opcode, flag, ordering and linkage; every instruction with known and forward operands, calls of a function without parameters, every ordered pair, every way to place four locations and attachments in two bodies; numbers of ten bits, where differences wrap as 32 bits do |
| `refcount` | 363,954 | `CountsExact`, `NoDangling`, `NoLeak`, `SourceStable` | two handles, three objects of two slots: chains of three, shared children, cycles, reuse of freed addresses |
| `function_descriptor` | 21,705 | `OrdersKeys`, `MapHolds` | types whose strings are prefixes of each other, user-defined types named as a primitive type, a vector, an atomic type and a block are written, lists of different lengths, equal types at different addresses, three keys in every order |
| `name_mangler` | 695,681 | `NameDenotesPrototype`, `RefusesExactly`, `TestsPass`, `MangleReturns` | three types deep and three parameters: a substitution inside a substitution, shared and equal but separate types, both versions; the 11,122 prototypes of the header; the unit tests; forty pointers each used twice, so that numbers take a second digit |
| `spir_verifier` | 67,161 | `VerdictIsRules`, `FlagsReadFinal`, `KernelsMatched`, `RepeatedNodesMarked`, `ReportFaithful` | 4,083 modules, one edit or two that meet away from a valid one, for each rule both sides of it, and for each departure a module on which nothing else is in the way; lists one longer than the parameters, with each type that may lie beyond; `unsigned` has eight values, so that 9 is taken for 1 |

Every run also checks the type invariant of its module, but `function_descriptor`, whose values have
no types worth stating. `PROJECT.json` gives each property a fault in a mapped definition that breaks it.

Four runs check what the repository says of itself and the code does not do:

| Run | Property | Finding |
|---|---|---|
| `name_mangler_twice` | `SamePrototypeSameName` | substitutions go by the address of an object (`N/Mangler.cpp:102`): `f(int*, int*)` is `PiS0_` or `PiPi`, as the pointer type is shared or not, though `operator==` holds |
| `spir_verifier_indicators` | `FeatureIndicators` | `cl_khr_fp16` sets `HasDoubleFeature` (`V/SpirIterators.cpp:1006`); nothing sets `HASFp16Extension` |
| `spir_verifier_images` | `ImagesNeedFeature` | any opaque type is valid (`V/SpirIterators.cpp:275`), so images pass without `cl_images` |
| `spir_verifier_casts` | `CastsRefused` | the answer for nested constant expressions is dropped (`V/SpirIterators.cpp:437`) |

`VerdictIsRules` compares the verdict, rule by rule, with what the documents ask. It is exact but for
fourteen cases to which `SpirRules` gives a name. A module called valid keeps the rules of the triple, the
kernels and the lists without exception, and each other rule unless the module is in a departure of that
very rule: `LenientCode`, `LenientInfo`, `WideVersions`, `StrayLocals`. A module that keeps every rule is
called valid unless it is `Harsh`. None of these is there for convenience: without any one of them TLC finds
a module that refutes the property. Those that a run above does not show are disagreements of code and
documents too; the lines of both follow.

| Rule | Departure | What the verifier does there |
|---|---|---|
| code | `ImagesUndeclared`, `CastsInside` | accepts: `spir_verifier_images`, `spir_verifier_casts` |
| code | `DoublesByHalf` | accepts `double` under `cl_khr_fp16`: `spir_verifier_indicators` |
| code | `FarArguments` | of a kernel's pointers refuses those to the private space alone (`V/SpirIterators.cpp:598`), where `V/SpirTables.cpp:404-413` allows three spaces |
| code | `WideFences` | accepts a fence equal to a valid one modulo the range of `unsigned` |
| information | `PartialInfo` | asks for three kinds of argument information (`V/SpirIterators.cpp:778-791`), where `V/SpirTables.cpp:464-466` says all but the names are mandatory |
| information | `NamelessTypes` | accepts a type name without a type in it, as the empty text, `*` or `[]` (`V/SpirIterators.cpp:175-185`) |
| information | `WideSpaces` | accepts an address space equal to the right one modulo the range of `unsigned` (`V/SpirIterators.cpp:685`) |
| versions | `WideVersions` | accepts numbers equal to 1 and 2 modulo the range of `unsigned` (`V/SpirIterators.cpp:896`) |
| globals | `StrayLocals` | accepts a variable in the local space that no instruction uses; one used in two functions if its name begins with both their names |
| all | `HalvesRefused` | refuses `half` under `cl_khr_fp16`: `spir_verifier_indicators` |
| all | `SpelledOut` | refuses `unsigned int`: ` int` is compared with its blank (`V/SpirIterators.cpp:410-417`), against the mapping the verifier prints (`V/SpirTables.cpp:510-513`) |
| all | `Blanks` | refuses `int *`: the blank is passed over in the name (`V/SpirIterators.cpp:174-176`) and counts in the mapping (`417`) |
| all | `LongLists` | reads past the parameters, so that the answer depends on what memory holds; TLC finds both |

Where the documents are silent or coarser than the code, the rule follows the code, and the head of
`SpirRules` lists these readings. The rules use the tables of names in `SpirTables`, which are what the
messages print, and no operator of `SpirTypes` or of the executors.

`AbbreviationsFit` is exact in the same way: what is sent fits its abbreviation, except a metadata
string with a byte of 128 or more (`E/SpirBitcodeWriter.cpp:641`), which is sign-extended and never fits
the eight bits of its array elements: an assertion in the container writer, or a damaged stream without
assertions, so the read-back properties are about the modules that have no such string. The same bytes
in a record without an abbreviation are read back.

## 4. Fairness

`NameMangler` alone assumes any: `WF_vars(Running)`, where `Running` is the steps of a call of `mangle`
that has begun. `mangle` is a synchronous function, so a call that has begun runs on; nothing obliges a
caller to build types, to push parameters or to call it, and those actions have no fairness.
`MangleReturns` says that every call then returns, with a name or a refusal: the visitor walks the types
by a stack of its own in the model, and a visit that left its own node on it would go on for ever.

Everywhere else every property is a safety property. The code is sequential; there is no scheduler, no
message and nothing to wait for. `ExitBlock` and `Destroy` are the caller's choice, a caller that stops
early is legal, and a verifier that reads beyond a list may die.

## 5. Proofs

TLAPS checks each theorem for every value of the constants, under the named ASSUMEs of the modules,
which TLC evaluates in the runs. `PROJECT.json` lists the theorems with the properties they state.

**BitstreamProofs**, the writer: `TypeCorrect`, `SizesCorrect`, `BlocksNest`, `FrozenCorrect`,
`RefsCorrect`, `BalancedCorrect`. `SizesExact` alone is not inductive: a backpatch could hit another
block's word. `TypeInv` adds that the start words of the open blocks increase with depth, `SizesInv` that
everything said of sizes is about words already written, and that no closed block reaches over the start of
an open one, which is what leaves any two blocks disjoint or one inside the other; `OuterClean` that the
top level, which every block returns to, has code width 2, no abbreviations and whole words.
For the counts, `HeldInv` adds that lists have no repetitions and are disjoint between
block ids, so that `addRef` over a list changes each count once; the cardinality of `Holders` then moves
by one with each action. `RefModAssumption` (MaxDepth + 2 < RefMod) is what keeps the eight-bit counter
from wrapping; in the code it means fewer than 254 nested blocks. The reader: `ReaderCorrect`. The
invariant relates the reader's stack to the writer's at every level, not only the innermost, since
`ExitBlock` uncovers the others, and relates its selected block id to `BlockInfoCurBID` only inside
BLOCKINFO.

In the same module, of the bit primitives: `EmitterType` and `EmitterImplements` (refinement of `BitStream`, for every word
width). The lemma `EmitAppends` is the heart: the stream of an emitter is `Out` followed by the low
`CurBit` bits of `CurValue`, and emitting appends exactly the value, provided the bits above `CurBit` are
zero; that proviso is the strengthening, and is kept because `Emit` clears or carries.

**RecursionLemmas**: the library's induction theorems take the formula as a parameter, which the provers
cannot instantiate, so induction is stated here with sets and functions. `NatSetInduction` is about a set
of numbers, `RecursionDefines` and `DescentDefines` say that a recursive function on 0..n, or one that
descends along a rank, exists and satisfies its equation, `LeastNatural` that a set of numbers has a
least. The modules of proofs about records, names and whole files rest on them.

**AbbrevRecordsProofs**: `AbbrevRecordsTypes` and `RecordsReadBack` (`RoundTrip`): whatever is defined and
written, with or without an abbreviation, with numbers of any size, arrays and blobs, the reader gets
back. Each emitter has a lemma that reads *what this emitter wrote, wherever it stands in a stream, is
read as the value that was emitted, and the reader stops behind it*: fields, chunks (by descent on the
value), lists of fields (by induction on the list), definitions, records. The invariant `Read` says so
of the whole stream and is stated for every sequence of bits that begins with it, because the next item is
read in a longer stream than the one the earlier items were read in. Assumed: codes of at least two bits,
since the four standing codes need them; the shapes of abbreviations that the assertions of
`EmitRecordWithAbbrevImpl` leave; no VBR operand of one bit, with which `EmitVBR` would not end; values
that are natural numbers.

**RefCountProofs**: `RefCountType`, `CountsCorrect`, `NoUseAfterFree`, `LeakFree`, `SourceUnchanged`, for
any number of handles, objects and slots. `IInv` adds that a handle's two fields are null together, that
the slots of an allocated object are live, that a dying handle still holds its count, that only the target
of an assignment is disposed of while its own object lives, and that while an assignment is pending the
caller keeps, by another handle, the object whose slot is read or written. The last is what the order of
`operator=`, dispose before copy, depends on.

**NameManglerProofs**, the descriptors: `EqualIsWrittenAlike`, `SpecOrdersKeys` (`OrdersKeys`), `SpecMapHolds`
(`MapHolds`), for every heap. `operator<` compares the characters that `toString` writes and `operator==`
walks the types, so a map keyed by descriptors is right only as far as the two agree. The first theorem
says how far: equal types are written alike, whatever user-defined types are called, and types written
alike are equal if no user-defined name in them begins with another word or begins one (`toldTypes`). Its
argument is unique reading, by induction on the heap and for types followed by anything: since no word of
the code begins with another, the first word can be told, and with it the kind of type; the length of a
vector or a qualifier cannot be taken for what follows a type, nor a word for the beginning of a name. The
order of characters lifts to texts, to lists of texts and to descriptors, and `operator<` ties exactly the
descriptors that are `Alike`; the map's invariant is that its keys ascend and that each descriptor given has
one that is alike, which is an equal one if both are told. A user-defined type named `int` is
alike to `int` and not equal to it, so of the others nothing better holds. Assumed (`SpellingAssumption`): of the code's own words (the names of primitive types, those
of qualifiers and address spaces, what `toString` adds, the lengths of OpenCL vectors) none begins
with another; nothing is assumed of the names of user-defined types. Of lengths the condition is the
language's, 2, 3, 4, 8 or 16, since a vector of 2 and one of 22 elements would not satisfy it.

The mangler: `SpecTypeOK`, `SpecRefusesExactly` (`RefusesExactly`), `WordsReadBack`,
`SpecNameDenotesPrototype` (`NameDenotesPrototype`). The errors
of `mangle` are the subject: a type that the version lacks may be any number of pointers and
vectors down, and a pointer that has a number is not walked again, so refusing exactly says that no back
reference ever hides such a type. `Walk` is the strengthening: before SPIR 2.0 the stack has one type at
most, which uses a new type exactly when the parameter does, and a numbered type that uses one
is above the type on the stack, in the middle of its own visit. After a parameter that is
supported none is left, and at the first that is not the call ends. `WordsReadBack` is about the
tables and the numbers: no two rows of a table have the same letters, and the digits of a back reference
are those of its number, however large. `NameDenotesPrototype` is the deepest of them: the name
has no numbers but those of its back references, and the demangler knows only the order in which types
that get one begin, a pointer before what it points to. The invariant, `Reading`, is a simulation. At every step of a call the demangler,
run on what is in the stream, is in a state that matches the stack: there is a map `A` from its nodes to
the addresses of the heap, the function among them, such that each node is a copy of its type with nodes in
the place of addresses (`Laid`); the open blocks and the node that waits for its part lack exactly the
types on the stack, block by block from the innermost outwards (`Mirror`, `Owes`); and the node that is
known by the number n stands for the type that has the number n (`KnownFor`). Each visit keeps this by one
lemma (`SimulatesLeaf`, `SimulatesWhole`, `SimulatesBlock`, `SimulatesKnown`, `SimulatesPointer`,
`SimulatesEnd`). When mangle returns, nothing is lacking and the block of the function alone is open, and
by induction on the address the type read from a node is the type of what it stands for (`TypesAgree`).
Assumed: what `TypesAssumption` and `GivenAssumption` say, that types are built bottom up from the
primitive types, qualifiers and address spaces of the enumerations.

**SpirVerifierProofs**: `VerifierType`, `FlagsAreFinal`, `VerdictCovers`, `KernelsCorrespond`,
`RepeatsReported`, `VerdictOfRules` (`VerdictIsRules`), `ReportIsFaithful`, whatever
the module. The invariant is that the DataHolder is a function of the module and the stage, that
`FoundMap` has exactly the functions of the nodes visited, and that there are no errors exactly when all
tests made so far passed (`Tested`). One-to-one correspondence follows from equal counts and no
repetition by a pigeonhole lemma; for `RepeatsReported` the invariant says of the nodes visited so far
that one whose function another of them names is in the errors, and that `FoundMap` has for a function one
of the nodes that name it, so that the earlier node is marked when a later one finds it there. `VerdictOfRules` then takes the tests one by one and shows that
each asks what the documents' rule about the same item asks, or that the module is one of a named
departure; the long parts are the types, where
`isValidType` descends with flags that each constructor changes and the rule looks at each leaf with the
constructors around it, and their names, where the code cuts a text to pieces and the rule has a table. `ReportIsFaithful` first shows that there are finitely many errors, all of
known types, so that their orders exist, and follows the loops of `print` on any of them. Assumed
(`ModulesAssumption`): the shapes of modules that LLVM gives, lists and node numbers in range; and an
`unsigned` that holds the 4 to which the address spaces are compared.

**SpirRecordsProofs** and **SpirBitcodeProofs**, the writer of bitcode and its reader:
`WriterTypeCorrect` (`TypeOK`), `ReaderFollowsWriter`, `NumbersInLockstep` (`Lockstep`),
`ModuleIsReadBack` (`ModuleReadBack`), `BodiesAreReadBack` (`BodiesReadBack`), `LocationsAreReadBack`
(`LocationsReadBack`), `StreamIsFound` (`FileUnwraps`). The writer is some sixty kinds of records and the reader's
state a record of twenty-four fields, so the proof is by blocks: for each, a lemma says that reading the
items the writer sends for it sets these fields to these parts of the module, and no other
(`FieldsAre`, `Set`). The first module has them, record by record and by induction on the lists that are
written: attributes with an alignment of more bits than are kept, types with the name that came before
them, globals whose section is a number in a list of names the records before gave (`Number`), constants
under the type set last, strings that end in zero or do not, metadata that is absent in a node. The second
follows the actions. `ReaderFollows` is inductive: at each `at` the reader has the parts of the module
behind it, the blocks that are open and the abbreviations that BLOCKINFO gave, and, inside a function
(`BodyAt`), as many instructions as were written, each with its location, the last location seen, which is
`LastDL`, and no metadata yet; the bodies before are complete (`BodiesDone`). A record of a location says
"the one before" when it is `LastDL`, so the two must be reset together; an attachment names instructions
by the numbers `InstructionIDs` gave them, so `TypeOK` of the writer, that those count every instruction
from 0, is what puts metadata back on the instruction that had it.

An operand is a number relative to the writer's `InstID`, so nothing of an instruction is read right unless
the reader gives the next value the same number. `InSync` is that part of the invariant: the values the
reader has are the module's, the arguments, the constants and then the types, in order, of those
instructions written that have one (`ValueOrder`), and `InstID` is their count. It is kept by a step only
because both sides decide alike whether the instruction has a value: the writer by the instruction's type,
the reader by the type it infers, from the operand's type, from a type in the record or, for a call, from
what the callee points to, through all the rules of `ResultType`. That in turn needs the record's operands
found right (`BodyReadsRight`): a difference of numbers modulo `2 ^ Width` added to the same number gives
the operand, for a forward reference and, in PHI, for a signed difference in VBR's zigzag; a type follows
exactly the operands the reader does not know. What is left of the record, when the operands are taken out,
is what it says (`Said`): opcode, flags, predicate, alignment, volatility, ordering, scope, indices, blocks,
cases and attributes decode to those encoded (`InstructionIsSaid`, a lemma for each form of record).

The file (`StreamIsFound`) is the last invariant: the buffer is the space for the header and then what was
sent, and the five words written over the space decode to the numbers they were made of as long as those
fit 32 bits, the theorem's hypothesis. The code does not check it: a larger file's header would name another
size.

Assumed (`WidthAssumption`,
`ModulesAssumption`): at least eight bits, an even number of them, and of each module what LLVM's verifier
lets through (`IsModule` in `VerifiedModules`): the right number of operands, numbers in range, calls of
what points to a function with arguments for its parameters, only structures with names, and fewer values
than the width counts. A call's callee is not a result of an instruction before it (`IsDirect`): SPIR has no
pointers to functions, and only for those would the reader learn the type of a callee from the body.

Only model-checked:

- `MangleReturns`, which is liveness, out of the prover's reach as ENABLED is;
- `TestsPass`, a statement about the given tests, and the four findings;
- `AbbreviationsFit` of `SpirBitcodeReader`: nothing in it is beyond the prover, but the lemmas about the
  blocks leave out which records do not fit, and the widths computed for the abbreviations would be the
  subject of a proof of their own.

Recursive functions are within reach through `RecursionLemmas`; an operator declared RECURSIVE is not, and
only `MCNameMangler` declares one, for its inputs.

## 6. Bounds and abstractions

`MaxDepth`, `MaxWords`, `MaxBits`, `MaxItems`, `MaxTypes`, `MaxParams`, `MaxKeys` stand in guards and cap
what a caller may do. `Width` (writer) and `UIntRange` (verifier) scale machine integers down. Halves
of an attribute's 64 bits are halves of `Width` bits in its place. Texts are sequences of a few bytes
where the choice of an abbreviation depends on them, strings in the mangler, characters in the order of
descriptors, and words elsewhere.
A value of a module is its number; LLVM's ValueEnumerator, its reader, `std::map` and `std::string` are
external and modelled from how the code uses them.

## 7. Plan

In the order of importance; all but 15 are done.

1. `BitstreamWriter`, its reader, and their proofs: everything else sits on it.
2. `BitEmitter` refining `BitStream`, proved.
3. `AbbrevRecords` with a reader, proved.
4. `RefCount`, proved.
5. `ParameterTypes`, `FunctionDescriptor`, proved.
6. `NameMangler`, alone and twice; its properties proved.
7. `SpirVerifier` against `SpirRules`, proved.
8. `ErrorHolder` behind the verifier.
9. `SpirBitcodeWriter` with a reader.
10. The file around the stream, the conversions of values, the differences of LLVM 3.4.
11. The tables of the mangler and the verifier in full, the OpenCL header and the unit tests as inputs.
12. Proof that the writer's numbers and the reader's agree (`Lockstep`), that an operand made relative and
    made absolute again is itself at any width (`BodiesReadBack`), and of `FileUnwraps`: done, section 5.
13. Proofs about descriptors, records, verdict and report, refusals: done, section 5.
14. Proof of `NameDenotesPrototype`, by simulation: done, section 5.
15. Not begun: the composition of `SpirBitcodeWriter` with `BitstreamWriter`: the writer's calls are among those a
    caller may make (blocks balanced, ids defined before use).
16. Proof of `ModuleReadBack` and `LocationsReadBack` for every module LLVM verifies: done, section 5.

## 8. Not modelled

- The encoders' `main`, and that of the verifier beyond the order of executors and the verdict: command
  line and files, no state of their own. The version shims.
- Of the LLVM 3.4 encoder, the text it shares with that of 3.5: the two differ in the names of LLVM's
  interfaces and white space, and in the output only where `llvm` says so.
- Of `E/SpirBitcodeWriter.cpp`: casts between address spaces, which a SPIR module does not have;
  fast-math flags and the failure ordering of cmpxchg are in no record it writes, so there is nothing
  of them to read back. The cases of a switch have at most 64 bits (`IsInstruction` of
  `VerifiedModules`), so the words of a wider one (`777`, `1237`) are left out, and fewer than 2^16 are
  there, for which the `^ (NumberOfCases >> 16)` of its hash (`1218`) changes nothing. The assertion that the
  layout of a SPIR module is the one that is written (`423-424`) is not an obstacle in the model, which is the
  build without assertions: any layout is replaced by that text. Under its hidden option a use-list block is
  modelled as it is, empty; the comparison that would sort it is not.
- The texts of messages in `V/SpirTables.cpp` and `V/SpirErrors.cpp`; which paragraphs a message
  cites is modelled.
- Of `headers/opencl_spir.h`: return types, macros, attributes and printf, none of which is in a name.
- The LIT tests, read as documentation; build files.
- `N/Refcount.h:23`: a raw pointer wrapped twice gets two counters. The class cannot prevent it, and the
  model's caller does not do it; a unit test does (`MangleTest.cpp:794` and `797` of
  `spir-tools/unittest/spir_name_mangler` both wrap `floatTypePtr`).

Seen while modelling and outside the properties:

- `bitcodereader_order` (`E/SpirBitcodeWriter.cpp:1740`) holds of every pair, which `std::sort` does not
  allow; it is reached under the hidden option only.
- The list of errors is never cleared, so a pass object run on a second module would report the first
  one's errors again.
- A user-defined type that has the name of a primitive, such as `ndrange_t`, is mangled as that one.
- `operator<` of descriptors (`N/FunctionDescriptor.cpp:74`) takes a user-defined type named `int`, `int2` or
  `atomic_int` for the type that is written so, and `operator==` does not: a map finds one under the other.
  `OrdersKeys` and `MapHolds` say so, by `Alike`.
