--------------------------- MODULE BitstreamWriter ---------------------------
(***************************************************************************)
(* The block structure of LLVM's bitstream container, as written by class  *)
(* BitstreamWriter of the SPIR encoder (encoder/BitstreamWriter.h), with   *)
(* the reference-counted abbreviations of encoder/BitCodes.h.              *)
(*                                                                         *)
(* One action per public operation.  What is kept: the nesting of blocks,  *)
(* the width of the codes of each block, the abbreviations each block may  *)
(* use and who holds them, the position in the stream, the block sizes     *)
(* patched in when a block is closed.  What is abstracted: the bits of a   *)
(* record or of an abbreviation's definition are a number of bits (module  *)
(* BitEmitter has the bits), and an abbreviation is an element of Abbrevs. *)
(*                                                                         *)
(* The writer is a sequential object; its nondeterminism is its caller.    *)
(* Next lets the caller do anything the operations' assertions and the     *)
(* following discipline (kept by encoder/SpirBitcodeWriter.cpp) allow:     *)
(* records and abbreviations are written inside a block; the BLOCKINFO     *)
(* block is opened with EnterBlockInfoBlock, contains only definitions     *)
(* made by EmitBlockInfoAbbrev, and those are made nowhere else.           *)
(***************************************************************************)
EXTENDS Integers, Sequences, FiniteSets

CONSTANTS
  BlockIds,     \* the block ids in use, BLOCKINFO's (0) among them
  CodeWidths,   \* the code widths a block may be opened with
  Abbrevs,      \* BitCodeAbbrev objects, by identity
  Payloads,     \* sizes in bits of a record's or a definition's contents
  RefMod,       \* BitCodeAbbrev::RefCount counts modulo this (256: unsigned char)
  MaxDepth,     \* bound: nested blocks
  MaxWords,     \* bound: length of the stream, in words
  StartWords    \* words already in the buffer (5 with the Darwin header)

BLOCKINFO == 0
NoBID == -1      \* BlockInfoCurBID = ~0U
NoAbbrev == "none"

ASSUME BlockIdsAssumption ==
  BLOCKINFO \in BlockIds /\ BlockIds \subseteq 0..31  \* one VBR6 chunk each
ASSUME CodeWidthsAssumption ==
  CodeWidths \subseteq 2..7                           \* one VBR4 chunk each
ASSUME PayloadsAssumption == Payloads \subseteq Nat
ASSUME AbbrevsAssumption == NoAbbrev \notin Abbrevs
ASSUME BoundsAssumption ==
  MaxDepth \in Nat /\ MaxWords \in Nat /\ StartWords \subseteq Nat
\* An open block, the current one and BLOCKINFO may each hold an abbreviation
\* once: the counter does not wrap as long as it can count that many holders.
ASSUME RefModAssumption == RefMod \in Nat /\ MaxDepth + 2 < RefMod

VARIABLES
  bitNo,            \* GetCurrentBitNo(): 32 * words in Out + CurBit
  sizeAt,           \* the size words in Out: word index -> value
  CurCodeSize,
  CurAbbrevs,       \* abbreviations of the current block, in order
  BlockScope,       \* enclosing blocks: PrevCodeSize, StartSizeWord, PrevAbbrevs
  BlockInfoCurBID,
  blockInfo,        \* BlockInfoRecords, by block id (<<>>: no record)
  refs,             \* RefCount of each abbreviation
  made, live,       \* abbreviations constructed; constructed and not yet deleted
  destroyed,        \* the destructor has run
  emitted,          \* history: what the last operation put in the stream
  openIds,          \* history: ids of the open blocks, innermost last
  closed            \* history: closed blocks, [start, end] in words

vars == <<bitNo, sizeAt, CurCodeSize, CurAbbrevs, BlockScope, BlockInfoCurBID,
          blockInfo, refs, made, live, destroyed, emitted, openIds, closed>>

Elems(s) == {s[i] : i \in DOMAIN s}

------------------------------------------------------------------------------
(* Positions.  FlushToWord pads the current word with zeros.               *)

WordBits == 32
BlockIDWidth == 8
CodeLenWidth == 4
BlockSizeWidth == 32
SetBIDBits == 18    \* vbr6 code, vbr6 operand count, vbr6 block id

WordEnd(b) == ((b + WordBits - 1) \div WordBits) * WordBits
WordIndex(b) == b \div WordBits

------------------------------------------------------------------------------
(* Reference counts: an unsigned char that wraps; the object is deleted    *)
(* when a drop reaches zero.                                               *)

addRef_Forgotten(n) == n  \* fault: inheriting takes no reference
addRef(n) == IF n = RefMod - 1 THEN 0 ELSE n + 1
dropRef(n) == IF n = 0 THEN RefMod - 1 ELSE n - 1

AddRefs(as) ==
  refs' = [a \in Abbrevs |-> IF a \in Elems(as) THEN addRef(refs[a]) ELSE refs[a]]

DropRefs(as) ==
  /\ refs' = [a \in Abbrevs |-> IF a \in as THEN dropRef(refs[a]) ELSE refs[a]]
  /\ live' = live \ {a \in as : dropRef(refs[a]) = 0}

Depth == Len(BlockScope)
InBlock == Depth > 0
InBlockInfo == InBlock /\ openIds[Depth] = BLOCKINFO

Fresh(a) == a \in Abbrevs \ made
New(a) == /\ made' = made \cup {a}
          /\ live' = live \cup {a}
          /\ refs' = [refs EXCEPT ![a] = 1]

Room(b) == b =< WordBits * MaxWords

------------------------------------------------------------------------------
(* Blocks.                                                                 *)

\* What a block opened now inherits: the abbreviations registered for its id.
Inherited(id) == blockInfo[id]

HeaderEnd == WordEnd(bitNo + CurCodeSize + BlockIDWidth + CodeLenWidth)

EnterSubblock(id, codeLen) ==
  LET start == WordIndex(HeaderEnd)
  IN /\ bitNo' = HeaderEnd + BlockSizeWidth
     /\ sizeAt' = [w \in DOMAIN sizeAt \cup {start} |->
                     IF w = start THEN 0 ELSE sizeAt[w]]
     /\ BlockScope' = Append(BlockScope,
                        [PrevCodeSize |-> CurCodeSize, StartSizeWord |-> start,
                         PrevAbbrevs |-> CurAbbrevs])
     /\ CurCodeSize' = codeLen
     /\ CurAbbrevs' = Inherited(id)
     /\ AddRefs(Inherited(id))
     /\ emitted' = << [op |-> "ENTER", width |-> CurCodeSize, id |-> id,
                       newWidth |-> codeLen] >>
     /\ openIds' = Append(openIds, id)
     /\ UNCHANGED <<blockInfo, made, live, destroyed, closed>>

EnterBlock(id, codeLen) ==
  /\ ~destroyed /\ ~InBlockInfo
  /\ id # BLOCKINFO
  /\ Depth < MaxDepth /\ Room(HeaderEnd)
  /\ EnterSubblock(id, codeLen)
  /\ UNCHANGED BlockInfoCurBID

\* The block id the definitions that follow are for is not known yet.
UnselectBlockID_Kept == BlockInfoCurBID  \* fault: no reset (line 506)
UnselectBlockID == NoBID

EnterBlockInfoBlock(codeLen) ==
  /\ ~destroyed /\ ~InBlockInfo
  /\ Depth < MaxDepth /\ Room(HeaderEnd)
  /\ EnterSubblock(BLOCKINFO, codeLen)
  /\ BlockInfoCurBID' = UnselectBlockID

Innermost_First == BlockScope[1]          \* fault: front() for back()
Innermost == BlockScope[Depth]
TailEnd_Unflushed == bitNo + CurCodeSize  \* fault: no FlushToWord
TailEnd == WordEnd(bitNo + CurCodeSize)
SizeInWords_WithField(end, start) == end - start  \* fault: counts the size field
SizeInWords_Reversed(end, start) == start - end - 1  \* fault: operands swapped
SizeInWords(end, start) == end - start - 1
BackpatchWord(w, v) == sizeAt' = [sizeAt EXCEPT ![w] = v]

ExitBlock ==
  /\ ~destroyed /\ InBlock
  /\ LET B == Innermost
         end == WordIndex(TailEnd)
     IN /\ DropRefs(Elems(CurAbbrevs))
        /\ bitNo' = TailEnd
        /\ BackpatchWord(B.StartSizeWord, SizeInWords(end, B.StartSizeWord))
        /\ CurCodeSize' = B.PrevCodeSize
        /\ CurAbbrevs' = B.PrevAbbrevs
        /\ BlockScope' = SubSeq(BlockScope, 1, Depth - 1)
        /\ closed' = closed \cup {[start |-> B.StartSizeWord, end |-> end]}
  /\ emitted' = << [op |-> "END", width |-> CurCodeSize] >>
  /\ openIds' = SubSeq(openIds, 1, Depth - 1)
  /\ UNCHANGED <<BlockInfoCurBID, blockInfo, made, destroyed>>

------------------------------------------------------------------------------
(* Abbreviations and records.                                              *)

FIRST_APPLICATION_ABBREV == 4
UNABBREV_RECORD == 3
AbbrevIdOf(i) == i - 1 + FIRST_APPLICATION_ABBREV

Defines(a) == [op |-> "DEFINE", width |-> CurCodeSize, abbrev |-> a]

\* Takes ownership of a: its first reference is CurAbbrevs'.
EmitAbbrev(a, bits) ==
  /\ ~destroyed /\ InBlock /\ ~InBlockInfo
  /\ Fresh(a) /\ Room(bitNo)
  /\ bitNo' = bitNo + CurCodeSize + bits
  /\ CurAbbrevs' = Append(CurAbbrevs, a)
  /\ New(a)
  /\ emitted' = << Defines(a) >>
  /\ UNCHANGED <<sizeAt, CurCodeSize, BlockScope, BlockInfoCurBID, blockInfo,
                 destroyed, openIds, closed>>

\* A SETBID record precedes the definition unless id is already selected.
NeedsSetBID(id) == BlockInfoCurBID # id
SwitchToBlockID(id) == BlockInfoCurBID' = id

EmitBlockInfoAbbrev(id, a, bits) ==
  /\ ~destroyed /\ InBlockInfo
  /\ Fresh(a) /\ Room(bitNo)
  /\ LET setBID == [op |-> "SETBID", width |-> CurCodeSize, id |-> id]
     IN IF NeedsSetBID(id)
        THEN /\ bitNo' = bitNo + (CurCodeSize + SetBIDBits) + CurCodeSize + bits
             /\ emitted' = << setBID, Defines(a) >>
        ELSE /\ bitNo' = bitNo + CurCodeSize + bits
             /\ emitted' = << Defines(a) >>
  /\ SwitchToBlockID(id)
  /\ blockInfo' = [blockInfo EXCEPT ![id] = Append(@, a)]
  /\ New(a)
  /\ UNCHANGED <<sizeAt, CurCodeSize, CurAbbrevs, BlockScope, destroyed, openIds,
                 closed>>

Writes(code, a) == [op |-> "RECORD", width |-> CurCodeSize, code |-> code,
                    abbrev |-> a]

EmitRecord(bits) ==
  /\ ~destroyed /\ InBlock /\ ~InBlockInfo
  /\ Room(bitNo)
  /\ bitNo' = bitNo + CurCodeSize + bits
  /\ emitted' = << Writes(UNABBREV_RECORD, NoAbbrev) >>
  /\ UNCHANGED <<sizeAt, CurCodeSize, CurAbbrevs, BlockScope, BlockInfoCurBID,
                 blockInfo, refs, made, live, destroyed, openIds, closed>>

\* The caller passes the id EmitAbbrev returned, or one inherited: the record is
\* laid out by CurAbbrevs[i], and its id fits the block's codes (line 123).
EmitRecordWithAbbrev(i, bits) ==
  /\ ~destroyed /\ InBlock /\ ~InBlockInfo
  /\ Room(bitNo)
  /\ i \in DOMAIN CurAbbrevs
  /\ AbbrevIdOf(i) < 2 ^ CurCodeSize
  /\ bitNo' = bitNo + CurCodeSize + bits
  /\ emitted' = << Writes(AbbrevIdOf(i), CurAbbrevs[i]) >>
  /\ UNCHANGED <<sizeAt, CurCodeSize, CurAbbrevs, BlockScope, BlockInfoCurBID,
                 blockInfo, refs, made, live, destroyed, openIds, closed>>

RegisteredAbbrevs == UNION {Elems(blockInfo[id]) : id \in BlockIds}

\* ~BitstreamWriter, run by a caller that has closed its blocks.
Destroy ==
  /\ ~destroyed /\ ~InBlock
  /\ destroyed' = TRUE
  /\ DropRefs(RegisteredAbbrevs)
  /\ blockInfo' = [id \in BlockIds |-> <<>>]
  /\ emitted' = <<>>
  /\ UNCHANGED <<bitNo, sizeAt, CurCodeSize, CurAbbrevs, BlockScope,
                 BlockInfoCurBID, made, openIds, closed>>

------------------------------------------------------------------------------

\* The constructor leaves BlockInfoCurBID uninitialized.
Init ==
  /\ bitNo \in {WordBits * w : w \in StartWords}
  /\ sizeAt = [w \in {} |-> 0]
  /\ CurCodeSize = 2
  /\ CurAbbrevs = <<>>
  /\ BlockScope = <<>>
  /\ BlockInfoCurBID \in BlockIds \cup {NoBID}
  /\ blockInfo = [id \in BlockIds |-> <<>>]
  /\ refs = [a \in Abbrevs |-> 0]
  /\ made = {} /\ live = {}
  /\ destroyed = FALSE
  /\ emitted = <<>> /\ openIds = <<>> /\ closed = {}

Next ==
  \/ \E id \in BlockIds, n \in CodeWidths : EnterBlock(id, n)
  \/ \E n \in CodeWidths : EnterBlockInfoBlock(n)
  \/ ExitBlock
  \/ \E a \in Abbrevs, p \in Payloads : EmitAbbrev(a, p)
  \/ \E id \in BlockIds, a \in Abbrevs, p \in Payloads : EmitBlockInfoAbbrev(id, a, p)
  \/ \E p \in Payloads : EmitRecord(p)
  \/ \E i \in DOMAIN CurAbbrevs, p \in Payloads : EmitRecordWithAbbrev(i, p)
  \/ Destroy

Spec == Init /\ [][Next]_vars

------------------------------------------------------------------------------
(* Properties.                                                             *)

Scopes == [PrevCodeSize : CodeWidths \cup {2}, StartSizeWord : Nat,
           PrevAbbrevs : Seq(Abbrevs)]

\* The variables have their types, and a block's id is known while it is open.
TypeOK ==
  /\ bitNo \in Nat
  /\ DOMAIN sizeAt \subseteq Nat /\ \A w \in DOMAIN sizeAt : sizeAt[w] \in Nat
  /\ CurCodeSize \in CodeWidths \cup {2}
  /\ CurAbbrevs \in Seq(Abbrevs)
  /\ BlockScope \in Seq(Scopes)
  /\ BlockInfoCurBID \in BlockIds \cup {NoBID}
  /\ blockInfo \in [BlockIds -> Seq(Abbrevs)]
  /\ refs \in [Abbrevs -> 0..RefMod-1]
  /\ made \subseteq Abbrevs /\ live \subseteq made
  /\ destroyed \in BOOLEAN
  /\ openIds \in Seq(BlockIds) /\ Len(openIds) = Depth
  /\ closed \subseteq [start : Nat, end : Nat]

\* Level i of the nesting: the enclosing blocks, then the current one.
Levels == 1..(Depth + 1)
Level(i) == IF i = Depth + 1 THEN CurAbbrevs ELSE BlockScope[i].PrevAbbrevs

\* Who holds a: the levels that list it, and BLOCKINFO's records (holder 0).
Holders(a) ==
  {i \in Levels : a \in Elems(Level(i))}
    \cup (IF a \in RegisteredAbbrevs THEN {0} ELSE {})

\* No list holds an abbreviation twice, nor do the records of two block ids.
ListsDistinct ==
  /\ \A i \in Levels : \A j, k \in DOMAIN Level(i) : Level(i)[j] = Level(i)[k] => j = k
  /\ \A id1, id2 \in BlockIds :
       \A j \in DOMAIN blockInfo[id1], k \in DOMAIN blockInfo[id2] :
         blockInfo[id1][j] = blockInfo[id2][k] => id1 = id2 /\ j = k

\* An abbreviation's count is the number of its holders, and it is deleted by
\* the drop of its last holder: no block lists a deleted abbreviation (it would
\* be laid out by freed memory) and, once the destructor has run, none is left
\* allocated.  Holds across every nesting of EnterSubblock's addRef,
\* ExitBlock's and the destructor's dropRef.
RefsExact ==
  /\ ListsDistinct
  /\ \A a \in Abbrevs : refs[a] = Cardinality(Holders(a))
  /\ live = {a \in Abbrevs : Holders(a) # {}}

\* The word ExitBlock backpatches is the block's own size field, and the size is
\* the one a reader needs to skip the block: it lands on the word that follows
\* the END_BLOCK.  A size field is zero while its block is open.
SizesExact ==
  /\ \A c \in closed : /\ c.start \in DOMAIN sizeAt
                       /\ c.end = c.start + 1 + sizeAt[c.start]
  /\ \A i \in 1..Depth : /\ BlockScope[i].StartSizeWord \in DOMAIN sizeAt
                         /\ sizeAt[BlockScope[i].StartSizeWord] = 0

\* Two closed blocks are disjoint or one contains the other; a closed block is
\* inside an open one or ended before it started.
Disjoint(c, d) == c.end =< d.start \/ d.end =< c.start
Contains(c, d) == c.start < d.start /\ d.end =< c.end
WellNested ==
  /\ \A c, d \in closed : c = d \/ Disjoint(c, d) \/ Contains(c, d) \/ Contains(d, c)
  /\ \A c \in closed, i \in 1..Depth :
       LET s == BlockScope[i].StartSizeWord IN c.end =< s \/ s < c.start

\* What ~BitstreamWriter asserts (lines 100-101) of a caller that has closed
\* every block it opened: nothing is left in the current word and no
\* abbreviation is left behind; and the outermost code width is back.
Balanced ==
  Depth = 0 => bitNo % WordBits = 0 /\ CurAbbrevs = <<>> /\ CurCodeSize = 2

\* A step never changes the size of a block already closed, and never rewrites
\* a size field other than the one of the block it closes.
ClosedFrozen ==
  [][\A w \in DOMAIN sizeAt :
       \/ w \in DOMAIN sizeAt' /\ sizeAt'[w] = sizeAt[w]
       \/ Depth' < Depth /\ w = BlockScope[Depth].StartSizeWord]_vars

------------------------------------------------------------------------------
(* Strengthenings that make the properties inductive.                      *)

Start(i) == BlockScope[i].StartSizeWord

\* The size fields of the open blocks are written, in the order of nesting.
StartsOrdered ==
  /\ \A i \in 1..Depth : Start(i) < WordIndex(bitNo)
  /\ \A i, j \in 1..Depth : i < j => Start(i) < Start(j)

\* Everything said of sizes is about words already in the buffer.
Written ==
  /\ \A w \in DOMAIN sizeAt : w < WordIndex(bitNo)
  /\ \A c \in closed : c.start < c.end /\ c.end =< WordIndex(bitNo)

\* The top level has code width 2, no abbreviations, and is word aligned.
OuterClean ==
  /\ Level(1) = <<>>
  /\ IF Depth = 0 THEN CurCodeSize = 2 ELSE BlockScope[1].PrevCodeSize = 2
  /\ Depth = 0 => bitNo % WordBits = 0

DepthBounded == Depth =< MaxDepth

StreamInv == StartsOrdered /\ Written /\ OuterClean /\ SizesExact /\ WellNested
HeldInv == DepthBounded /\ OuterClean /\ RefsExact
=============================================================================
