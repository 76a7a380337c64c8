---------------------------- MODULE BitstreamProofs ----------------------------
(***************************************************************************)
(* Theorems about the container, for every set of block ids, code widths   *)
(* and abbreviations, and any depth of nesting the counter of an           *)
(* abbreviation can count: the writer's blocks, sizes and counts, and then *)
(* that a reader follows what the writer emits as it was meant; and of the *)
(* primitives under it, that they pack bits into words as a stream of bits *)
(* has them.                                                               *)
(***************************************************************************)
EXTENDS BitstreamReader, BitEmitter, FiniteSetTheorems, SequenceTheorems, TLAPS

(* The type invariant.                                                     *)

LEMMA RefModBig == RefMod \in Nat /\ RefMod > 2
BY RefModAssumption, BoundsAssumption

LEMMA FlushType ==
  ASSUME NEW STATE b, b \in Nat
  PROVE  WordEnd(b) \in Nat /\ WordIndex(b) \in Nat
BY DEF WordEnd, WordIndex, WordBits

LEMMA AddRefsType ==
  ASSUME refs \in [Abbrevs -> 0..RefMod-1], NEW STATE as, AddRefs(as)
  PROVE  refs' \in [Abbrevs -> 0..RefMod-1]
<1>1. \A a \in Abbrevs : addRef(refs[a]) \in 0..RefMod-1
  BY RefModBig DEF addRef
<1> QED
  BY <1>1 DEF AddRefs

LEMMA DropRefsType ==
  ASSUME refs \in [Abbrevs -> 0..RefMod-1], NEW STATE as, DropRefs(as)
  PROVE  refs' \in [Abbrevs -> 0..RefMod-1] /\ live' \subseteq live
<1>1. \A a \in Abbrevs : dropRef(refs[a]) \in 0..RefMod-1
  BY RefModBig DEF dropRef
<1> QED
  BY <1>1 DEF DropRefs

LEMMA NewType ==
  ASSUME refs \in [Abbrevs -> 0..RefMod-1], made \subseteq Abbrevs, live \subseteq made,
         NEW a \in Abbrevs, New(a)
  PROVE  refs' \in [Abbrevs -> 0..RefMod-1] /\ made' \subseteq Abbrevs /\ live' \subseteq made'
BY RefModBig DEF New

LEMMA EnterType ==
  ASSUME TypeOK, NEW id \in BlockIds, NEW n \in CodeWidths, EnterSubblock(id, n),
         BlockInfoCurBID' \in BlockIds \cup {NoBID}
  PROVE  TypeOK'
<1> USE DEF TypeOK
<1>1. CurCodeSize \in Nat
  BY CodeWidthsAssumption
<1>2. HeaderEnd \in Nat /\ WordIndex(HeaderEnd) \in Nat
  <2>1. bitNo + CurCodeSize + BlockIDWidth + CodeLenWidth \in Nat
    BY <1>1 DEF BlockIDWidth, CodeLenWidth
  <2> QED
    BY <2>1, FlushType DEF HeaderEnd
<1>3. bitNo' \in Nat /\ DOMAIN sizeAt' \subseteq Nat /\ \A w \in DOMAIN sizeAt' : sizeAt'[w] \in Nat
  BY <1>2 DEF EnterSubblock, BlockSizeWidth
<1>4. CurAbbrevs' \in Seq(Abbrevs) /\ CurCodeSize' \in CodeWidths \cup {2}
  BY DEF EnterSubblock, Inherited
<1>5. BlockScope' \in Seq(Scopes) /\ Len(BlockScope') = Len(BlockScope) + 1
  BY <1>2 DEF EnterSubblock, Scopes
<1>6. refs' \in [Abbrevs -> 0..RefMod-1]
  BY AddRefsType DEF EnterSubblock
<1>7. openIds' \in Seq(BlockIds) /\ Len(openIds') = Depth'
  BY <1>5 DEF EnterSubblock, Depth
<1> QED
  BY <1>3, <1>4, <1>5, <1>6, <1>7 DEF EnterSubblock

\* Flushing after at least one bit ends in a later word.
LEMMA FlushLater ==
  ASSUME NEW STATE b, b \in Nat, NEW STATE w, w \in Nat, w > 0
  PROVE  /\ WordEnd(b + w) \in Nat /\ WordEnd(b + w) % WordBits = 0
         /\ WordIndex(WordEnd(b + w)) \in Nat /\ WordIndex(b) \in Nat
         /\ WordIndex(b) < WordIndex(WordEnd(b + w))
         /\ WordIndex(WordEnd(b + w) + 32) = WordIndex(WordEnd(b + w)) + 1
<1>1. PICK q \in Nat : q * 32 =< b + w + 31 /\ b + w + 31 < q * 32 + 32
                       /\ q = (b + w + 31) \div 32
  OBVIOUS
<1>2. WordEnd(b + w) = q * 32
  BY <1>1 DEF WordEnd, WordBits
<1>3. WordIndex(q * 32) = q /\ (q * 32) % WordBits = 0 /\ WordIndex(q * 32 + 32) = q + 1
  BY <1>1 DEF WordIndex, WordBits
<1>4. WordIndex(b) \in Nat /\ WordIndex(b) * 32 =< b
  BY DEF WordIndex, WordBits
<1> QED
  BY <1>1, <1>2, <1>3, <1>4

\* A block's tail ends in a later word than its size field.
LEMMA TailLater ==
  ASSUME TypeOK
  PROVE  /\ TailEnd \in Nat /\ WordIndex(TailEnd) \in Nat /\ WordIndex(bitNo) \in Nat
         /\ TailEnd % WordBits = 0
         /\ WordIndex(bitNo) < WordIndex(TailEnd)
<1>1. CurCodeSize \in Nat /\ CurCodeSize > 0 /\ bitNo \in Nat
  BY CodeWidthsAssumption DEF TypeOK
<1> QED
  BY <1>1, FlushLater DEF TailEnd

LEMMA HeaderLater ==
  ASSUME TypeOK
  PROVE  /\ HeaderEnd \in Nat /\ WordIndex(HeaderEnd) \in Nat /\ WordIndex(bitNo) \in Nat
         /\ WordIndex(bitNo) < WordIndex(HeaderEnd)
         /\ WordIndex(HeaderEnd + BlockSizeWidth) = WordIndex(HeaderEnd) + 1
<1> DEFINE w == CurCodeSize + BlockIDWidth + CodeLenWidth
<1>1. w \in Nat /\ w > 0 /\ bitNo \in Nat
  BY CodeWidthsAssumption DEF TypeOK, BlockIDWidth, CodeLenWidth
<1>2. HeaderEnd = WordEnd(bitNo + w)
  BY <1>1, CodeWidthsAssumption DEF HeaderEnd, TypeOK, BlockIDWidth, CodeLenWidth
<1> HIDE DEF w
<1> QED
  BY <1>1, <1>2, FlushLater DEF BlockSizeWidth

LEMMA ExitType ==
  ASSUME TypeOK, StartsOrdered, ExitBlock
  PROVE  TypeOK'
<1> USE DEF TypeOK
<1>1. Depth \in Nat /\ Depth > 0 /\ Innermost \in Scopes
  BY DEF ExitBlock, InBlock, Depth, Innermost
<1>2. Innermost.StartSizeWord \in Nat /\ Innermost.StartSizeWord < WordIndex(TailEnd)
  <2>1. Innermost.StartSizeWord \in Nat
    BY <1>1 DEF Scopes
  <2>2. Innermost.StartSizeWord < WordIndex(bitNo)
    BY <1>1 DEF StartsOrdered, Start, Innermost
  <2> QED
    BY <2>1, <2>2, TailLater
<1>3. SizeInWords(WordIndex(TailEnd), Innermost.StartSizeWord) \in Nat
  BY <1>2, TailLater DEF SizeInWords
<1>4. bitNo' \in Nat /\ DOMAIN sizeAt' \subseteq Nat /\ \A w \in DOMAIN sizeAt' : sizeAt'[w] \in Nat
  BY <1>3, TailLater DEF ExitBlock, BackpatchWord
<1>5. CurAbbrevs' \in Seq(Abbrevs) /\ CurCodeSize' \in CodeWidths \cup {2}
  BY <1>1 DEF ExitBlock, Scopes
<1>6. BlockScope' \in Seq(Scopes) /\ Len(BlockScope') = Depth - 1
  BY <1>1 DEF ExitBlock, Depth
<1>7. openIds' \in Seq(BlockIds) /\ Len(openIds') = Depth'
  BY <1>1, <1>6 DEF ExitBlock, Depth
<1>8. refs' \in [Abbrevs -> 0..RefMod-1] /\ live' \subseteq made
  BY DropRefsType DEF ExitBlock
<1>9. closed' \subseteq [start : Nat, end : Nat]
  BY <1>2, TailLater DEF ExitBlock
<1> QED
  BY <1>4, <1>5, <1>6, <1>7, <1>8, <1>9 DEF ExitBlock

LEMMA EmitType ==
  ASSUME TypeOK, NEW p \in Payloads,
         \/ \E a \in Abbrevs : EmitAbbrev(a, p)
         \/ \E a \in Abbrevs, id \in BlockIds : EmitBlockInfoAbbrev(id, a, p)
         \/ EmitRecord(p)
         \/ \E i \in DOMAIN CurAbbrevs : EmitRecordWithAbbrev(i, p)
  PROVE  TypeOK' /\ bitNo' > bitNo
<1> USE DEF TypeOK
<1>1. CurCodeSize \in Nat /\ CurCodeSize > 0 /\ p \in Nat
  BY CodeWidthsAssumption, PayloadsAssumption
<1>2. ASSUME NEW a \in Abbrevs, EmitAbbrev(a, p)
      PROVE  TypeOK' /\ bitNo' > bitNo
  <2>1. refs' \in [Abbrevs -> 0..RefMod-1] /\ made' \subseteq Abbrevs /\ live' \subseteq made'
    BY <1>2, NewType DEF EmitAbbrev
  <2>2. CurAbbrevs' \in Seq(Abbrevs) /\ bitNo' \in Nat /\ bitNo' > bitNo
    BY <1>1, <1>2 DEF EmitAbbrev
  <2> QED
    BY <1>2, <2>1, <2>2 DEF EmitAbbrev, Depth
<1>3. ASSUME NEW a \in Abbrevs, NEW id \in BlockIds, EmitBlockInfoAbbrev(id, a, p)
      PROVE  TypeOK' /\ bitNo' > bitNo
  <2>1. refs' \in [Abbrevs -> 0..RefMod-1] /\ made' \subseteq Abbrevs /\ live' \subseteq made'
    BY <1>3, NewType DEF EmitBlockInfoAbbrev
  <2>2. bitNo' \in Nat /\ bitNo' > bitNo
    BY <1>1, <1>3 DEF EmitBlockInfoAbbrev, SetBIDBits
  <2>3. blockInfo' \in [BlockIds -> Seq(Abbrevs)]
    BY <1>3 DEF EmitBlockInfoAbbrev
  <2> QED
    BY <1>3, <2>1, <2>2, <2>3 DEF EmitBlockInfoAbbrev, SwitchToBlockID, Depth
<1>4. ASSUME EmitRecord(p)
      PROVE  TypeOK' /\ bitNo' > bitNo
  BY <1>1, <1>4 DEF EmitRecord, Depth
<1>5. ASSUME NEW i \in DOMAIN CurAbbrevs, EmitRecordWithAbbrev(i, p)
      PROVE  TypeOK' /\ bitNo' > bitNo
  BY <1>1, <1>5 DEF EmitRecordWithAbbrev, Depth
<1> QED
  BY <1>2, <1>3, <1>4, <1>5

LEMMA DestroyType ==
  ASSUME TypeOK, Destroy
  PROVE  TypeOK'
<1>1. refs' \in [Abbrevs -> 0..RefMod-1] /\ live' \subseteq made
  BY DropRefsType DEF Destroy, TypeOK
<1> QED
  BY <1>1 DEF TypeOK, Destroy, Depth

LEMMA InitType == Init => TypeOK
<1> SUFFICES ASSUME Init PROVE TypeOK
  OBVIOUS
<1>1. bitNo \in Nat
  BY BoundsAssumption DEF Init, WordBits
<1>2. refs \in [Abbrevs -> 0..RefMod-1]
  BY RefModBig DEF Init
<1>3. DOMAIN sizeAt = {}
  BY DEF Init
<1>4. CurAbbrevs \in Seq(Abbrevs) /\ BlockScope \in Seq(Scopes) /\ openIds \in Seq(BlockIds)
      /\ Len(openIds) = Depth /\ blockInfo \in [BlockIds -> Seq(Abbrevs)]
  BY DEF Init, Depth
<1> QED
  BY <1>1, <1>2, <1>3, <1>4 DEF Init, TypeOK

------------------------------------------------------------------------------
(* How the operations change the nesting.                                  *)

LEMMA EnterShape ==
  ASSUME TypeOK, NEW id \in BlockIds, NEW n \in CodeWidths, EnterSubblock(id, n)
  PROVE  /\ Depth \in Nat /\ Depth' = Depth + 1
         /\ \A i \in 1..Depth : BlockScope'[i] = BlockScope[i]
         /\ BlockScope'[Depth + 1] = [PrevCodeSize |-> CurCodeSize,
              StartSizeWord |-> WordIndex(HeaderEnd), PrevAbbrevs |-> CurAbbrevs]
BY DEF TypeOK, EnterSubblock, Depth

LEMMA ExitShape ==
  ASSUME TypeOK, ExitBlock
  PROVE  /\ Depth \in Nat /\ Depth > 0 /\ Depth' = Depth - 1
         /\ \A i \in 1..Depth-1 : BlockScope'[i] = BlockScope[i]
         /\ Innermost = BlockScope[Depth] /\ Innermost \in Scopes
BY DEF TypeOK, ExitBlock, InBlock, Depth, Innermost

LEMMA WordIndexMonotone ==
  \A x, y \in Nat : x =< y => /\ WordIndex(x) \in Nat /\ WordIndex(y) \in Nat
                              /\ WordIndex(x) =< WordIndex(y)
<1> SUFFICES ASSUME NEW x \in Nat, NEW y \in Nat, x =< y
             PROVE  (x \div 32) \in Nat /\ (y \div 32) \in Nat /\ (x \div 32) =< (y \div 32)
  BY DEF WordIndex, WordBits
<1> QED
  OBVIOUS

LEMMA StartType ==
  ASSUME TypeOK
  PROVE  \A i \in 1..Depth : Start(i) \in Nat /\ BlockScope[i] \in Scopes
<1>1. \A i \in 1..Depth : BlockScope[i] \in Scopes
  BY DEF TypeOK, Depth
<1> QED
  BY <1>1 DEF Start, Scopes

LEMMA EnterStarts ==
  ASSUME TypeOK, StartsOrdered, NEW id \in BlockIds, NEW n \in CodeWidths, EnterSubblock(id, n)
  PROVE  /\ StartsOrdered'
         /\ WordIndex(bitNo)' = WordIndex(HeaderEnd) + 1
         /\ WordIndex(bitNo) < WordIndex(HeaderEnd)
<1>1. WordIndex(bitNo)' = WordIndex(HeaderEnd) + 1
  BY HeaderLater DEF EnterSubblock
<1>2. \A i \in 1..Depth : Start(i) \in Nat /\ Start(i) < WordIndex(bitNo)
  BY StartType DEF StartsOrdered
<1>3. \A i \in 1..Depth : Start(i)' = Start(i)
  BY EnterShape DEF Start
<1>4. Start(Depth)' = WordIndex(HeaderEnd)
  BY EnterShape DEF Start
<1>5. ASSUME NEW i \in 1..Depth' PROVE Start(i)' < WordIndex(bitNo)'
  BY <1>1, <1>2, <1>3, <1>4, HeaderLater, EnterShape
<1>6. ASSUME NEW i \in 1..Depth', NEW j \in 1..Depth', i < j PROVE Start(i)' < Start(j)'
  <2>1. CASE j = Depth'
    BY <2>1, <1>2, <1>3, <1>4, <1>6, HeaderLater, EnterShape
  <2>2. CASE j # Depth'
    <3>1. i \in 1..Depth /\ j \in 1..Depth
      BY <2>2, <1>6, EnterShape
    <3> QED
      BY <3>1, <1>3, <1>6 DEF StartsOrdered
  <2> QED
    BY <2>1, <2>2
<1> QED
  BY <1>1, <1>5, <1>6, HeaderLater DEF StartsOrdered

LEMMA ExitStarts ==
  ASSUME TypeOK, StartsOrdered, ExitBlock
  PROVE  /\ StartsOrdered'
         /\ WordIndex(bitNo)' = WordIndex(TailEnd)
         /\ Innermost.StartSizeWord = Start(Depth) /\ Depth \in 1..Depth
         /\ \A i \in 1..Depth' : Start(i)' = Start(i) /\ Start(i) < Start(Depth)
<1>1. \A i \in 1..Depth' : Start(i)' = Start(i) /\ Start(i) \in Nat /\ Start(i) < Start(Depth)
  <2>1. TAKE i \in 1..Depth'
  <2>2. i \in 1..Depth /\ Depth \in 1..Depth /\ i < Depth /\ i \in 1..Depth-1
    BY ExitShape
  <2>3. Start(i)' = Start(i)
    BY <2>2, ExitShape DEF Start
  <2> QED
    BY <2>2, <2>3, StartType DEF StartsOrdered
<1>2. WordIndex(bitNo)' = WordIndex(TailEnd)
  BY DEF ExitBlock
<1>3. ASSUME NEW i \in 1..Depth' PROVE Start(i)' < WordIndex(bitNo)'
  BY <1>1, <1>2, TailLater, ExitShape DEF StartsOrdered
<1>4. ASSUME NEW i \in 1..Depth', NEW j \in 1..Depth', i < j PROVE Start(i)' < Start(j)'
  <2>1. i \in 1..Depth /\ j \in 1..Depth
    BY ExitShape
  <2> QED
    BY <2>1, <1>1, <1>4 DEF StartsOrdered
<1> QED
  BY <1>1, <1>2, <1>3, <1>4, ExitShape DEF StartsOrdered, Start

\* The operations that write neither a block's header nor its tail.
Flat == UNCHANGED <<sizeAt, CurCodeSize, BlockScope, closed>>

LEMMA FlatStarts ==
  ASSUME TypeOK, StartsOrdered, Flat, bitNo' \in Nat, bitNo' >= bitNo
  PROVE  StartsOrdered' /\ WordIndex(bitNo)' >= WordIndex(bitNo) /\ Depth' = Depth
         /\ \A i \in 1..Depth : Start(i)' = Start(i)
<1>1. /\ WordIndex(bitNo) \in Nat /\ WordIndex(bitNo)' \in Nat
      /\ WordIndex(bitNo)' >= WordIndex(bitNo)
  BY WordIndexMonotone DEF TypeOK
<1>2. Depth' = Depth /\ \A i \in 1..Depth : Start(i)' = Start(i)
  BY DEF Flat, Depth, Start
<1> QED
  BY <1>1, <1>2, StartType DEF StartsOrdered

LEMMA NextKinds ==
  ASSUME TypeOK, StartsOrdered, Next
  PROVE  \/ \E id \in BlockIds, n \in CodeWidths : EnterSubblock(id, n) /\ Depth < MaxDepth
         \/ ExitBlock
         \/ Flat /\ bitNo' \in Nat /\ bitNo' >= bitNo
<1> USE DEF Flat
<1>1. ASSUME NEW id \in BlockIds, NEW n \in CodeWidths, EnterBlock(id, n)
      PROVE  EnterSubblock(id, n) /\ Depth < MaxDepth
  BY <1>1 DEF EnterBlock
<1>2. ASSUME NEW n \in CodeWidths, EnterBlockInfoBlock(n)
      PROVE  EnterSubblock(BLOCKINFO, n) /\ Depth < MaxDepth
  BY <1>2 DEF EnterBlockInfoBlock
<1>3. ASSUME NEW p \in Payloads,
         \/ \E a \in Abbrevs : EmitAbbrev(a, p)
         \/ \E a \in Abbrevs, id \in BlockIds : EmitBlockInfoAbbrev(id, a, p)
         \/ EmitRecord(p)
         \/ \E i \in DOMAIN CurAbbrevs : EmitRecordWithAbbrev(i, p)
      PROVE  Flat /\ bitNo' \in Nat /\ bitNo' >= bitNo
  <2>1. bitNo \in Nat /\ bitNo' \in Nat /\ bitNo' > bitNo
    BY <1>3, EmitType DEF TypeOK
  <2>2. Flat
    BY <1>3 DEF EmitAbbrev, EmitBlockInfoAbbrev, EmitRecord, EmitRecordWithAbbrev
  <2> QED
    BY <2>1, <2>2
<1>4. ASSUME Destroy PROVE Flat /\ bitNo' \in Nat /\ bitNo' >= bitNo
  BY <1>4 DEF Destroy, TypeOK
<1> QED
  BY <1>1, <1>2, <1>3, <1>4, BlockIdsAssumption DEF Next

TypeInv == TypeOK /\ StartsOrdered

LEMMA TypeStep == TypeInv /\ [Next]_vars => TypeInv'
<1> SUFFICES ASSUME TypeOK, StartsOrdered, [Next]_vars PROVE TypeOK' /\ StartsOrdered'
  BY DEF TypeInv
<1>1. CASE UNCHANGED vars
  BY <1>1 DEF vars, TypeOK, StartsOrdered, Start, Depth
<1>2. ASSUME Next PROVE StartsOrdered'
  BY <1>2, NextKinds, EnterStarts, ExitStarts, FlatStarts
<1>3. ASSUME Next PROVE TypeOK'
  <2>1. ASSUME NEW id \in BlockIds, NEW n \in CodeWidths, EnterBlock(id, n) PROVE TypeOK'
    BY <2>1, EnterType DEF EnterBlock, TypeOK
  <2>2. ASSUME NEW n \in CodeWidths, EnterBlockInfoBlock(n) PROVE TypeOK'
    BY <2>2, EnterType, BlockIdsAssumption DEF EnterBlockInfoBlock, UnselectBlockID
  <2> QED
    BY <1>3, <2>1, <2>2, ExitType, EmitType, DestroyType DEF Next
<1> QED
  BY <1>1, <1>2, <1>3

LEMMA TypeInvCorrect == Spec => []TypeInv
<1>1. Init => TypeInv
  BY InitType DEF TypeInv, StartsOrdered, Init, Depth
<1> QED
  BY <1>1, TypeStep, PTL DEF Spec

\* Every reachable state has the types of TypeOK.  It needs StartsOrdered: the
\* size ExitBlock computes is a number of words only because the size field of
\* the block precedes its end.
THEOREM TypeCorrect == Spec => []TypeOK
<1>1. TypeInv => TypeOK
  BY DEF TypeInv
<1> QED
  BY <1>1, TypeInvCorrect, PTL

------------------------------------------------------------------------------
(* Block sizes.                                                            *)

SizesInv == Written /\ SizesExact /\ WellNested

LEMMA ClosedType ==
  ASSUME TypeOK, SizesInv
  PROVE  \A c \in closed : /\ c.start \in Nat /\ c.end \in Nat
                           /\ c.start < c.end /\ c.end =< WordIndex(bitNo)
BY DEF TypeOK, SizesInv, Written

LEMMA EnterSizes ==
  ASSUME TypeOK, StartsOrdered, SizesInv,
         NEW id \in BlockIds, NEW n \in CodeWidths, EnterSubblock(id, n)
  PROVE  SizesInv'
<1> DEFINE new == WordIndex(HeaderEnd)
<1>1. /\ new \in Nat /\ WordIndex(bitNo) \in Nat /\ WordIndex(bitNo) < new
      /\ WordIndex(bitNo)' = new + 1
  BY HeaderLater, EnterStarts
<1>2. /\ DOMAIN sizeAt' = DOMAIN sizeAt \cup {new} /\ sizeAt'[new] = 0
      /\ \A w \in DOMAIN sizeAt : w # new => sizeAt'[w] = sizeAt[w]
      /\ closed' = closed
  BY DEF EnterSubblock
<1>3. /\ Depth \in Nat /\ Depth' = Depth + 1 /\ Start(Depth)' = new
      /\ \A i \in 1..Depth : Start(i)' = Start(i)
  BY EnterShape DEF Start
<1> HIDE DEF new
<1>4. \A c \in closed : c.start \in Nat /\ c.end \in Nat /\ c.start < new /\ c.end < new
  BY <1>1, ClosedType
<1>5. Written'
  <2>1. \A w \in DOMAIN sizeAt : w \in Nat /\ w < WordIndex(bitNo)
    BY DEF TypeOK, SizesInv, Written
  <2>2. \A w \in DOMAIN sizeAt' : w < WordIndex(bitNo)'
    BY <1>1, <1>2, <2>1
  <2>3. \A c \in closed' : c.start < c.end /\ c.end =< WordIndex(bitNo)'
    BY <1>1, <1>2, <1>4, ClosedType
  <2> QED
    BY <2>2, <2>3 DEF Written
<1>6. SizesExact'
  <2>1. ASSUME NEW c \in closed PROVE c.start \in DOMAIN sizeAt' /\ c.end = c.start + 1 + sizeAt'[c.start]
    BY <1>1, <1>2, <1>4 DEF SizesInv, SizesExact
  <2>2. ASSUME NEW i \in 1..Depth'
        PROVE  Start(i)' \in DOMAIN sizeAt' /\ sizeAt'[Start(i)'] = 0
    <3>1. CASE i = Depth'
      BY <3>1, <1>2, <1>3
    <3>2. CASE i # Depth'
      <4>1. i \in 1..Depth
        BY <3>2, <1>3
      <4>2. Start(i) \in DOMAIN sizeAt /\ sizeAt[Start(i)] = 0 /\ Start(i) # new
        BY <4>1, <1>1, StartType DEF SizesInv, SizesExact, Start, StartsOrdered
      <4> QED
        BY <4>1, <4>2, <1>2, <1>3
    <3> QED
      BY <3>1, <3>2
  <2> QED
    BY <1>2, <2>1, <2>2 DEF SizesExact, Start
<1>7. WellNested'
  <2>1. ASSUME NEW c \in closed, NEW i \in 1..Depth'
        PROVE  c.end =< Start(i)' \/ Start(i)' < c.start
    <3>1. CASE i = Depth'
      BY <3>1, <1>1, <1>3, <1>4
    <3>2. CASE i # Depth'
      BY <3>2, <1>3 DEF SizesInv, WellNested, Start
    <3> QED
      BY <3>1, <3>2
  <2> QED
    BY <1>2, <2>1 DEF SizesInv, WellNested, Start, Disjoint, Contains
<1> QED
  BY <1>5, <1>6, <1>7 DEF SizesInv

LEMMA ExitSizes ==
  ASSUME TypeOK, StartsOrdered, SizesInv, ExitBlock
  PROVE  SizesInv'
<1> DEFINE s == Start(Depth)
           e == WordIndex(TailEnd)
           new == [start |-> s, end |-> e]
<1>1. /\ s \in Nat /\ e \in Nat /\ WordIndex(bitNo) \in Nat
      /\ s < WordIndex(bitNo) /\ WordIndex(bitNo) < e /\ WordIndex(bitNo)' = e
  BY TailLater, ExitStarts, StartType DEF StartsOrdered
<1>2. /\ sizeAt' = [sizeAt EXCEPT ![s] = e - s - 1]
      /\ closed' = closed \cup {new}
  BY ExitStarts DEF ExitBlock, BackpatchWord, SizeInWords
<1>3. Depth \in 1..Depth /\ \A i \in 1..Depth' : i \in 1..Depth /\ Start(i)' = Start(i) /\ Start(i) < s
  BY ExitStarts, ExitShape
<1> HIDE DEF s, e
<1>4. \A w \in DOMAIN sizeAt : w \in Nat /\ w < WordIndex(bitNo)
  BY DEF TypeOK, SizesInv, Written
<1>5. s \in DOMAIN sizeAt
  BY <1>3 DEF SizesInv, SizesExact, s, Start
<1>6. \A c \in closed : c.end =< s \/ s < c.start
  BY <1>3 DEF SizesInv, WellNested, s, Start
<1>7. Written'
  <2>1. \A c \in closed' : c.start < c.end /\ c.end =< WordIndex(bitNo)'
    BY <1>1, <1>2, ClosedType
  <2> QED
    BY <1>1, <1>2, <1>4, <2>1 DEF Written
<1>8. SizesExact'
  <2>1. ASSUME NEW c \in closed'
        PROVE  c.start \in DOMAIN sizeAt' /\ c.end = c.start + 1 + sizeAt'[c.start]
    <3>1. CASE c = new
      BY <3>1, <1>1, <1>2, <1>5
    <3>2. CASE c \in closed
      <4>1. c.start # s
        BY <3>2, <1>1, <1>6, ClosedType
      <4> QED
        BY <3>2, <4>1, <1>2 DEF SizesInv, SizesExact
    <3> QED
      BY <3>1, <3>2, <1>2
  <2>2. ASSUME NEW i \in 1..Depth'
        PROVE  Start(i)' \in DOMAIN sizeAt' /\ sizeAt'[Start(i)'] = 0
    <3>1. Start(i)' = Start(i) /\ Start(i) # s /\ i \in 1..Depth
      BY <1>1, <1>3, StartType
    <3> QED
      BY <3>1, <1>2 DEF SizesInv, SizesExact, Start
  <2> QED
    BY <2>1, <2>2 DEF SizesExact, Start
<1>9. WellNested'
  <2>1. ASSUME NEW c \in closed PROVE Disjoint(c, new) \/ Contains(new, c)
    BY <1>1, <1>6, ClosedType DEF Disjoint, Contains
  <2>2. \A c, d \in closed' : c = d \/ Disjoint(c, d) \/ Contains(c, d) \/ Contains(d, c)
    BY <2>1, <1>2 DEF SizesInv, WellNested, Disjoint
  <2>3. ASSUME NEW c \in closed', NEW i \in 1..Depth'
        PROVE  c.end =< Start(i)' \/ Start(i)' < c.start
    <3>1. CASE c = new
      BY <3>1, <1>3
    <3>2. CASE c \in closed
      BY <3>2, <1>3 DEF SizesInv, WellNested, Start
    <3> QED
      BY <3>1, <3>2, <1>2
  <2> QED
    BY <2>2, <2>3 DEF WellNested, Start
<1> QED
  BY <1>7, <1>8, <1>9 DEF SizesInv

LEMMA FlatSizes ==
  ASSUME TypeOK, StartsOrdered, SizesInv, Flat, bitNo' \in Nat, bitNo' >= bitNo
  PROVE  SizesInv'
<1>1. /\ WordIndex(bitNo) \in Nat /\ WordIndex(bitNo)' \in Nat
      /\ WordIndex(bitNo)' >= WordIndex(bitNo)
  BY WordIndexMonotone DEF TypeOK
<1>2. \A w \in DOMAIN sizeAt : w \in Nat
  BY DEF TypeOK
<1>3. Written'
  BY <1>1, <1>2, ClosedType DEF SizesInv, Written, Flat
<1>4. SizesExact' /\ WellNested'
  BY FlatStarts DEF SizesInv, SizesExact, WellNested, Flat, Disjoint, Contains
<1> QED
  BY <1>3, <1>4 DEF SizesInv

LEMMA SizesStep == TypeInv /\ SizesInv /\ [Next]_vars => SizesInv'
<1> SUFFICES ASSUME TypeOK, StartsOrdered, SizesInv, [Next]_vars PROVE SizesInv'
  BY DEF TypeInv
<1>1. CASE UNCHANGED vars
  BY <1>1, FlatSizes DEF vars, Flat, TypeOK
<1>2. CASE Next
  BY <1>2, NextKinds, EnterSizes, ExitSizes, FlatSizes
<1> QED
  BY <1>1, <1>2

LEMMA SizesInvCorrect == Spec => []SizesInv
<1>1. Init => SizesInv
  BY DEF Init, SizesInv, Written, SizesExact, WellNested, Depth
<1> QED
  BY <1>1, SizesStep, TypeInvCorrect, PTL DEF Spec

\* Every closed block carries the size a reader needs to skip it, whatever the
\* caller writes in it.  (ExitBlock)
THEOREM SizesCorrect == Spec => []SizesExact
<1>1. SizesInv => SizesExact
  BY DEF SizesInv
<1> QED
  BY <1>1, SizesInvCorrect, PTL

\* Blocks are nested or disjoint: what a reader skips by one size never ends inside
\* another block.  (EnterSubblock, ExitBlock)
THEOREM BlocksNest == Spec => []WellNested
<1>1. SizesInv => WellNested
  BY DEF SizesInv
<1> QED
  BY <1>1, SizesInvCorrect, PTL

LEMMA FrozenStep ==
  ASSUME TypeInv, SizesInv, Next, NEW w \in DOMAIN sizeAt
  PROVE  \/ w \in DOMAIN sizeAt' /\ sizeAt'[w] = sizeAt[w]
         \/ Depth' < Depth /\ w = BlockScope[Depth].StartSizeWord
<1> USE DEF TypeInv
<1>1. ASSUME NEW id \in BlockIds, NEW n \in CodeWidths, EnterSubblock(id, n)
      PROVE  w \in DOMAIN sizeAt' /\ sizeAt'[w] = sizeAt[w]
  <2>1. w \in Nat /\ w < WordIndex(bitNo)
    BY DEF TypeOK, SizesInv, Written
  <2>2. w # WordIndex(HeaderEnd)
    BY <2>1, HeaderLater, EnterStarts, <1>1
  <2> QED
    BY <1>1, <2>2 DEF EnterSubblock
<1>2. ASSUME ExitBlock, w # BlockScope[Depth].StartSizeWord
      PROVE  w \in DOMAIN sizeAt' /\ sizeAt'[w] = sizeAt[w]
  BY <1>2, ExitShape DEF ExitBlock, BackpatchWord
<1>3. ASSUME ExitBlock PROVE Depth' < Depth
  BY <1>3, ExitShape
<1>4. ASSUME Flat PROVE w \in DOMAIN sizeAt' /\ sizeAt'[w] = sizeAt[w]
  BY <1>4 DEF Flat
<1> QED
  BY <1>1, <1>2, <1>3, <1>4, NextKinds

\* No step changes the size of a closed block: a size field is rewritten once, by
\* the ExitBlock of its own block.
THEOREM FrozenCorrect == Spec => ClosedFrozen
<1>1. TypeInv /\ SizesInv /\ [Next]_vars =>
        [\A w \in DOMAIN sizeAt :
           \/ w \in DOMAIN sizeAt' /\ sizeAt'[w] = sizeAt[w]
           \/ Depth' < Depth /\ w = BlockScope[Depth].StartSizeWord]_vars
  BY FrozenStep
<1> QED
  BY <1>1, SizesInvCorrect, TypeInvCorrect, PTL DEF Spec, ClosedFrozen

------------------------------------------------------------------------------
(* The levels of the nesting, and what each lists.                         *)

LEMMA ElemsAppend ==
  ASSUME NEW S, NEW s \in Seq(S), NEW a \in S
  PROVE  Elems(Append(s, a)) = Elems(s) \cup {a}
<1> DEFINE t == Append(s, a)
<1>1. /\ DOMAIN t = 1..Len(s)+1 /\ DOMAIN s = 1..Len(s) /\ Len(s) \in Nat
      /\ t[Len(s) + 1] = a /\ \A i \in 1..Len(s) : t[i] = s[i]
  OBVIOUS
<1> HIDE DEF t
<1>2. {t[i] : i \in DOMAIN t} = {s[i] : i \in DOMAIN s} \cup {a}
  BY <1>1
<1> QED
  BY <1>2 DEF Elems, t

LEMMA LevelType ==
  ASSUME TypeOK
  PROVE  Depth \in Nat /\ \A i \in Levels : Level(i) \in Seq(Abbrevs)
<1>1. Depth \in Nat
  BY DEF TypeOK, Depth
<1>2. ASSUME NEW i \in Levels PROVE Level(i) \in Seq(Abbrevs)
  <2>1. CASE i = Depth + 1
    BY <2>1 DEF Level, TypeOK
  <2>2. CASE i # Depth + 1
    BY <2>2, <1>1, StartType DEF Level, Levels, Scopes
  <2> QED
    BY <2>1, <2>2
<1> QED
  BY <1>1, <1>2

LEMMA EnterLevels ==
  ASSUME TypeOK, NEW id \in BlockIds, NEW n \in CodeWidths, EnterSubblock(id, n)
  PROVE  /\ Depth \in Nat /\ Depth' = Depth + 1
         /\ \A i \in Levels : i \in Levels' /\ Level(i)' = Level(i)
         /\ \A i \in Levels' : i \notin Levels => i = Depth + 2
         /\ Depth + 2 \in Levels'
         /\ \A i : i = Depth + 2 => Level(i)' = Inherited(id)
<1>1. /\ Depth \in Nat /\ Depth' = Depth + 1
      /\ \A i \in 1..Depth : BlockScope'[i].PrevAbbrevs = BlockScope[i].PrevAbbrevs
      /\ BlockScope'[Depth + 1].PrevAbbrevs = CurAbbrevs
  BY EnterShape
<1>2. CurAbbrevs' = Inherited(id)
  BY DEF EnterSubblock
<1>3. ASSUME NEW i \in Levels PROVE i \in Levels' /\ Level(i)' = Level(i)
  BY <1>1 DEF Levels, Level
<1>4. ASSUME NEW i, i = Depth + 2 PROVE Level(i)' = Inherited(id)
  BY <1>1, <1>2, <1>4 DEF Level
<1> QED
  BY <1>1, <1>3, <1>4 DEF Levels

LEMMA ExitLevels ==
  ASSUME TypeOK, ExitBlock
  PROVE  /\ Depth \in Nat /\ Depth > 0 /\ Depth' = Depth - 1
         /\ \A i \in Levels' : i \in Levels /\ i # Depth + 1 /\ Level(i)' = Level(i)
         /\ \A i \in Levels : i \notin Levels' => i = Depth + 1
         /\ Level(Depth + 1) = CurAbbrevs
<1>1. /\ Depth \in Nat /\ Depth > 0 /\ Depth' = Depth - 1
      /\ \A i \in 1..Depth-1 : BlockScope'[i].PrevAbbrevs = BlockScope[i].PrevAbbrevs
      /\ CurAbbrevs' = BlockScope[Depth].PrevAbbrevs
  BY ExitShape DEF ExitBlock
<1>2. ASSUME NEW i \in Levels' PROVE i \in Levels /\ i # Depth + 1 /\ Level(i)' = Level(i)
  BY <1>1 DEF Levels, Level
<1> QED
  BY <1>1, <1>2 DEF Levels, Level

LEMMA HoldersFinite ==
  ASSUME TypeOK, NEW a \in Abbrevs
  PROVE  /\ IsFiniteSet(Holders(a)) /\ Cardinality(Holders(a)) \in Nat
         /\ Cardinality(Holders(a)) =< Depth + 2
<1>1. Depth \in Nat
  BY LevelType
<1>2. Holders(a) \subseteq 0..Depth+1
  BY <1>1 DEF Holders, Levels
<1>3. IsFiniteSet(0..Depth+1) /\ Cardinality(0..Depth+1) = Depth + 2
  BY <1>1, FS_Interval
<1> QED
  BY <1>1, <1>2, <1>3, FS_Subset, FS_CardinalityType

\* What a drop and a reference do to the count of an abbreviation.
LEMMA CountAdd ==
  ASSUME NEW H, IsFiniteSet(H), Cardinality(H) < RefMod - 1, NEW i, i \notin H
  PROVE  Cardinality(H \cup {i}) = addRef(Cardinality(H)) /\ H \cup {i} # {}
<1>1. Cardinality(H) \in Nat /\ Cardinality(H \cup {i}) = Cardinality(H) + 1
  BY FS_AddElement, FS_CardinalityType
<1>2. H \cup {i} # {}
  OBVIOUS
<1> QED
  BY <1>1, <1>2, RefModBig DEF addRef

LEMMA CountDrop ==
  ASSUME NEW H, IsFiniteSet(H), NEW i \in H
  PROVE  /\ Cardinality(H \ {i}) = dropRef(Cardinality(H))
         /\ H \ {i} = {} <=> dropRef(Cardinality(H)) = 0
<1>1. /\ IsFiniteSet(H \ {i}) /\ Cardinality(H \ {i}) = Cardinality(H) - 1
      /\ Cardinality(H \ {i}) \in Nat /\ Cardinality(H) \in Nat
  BY FS_RemoveElement, FS_CardinalityType
<1>2. H \ {i} = {} <=> Cardinality(H \ {i}) = 0
  BY <1>1, FS_EmptySet
<1> QED
  BY <1>1, <1>2 DEF dropRef

------------------------------------------------------------------------------
(* Who holds an abbreviation.                                              *)

LEMMA OuterStep ==
  ASSUME TypeOK, OuterClean, DepthBounded, Next
  PROVE  OuterClean' /\ DepthBounded'
<1>1. ASSUME NEW id \in BlockIds, NEW n \in CodeWidths, EnterSubblock(id, n), Depth < MaxDepth
      PROVE  OuterClean' /\ DepthBounded'
  <2>1. Level(1)' = <<>>
    BY <1>1, EnterLevels DEF OuterClean, Levels
  <2>2. BlockScope'[1].PrevCodeSize = 2
    <3>1. CASE Depth = 0
      BY <1>1, <3>1, EnterShape DEF OuterClean
    <3>2. CASE Depth # 0
      BY <1>1, <3>2, EnterShape DEF OuterClean
    <3> QED
      BY <3>1, <3>2
  <2> QED
    BY <1>1, <2>1, <2>2, EnterShape, BoundsAssumption DEF OuterClean, DepthBounded
<1>2. ASSUME ExitBlock
      PROVE  OuterClean' /\ DepthBounded'
  <2>1. Level(1)' = <<>>
    BY <1>2, ExitLevels DEF OuterClean, Levels
  <2>2. IF Depth' = 0 THEN CurCodeSize' = 2 ELSE BlockScope'[1].PrevCodeSize = 2
    BY <1>2, ExitShape DEF OuterClean, ExitBlock
  <2>3. bitNo' % WordBits = 0
    BY <1>2, TailLater DEF ExitBlock
  <2> QED
    BY <1>2, <2>1, <2>2, <2>3, ExitShape, BoundsAssumption DEF OuterClean, DepthBounded
<1>3. ASSUME UNCHANGED <<CurCodeSize, BlockScope>>,
             Depth > 0 \/ UNCHANGED <<bitNo, CurAbbrevs>>
      PROVE  OuterClean' /\ DepthBounded'
  <2>1. Depth' = Depth /\ Depth \in Nat
    BY <1>3 DEF Depth, TypeOK
  <2>2. Level(1)' = Level(1)
    BY <1>3, <2>1 DEF Level
  <2> QED
    BY <1>3, <2>1, <2>2 DEF OuterClean, DepthBounded
<1>4. CASE \E id \in BlockIds, n \in CodeWidths : EnterBlock(id, n)
  BY <1>4, <1>1 DEF EnterBlock
<1>5. CASE \E n \in CodeWidths : EnterBlockInfoBlock(n)
  BY <1>5, <1>1, BlockIdsAssumption DEF EnterBlockInfoBlock
<1>6. CASE \/ \E a \in Abbrevs, p \in Payloads : EmitAbbrev(a, p)
           \/ \E id \in BlockIds, a \in Abbrevs, p \in Payloads : EmitBlockInfoAbbrev(id, a, p)
           \/ \E p \in Payloads : EmitRecord(p)
           \/ \E i \in DOMAIN CurAbbrevs, p \in Payloads : EmitRecordWithAbbrev(i, p)
           \/ Destroy
  BY <1>6, <1>3 DEF EmitAbbrev, EmitBlockInfoAbbrev, EmitRecord, EmitRecordWithAbbrev,
                    Destroy, InBlock, InBlockInfo
<1> QED
  BY <1>2, <1>4, <1>5, <1>6 DEF Next

LEMMA EnterHolders ==
  ASSUME TypeOK, DepthBounded, RefsExact, Depth < MaxDepth,
         NEW id \in BlockIds, NEW n \in CodeWidths, EnterSubblock(id, n)
  PROVE  RefsExact'
<1>1. RegisteredAbbrevs' = RegisteredAbbrevs /\ blockInfo' = blockInfo /\ live' = live
  BY DEF EnterSubblock, RegisteredAbbrevs
<1>2. Elems(Inherited(id)) \subseteq RegisteredAbbrevs
  BY DEF Inherited, RegisteredAbbrevs
<1>3. ASSUME NEW a \in Abbrevs
      PROVE  refs'[a] = Cardinality(Holders(a)') /\ (Holders(a)' # {} <=> Holders(a) # {})
  <2>1. Depth + 2 \notin Holders(a)
    BY EnterLevels DEF Holders, Levels
  <2>2. CASE a \in Elems(Inherited(id))
    <3>1. Holders(a)' = Holders(a) \cup {Depth + 2}
      BY <1>1, <2>2, EnterLevels DEF Holders
    <3>2. Cardinality(Holders(a)) < RefMod - 1
      BY HoldersFinite, EnterLevels, RefModAssumption, BoundsAssumption
    <3>3. refs'[a] = addRef(refs[a]) /\ refs[a] = Cardinality(Holders(a))
      BY <2>2 DEF EnterSubblock, AddRefs, RefsExact
    <3>4. Holders(a) # {}
      BY <1>2, <2>2 DEF Holders
    <3> QED
      BY <2>1, <3>1, <3>2, <3>3, <3>4, HoldersFinite, CountAdd
  <2>3. CASE a \notin Elems(Inherited(id))
    <3>1. Holders(a)' = Holders(a)
      BY <1>1, <2>3, EnterLevels DEF Holders
    <3>2. refs'[a] = refs[a]
      BY <2>3 DEF EnterSubblock, AddRefs
    <3> QED
      BY <3>1, <3>2 DEF RefsExact
  <2> QED
    BY <2>2, <2>3
<1>4. ListsDistinct'
  <2>1. ASSUME NEW i \in Levels' PROVE Level(i)' = Inherited(id) \/ (i \in Levels /\ Level(i)' = Level(i))
    BY EnterLevels
  <2> QED
    BY <1>1, <2>1 DEF RefsExact, ListsDistinct, Inherited
<1> QED
  BY <1>1, <1>3, <1>4 DEF RefsExact

\* DropRefs, for a set of abbreviations that one holder gives up.
LEMMA DropHolder ==
  ASSUME TypeOK, RefsExact, NEW STATE as, DropRefs(as), NEW STATE h,
         \A a \in Abbrevs : /\ a \in as <=> h \in Holders(a)
                            /\ Holders(a)' = Holders(a) \ {h}
  PROVE  /\ \A a \in Abbrevs : refs'[a] = Cardinality(Holders(a)')
         /\ live' = {a \in Abbrevs : Holders(a)' # {}}
<1>1. ASSUME NEW a \in Abbrevs
      PROVE  /\ refs'[a] = Cardinality(Holders(a)')
             /\ a \in live' <=> Holders(a)' # {}
  <2>1. /\ refs[a] = Cardinality(Holders(a)) /\ IsFiniteSet(Holders(a))
        /\ a \in live <=> Holders(a) # {}
    BY HoldersFinite DEF RefsExact
  <2>2. CASE a \in as
    <3>1. h \in Holders(a) /\ Holders(a)' = Holders(a) \ {h}
      BY <2>2
    <3>2. /\ Cardinality(Holders(a)') = dropRef(refs[a])
          /\ Holders(a)' = {} <=> dropRef(refs[a]) = 0
      BY <2>1, <3>1, CountDrop
    <3>3. refs'[a] = dropRef(refs[a]) /\ (a \in live' <=> a \in live /\ dropRef(refs[a]) # 0)
      BY <2>2 DEF DropRefs
    <3> QED
      BY <2>1, <3>1, <3>2, <3>3
  <2>3. CASE a \notin as
    <3>1. Holders(a)' = Holders(a)
      BY <2>3
    <3>2. refs'[a] = refs[a] /\ (a \in live' <=> a \in live)
      BY <2>3 DEF DropRefs
    <3> QED
      BY <2>1, <3>1, <3>2
  <2> QED
    BY <2>2, <2>3
<1>2. live' \subseteq Abbrevs
  BY DropRefsType DEF TypeOK
<1> QED
  BY <1>1, <1>2

LEMMA ExitHolders ==
  ASSUME TypeOK, RefsExact, ExitBlock
  PROVE  RefsExact'
<1>1. blockInfo' = blockInfo /\ RegisteredAbbrevs' = RegisteredAbbrevs /\ DropRefs(Elems(CurAbbrevs))
  BY DEF ExitBlock, RegisteredAbbrevs
<1>2. ASSUME NEW a \in Abbrevs
      PROVE  /\ a \in Elems(CurAbbrevs) <=> Depth + 1 \in Holders(a)
             /\ Holders(a)' = Holders(a) \ {Depth + 1}
  <2>1. Depth + 1 \in Levels /\ Depth + 1 # 0
    BY ExitLevels DEF Levels
  <2> QED
    BY <1>1, <2>1, ExitLevels DEF Holders
<1>3. /\ \A a \in Abbrevs : refs'[a] = Cardinality(Holders(a)')
      /\ live' = {a \in Abbrevs : Holders(a)' # {}}
  BY <1>1, <1>2, DropHolder
<1>4. ListsDistinct'
  BY <1>1, ExitLevels DEF RefsExact, ListsDistinct
<1> QED
  BY <1>3, <1>4 DEF RefsExact

LEMMA DestroyHolders ==
  ASSUME TypeOK, OuterClean, RefsExact, Destroy
  PROVE  RefsExact'
<1>1. /\ Depth = 0 /\ Levels = {1} /\ Levels' = {1}
      /\ Level(1) = <<>> /\ Level(1)' = <<>>
  BY LevelType DEF Destroy, InBlock, Levels, Level, OuterClean, Depth
<1>2. RegisteredAbbrevs' = {} /\ DropRefs(RegisteredAbbrevs)
  BY DEF Destroy, RegisteredAbbrevs, Elems
<1>3. ASSUME NEW a \in Abbrevs
      PROVE  /\ a \in RegisteredAbbrevs <=> 0 \in Holders(a)
             /\ Holders(a)' = Holders(a) \ {0}
  <2>1. {i \in Levels : a \in Elems(Level(i))} = {} /\ {i \in Levels' : a \in Elems(Level(i)')} = {}
    BY <1>1 DEF Elems
  <2> QED
    BY <1>2, <2>1 DEF Holders
<1>4. /\ \A a \in Abbrevs : refs'[a] = Cardinality(Holders(a)')
      /\ live' = {a \in Abbrevs : Holders(a)' # {}}
  BY <1>2, <1>3, DropHolder
<1>5. ListsDistinct'
  BY <1>1 DEF Destroy, ListsDistinct
<1> QED
  BY <1>4, <1>5 DEF RefsExact

\* An abbreviation not yet constructed has no holder.
LEMMA FreshUnheld ==
  ASSUME TypeOK, RefsExact, NEW a \in Abbrevs \ made
  PROVE  /\ Holders(a) = {} /\ a \notin RegisteredAbbrevs
         /\ \A i \in Levels : a \notin Elems(Level(i))
BY DEF TypeOK, RefsExact, Holders

\* A constructed abbreviation with its first holder.
LEMMA NewHolder ==
  ASSUME TypeOK, RefsExact, NEW a \in Abbrevs \ made, New(a), NEW STATE h,
         Holders(a)' = {h},
         \A b \in Abbrevs \ {a} : Holders(b)' = Holders(b)
  PROVE  /\ \A b \in Abbrevs : refs'[b] = Cardinality(Holders(b)')
         /\ live' = {b \in Abbrevs : Holders(b)' # {}}
<1>1. refs'[a] = Cardinality(Holders(a)')
  BY FS_Singleton DEF New, TypeOK
<1>2. \A b \in Abbrevs \ {a} : refs'[b] = Cardinality(Holders(b)')
  BY DEF New, TypeOK, RefsExact
<1>3. live' = {b \in Abbrevs : Holders(b)' # {}}
  BY DEF New, RefsExact
<1> QED
  BY <1>1, <1>2, <1>3

LEMMA EmitAbbrevHolders ==
  ASSUME TypeOK, RefsExact, NEW a \in Abbrevs, NEW p \in Payloads, EmitAbbrev(a, p)
  PROVE  RefsExact'
<1>1. a \in Abbrevs \ made /\ New(a) /\ blockInfo' = blockInfo
      /\ RegisteredAbbrevs' = RegisteredAbbrevs
  BY DEF EmitAbbrev, Fresh, RegisteredAbbrevs
<1>2. /\ Depth \in Nat /\ Depth' = Depth /\ Levels' = Levels
      /\ Level(Depth + 1) = CurAbbrevs /\ Level(Depth + 1)' = Append(CurAbbrevs, a)
      /\ \A i \in Levels : i # Depth + 1 => Level(i)' = Level(i)
  BY LevelType DEF EmitAbbrev, Depth, Levels, Level
<1>3. Elems(Append(CurAbbrevs, a)) = Elems(CurAbbrevs) \cup {a}
  BY ElemsAppend DEF TypeOK
<1>4. \A i \in Levels : Elems(Level(i)') = IF i = Depth + 1 THEN Elems(Level(i)) \cup {a}
                                                            ELSE Elems(Level(i))
  BY <1>2, <1>3
<1>5. Holders(a)' = {Depth + 1}
  BY <1>1, <1>2, <1>4, FreshUnheld DEF Holders, Levels
<1>6. \A b \in Abbrevs \ {a} : Holders(b)' = Holders(b)
  BY <1>1, <1>2, <1>4 DEF Holders
<1>7. /\ \A b \in Abbrevs : refs'[b] = Cardinality(Holders(b)')
      /\ live' = {b \in Abbrevs : Holders(b)' # {}}
  BY <1>1, <1>5, <1>6, NewHolder
<1>8. ListsDistinct'
  <2>1. ASSUME NEW i \in Levels', NEW j \in DOMAIN Level(i)', NEW k \in DOMAIN Level(i)',
               Level(i)'[j] = Level(i)'[k]
        PROVE  j = k
    <3>1. CASE i # Depth + 1
      BY <2>1, <3>1, <1>2 DEF RefsExact, ListsDistinct
    <3>2. CASE i = Depth + 1
      <4>1. i \in Levels /\ Level(i) = CurAbbrevs /\ Level(i)' = Append(CurAbbrevs, a)
        BY <3>2, <1>2 DEF Levels
      <4>2. \A l \in DOMAIN CurAbbrevs : CurAbbrevs[l] # a
        BY <1>1, <4>1, FreshUnheld DEF Elems
      <4>3. \A l, m \in DOMAIN CurAbbrevs : CurAbbrevs[l] = CurAbbrevs[m] => l = m
        BY <4>1 DEF RefsExact, ListsDistinct
      <4>4. /\ DOMAIN CurAbbrevs = 1..Len(CurAbbrevs) /\ Len(CurAbbrevs) \in Nat
            /\ DOMAIN Append(CurAbbrevs, a) = 1..Len(CurAbbrevs)+1
            /\ Append(CurAbbrevs, a)[Len(CurAbbrevs)+1] = a
            /\ \A l \in DOMAIN CurAbbrevs : Append(CurAbbrevs, a)[l] = CurAbbrevs[l]
        BY DEF TypeOK
      <4> QED
        BY <2>1, <4>1, <4>2, <4>3, <4>4
    <3> QED
      BY <3>1, <3>2
  <2> QED
    BY <1>1, <2>1 DEF RefsExact, ListsDistinct
<1> QED
  BY <1>7, <1>8 DEF RefsExact

LEMMA EmitBlockInfoAbbrevHolders ==
  ASSUME TypeOK, RefsExact, NEW id \in BlockIds, NEW a \in Abbrevs, NEW p \in Payloads,
         EmitBlockInfoAbbrev(id, a, p)
  PROVE  RefsExact'
<1>1. a \in Abbrevs \ made /\ New(a)
  BY DEF EmitBlockInfoAbbrev, Fresh
<1>2. Levels' = Levels /\ \A i \in Levels : Level(i)' = Level(i) /\ i # 0
  BY LevelType DEF EmitBlockInfoAbbrev, Depth, Levels, Level
<1>3. /\ blockInfo[id] \in Seq(Abbrevs)
      /\ blockInfo' = [blockInfo EXCEPT ![id] = Append(blockInfo[id], a)]
      /\ Elems(Append(blockInfo[id], a)) = Elems(blockInfo[id]) \cup {a}
  BY ElemsAppend DEF EmitBlockInfoAbbrev, TypeOK
<1>4. RegisteredAbbrevs' = RegisteredAbbrevs \cup {a}
  <2>1. \A i \in BlockIds : Elems(blockInfo'[i]) = IF i = id THEN Elems(blockInfo[i]) \cup {a}
                                                             ELSE Elems(blockInfo[i])
    BY <1>3 DEF TypeOK
  <2> QED
    BY <2>1 DEF RegisteredAbbrevs
<1>5. Holders(a)' = {0}
  BY <1>1, <1>2, <1>4, FreshUnheld DEF Holders
<1>6. \A b \in Abbrevs \ {a} : Holders(b)' = Holders(b)
  BY <1>2, <1>4 DEF Holders
<1>7. /\ \A b \in Abbrevs : refs'[b] = Cardinality(Holders(b)')
      /\ live' = {b \in Abbrevs : Holders(b)' # {}}
  BY <1>1, <1>5, <1>6, NewHolder
<1>8. ListsDistinct'
  <2>1. ASSUME NEW id1 \in BlockIds, NEW id2 \in BlockIds,
               NEW j \in DOMAIN blockInfo'[id1], NEW k \in DOMAIN blockInfo'[id2],
               blockInfo'[id1][j] = blockInfo'[id2][k]
        PROVE  id1 = id2 /\ j = k
    <3> DEFINE n == Len(blockInfo[id])
    <3>1. \A i \in BlockIds : \A l \in DOMAIN blockInfo[i] : blockInfo[i][l] # a
      BY <1>1, FreshUnheld DEF RegisteredAbbrevs, Elems
    <3>2. /\ n \in Nat /\ DOMAIN blockInfo[id] = 1..n /\ DOMAIN blockInfo'[id] = 1..n+1
          /\ blockInfo'[id][n+1] = a
          /\ \A l \in DOMAIN blockInfo[id] : blockInfo'[id][l] = blockInfo[id][l]
      BY <1>3 DEF TypeOK
    <3>3. \A i \in BlockIds \ {id} : blockInfo'[i] = blockInfo[i]
      BY <1>3 DEF TypeOK
    <3>4. \A i \in BlockIds : \A l \in DOMAIN blockInfo'[i] :
            \/ i = id /\ l = n + 1 /\ blockInfo'[i][l] = a
            \/ l \in DOMAIN blockInfo[i] /\ blockInfo'[i][l] = blockInfo[i][l]
      BY <3>2, <3>3
    <3> HIDE DEF n
    <3> QED
      BY <2>1, <3>1, <3>4 DEF RefsExact, ListsDistinct
  <2> QED
    BY <1>2, <2>1 DEF RefsExact, ListsDistinct
<1> QED
  BY <1>7, <1>8 DEF RefsExact

LEMMA UnchangedHolders ==
  ASSUME RefsExact, UNCHANGED <<CurAbbrevs, BlockScope, blockInfo, refs, live>>
  PROVE  RefsExact'
BY DEF RefsExact, ListsDistinct, Holders, Levels, Level, Depth, RegisteredAbbrevs

LEMMA HeldStep == TypeInv /\ HeldInv /\ [Next]_vars => HeldInv'
<1> SUFFICES ASSUME TypeOK, StartsOrdered, DepthBounded, OuterClean, RefsExact, [Next]_vars
             PROVE  HeldInv'
  BY DEF TypeInv, HeldInv
<1>1. CASE UNCHANGED vars
  <2>1. RefsExact'
    BY <1>1, UnchangedHolders DEF vars
  <2>2. OuterClean' /\ DepthBounded'
    BY <1>1 DEF vars, OuterClean, DepthBounded, Level, Depth
  <2> QED
    BY <2>1, <2>2 DEF HeldInv
<1>2. CASE Next
  <2>1. ASSUME NEW id \in BlockIds, NEW n \in CodeWidths, EnterBlock(id, n) PROVE RefsExact'
    BY <2>1, EnterHolders DEF EnterBlock
  <2>2. ASSUME NEW n \in CodeWidths, EnterBlockInfoBlock(n) PROVE RefsExact'
    BY <2>2, EnterHolders, BlockIdsAssumption DEF EnterBlockInfoBlock
  <2>3. ASSUME NEW p \in Payloads, EmitRecord(p) PROVE RefsExact'
    BY <2>3, UnchangedHolders DEF EmitRecord
  <2>4. ASSUME NEW i \in DOMAIN CurAbbrevs, NEW p \in Payloads, EmitRecordWithAbbrev(i, p)
        PROVE  RefsExact'
    BY <2>4, UnchangedHolders DEF EmitRecordWithAbbrev
  <2>5. RefsExact'
    BY <1>2, <2>1, <2>2, <2>3, <2>4, ExitHolders, EmitAbbrevHolders,
       EmitBlockInfoAbbrevHolders, DestroyHolders DEF Next
  <2> QED
    BY <1>2, <2>5, OuterStep DEF HeldInv
<1> QED
  BY <1>1, <1>2

LEMMA HeldInit == Init => HeldInv
<1> SUFFICES ASSUME Init PROVE DepthBounded /\ OuterClean /\ RefsExact
  BY DEF HeldInv
<1>1. Depth = 0 /\ Levels = {1} /\ Level(1) = <<>> /\ DOMAIN Level(1) = {}
  BY DEF Init, Depth, Levels, Level
<1>2. \A id \in BlockIds : Elems(blockInfo[id]) = {} /\ DOMAIN blockInfo[id] = {}
  BY DEF Init, Elems
<1>3. \A a \in Abbrevs : Holders(a) = {}
  BY <1>1, <1>2 DEF Holders, RegisteredAbbrevs, Elems
<1>4. RefsExact
  BY <1>1, <1>2, <1>3, FS_EmptySet DEF Init, RefsExact, ListsDistinct
<1>5. bitNo % WordBits = 0
  BY BoundsAssumption DEF Init, WordBits
<1> QED
  BY <1>1, <1>4, <1>5, BoundsAssumption DEF Init, DepthBounded, OuterClean

LEMMA HeldCorrect == Spec => []HeldInv
BY HeldInit, HeldStep, TypeInvCorrect, PTL DEF Spec

\* No abbreviation is deleted while a block or a BLOCKINFO record lists it, and
\* none outlives the destructor: every count is the number of holders, for any
\* nesting the counter of BitCodeAbbrev can count (RefModAssumption).
THEOREM RefsCorrect == Spec => []RefsExact
<1>1. HeldInv => RefsExact
  BY DEF HeldInv
<1> QED
  BY <1>1, HeldCorrect, PTL

\* A caller that closes the blocks it opens never trips the destructor's
\* assertions.
THEOREM BalancedCorrect == Spec => []Balanced
<1>1. HeldInv /\ TypeInv => Balanced
  BY DEF HeldInv, TypeInv, TypeOK, OuterClean, Balanced, Level, Depth
<1> QED
  BY <1>1, HeldCorrect, TypeInvCorrect, PTL
--------------------------------------------------------------------------------
\* The reader

RScopes == [id : BlockIds \cup {-1}, width : CodeWidths \cup {2}, abbrevs : Seq(Abbrevs)]

ReaderType ==
  rd \in [scopes : Seq(RScopes), info : [BlockIds -> Seq(Abbrevs)],
          bid : BlockIds \cup {NoBID}, state : {"reading", "stopped"}]

RInv == ReaderType /\ AgreeInv

(* The reader's step on each kind of token, when the widths agree.         *)

LEMMA ReadOne == \A r, t : ReadAll(r, <<t>>) = Read(r, t)
BY DEF ReadAll

LEMMA ReadTwo == \A r, t, u : ReadAll(r, <<t, u>>) = Read(Read(r, t), u)
BY DEF ReadAll

LEMMA ReadKinds ==
  ASSUME NEW STATE r, NEW STATE t, t.width = Top(r).width
  PROVE  /\ t.op = "ENTER" => Read(r, t) = ReadEnter(r, t)
         /\ t.op = "END" => Read(r, t) = ReadEnd(r)
         /\ t.op = "DEFINE" => Read(r, t) = ReadDefine(r, t.abbrev)
         /\ t.op = "SETBID" => Read(r, t) = ReadSetBID(r, t)
         /\ t.op = "RECORD" => Read(r, t) = ReadRecord(r, t)
BY DEF Read

\* The innermost scope of the reader, under the invariant.
LEMMA TopAgrees ==
  ASSUME TypeOK, RInv
  PROVE  /\ Depth \in Nat /\ Len(rd.scopes) = Depth + 1 /\ Len(rd.scopes) \in Nat
         /\ Top(rd) = rd.scopes[Depth + 1] /\ Top(rd) \in RScopes
         /\ Top(rd).width = CurCodeSize /\ Top(rd).abbrevs = CurAbbrevs
         /\ Top(rd).id = BLOCKINFO <=> InBlockInfo
<1>1. Depth \in Nat /\ Len(rd.scopes) = Depth + 1
  BY LevelType DEF RInv, AgreeInv, ReaderAgrees
<1>2. Top(rd) = rd.scopes[Depth + 1] /\ Top(rd) \in RScopes
  BY <1>1 DEF Top, RInv, ReaderType
<1>3. Top(rd).width = CurCodeSize /\ Top(rd).abbrevs = CurAbbrevs
  BY <1>1, <1>2 DEF RInv, AgreeInv, ReaderAgrees, Levels, Width, Level
<1>4. Top(rd).id = BLOCKINFO <=> InBlockInfo
  BY <1>1, <1>2 DEF RInv, AgreeInv, IdsAgree, InBlockInfo, InBlock, BLOCKINFO
<1> QED
  BY <1>1, <1>2, <1>3, <1>4

LEMMA EnterWidths ==
  ASSUME TypeOK, NEW id \in BlockIds, NEW n \in CodeWidths, EnterSubblock(id, n)
  PROVE  /\ \A i \in Levels : Width(i)' = Width(i)
         /\ \A i : i = Depth + 2 => Width(i)' = n
<1>1. /\ Depth \in Nat /\ Depth' = Depth + 1
      /\ \A i \in 1..Depth : BlockScope'[i].PrevCodeSize = BlockScope[i].PrevCodeSize
      /\ BlockScope'[Depth + 1].PrevCodeSize = CurCodeSize
  BY EnterShape
<1>0. CurCodeSize' = n
  BY DEF EnterSubblock
<1>2. ASSUME NEW i \in Levels PROVE Width(i)' = Width(i)
  <2>1. CASE i = Depth + 1
    BY <1>1, <2>1 DEF Width
  <2>2. CASE i \in 1..Depth
    BY <1>1, <2>2 DEF Width
  <2> QED
    BY <1>1, <2>1, <2>2 DEF Levels
<1>3. ASSUME NEW i, i = Depth + 2 PROVE Width(i)' = n
  BY <1>0, <1>1, <1>3 DEF Width
<1> QED
  BY <1>2, <1>3

LEMMA EnterAgrees ==
  ASSUME TypeOK, RInv, ~destroyed, ~InBlockInfo,
         NEW id \in BlockIds, NEW n \in CodeWidths, EnterSubblock(id, n),
         id = BLOCKINFO => BlockInfoCurBID' = NoBID,
         rd' = ReadAll(rd, emitted')
  PROVE  RInv'
<1> DEFINE new == [id |-> id, width |-> n, abbrevs |-> rd.info[id]]
<1>1. rd.info = blockInfo /\ Inherited(id) = rd.info[id] /\ new \in RScopes /\ rd.state = "reading"
  BY DEF RInv, AgreeInv, ReaderAgrees, ReaderType, RScopes, Inherited
<1>2. /\ rd' = [rd EXCEPT !.scopes = Append(rd.scopes, new),
                          !.bid = IF id = BLOCKINFO THEN NoBID ELSE rd.bid]
  <2> DEFINE tok == [op |-> "ENTER", width |-> CurCodeSize, id |-> id, newWidth |-> n]
  <2>1. rd' = ReadAll(rd, <<tok>>)
    BY DEF EnterSubblock
  <2>2. rd' = Read(rd, tok)
    BY <2>1, ReadOne
  <2>3. tok.op = "ENTER" /\ tok.width = CurCodeSize /\ tok.id = id /\ tok.newWidth = n
    OBVIOUS
  <2> HIDE DEF tok
  <2>4. Read(rd, tok) = ReadEnter(rd, tok)
    BY <2>3, TopAgrees, ReadKinds
  <2> QED
    BY <2>2, <2>3, <2>4 DEF ReadEnter, RInv, ReaderType
<1> HIDE DEF new
<1>3. ReaderType'
  <2>1. Append(rd.scopes, new) \in Seq(RScopes) /\ rd.info \in [BlockIds -> Seq(Abbrevs)]
        /\ rd.bid \in BlockIds \cup {NoBID}
    BY <1>1 DEF RInv, ReaderType
  <2>2. (IF id = BLOCKINFO THEN NoBID ELSE rd.bid) \in BlockIds \cup {NoBID}
    BY <2>1
  <2> QED
    BY <1>1, <1>2, <2>1, <2>2 DEF RInv, ReaderType
<1>4. /\ rd'.scopes = Append(rd.scopes, new) /\ rd'.info = rd.info /\ rd'.state = "reading"
      /\ rd'.bid = IF id = BLOCKINFO THEN NoBID ELSE rd.bid
      /\ rd.scopes \in Seq(RScopes)
  BY <1>1, <1>2 DEF RInv, ReaderType
<1>5. /\ Depth \in Nat /\ Len(rd.scopes) = Depth + 1 /\ Len(rd'.scopes) = Depth + 2
      /\ \A i \in Levels : rd'.scopes[i] = rd.scopes[i]
      /\ rd'.scopes[Depth + 2] = new
  BY <1>4, TopAgrees DEF Levels
<1>6. ASSUME NEW i \in Levels'
      PROVE  rd'.scopes[i].width = Width(i)' /\ rd'.scopes[i].abbrevs = Level(i)'
  <2>1. CASE i \in Levels
    BY <2>1, <1>5, EnterWidths, EnterLevels DEF RInv, AgreeInv, ReaderAgrees
  <2>2. CASE i \notin Levels
    <3>1. i = Depth + 2
      BY <2>2, EnterLevels
    <3> QED
      BY <3>1, <1>1, <1>5, EnterWidths, EnterLevels DEF new
  <2> QED
    BY <2>1, <2>2
<1>7. /\ Depth' = Depth + 1 /\ openIds \in Seq(BlockIds) /\ Len(openIds) = Depth
      /\ openIds' = Append(openIds, id)
  BY EnterShape DEF EnterSubblock, TypeOK
<1>8. InBlockInfo' => rd'.bid = BlockInfoCurBID'
  BY <1>4, <1>5, <1>7 DEF InBlockInfo
<1>9. IdsAgree'
  <2>1. rd'.scopes[1].id = -1
    BY <1>5 DEF RInv, AgreeInv, IdsAgree, Levels
  <2>2. ASSUME NEW i \in 1..Depth' PROVE rd'.scopes[i + 1].id = openIds'[i]
    <3>1. CASE i \in 1..Depth
      <4>1. i + 1 \in Levels /\ openIds'[i] = openIds[i]
        BY <3>1, <1>5, <1>7 DEF Levels
      <4> QED
        BY <3>1, <4>1, <1>5 DEF RInv, AgreeInv, IdsAgree
    <3>2. CASE i \notin 1..Depth
      <4>1. i = Depth + 1 /\ openIds'[i] = id /\ i + 1 = Depth + 2
        BY <3>2, <1>5, <1>7
      <4> QED
        BY <4>1, <1>5 DEF new
    <3> QED
      BY <3>1, <3>2
  <2>3. ASSUME NEW i \in 1..Depth' - 1 PROVE openIds'[i] # BLOCKINFO
    <3>1. i \in 1..Depth /\ openIds'[i] = openIds[i]
      BY <1>5, <1>7
    <3> QED
      BY <3>1, <1>5 DEF RInv, AgreeInv, IdsAgree, InBlockInfo, InBlock
  <2> QED
    BY <2>1, <2>2, <2>3 DEF IdsAgree
<1>10. blockInfo' = blockInfo
  BY DEF EnterSubblock
<1>11. ReaderAgrees'
  <2>1. rd'.state = "reading" /\ Len(rd'.scopes) = Depth' + 1
    BY <1>4, <1>5, <1>7
  <2>2. rd'.info = blockInfo'
    BY <1>1, <1>4, <1>10
  <2> QED
    BY <1>6, <1>8, <2>1, <2>2 DEF ReaderAgrees
<1> QED
  BY <1>3, <1>9, <1>11 DEF RInv, AgreeInv

LEMMA ExitAgrees ==
  ASSUME TypeOK, RInv, ExitBlock, rd' = ReadAll(rd, emitted')
  PROVE  RInv'
<1>1. /\ Depth \in Nat /\ Depth > 0 /\ Depth' = Depth - 1
      /\ \A i \in Levels' : i \in Levels /\ i # Depth + 1 /\ Level(i)' = Level(i)
  BY ExitLevels
<1>2. rd' = [rd EXCEPT !.scopes = SubSeq(rd.scopes, 1, Depth)]
  <2> DEFINE tok == [op |-> "END", width |-> CurCodeSize]
  <2>1. rd' = ReadAll(rd, <<tok>>)
    BY DEF ExitBlock
  <2>2. rd' = Read(rd, tok)
    BY <2>1, ReadOne
  <2>3. tok.op = "END" /\ tok.width = CurCodeSize
    OBVIOUS
  <2> HIDE DEF tok
  <2>4. Read(rd, tok) = ReadEnd(rd)
    BY <2>3, TopAgrees, ReadKinds
  <2>5. Len(rd.scopes) # 1 /\ Len(rd.scopes) - 1 = Depth
    BY <1>1, TopAgrees
  <2> QED
    BY <2>2, <2>4, <2>5 DEF ReadEnd
<1>3. /\ rd'.scopes = SubSeq(rd.scopes, 1, Depth) /\ rd'.info = rd.info
      /\ rd'.state = "reading" /\ rd'.bid = rd.bid /\ rd.scopes \in Seq(RScopes)
      /\ Len(rd.scopes) = Depth + 1
  BY <1>2, TopAgrees DEF RInv, ReaderType, AgreeInv, ReaderAgrees
<1>4. /\ SubSeq(rd.scopes, 1, Depth) \in Seq(RScopes) /\ Len(rd'.scopes) = Depth' + 1
      /\ \A i \in 1..Depth : rd'.scopes[i] = rd.scopes[i]
  BY <1>1, <1>3
<1>5. ReaderType'
  BY <1>2, <1>4 DEF RInv, ReaderType
<1>6. ASSUME NEW i \in Levels'
      PROVE  rd'.scopes[i].width = Width(i)' /\ rd'.scopes[i].abbrevs = Level(i)'
  <2>1. i \in 1..Depth /\ i \in Levels
    BY <1>1 DEF Levels
  <2>2. Width(i)' = Width(i)
    <3>1. CASE i = Depth
      BY <1>1, <3>1, ExitShape DEF Width, ExitBlock
    <3>2. CASE i # Depth
      BY <1>1, <2>1, <3>2, ExitShape DEF Width
    <3> QED
      BY <3>1, <3>2
  <2> QED
    BY <1>1, <1>4, <2>1, <2>2 DEF RInv, AgreeInv, ReaderAgrees
<1>7. openIds \in Seq(BlockIds) /\ Len(openIds) = Depth /\ openIds' = SubSeq(openIds, 1, Depth - 1)
  BY DEF ExitBlock, TypeOK
<1>8. \A i \in 1..Depth' : openIds'[i] = openIds[i] /\ openIds[i] # BLOCKINFO
  BY <1>1, <1>7 DEF RInv, AgreeInv, IdsAgree
<1>9. ~InBlockInfo'
  BY <1>1, <1>8 DEF InBlockInfo, InBlock
<1>10. IdsAgree'
  <2>1. rd'.scopes[1].id = -1
    BY <1>1, <1>4 DEF RInv, AgreeInv, IdsAgree
  <2>2. ASSUME NEW i \in 1..Depth' PROVE rd'.scopes[i + 1].id = openIds'[i]
    <3>1. i \in 1..Depth /\ i + 1 \in 1..Depth
      BY <1>1
    <3> QED
      BY <3>1, <1>4, <1>8 DEF RInv, AgreeInv, IdsAgree
  <2>3. \A i \in 1..Depth' - 1 : openIds'[i] # BLOCKINFO
    BY <1>1, <1>8
  <2> QED
    BY <2>1, <2>2, <2>3 DEF IdsAgree
<1>11. ~destroyed' => rd'.info = blockInfo'
  BY <1>3 DEF ExitBlock, RInv, AgreeInv, ReaderAgrees
<1>12. ReaderAgrees'
  BY <1>3, <1>4, <1>6, <1>9, <1>11 DEF ReaderAgrees
<1> QED
  BY <1>5, <1>10, <1>12 DEF RInv, AgreeInv

(* The operations that keep the nesting.                                   *)

Nesting == <<BlockScope, CurCodeSize, openIds, destroyed>>

\* A step that keeps the nesting, the lists of the writer and those of the
\* reader keeps their agreement.
LEMMA SameNesting ==
  ASSUME TypeOK, RInv, UNCHANGED Nesting, ReaderType',
         rd'.state = "reading", Len(rd'.scopes) = Len(rd.scopes),
         \A i \in Levels : /\ rd'.scopes[i].id = rd.scopes[i].id
                           /\ rd'.scopes[i].width = rd.scopes[i].width
                           /\ rd'.scopes[i].abbrevs = Level(i)',
         InBlockInfo => rd'.bid = BlockInfoCurBID',
         ~destroyed => rd'.info = blockInfo'
  PROVE  RInv'
<1>1. /\ Depth' = Depth /\ Levels' = Levels /\ (InBlockInfo' <=> InBlockInfo)
      /\ \A i \in Levels : Width(i)' = Width(i)
  BY DEF Nesting, Depth, Levels, Width, InBlockInfo, InBlock
<1>2. ReaderAgrees'
  BY <1>1 DEF ReaderAgrees, RInv, AgreeInv, Nesting
<1>3. Depth \in Nat /\ \A i \in 1..Depth : i + 1 \in Levels
  BY LevelType DEF Levels
<1>4. 1 \in Levels /\ openIds' = openIds
  BY <1>3 DEF Levels, Nesting
<1>5. rd'.scopes[1].id = -1
  BY <1>4 DEF RInv, AgreeInv, IdsAgree
<1>6. ASSUME NEW i \in 1..Depth PROVE rd'.scopes[i + 1].id = openIds'[i]
  BY <1>3, <1>4 DEF RInv, AgreeInv, IdsAgree
<1>7. IdsAgree'
  BY <1>1, <1>4, <1>5, <1>6 DEF IdsAgree, RInv, AgreeInv
<1> QED
  BY <1>2, <1>7 DEF RInv, AgreeInv

\* The steps that put nothing in the stream a reader keeps.
LEMMA SilentAgrees ==
  ASSUME TypeOK, RInv, UNCHANGED <<Nesting, CurAbbrevs, rd>>,
         InBlockInfo => BlockInfoCurBID' = BlockInfoCurBID, blockInfo' = blockInfo
  PROVE  RInv'
<1>1. \A i \in Levels : Level(i)' = Level(i)
  BY DEF Level, Nesting, Depth
<1> QED
  BY <1>1, SameNesting DEF RInv, AgreeInv, ReaderAgrees, ReaderType

\* A record is read as it was laid out.
LEMMA RecordRead ==
  ASSUME TypeOK, RInv, NEW code, NEW a,
         \/ code = UNABBREV_RECORD
         \/ \E i \in DOMAIN CurAbbrevs : code = AbbrevIdOf(i) /\ a = CurAbbrevs[i]
  PROVE  ReadAll(rd, << Writes(code, a) >>) = rd
<1> DEFINE tok == Writes(code, a)
<1>1. tok.op = "RECORD" /\ tok.width = CurCodeSize /\ tok.code = code /\ tok.abbrev = a
  BY DEF Writes
<1> HIDE DEF tok
<1>2. Read(rd, tok) = ReadRecord(rd, tok)
  BY <1>1, TopAgrees, ReadKinds
<1>3. Top(rd).abbrevs = CurAbbrevs /\ CurAbbrevs \in Seq(Abbrevs)
  BY TopAgrees DEF TypeOK
<1>4. ReadRecord(rd, tok) = rd
  BY <1>1, <1>3 DEF ReadRecord, AbbrevIdOf, FIRST_APPLICATION_ABBREV, UNABBREV_RECORD
<1> QED
  BY <1>2, <1>4, ReadOne DEF tok

LEMMA RecordAgrees ==
  ASSUME TypeOK, RInv, rd' = ReadAll(rd, emitted'), NEW p \in Payloads,
         EmitRecord(p) \/ \E i \in DOMAIN CurAbbrevs : EmitRecordWithAbbrev(i, p)
  PROVE  RInv'
<1>1. rd' = rd
  BY RecordRead DEF EmitRecord, EmitRecordWithAbbrev
<1> QED
  BY <1>1, SilentAgrees DEF EmitRecord, EmitRecordWithAbbrev, Nesting

LEMMA DestroyAgrees ==
  ASSUME TypeOK, RInv, Destroy, rd' = ReadAll(rd, emitted')
  PROVE  RInv'
<1>1. rd' = rd /\ destroyed'
  BY DEF Destroy, ReadAll
<1>2. UNCHANGED <<BlockScope, CurCodeSize, openIds, CurAbbrevs, BlockInfoCurBID>>
  BY DEF Destroy
<1>3. /\ Depth' = Depth /\ Levels' = Levels /\ (InBlockInfo' <=> InBlockInfo)
      /\ \A i \in Levels : Width(i)' = Width(i) /\ Level(i)' = Level(i)
  BY <1>2 DEF Depth, Levels, Width, Level, InBlockInfo, InBlock
<1> QED
  BY <1>1, <1>2, <1>3 DEF RInv, ReaderType, AgreeInv, ReaderAgrees, IdsAgree

(* Definitions of abbreviations.                                           *)

LEMMA DefineAgrees ==
  ASSUME TypeOK, RInv, NEW a \in Abbrevs, NEW p \in Payloads, EmitAbbrev(a, p),
         rd' = ReadAll(rd, emitted')
  PROVE  RInv'
<1> DEFINE scope == [Top(rd) EXCEPT !.abbrevs = Append(@, a)]
           tok == Defines(a)
<1>0. tok.op = "DEFINE" /\ tok.width = CurCodeSize /\ tok.abbrev = a /\ rd' = ReadAll(rd, <<tok>>)
  BY DEF EmitAbbrev, Defines
<1> HIDE DEF tok
<1>1. /\ Depth \in Nat /\ Len(rd.scopes) = Depth + 1
      /\ rd.scopes \in Seq(RScopes) /\ rd.state = "reading" /\ destroyed = FALSE
      /\ Top(rd) = rd.scopes[Depth + 1] /\ Top(rd) \in RScopes
      /\ Top(rd).abbrevs = CurAbbrevs /\ Top(rd).id # BLOCKINFO
      /\ CurAbbrevs' = Append(CurAbbrevs, a)
  BY TopAgrees DEF EmitAbbrev, RInv, ReaderType, AgreeInv, ReaderAgrees
<1>2. /\ scope \in RScopes /\ scope.abbrevs = CurAbbrevs'
      /\ scope.id = Top(rd).id /\ scope.width = Top(rd).width
  <2>1. CurAbbrevs' \in Seq(Abbrevs) /\ scope = [Top(rd) EXCEPT !.abbrevs = CurAbbrevs']
    BY <1>1 DEF RScopes, TypeOK
  <2> QED
    BY <1>1, <2>1 DEF RScopes
<1> HIDE DEF scope
<1>3. rd' = [rd EXCEPT !.scopes = [rd.scopes EXCEPT ![Depth + 1] = scope]]
  <2>1. rd' = ReadDefine(rd, a)
    BY <1>0, TopAgrees, ReadKinds, ReadOne
  <2> QED
    BY <2>1, <1>1 DEF ReadDefine, SetTop, scope
<1>4. /\ [rd.scopes EXCEPT ![Depth + 1] = scope] \in Seq(RScopes)
      /\ Len([rd.scopes EXCEPT ![Depth + 1] = scope]) = Len(rd.scopes)
  BY <1>1, <1>2
<1>5. /\ rd'.scopes = [rd.scopes EXCEPT ![Depth + 1] = scope]
      /\ rd'.info = rd.info /\ rd'.bid = rd.bid /\ rd'.state = "reading" /\ ReaderType'
  BY <1>1, <1>3, <1>4 DEF RInv, ReaderType
<1>6. UNCHANGED Nesting /\ Depth' = Depth
  BY DEF EmitAbbrev, Nesting, Depth
<1>7. ASSUME NEW i \in Levels
      PROVE  /\ rd'.scopes[i].id = rd.scopes[i].id
             /\ rd'.scopes[i].width = rd.scopes[i].width
             /\ rd'.scopes[i].abbrevs = Level(i)'
  <2>1. CASE i = Depth + 1
    BY <1>1, <1>2, <1>5, <1>6, <2>1 DEF Level
  <2>2. CASE i # Depth + 1
    <3>1. i \in 1..Depth /\ rd'.scopes[i] = rd.scopes[i]
      BY <1>1, <1>5, <2>2 DEF Levels
    <3>2. Level(i)' = Level(i)
      BY <1>6, <2>2 DEF Level, Nesting
    <3> QED
      BY <3>1, <3>2 DEF RInv, AgreeInv, ReaderAgrees
  <2> QED
    BY <2>1, <2>2
<1>8. InBlockInfo => rd'.bid = BlockInfoCurBID'
  BY DEF EmitAbbrev
<1>9. rd'.info = blockInfo' /\ Len(rd'.scopes) = Len(rd.scopes)
  BY <1>1, <1>4, <1>5 DEF EmitAbbrev, RInv, AgreeInv, ReaderAgrees
<1> QED
  BY <1>5, <1>6, <1>7, <1>8, <1>9, SameNesting

\* In BLOCKINFO: the reader that has selected id registers the definition for id.
LEMMA RegisterRead ==
  ASSUME TypeOK, RInv, InBlockInfo, NEW id \in BlockIds, NEW a \in Abbrevs, NEW STATE r,
         r = [rd EXCEPT !.bid = id]
  PROVE  Read(r, Defines(a)) = [rd EXCEPT !.bid = id, !.info = [rd.info EXCEPT ![id] = Append(@, a)]]
<1> DEFINE tok == Defines(a)
<1>0. tok.op = "DEFINE" /\ tok.width = CurCodeSize /\ tok.abbrev = a
  BY DEF Defines
<1> HIDE DEF tok
<1>1. /\ r.bid = id /\ r.info = rd.info /\ r.scopes = rd.scopes /\ r.state = rd.state
      /\ Top(r) = Top(rd)
  BY DEF RInv, ReaderType, Top
<1>2. Read(r, tok) = ReadDefine(r, a)
  BY <1>0, <1>1, TopAgrees, ReadKinds
<1>3. ReadDefine(r, a) = [r EXCEPT !.info = [r.info EXCEPT ![id] = Append(@, a)]]
  <2>1. Top(r).id = BLOCKINFO /\ id # NoBID
    <3>1. Top(rd).id = BLOCKINFO
      BY TopAgrees
    <3>2. id # NoBID
      BY BlockIdsAssumption DEF NoBID
    <3> QED
      BY <1>1, <3>1, <3>2
  <2>2. ReadDefine(r, a) = [r EXCEPT !.info = [r.info EXCEPT ![r.bid] = Append(@, a)]]
    BY <1>1, <2>1 DEF ReadDefine
  <2> QED
    BY <1>1, <2>2
<1> QED
  BY <1>1, <1>2, <1>3 DEF tok, RInv, ReaderType

LEMMA RegisterAgrees ==
  ASSUME TypeOK, RInv, NEW id \in BlockIds, NEW a \in Abbrevs, NEW p \in Payloads,
         EmitBlockInfoAbbrev(id, a, p), rd' = ReadAll(rd, emitted')
  PROVE  RInv'
<1> DEFINE sel == [rd EXCEPT !.bid = id]
<1>1. InBlockInfo /\ destroyed = FALSE /\ rd.bid = BlockInfoCurBID /\ rd.info = blockInfo
  BY DEF EmitBlockInfoAbbrev, RInv, AgreeInv, ReaderAgrees
<1>2. rd' = Read(sel, Defines(a))
  <2>1. CASE NeedsSetBID(id)
    <3> DEFINE tok == [op |-> "SETBID", width |-> CurCodeSize, id |-> id]
    <3>1. rd' = ReadAll(rd, <<tok, Defines(a)>>)
      BY <2>1 DEF EmitBlockInfoAbbrev
    <3>2. tok.op = "SETBID" /\ tok.width = CurCodeSize /\ tok.id = id
      OBVIOUS
    <3> HIDE DEF tok
    <3>3. Read(rd, tok) = sel
      BY <3>2, TopAgrees, ReadKinds DEF ReadSetBID
    <3> QED
      BY <3>1, <3>3, ReadTwo
  <2>2. CASE ~NeedsSetBID(id)
    <3>1. sel = rd
      BY <1>1, <2>2 DEF NeedsSetBID, RInv, ReaderType
    <3>2. rd' = ReadAll(rd, <<Defines(a)>>)
      BY <2>2 DEF EmitBlockInfoAbbrev
    <3> QED
      BY <3>1, <3>2, ReadOne
  <2> QED
    BY <2>1, <2>2
<1>3. rd' = [rd EXCEPT !.bid = id, !.info = [rd.info EXCEPT ![id] = Append(@, a)]]
  BY <1>1, <1>2, RegisterRead
<1>4. [rd.info EXCEPT ![id] = Append(@, a)] \in [BlockIds -> Seq(Abbrevs)]
  BY DEF RInv, ReaderType
<1>5. /\ rd'.info = [rd.info EXCEPT ![id] = Append(@, a)] /\ rd'.bid = id
      /\ rd'.scopes = rd.scopes /\ rd'.state = rd.state /\ ReaderType'
  BY <1>3, <1>4 DEF RInv, ReaderType
<1>6. blockInfo' = rd'.info /\ BlockInfoCurBID' = id
  BY <1>1, <1>5 DEF EmitBlockInfoAbbrev, SwitchToBlockID
<1>7. UNCHANGED <<Nesting, CurAbbrevs>>
  BY DEF EmitBlockInfoAbbrev, Nesting
<1>8. \A i \in Levels : Level(i)' = Level(i)
  BY <1>7 DEF Level, Nesting, Depth
<1> QED
  BY <1>5, <1>6, <1>7, <1>8, SameNesting DEF RInv, AgreeInv, ReaderAgrees

(* Every step.                                                             *)

LEMMA AgreeStep == TypeInv /\ RInv /\ [RTNext]_rtVars => RInv'
<1> SUFFICES ASSUME TypeOK, StartsOrdered, RInv, [RTNext]_rtVars PROVE RInv'
  BY DEF TypeInv
<1>1. CASE UNCHANGED rtVars
  BY <1>1, SilentAgrees DEF rtVars, vars, Nesting
<1>2. CASE RTNext
  <2>0. rd' = ReadAll(rd, emitted') /\ Next
    BY <1>2 DEF RTNext
  <2>1. ASSUME NEW id \in BlockIds, NEW n \in CodeWidths, EnterBlock(id, n) PROVE RInv'
    BY <2>0, <2>1, EnterAgrees DEF EnterBlock
  <2>2. ASSUME NEW n \in CodeWidths, EnterBlockInfoBlock(n) PROVE RInv'
    BY <2>0, <2>2, EnterAgrees, BlockIdsAssumption DEF EnterBlockInfoBlock, UnselectBlockID
  <2>3. ASSUME ExitBlock \/ Destroy PROVE RInv'
    BY <2>0, <2>3, ExitAgrees, DestroyAgrees
  <2>4. ASSUME NEW p \in Payloads,
               EmitRecord(p) \/ \E i \in DOMAIN CurAbbrevs : EmitRecordWithAbbrev(i, p)
        PROVE  RInv'
    BY <2>0, <2>4, RecordAgrees
  <2>5. ASSUME NEW a \in Abbrevs, NEW p \in Payloads,
               EmitAbbrev(a, p) \/ \E id \in BlockIds : EmitBlockInfoAbbrev(id, a, p)
        PROVE  RInv'
    BY <2>0, <2>5, DefineAgrees, RegisterAgrees
  <2> QED
    BY <2>0, <2>1, <2>2, <2>3, <2>4, <2>5 DEF Next
<1> QED
  BY <1>1, <1>2

LEMMA AgreeInit == RTInit => RInv
<1> SUFFICES ASSUME RTInit PROVE RInv
  OBVIOUS
<1>1. Depth = 0 /\ Levels = {1} /\ Level(1) = <<>> /\ Width(1) = 2 /\ ~InBlockInfo
  BY DEF RTInit, Init, Depth, Levels, Level, Width, InBlockInfo, InBlock
<1>2. ReaderType
  BY DEF RTInit, ReaderType, RScopes
<1>3. ReaderAgrees /\ IdsAgree
  BY <1>1 DEF RTInit, Init, ReaderAgrees, IdsAgree
<1> QED
  BY <1>2, <1>3 DEF RInv, AgreeInv

\* For any block ids, code widths and abbreviations, at any depth: a reader that
\* sees only the stream reads every code with the width it was written with and
\* every abbreviated record by the abbreviation it was laid out by.
THEOREM ReaderCorrect == RTSpec => []ReaderAgrees
<1>1. RTSpec => Spec
  <2>1. RTInit => Init
    BY DEF RTInit
  <2>2. [RTNext]_rtVars => [Next]_vars
    BY DEF RTNext, rtVars
  <2> QED
    BY <2>1, <2>2, PTL DEF RTSpec, Spec
<1>2. RInv => ReaderAgrees
  BY DEF RInv, AgreeInv
<1> QED
  BY <1>1, <1>2, TypeInvCorrect, AgreeInit, AgreeStep, PTL DEF RTSpec

------------------------------------------------------------------------------
(* The primitives.  They implement the stream of bits, for every word size *)
(* and every value that fits: BitEmitter's EmitterSpec implies BitStream's.*)

\* An emitter between two operations.
Good(e) ==
  /\ e \in [out : Seq(Bit), bit : 0..W-1, value : Word]
  /\ Aligned(Len(e.out))
  /\ \A j \in e.bit..W-1 : e.value[j] = 0

Pend(e) == [i \in 1..e.bit |-> e.value[i - 1]]

LEMMA GoodType ==
  ASSUME NEW e, Good(e)
  PROVE  /\ e.out \in Seq(Bit) /\ e.bit \in 0..W-1 /\ e.value \in Word
         /\ Aligned(Len(e.out)) /\ \A j \in e.bit..W-1 : e.value[j] = 0
BY DEF Good

LEMMA ConcatShape ==
  ASSUME NEW s \in Seq(Bit), NEW t \in Seq(Bit)
  PROVE  /\ s \o t \in Seq(Bit) /\ Len(s) \in Nat /\ Len(t) \in Nat
         /\ Len(s \o t) = Len(s) + Len(t)
         /\ \A i \in 1..Len(s) : (s \o t)[i] = s[i]
         /\ \A i \in 1..Len(t) : (s \o t)[Len(s) + i] = t[i]
<1>1. Len(s) \in Nat /\ Len(t) \in Nat
  OBVIOUS
<1>2. /\ s \o t \in Seq(Bit) /\ Len(s \o t) = Len(s) + Len(t)
      /\ \A i \in 1..Len(s) + Len(t) : (s \o t)[i] = IF i <= Len(s) THEN s[i] ELSE t[i - Len(s)]
  BY ConcatProperties
<1>3. ASSUME NEW i \in 1..Len(t)
      PROVE  Len(s) + i \in 1..Len(s) + Len(t) /\ ~(Len(s) + i <= Len(s))
             /\ (Len(s) + i) - Len(s) = i
  BY <1>1
<1>4. \A i \in 1..Len(t) : (s \o t)[Len(s) + i] = t[i]
  BY <1>2, <1>3
<1>5. \A i \in 1..Len(s) : (s \o t)[i] = s[i]
  BY <1>1, <1>2
<1> QED
  BY <1>1, <1>2, <1>4, <1>5

LEMMA StreamShape ==
  ASSUME NEW e, e.out \in Seq(Bit), e.bit \in 0..W-1, e.value \in Word
  PROVE  /\ Stream(e) \in Seq(Bit)
         /\ Len(Stream(e)) = Len(e.out) + e.bit
         /\ \A i \in 1..Len(e.out) : Stream(e)[i] = e.out[i]
         /\ \A i \in 1..e.bit : Stream(e)[Len(e.out) + i] = e.value[i - 1]
<1>1. Pend(e) \in Seq(Bit) /\ Len(Pend(e)) = e.bit /\ \A i \in 1..e.bit : Pend(e)[i] = e.value[i - 1]
  BY WordAssumption DEF Pend, Word
<1>2. Stream(e) = e.out \o Pend(e)
  BY DEF Stream, Pend
<1> DEFINE p == Pend(e)
           o == e.out
<1>3. o \in Seq(Bit) /\ p \in Seq(Bit) /\ Len(p) = e.bit
  BY <1>1
<1>4. Stream(e) = o \o p
  BY <1>2
<1> HIDE DEF Pend, p, o
<1>5. /\ o \o p \in Seq(Bit) /\ Len(o \o p) = Len(o) + e.bit
      /\ \A i \in 1..Len(o) : (o \o p)[i] = o[i]
      /\ \A i \in 1..e.bit : (o \o p)[Len(o) + i] = p[i]
  <2>1. /\ o \o p \in Seq(Bit) /\ Len(o \o p) = Len(o) + Len(p)
        /\ \A i \in 1..Len(o) : (o \o p)[i] = o[i]
        /\ \A i \in 1..Len(p) : (o \o p)[Len(o) + i] = p[i]
    BY <1>3, ConcatShape
  <2> QED
    BY <1>3, <2>1
<1> QED
  BY <1>1, <1>4, <1>5 DEF p, o

LEMMA AlignedWord ==
  ASSUME NEW n \in Nat, Aligned(n)
  PROVE  Aligned(n + W)
<1>1. PICK q \in 0..n : n = q * W
  BY DEF Aligned
<1>2. n + W = (q + 1) * W /\ q + 1 \in 0..n+W
  BY <1>1, WordAssumption
<1> QED
  BY <1>2 DEF Aligned

LEMMA WriteWordShape ==
  ASSUME NEW out \in Seq(Bit), NEW w \in Word
  PROVE  /\ WriteWord(out, w) \in Seq(Bit)
         /\ Len(WriteWord(out, w)) = Len(out) + W
         /\ \A i \in 1..Len(out) : WriteWord(out, w)[i] = out[i]
         /\ \A i \in 1..W : WriteWord(out, w)[Len(out) + i] = w[i - 1]
<1>1. /\ WordBitsOf(w) \in Seq(Bit) /\ Len(WordBitsOf(w)) = W
      /\ \A i \in 1..W : WordBitsOf(w)[i] = w[i - 1]
  BY WordAssumption DEF WordBitsOf, Word
<1> QED
  BY <1>1, ConcatShape DEF WriteWord

\* The pending word once a value is ORed into it: its CurBit bits, then the bits
\* of the value that fit.
LEMMA Merged ==
  ASSUME NEW e, Good(e), NEW v \in Seq(Bit)
  PROVE  /\ Or(e.value, Shl(v, e.bit)) \in Word
         /\ \A j \in 0..W-1 :
              Or(e.value, Shl(v, e.bit))[j] =
                IF j < e.bit THEN e.value[j]
                ELSE IF j - e.bit < Len(v) THEN v[j - e.bit + 1] ELSE 0
<1>1. \A j \in 0..W-1 : e.value[j] \in Bit
  BY GoodType DEF Word
<1>2. \A i \in 1..Len(v) : v[i] \in Bit
  OBVIOUS
<1>3. Or(e.value, Shl(v, e.bit)) \in Word
  BY DEF Or, Word, Bit
<1>4. ASSUME NEW j \in 0..W-1, j < e.bit
      PROVE  Or(e.value, Shl(v, e.bit))[j] = e.value[j]
  BY <1>1, <1>4, GoodType, WordAssumption DEF Or, Shl, Bit
<1>5. ASSUME NEW j \in 0..W-1, ~(j < e.bit)
      PROVE  Or(e.value, Shl(v, e.bit))[j] = IF j - e.bit < Len(v) THEN v[j - e.bit + 1] ELSE 0
  <2>1. e.value[j] = 0 /\ e.bit =< j
    BY <1>5, GoodType, WordAssumption
  <2>2. Or(e.value, Shl(v, e.bit))[j] = IF Shl(v, e.bit)[j] = 1 THEN 1 ELSE 0
    BY <2>1 DEF Or
  <2>3. Shl(v, e.bit)[j] = IF j - e.bit < Len(v) THEN v[j - e.bit + 1] ELSE 0
    BY <2>1 DEF Shl
  <2>4. j - e.bit < Len(v) => v[j - e.bit + 1] \in Bit
    BY <2>1, GoodType, <1>2, WordAssumption
  <2> QED
    BY <2>2, <2>3, <2>4 DEF Bit
<1> QED
  BY <1>3, <1>4, <1>5

LEMMA ModOnce ==
  ASSUME NEW x \in Nat, W =< x, x < 2 * W
  PROVE  x % W = x - W
BY WordAssumption

\* Emit appends the bits of its value and leaves the emitter good.
LEMMA EmitAppends ==
  ASSUME NEW e, Good(e), NEW v \in Seq(Bit), Len(v) \in 1..W
  PROVE  Good(Emitted(e, v)) /\ Stream(Emitted(e, v)) = Stream(e) \o v
<1> DEFINE m == Or(e.value, Shl(v, e.bit))
           n == Len(v)
           r == Emitted(e, v)
           sv == Stream(e) \o v
<1>0. /\ e.out \in Seq(Bit) /\ e.bit \in 0..W-1 /\ e.value \in Word /\ W \in Nat /\ W > 0
      /\ Aligned(Len(e.out)) /\ n \in 1..W /\ Len(e.out) \in Nat
      /\ e \in [out : Seq(Bit), bit : 0..W-1, value : Word]
  BY GoodType, WordAssumption DEF Good
<1>1. /\ m \in Word
      /\ \A j \in 0..W-1 : m[j] = IF j < e.bit THEN e.value[j]
                                  ELSE IF j - e.bit < n THEN v[j - e.bit + 1] ELSE 0
  BY Merged
<1>2. /\ sv \in Seq(Bit) /\ Len(sv) = Len(e.out) + e.bit + n
      /\ \A i \in 1..Len(e.out) : sv[i] = e.out[i]
      /\ \A i \in 1..e.bit : sv[Len(e.out) + i] = e.value[i - 1]
      /\ \A i \in 1..n : sv[Len(e.out) + e.bit + i] = v[i]
  <2>1. /\ Stream(e) \in Seq(Bit) /\ Len(Stream(e)) = Len(e.out) + e.bit
        /\ \A i \in 1..Len(e.out) : Stream(e)[i] = e.out[i]
        /\ \A i \in 1..e.bit : Stream(e)[Len(e.out) + i] = e.value[i - 1]
    BY <1>0, StreamShape
  <2>2. /\ Stream(e) \o v \in Seq(Bit) /\ Len(Stream(e) \o v) = Len(Stream(e)) + n
        /\ \A i \in 1..Len(Stream(e)) : (Stream(e) \o v)[i] = Stream(e)[i]
        /\ \A i \in 1..n : (Stream(e) \o v)[Len(Stream(e)) + i] = v[i]
    BY <2>1, ConcatShape
  <2> DEFINE s == Stream(e)
  <2> HIDE DEF s, sv
  <2>3. /\ \A i \in 1..Len(e.out) : i \in 1..Len(s)
        /\ \A i \in 1..e.bit : Len(e.out) + i \in 1..Len(s)
    BY <1>0, <2>1 DEF s
  <2>4. \A i \in 1..Len(e.out) : sv[i] = e.out[i]
    BY <2>1, <2>2, <2>3 DEF s, sv
  <2>5. \A i \in 1..e.bit : sv[Len(e.out) + i] = e.value[i - 1]
    BY <2>1, <2>2, <2>3 DEF s, sv
  <2> QED
    BY <2>1, <2>2, <2>4, <2>5 DEF sv
<1> HIDE DEF m, n, sv
<1>3. CASE e.bit + n < W
  <2>1. r = [e EXCEPT !.value = m, !.bit = e.bit + n]
    BY <1>3 DEF Emitted, Pending, m, n
  <2>0. e.bit + n \in 0..W-1
    BY <1>0, <1>3
  <2>2. /\ r \in [out : Seq(Bit), bit : 0..W-1, value : Word]
        /\ r.out = e.out /\ r.bit = e.bit + n /\ r.value = m
    BY <1>0, <1>1, <2>0, <2>1
  <2> HIDE DEF r
  <2>3. \A j \in r.bit..W-1 : r.value[j] = 0
    BY <1>0, <1>1, <2>2
  <2>4. Good(r)
    BY <1>0, <2>2, <2>3 DEF Good
  <2>9. /\ Stream(r) \in Seq(Bit) /\ Len(Stream(r)) = Len(e.out) + (e.bit + n)
        /\ \A i \in 1..Len(e.out) : Stream(r)[i] = e.out[i]
        /\ \A i \in 1..(e.bit + n) : Stream(r)[Len(e.out) + i] = m[i - 1]
    <3>1. r.out \in Seq(Bit) /\ r.bit \in 0..W-1 /\ r.value \in Word
      BY <1>0, <1>1, <2>0, <2>2
    <3> QED
      BY <2>2, <3>1, StreamShape
  <2>5. Len(Stream(r)) = Len(sv) /\ Stream(r) \in Seq(Bit)
    BY <1>0, <1>2, <2>9
  <2>6. ASSUME NEW i \in 1..Len(Stream(r)) PROVE Stream(r)[i] = sv[i]
    <3>1. CASE i =< Len(e.out)
      <4>1. i \in 1..Len(e.out)
        BY <1>0, <3>1
      <4> QED
        BY <1>2, <2>9, <4>1
    <3>2. CASE i > Len(e.out)
      <4>1. PICK k \in 1..(e.bit + n) : i = Len(e.out) + k
        <5>1. Len(Stream(r)) = Len(e.out) + e.bit + n /\ i - Len(e.out) \in 1..(e.bit + n)
          BY <1>0, <2>9, <3>2
        <5> QED
          BY <1>0, <5>1
      <4>2. Stream(r)[i] = m[k - 1]
        BY <2>9, <4>1
      <4>3. k - 1 \in 0..W-1
        BY <1>0, <1>3
      <4>4. CASE k =< e.bit
        BY <1>0, <1>1, <1>2, <4>1, <4>2, <4>3, <4>4
      <4>5. CASE k > e.bit
        <5>1. k - e.bit \in 1..n /\ i = Len(e.out) + e.bit + (k - e.bit)
          BY <1>0, <4>1, <4>5
        <5>2. sv[i] = v[k - e.bit]
          BY <1>2, <5>1
        <5>3. m[k - 1] = v[(k - 1) - e.bit + 1] /\ (k - 1) - e.bit + 1 = k - e.bit
          BY <1>0, <1>1, <4>3, <4>5, <5>1
        <5> QED
          BY <4>2, <5>2, <5>3
      <4> QED
        <5>1. k \in Int /\ e.bit \in Int
          BY <1>0
        <5> QED
          BY <5>1, <4>4, <4>5
    <3>3. i \in Int /\ Len(e.out) \in Int
      BY <1>0
    <3> QED
      BY <3>1, <3>2, <3>3
  <2>7. Stream(r) = sv
    BY <1>2, <2>5, <2>6, SeqEqual
  <2> QED
    BY <2>4, <2>7 DEF r, sv
<1>4. CASE ~(e.bit + n < W)
  <2> DEFINE c == Carry(v, e.bit)
             o == WriteWord(e.out, m)
             b == e.bit + n - W
  <2>1. r = [out |-> o, bit |-> (e.bit + n) % W, value |-> c]
    BY <1>4 DEF Emitted, Pending, m, n
  <2>2. (e.bit + n) % W = b /\ b \in 0..W-1 /\ b =< n
    <3>1. e.bit + n \in Nat /\ W =< e.bit + n /\ e.bit + n < 2 * W
      BY <1>0, <1>4
    <3>2. (e.bit + n) % W = (e.bit + n) - W
      BY <3>1, ModOnce
    <3> QED
      BY <1>0, <1>4, <3>2
  <2>3. c \in Word /\ \A j \in 0..W-1 : c[j] = IF j < b THEN v[j + (n - b) + 1] ELSE 0
    <3>1. CASE e.bit = 0
      <4>1. b = 0
        BY <1>0, <1>4, <3>1
      <4> QED
        BY <1>0, <3>1, <4>1 DEF Carry, ZeroWord, Word, Bit
    <3>2. CASE e.bit # 0
      <4>1. c = Shr(v, W - e.bit) /\ n - b = W - e.bit
        BY <1>0, <3>2 DEF Carry
      <4>2. \A j \in 0..W-1 : c[j] = IF j + (W - e.bit) < Len(v) THEN v[j + (W - e.bit) + 1] ELSE 0
        BY <4>1 DEF Shr
      <4>3. \A j \in 0..W-1 : (j + (W - e.bit) < Len(v) <=> j < b)
        BY <1>0 DEF n
      <4>4. \A j \in 0..W-1 : j + (W - e.bit) < Len(v) => v[j + (W - e.bit) + 1] \in Bit
        BY <1>0
      <4>5. c \in Word
        BY <4>1, <4>4 DEF Shr, Word, Bit
      <4> QED
        BY <4>1, <4>2, <4>3, <4>5
    <3> QED
      BY <3>1, <3>2
  <2>4. /\ o \in Seq(Bit) /\ Len(o) = Len(e.out) + W
        /\ \A i \in 1..Len(e.out) : o[i] = e.out[i]
        /\ \A i \in 1..W : o[Len(e.out) + i] = m[i - 1]
        /\ Aligned(Len(o))
    BY <1>0, <1>1, WriteWordShape, AlignedWord
  <2> HIDE DEF c, o, r
  <2>5. r.out = o /\ r.bit = b /\ r.value = c /\ r \in [out : Seq(Bit), bit : 0..W-1, value : Word]
    BY <2>1, <2>2, <2>3, <2>4
  <2>6. Good(r)
    <3>1. \A j \in b..W-1 : c[j] = 0
      <4>1. TAKE j \in b..W-1
      <4>2. j \in 0..W-1 /\ ~(j < b)
        BY <1>0, <2>2
      <4> QED
        BY <2>3, <4>2
    <3> QED
      BY <2>4, <2>5, <3>1 DEF Good
  <2>9. /\ Stream(r) \in Seq(Bit) /\ Len(Stream(r)) = Len(o) + b
        /\ \A i \in 1..Len(o) : Stream(r)[i] = o[i]
        /\ \A i \in 1..b : Stream(r)[Len(o) + i] = c[i - 1]
    <3>1. r.out \in Seq(Bit) /\ r.bit \in 0..W-1 /\ r.value \in Word
      BY <2>2, <2>3, <2>4, <2>5
    <3> QED
      BY <2>5, <3>1, StreamShape
  <2>7. Len(Stream(r)) = Len(sv) /\ Stream(r) \in Seq(Bit) /\ Len(Stream(r)) = Len(e.out) + W + b
    <3>1. Len(Stream(r)) = Len(e.out) + W + b
      BY <2>4, <2>9
    <3>2. Len(e.out) + W + b = Len(e.out) + e.bit + n
      BY <1>0
    <3> QED
      BY <1>2, <2>9, <3>1, <3>2
  <2>8. ASSUME NEW i \in 1..Len(Stream(r)) PROVE Stream(r)[i] = sv[i]
    <3>1. CASE i =< Len(e.out)
      <4>1. i \in 1..Len(e.out) /\ i \in 1..Len(o)
        BY <1>0, <2>4, <3>1
      <4> QED
        BY <1>2, <2>4, <2>9, <4>1
    <3>2. CASE i > Len(e.out) /\ i =< Len(e.out) + W
      <4>1. PICK k \in 1..W : i = Len(e.out) + k
        <5>1. i - Len(e.out) \in 1..W /\ i = Len(e.out) + (i - Len(e.out))
          BY <1>0, <2>7, <2>8, <3>2
        <5> QED
          BY <5>1
      <4>2. Stream(r)[i] = m[k - 1]
        <5>1. Stream(r)[i] = o[i]
          BY <1>0, <2>4, <2>9, <3>2
        <5> QED
          BY <2>4, <4>1, <5>1
      <4>3. CASE k =< e.bit
        BY <1>0, <1>1, <1>2, <4>1, <4>2, <4>3
      <4>4. CASE k > e.bit
        <5>1. k - e.bit \in 1..n /\ i = Len(e.out) + e.bit + (k - e.bit) /\ k - 1 \in 0..W-1
          BY <1>0, <1>4, <4>1, <4>4
        <5>2. sv[i] = v[k - e.bit]
          BY <1>2, <5>1
        <5>3. m[k - 1] = v[(k - 1) - e.bit + 1] /\ (k - 1) - e.bit + 1 = k - e.bit
          BY <1>0, <1>1, <4>4, <5>1
        <5> QED
          BY <4>2, <5>2, <5>3
      <4> QED
        <5>1. k \in Int /\ e.bit \in Int
          BY <1>0
        <5> QED
          BY <5>1, <4>3, <4>4
    <3>3. CASE i > Len(e.out) + W
      <4>1. PICK k \in 1..b : i = Len(e.out) + W + k
        <5>1. i - (Len(e.out) + W) \in 1..b
          BY <1>0, <2>2, <2>7, <3>3
        <5> QED
          BY <1>0, <2>2, <5>1
      <4>2. Stream(r)[i] = c[k - 1]
        BY <1>0, <2>4, <2>9, <4>1
      <4>3. c[k - 1] = v[(k - 1) + (n - b) + 1] /\ (k - 1) + (n - b) + 1 = n - b + k
        BY <1>0, <2>2, <2>3
      <4>4. n - b + k \in 1..n /\ i = Len(e.out) + e.bit + (n - b + k)
        <5>1. n - b = W - e.bit
          BY <1>0
        <5>2. n - b \in Nat /\ k \in Nat /\ k >= 1 /\ k =< b
          BY <1>0, <2>2, <4>1
        <5>3. n - b + k \in 1..n
          BY <1>0, <5>2
        <5>4. Len(e.out) \in Int /\ e.bit \in Int /\ W \in Int /\ i = Len(e.out) + W + k
          BY <1>0, <4>1
        <5>5. i = Len(e.out) + e.bit + (n - b + k)
          BY <5>1, <5>2, <5>4
        <5> QED
          BY <5>3, <5>5
      <4>5. sv[i] = v[n - b + k]
        BY <1>2, <4>4
      <4> QED
        BY <4>2, <4>3, <4>5
    <3>4. i \in Int /\ Len(e.out) \in Int /\ W \in Int
      BY <1>0
    <3> QED
      BY <3>1, <3>2, <3>3, <3>4
  <2>10. Stream(r) = sv
    BY <1>2, <2>7, <2>8, SeqEqual
  <2> QED
    BY <2>6, <2>10 DEF r, sv
<1> QED
  BY <1>3, <1>4 DEF sv

(* Flushing and blobs.                                                     *)

LEMMA ZerosShape ==
  ASSUME NEW k \in Nat
  PROVE  Zeros(k) \in Seq(Bit) /\ Len(Zeros(k)) = k /\ \A i \in 1..k : Zeros(k)[i] = 0
BY DEF Zeros, Bit

LEMMA SameZeros == \A k : BS!Zeros(k) = Zeros(k)
BY DEF Zeros, BS!Zeros

LEMMA AlignedIff ==
  ASSUME NEW n \in Nat
  PROVE  Aligned(n) <=> n % W = 0
<1>1. W \in Nat /\ W > 0
  BY WordAssumption
<1>2. n = W * (n \div W) + (n % W) /\ n \div W \in 0..n /\ n % W \in 0..W-1
  BY <1>1
<1>3. ASSUME n % W = 0 PROVE Aligned(n)
  <2>1. n = (n \div W) * W
    BY <1>1, <1>2, <1>3
  <2> QED
    BY <1>2, <2>1 DEF Aligned
<1>4. ASSUME NEW q \in 0..n, n = q * W PROVE n % W = 0
  BY <1>1, <1>4
<1> QED
  BY <1>3, <1>4 DEF Aligned

\* The zeros that align the end of a blob are those of a reader's alignment.
LEMMA AlignEndShape ==
  ASSUME NEW s \in Seq(Bit)
  PROVE  \E k \in 0..W-1 : AlignEnd(s) = s \o Zeros(k) /\ Aligned(Len(s) + k)
<1> DEFINE r == Len(s) % W
           k == (W - r) % W
<1>1. W \in Nat /\ W > 0 /\ Len(s) \in Nat
  BY WordAssumption
<1>2. r \in 0..W-1
  BY <1>1
<1>3. k \in 0..W-1 /\ AlignEnd(s) = s \o Zeros(k)
  BY <1>1, <1>2 DEF AlignEnd
<1>4. Aligned(Len(s) + k)
  <2>1. CASE r = 0
    <3>1. k = 0
      BY <1>1, <2>1
    <3> QED
      BY <1>1, <2>1, <3>1, AlignedIff
  <2>2. CASE r # 0
    <3>1. k = W - r
      BY <1>1, <1>2, <2>2
    <3>2. Len(s) = W * (Len(s) \div W) + r /\ Len(s) \div W \in Nat
      BY <1>1
    <3>3. Len(s) + k = (Len(s) \div W + 1) * W
      BY <1>1, <3>1, <3>2
    <3>4. Len(s) \div W + 1 \in 0..Len(s) + k
      BY <1>1, <3>2, <3>3
    <3> QED
      BY <3>3, <3>4 DEF Aligned
  <2> QED
    BY <2>1, <2>2
<1> QED
  BY <1>3, <1>4

LEMMA FlushShape ==
  ASSUME NEW e, Good(e)
  PROVE  /\ Good(Flushed(e)) /\ Flushed(e).bit = 0
         /\ Stream(Flushed(e)) = Flushed(e).out
         /\ \E k \in 0..W-1 : /\ Stream(Flushed(e)) = Stream(e) \o Zeros(k)
                              /\ Aligned(Len(Stream(e)) + k)
<1> DEFINE r == Flushed(e)
<1>0. /\ e.out \in Seq(Bit) /\ e.bit \in 0..W-1 /\ e.value \in Word /\ W \in Nat /\ W > 0
      /\ Aligned(Len(e.out)) /\ Len(e.out) \in Nat /\ \A j \in e.bit..W-1 : e.value[j] = 0
  BY GoodType, WordAssumption
<1>1. /\ Stream(e) \in Seq(Bit) /\ Len(Stream(e)) = Len(e.out) + e.bit
      /\ \A i \in 1..Len(e.out) : Stream(e)[i] = e.out[i]
      /\ \A i \in 1..e.bit : Stream(e)[Len(e.out) + i] = e.value[i - 1]
  BY <1>0, StreamShape
<1>2. ASSUME NEW f, Good(f), f.bit = 0 PROVE Stream(f) = f.out
  <2>1. /\ Stream(f) \in Seq(Bit) /\ f.out \in Seq(Bit)
        /\ Len(Stream(f)) = Len(f.out) + 0
        /\ \A i \in 1..Len(f.out) : Stream(f)[i] = f.out[i]
    BY <1>2, GoodType, StreamShape
  <2>2. Len(f.out) + 0 = Len(f.out)
    BY <2>1
  <2> QED
    BY <2>1, <2>2, SeqEqual
<1>3. CASE e.bit = 0
  <2>1. r = e /\ 0 \in 0..W-1
    BY <1>0, <1>3 DEF Flushed
  <2>2. Zeros(0) = <<>>
    BY DEF Zeros
  <2>3. Stream(e) \o Zeros(0) = Stream(e)
    BY <1>1, <2>2, ConcatEmptySeq
  <2>4. Aligned(Len(Stream(e)) + 0)
    BY <1>0, <1>1, <1>3
  <2> QED
    BY <1>2, <1>3, <2>1, <2>3, <2>4
<1>4. CASE e.bit # 0
  <2> DEFINE o == WriteWord(e.out, e.value)
             k == W - e.bit
             s == Stream(e)
             sz == s \o Zeros(k)
  <2>1. r = [out |-> o, bit |-> 0, value |-> ZeroWord]
    BY <1>4 DEF Flushed
  <2>2. /\ o \in Seq(Bit) /\ Len(o) = Len(e.out) + W
        /\ \A i \in 1..Len(e.out) : o[i] = e.out[i]
        /\ \A i \in 1..W : o[Len(e.out) + i] = e.value[i - 1]
        /\ Aligned(Len(o))
    BY <1>0, WriteWordShape, AlignedWord
  <2>3. ZeroWord \in Word /\ 0 \in 0..W-1 /\ \A j \in 0..W-1 : ZeroWord[j] = 0
    BY <1>0 DEF ZeroWord, Word, Bit
  <2> HIDE DEF r, o
  <2>4. Good(r) /\ r.bit = 0 /\ r.out = o
    BY <2>1, <2>2, <2>3 DEF Good
  <2>5. k \in 0..W-1 /\ k \in Nat /\ Len(o) = Len(s) + k
    BY <1>0, <1>1, <1>4, <2>2
  <2>6. /\ sz \in Seq(Bit) /\ Len(sz) = Len(s) + k
        /\ \A i \in 1..Len(s) : sz[i] = s[i]
        /\ \A i \in 1..k : sz[Len(s) + i] = 0
    <3>1. Zeros(k) \in Seq(Bit) /\ Len(Zeros(k)) = k /\ \A i \in 1..k : Zeros(k)[i] = 0
      BY <2>5, ZerosShape
    <3>2. /\ sz \in Seq(Bit) /\ Len(sz) = Len(s) + Len(Zeros(k))
          /\ \A i \in 1..Len(s) : sz[i] = s[i]
          /\ \A i \in 1..Len(Zeros(k)) : sz[Len(s) + i] = Zeros(k)[i]
      BY <1>1, <3>1, ConcatShape
    <3> HIDE DEF sz
    <3> QED
      BY <3>1, <3>2
  <2> HIDE DEF sz, s, k
  <2>7. ASSUME NEW i \in 1..Len(o) PROVE o[i] = sz[i]
    <3>0. i \in Int /\ Len(e.out) \in Int /\ e.bit \in Int /\ i >= 1 /\ i =< Len(e.out) + W
      BY <1>0, <2>2
    <3>1. CASE i =< Len(e.out)
      <4>1. i \in 1..Len(e.out) /\ i \in 1..Len(s)
        BY <1>0, <1>1, <3>0, <3>1 DEF s
      <4> QED
        BY <1>1, <2>2, <2>6, <4>1 DEF s
    <3>2. CASE i > Len(e.out) /\ i =< Len(e.out) + e.bit
      <4>1. PICK j \in 1..e.bit : i = Len(e.out) + j
        <5>1. i - Len(e.out) \in 1..e.bit /\ i = Len(e.out) + (i - Len(e.out))
          BY <3>0, <3>2
        <5> QED
          BY <5>1
      <4>2. j \in 1..W /\ i \in 1..Len(s)
        BY <1>0, <1>1, <3>0, <3>2, <4>1 DEF s
      <4> QED
        BY <1>1, <2>2, <2>6, <4>1, <4>2 DEF s
    <3>3. CASE i > Len(e.out) + e.bit
      <4>1. i - Len(s) \in 1..k /\ i = Len(s) + (i - Len(s))
        <5>1. Len(s) = Len(e.out) + e.bit /\ k = W - e.bit /\ W \in Int
          BY <1>0, <1>1 DEF s, k
        <5>2. Len(s) \in Int /\ k \in Int
          BY <3>0, <5>1
        <5>3. i - Len(s) \in Int /\ i - Len(s) >= 1 /\ i - Len(s) =< k
          BY <3>0, <3>3, <5>1
        <5> QED
          BY <3>0, <5>2, <5>3
      <4>2. sz[i] = 0
        BY <2>6, <4>1
      <4>3. i - Len(e.out) \in 1..W /\ i = Len(e.out) + (i - Len(e.out))
            /\ (i - Len(e.out)) - 1 \in e.bit..W-1
        BY <1>0, <3>0, <3>3
      <4>4. o[i] = e.value[(i - Len(e.out)) - 1]
        BY <2>2, <4>3
      <4> QED
        BY <1>0, <4>2, <4>3, <4>4
    <3> QED
      BY <3>0, <3>1, <3>2, <3>3
  <2>8. o = sz
    BY <2>2, <2>5, <2>6, <2>7, SeqEqual
  <2>9. Stream(r) = r.out
    BY <1>2, <2>4
  <2> QED
    BY <2>2, <2>4, <2>5, <2>8, <2>9 DEF r, s, sz
<1> QED
  BY <1>3, <1>4

\* A blob: aligned, its bytes, aligned.
LEMMA BlobShape ==
  ASSUME NEW e, Good(e), NEW b \in Seq(Bit)
  PROVE  LET r == [Flushed(e) EXCEPT !.out = AlignEnd(Flushed(e).out \o b)]
         IN /\ Good(r)
            /\ \E k, l \in 0..W-1 :
                 /\ Stream(r) = Stream(e) \o Zeros(k) \o b \o Zeros(l)
                 /\ Aligned(Len(Stream(e)) + k)
                 /\ Aligned(Len(Stream(e) \o Zeros(k) \o b) + l)
<1> DEFINE f == Flushed(e)
           s == f.out \o b
           r == [f EXCEPT !.out = AlignEnd(s)]
<1>1. /\ Good(f) /\ f.bit = 0 /\ Stream(f) = f.out
      /\ f \in [out : Seq(Bit), bit : 0..W-1, value : Word]
      /\ f.out \in Seq(Bit)
  BY FlushShape DEF Good
<1>2. PICK k \in 0..W-1 : f.out = Stream(e) \o Zeros(k) /\ Aligned(Len(Stream(e)) + k)
  BY <1>1, FlushShape
<1> HIDE DEF f
<1>3. s \in Seq(Bit) /\ Len(s) \in Nat
  BY <1>1
<1>4. PICK l \in 0..W-1 : AlignEnd(s) = s \o Zeros(l) /\ Aligned(Len(s) + l)
  BY <1>3, AlignEndShape
<1>5. /\ Zeros(l) \in Seq(Bit) /\ Len(Zeros(l)) = l /\ AlignEnd(s) \in Seq(Bit)
      /\ Len(AlignEnd(s)) = Len(s) + l
  <2>1. l \in Nat
    BY WordAssumption
  <2>2. Zeros(l) \in Seq(Bit) /\ Len(Zeros(l)) = l
    BY <2>1, ZerosShape
  <2> QED
    BY <1>3, <1>4, <2>2, ConcatShape
<1> HIDE DEF s
<1>6. /\ r.out = AlignEnd(s) /\ r.bit = 0 /\ r.value = f.value
      /\ r \in [out : Seq(Bit), bit : 0..W-1, value : Word]
  BY <1>1, <1>5
<1> HIDE DEF r
<1>7. Good(r)
  BY <1>1, <1>4, <1>5, <1>6 DEF Good
<1>8. Stream(r) = r.out
  <2>1. /\ Stream(r) \in Seq(Bit) /\ Len(Stream(r)) = Len(r.out) + 0
        /\ \A i \in 1..Len(r.out) : Stream(r)[i] = r.out[i]
    BY <1>6, <1>7, GoodType, StreamShape
  <2>2. r.out \in Seq(Bit) /\ Len(r.out) + 0 = Len(r.out)
    BY <1>5, <1>6
  <2> QED
    BY <2>1, <2>2, SeqEqual
<1>9. Stream(r) = Stream(e) \o Zeros(k) \o b \o Zeros(l)
  BY <1>2, <1>4, <1>6, <1>8 DEF s
<1>10. Aligned(Len(Stream(e) \o Zeros(k) \o b) + l)
  BY <1>2, <1>4 DEF s
<1> QED
  BY <1>2, <1>7, <1>9, <1>10 DEF r, s, f

(* Every step.                                                             *)

LEMMA EmitterGood == EmitterTypeOK <=> Good(Emitter)
BY DEF EmitterTypeOK, Good, Emitter

LEMMA BecomesEmitter ==
  ASSUME NEW e, e \in [out : Seq(Bit), bit : 0..W-1, value : Word], Becomes(e)
  PROVE  Emitter' = e
BY DEF Becomes, Emitter

\* The abstract operations are those of BitStream, whose definitions of
\* alignment and padding are the ones used here.
LEMMA SameAligned == \A n : BS!Aligned(n) <=> Aligned(n)
BY DEF Aligned, BS!Aligned

LEMMA PaddingOf ==
  ASSUME NEW n \in Nat, NEW k \in 0..W-1, Aligned(n + k)
  PROVE  Zeros(k) \in BS!Padding(n)
BY SameAligned, SameZeros DEF BS!Padding

LEMMA StepEmits ==
  ASSUME EmitterTypeOK, EmitterNext
  PROVE  EmitterTypeOK' /\ BS!Next
<1> DEFINE e == Emitter
           s == Stream(Emitter)
<1>0. Good(e) /\ s \in Seq(Bit) /\ Len(s) \in Nat
  BY EmitterGood, GoodType, StreamShape
<1>1. ASSUME NEW r, Good(r), Becomes(r)
      PROVE  EmitterTypeOK' /\ Stream(Emitter)' = Stream(r)
  <2>1. Emitter' = r
    BY <1>1, BecomesEmitter DEF Good
  <2>2. Stream(Emitter)' = Stream(Emitter')
    BY DEF Stream
  <2>3. Good(Emitter)' <=> Good(Emitter')
    BY DEF Good
  <2>4. EmitterTypeOK' <=> Good(Emitter)'
    BY DEF EmitterTypeOK, Good, Emitter
  <2>5. Good(Emitter') /\ Stream(Emitter') = Stream(r)
    BY <1>1, <2>1
  <2> QED
    BY <2>2, <2>3, <2>4, <2>5
<1>2. ASSUME NEW v \in Fields, Emit(v) PROVE EmitterTypeOK' /\ BS!Next
  <2>1. v \in Seq(Bit) /\ Len(v) \in 1..W
    BY FieldsAssumption
  <2>2. Good(Emitted(e, v)) /\ Stream(Emitted(e, v)) = s \o v
    BY <1>0, <2>1, EmitAppends
  <2>3. Becomes(Emitted(e, v))
    BY <1>2 DEF Emit
  <2>4. EmitterTypeOK' /\ Stream(Emitter)' = s \o v
    BY <1>1, <2>2, <2>3
  <2>5. BS!Put(v)
    BY <2>4 DEF BS!Put
  <2> QED
    BY <2>4, <2>5 DEF BS!Next
<1>3. ASSUME NEW v \in LongFields, Emit64(v) PROVE EmitterTypeOK' /\ BS!Next
  <2> DEFINE x == Emitted(e, Low(v))
             y == Emitted(x, High(v))
  <2>1. v \in Seq(Bit) /\ Len(v) \in W+1..2*W /\ W \in Nat /\ W > 0
    BY FieldsAssumption, WordAssumption
  <2>2. /\ Low(v) \in Seq(Bit) /\ Len(Low(v)) \in 1..W
        /\ High(v) \in Seq(Bit) /\ Len(High(v)) \in 1..W
    <3>1. Low(v) \in Seq(Bit) /\ Len(Low(v)) = W
      BY <2>1 DEF Low
    <3>2. High(v) \in Seq(Bit) /\ Len(High(v)) = Len(v) - W
      BY <2>1 DEF High
    <3> QED
      BY <2>1, <3>1, <3>2
  <2>3. Low(v) \o High(v) = v
    BY <2>1, ConcatAdjacentSubSeq, SubSeqFull DEF Low, High
  <2>4. Good(x) /\ Stream(x) = s \o Low(v)
    BY <1>0, <2>2, EmitAppends
  <2> HIDE DEF x
  <2>5. Good(y) /\ Stream(y) = Stream(x) \o High(v)
    BY <2>2, <2>4, EmitAppends
  <2>6. (s \o Low(v)) \o High(v) = s \o v
    <3> DEFINE lo == Low(v)
               hi == High(v)
    <3> HIDE DEF s, lo, hi
    <3>1. s \in Seq(Bit) /\ lo \in Seq(Bit) /\ hi \in Seq(Bit)
      BY <1>0, <2>2 DEF lo, hi
    <3>2. (s \o lo) \o hi = s \o (lo \o hi)
      BY <3>1, ConcatAssociative
    <3> QED
      BY <2>3, <3>2 DEF lo, hi
  <2>7. Becomes(y)
    BY <1>3 DEF Emit64, x
  <2>8. EmitterTypeOK' /\ Stream(Emitter)' = s \o v
    BY <1>1, <2>4, <2>5, <2>6, <2>7
  <2>9. BS!Put(v)
    BY <2>8 DEF BS!Put
  <2> QED
    BY <2>8, <2>9 DEF BS!Next
<1>4. ASSUME FlushToWord PROVE EmitterTypeOK' /\ BS!Next
  <2>1. PICK k \in 0..W-1 : Stream(Flushed(e)) = s \o Zeros(k) /\ Aligned(Len(s) + k)
    BY <1>0, FlushShape
  <2>2. EmitterTypeOK' /\ Stream(Emitter)' = s \o Zeros(k)
    BY <1>0, <1>1, <1>4, <2>1, FlushShape DEF FlushToWord
  <2>3. Zeros(k) \in BS!Padding(Len(s))
    BY <1>0, <2>1, PaddingOf
  <2>4. BS!Flush
    BY <2>2, <2>3 DEF BS!Flush
  <2> QED
    BY <2>2, <2>4 DEF BS!Next
<1>5. ASSUME NEW b \in Blobs, EmitBlob(b) PROVE EmitterTypeOK' /\ BS!Next
  <2> DEFINE r == [Flushed(e) EXCEPT !.out = AlignEnd(Flushed(e).out \o b)]
  <2>1. b \in Seq(Bit)
    BY BlobsAssumption
  <2>2. PICK k, l \in 0..W-1 :
          /\ Stream(r) = s \o Zeros(k) \o b \o Zeros(l)
          /\ Aligned(Len(s) + k)
          /\ Aligned(Len(s \o Zeros(k) \o b) + l)
    BY <1>0, <2>1, BlobShape
  <2>3. Good(r) /\ Becomes(r)
    BY <1>0, <1>5, <2>1, BlobShape DEF EmitBlob
  <2> HIDE DEF r
  <2>4. EmitterTypeOK' /\ Stream(Emitter)' = s \o Zeros(k) \o b \o Zeros(l)
    BY <1>1, <2>2, <2>3
  <2>5. Zeros(k) \in BS!Padding(Len(s))
    BY <1>0, <2>2, PaddingOf
  <2>6. s \o Zeros(k) \o b \in Seq(Bit) /\ Len(s \o Zeros(k) \o b) \in Nat
    <3>1. k \in Nat
      BY WordAssumption
    <3>2. Zeros(k) \in Seq(Bit)
      BY <3>1, ZerosShape
    <3>3. s \o Zeros(k) \in Seq(Bit)
      BY <1>0, <3>2, ConcatShape
    <3>4. s \o Zeros(k) \o b \in Seq(Bit)
      BY <2>1, <3>3, ConcatShape
    <3> QED
      BY <3>4
  <2>7. Zeros(l) \in BS!Padding(Len(s \o Zeros(k) \o b))
    BY <2>2, <2>6, PaddingOf
  <2>8. BS!PutBlob(b)
    BY <2>4, <2>5, <2>7 DEF BS!PutBlob
  <2> QED
    BY <2>4, <2>8 DEF BS!Next
<1> QED
  BY <1>2, <1>3, <1>4, <1>5 DEF EmitterNext

LEMMA EmitterStarts == EmitterInit => EmitterTypeOK /\ BS!Init
<1> SUFFICES ASSUME EmitterInit PROVE EmitterTypeOK /\ BS!Init
  OBVIOUS
<1>1. Len(Out) = 0 /\ Out \in Seq(Bit) /\ CurBit = 0 /\ 0 \in 0..W-1 /\ 0 = 0 * W
  BY WordAssumption DEF EmitterInit
<1>2. CurValue \in Word /\ \A j \in 0..W-1 : CurValue[j] = 0
  BY DEF EmitterInit, ZeroWord, Word, Bit
<1>3. EmitterTypeOK
  BY <1>1, <1>2 DEF EmitterTypeOK, Aligned
<1>4. /\ Stream(Emitter) \in Seq(Bit) /\ Len(Stream(Emitter)) = 0
  <2>1. Emitter.out = Out /\ Emitter.bit = CurBit /\ Emitter.value = CurValue
    BY DEF Emitter
  <2>2. Stream(Emitter) \in Seq(Bit) /\ Len(Stream(Emitter)) = Len(Out) + CurBit
    BY <1>1, <1>2, <2>1, StreamShape
  <2> QED
    BY <1>1, <2>2
<1>5. Stream(Emitter) = <<>>
  BY <1>4
<1> QED
  BY <1>3, <1>5 DEF BS!Init

LEMMA StutterEmits == UNCHANGED emitterVars => UNCHANGED Stream(Emitter)
BY DEF emitterVars, Emitter, Stream

\* The pending word is clean and the buffer holds whole words, for every word size.
THEOREM EmitterType == EmitterSpec => []EmitterTypeOK
<1>1. EmitterTypeOK /\ [EmitterNext]_emitterVars => EmitterTypeOK'
  <2>1. ASSUME EmitterTypeOK, UNCHANGED emitterVars PROVE EmitterTypeOK'
    BY <2>1 DEF emitterVars, EmitterTypeOK
  <2> QED
    BY <2>1, StepEmits
<1> QED
  BY <1>1, EmitterStarts, PTL DEF EmitterSpec

\* Emit, Emit64, FlushToWord and the blob operand append exactly their own bits
\* to the stream, whatever the word size, the values and their alignment.
THEOREM EmitterImplements == EmitterSpec => Implements
<1>1. EmitterTypeOK /\ [EmitterNext]_emitterVars => [BS!Next]_(Stream(Emitter))
  BY StepEmits, StutterEmits
<1> QED
  BY <1>1, EmitterStarts, EmitterType, PTL DEF EmitterSpec, Implements, BS!Spec
=============================================================================
