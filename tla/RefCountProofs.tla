---------------------------- MODULE RefCountProofs ----------------------------
(***************************************************************************)
(* The counted handles are safe for every number of handles, objects and   *)
(* slots: the counts are exact, nothing points at freed memory and nothing *)
(* is leaked.  The inductive invariant adds what the properties leave out: *)
(* where a pending assignment may read and write, that a handle whose      *)
(* disposal is pending still holds its count, and that the two fields of a *)
(* handle are null together.                                               *)
(***************************************************************************)
EXTENDS RefCount, FiniteSetTheorems, TLAPS

FieldsAgree == \A l \in Loc : ref[l].cnt = NULL <=> ref[l].ptr = NULL

SlotsLive == \A o \in objs : Slots(o) \subseteq live

DyingHolds == \A l \in dying : ref[l].cnt # NULL

\* Only the target of an assignment is disposed of while its object lives.
DyingOwner == \A o \in objs, l \in dying : l \in Slots(o) => l = call.dst

\* A handle of the caller, other than the one assigned to, that keeps the
\* object of slot l.
Kept(l) == \E u \in Var : u # call.dst /\ u \notin dying /\ HoldsSlot(u, l)

CallInv == call # NoCall =>
    /\ call.dst \in live /\ call.src \in live
    /\ call.src # call.dst /\ call.src \notin dying
    /\ dying \cap Var \subseteq {call.dst}
    /\ \/ call.dst \in Var /\ (call.src \in Var \/ (call.src \in Slot /\ Kept(call.src)))
       \/ call.dst \in Slot /\ Kept(call.dst) /\ call.src = Tmp

TmpInv == Tmp \in live => call.src = Tmp \/ Tmp \in dying

IInv == /\ TypeOK /\ CountsExact /\ NoDangling /\ NoLeak
        /\ FieldsAgree /\ SlotsLive /\ DyingHolds /\ DyingOwner /\ CallInv /\ TmpInv
-------------------------------------------------------------------------------
LEMMA LocFinite == IsFiniteSet(Loc)
<1>1. IsFiniteSet(1..Arity)
  BY FS_Interval, HeapAssumption
<1>2. IsFiniteSet(Slot)
  BY <1>1, FS_Product, HeapAssumption DEF Slot
<1>3. IsFiniteSet(Var \cup {Tmp})
  BY FS_AddElement, HeapAssumption
<1> QED
  BY <1>2, <1>3, FS_Union DEF Loc

LEMMA LocKinds ==
    /\ NULL \notin Loc /\ NULL \notin Obj /\ NULL \notin Ctr
    /\ Tmp \in Loc /\ Tmp \notin Var /\ Tmp \notin Slot
    /\ Var \subseteq Loc /\ Slot \subseteq Loc /\ Var \cap Slot = {}
    /\ \A o \in Obj : Slots(o) \subseteq Slot /\ <<o, 1>> \in Slots(o)
    /\ \A l \in Slot : \E o \in Obj : l \in Slots(o)
    /\ \A o, p \in Obj, l \in Slot : l \in Slots(o) /\ l \in Slots(p) => o = p
  BY HeapAssumption DEF Loc, Slot, Slots

LEMMA CardAdd ==
    ASSUME NEW S, IsFiniteSet(S), NEW x, x \notin S
    PROVE  Cardinality(S \cup {x}) = Cardinality(S) + 1
  BY FS_AddElement

LEMMA CardRemove ==
    ASSUME NEW S, IsFiniteSet(S), NEW x \in S
    PROVE  Cardinality(S \ {x}) = Cardinality(S) - 1
  BY FS_RemoveElement

LEMMA CardOne ==
    ASSUME NEW S, IsFiniteSet(S), NEW x \in S, NEW y \in S, Cardinality(S) = 1
    PROVE  x = y
<1>1. PICK z : S = {z}
  BY FS_Singleton
<1> QED
  BY <1>1

LEMMA HoldersFinite ==
    ASSUME TypeOK, NEW c
    PROVE  IsFiniteSet(Holders(c)) /\ Holders(c) \subseteq Loc /\ Cardinality(Holders(c)) \in Nat
<1>1. Holders(c) \subseteq Loc
  BY DEF Holders, TypeOK
<1> QED
  BY <1>1, LocFinite, FS_Subset, FS_CardinalityType

LEMMA HoldersDef ==
    ASSUME NEW c \in Ctr, NEW l
    PROVE  l \in Holders(c) <=> Holding(l) /\ ref[l].cnt = c
  BY LocKinds DEF Holders, Holding

\* What a handle that holds a count points at.
LEMMA HoldingFacts ==
    ASSUME IInv, NEW l, Holding(l)
    PROVE  /\ l \in Loc /\ l \in live
           /\ ref[l].cnt \in Ctr /\ ref[l].ptr \in Obj /\ ref[l].ptr \in objs
           /\ count[ref[l].cnt] > 0 /\ l \in Holders(ref[l].cnt)
           /\ Slots(ref[l].ptr) \subseteq live
<1>1. l \in live /\ l \in Loc /\ ref[l].cnt # NULL
  BY DEF Holding, IInv, TypeOK
<1>2. ref[l].cnt \in Ctr
  BY <1>1 DEF IInv, TypeOK
<1>3. ref[l].ptr \in objs /\ count[ref[l].cnt] > 0
  BY <1>1 DEF IInv, NoDangling
<1> QED
  BY <1>1, <1>2, <1>3, HoldersDef DEF IInv, TypeOK, SlotsLive

\* Two handles of one counter, when its value is not one.
LEMMA OtherHolder ==
    ASSUME IInv, NEW l, Holding(l), count[ref[l].cnt] # 1
    PROVE  \E m \in live : m # l /\ Holding(m) /\ ref[m].cnt = ref[l].cnt
<1> DEFINE c == ref[l].cnt
<1>1. c \in Ctr /\ l \in Holders(c)
  BY HoldingFacts
<1>2. count[c] = Cardinality(Holders(c))
  BY <1>1 DEF IInv, CountsExact
<1>3. CASE Holders(c) = {l}
  <2>1. Cardinality(Holders(c)) = 1
    BY <1>3, FS_Singleton
  <2> QED
    BY <2>1, <1>2
<1>4. CASE Holders(c) # {l}
  <2>1. PICK m \in Holders(c) : m # l
    BY <1>1, <1>4
  <2> QED
    BY <2>1, <1>1, HoldersDef DEF Holders
<1> QED
  BY <1>3, <1>4

\* One handle only, when it is one.
LEMMA SoleHolder ==
    ASSUME IInv, NEW l, Holding(l), count[ref[l].cnt] = 1,
           NEW m, Holding(m), ref[m].cnt = ref[l].cnt \/ ref[m].ptr = ref[l].ptr
    PROVE  m = l
<1> DEFINE c == ref[l].cnt
<1>1. c \in Ctr /\ l \in Holders(c) /\ l \in live /\ m \in live
  BY HoldingFacts
<1>2. ref[m].cnt = c
  BY <1>1 DEF IInv, NoLeak
<1>3. m \in Holders(c)
  BY <1>1, <1>2, HoldersDef
<1>4. Cardinality(Holders(c)) = 1
  BY <1>1 DEF IInv, CountsExact
<1>5. IsFiniteSet(Holders(c))
  BY HoldersFinite DEF IInv
<1> HIDE DEF c
<1> QED
  BY <1>1, <1>3, <1>4, <1>5, CardOne

\* Between calls every handle that is not null holds its count.
LEMMA IdleFacts ==
    ASSUME IInv, Idle
    PROVE  /\ call.dst = NULL /\ call.src = NULL /\ Tmp \notin live
           /\ \A l : Holding(l) <=> l \in live /\ ref[l].cnt # NULL
           /\ \A o \in Obj : o \notin objs => Slots(o) \cap live = {}
<1>1. call.dst = NULL /\ call.src = NULL /\ dying = {}
  BY DEF Idle, NoCall
<1>2. Tmp \notin live
  BY <1>1, LocKinds DEF IInv, TmpInv
<1>3. \A l : Holding(l) <=> l \in live /\ ref[l].cnt # NULL
  BY <1>1, LocKinds DEF Holding, IInv, TypeOK
<1>4. \A o \in Obj : o \notin objs => Slots(o) \cap live = {}
  BY <1>1 DEF IInv, NoLeak
<1> QED
  BY <1>1, <1>2, <1>3, <1>4

\* A slot reached through a handle that holds its count is alive.
LEMMA SlotAlive ==
    ASSUME IInv, NEW u \in Var, NEW l, HoldsSlot(u, l), u \in dying \/ u # call.dst
    PROVE  /\ Holding(u) /\ l \in live /\ l \in Slot
           /\ ref[u].ptr \in objs /\ l \in Slots(ref[u].ptr)
<1>1. Holding(u)
  BY LocKinds DEF HoldsSlot, Holding, IInv, FieldsAgree
<1> QED
  BY <1>1, HoldingFacts, LocKinds DEF HoldsSlot

LEMMA ReadableAlive ==
    ASSUME IInv, Idle, NEW E, NEW l, Readable(l, E)
    PROVE  /\ l \in live /\ l \in Loc /\ l \in Var \cup Slot
           /\ ref[l].cnt = NULL \/ (Holding(l) /\ ref[l].cnt \in Ctr)
           /\ ref[l] \in [cnt : Ctr \cup {NULL}, ptr : Obj \cup {NULL}]
<1>1. l \in live /\ l \in Var \cup Slot
  <2>1. CASE l \in live \cap Var
    BY <2>1
  <2>2. CASE \E u \in Var \ E : HoldsSlot(u, l)
    BY <2>2, SlotAlive, IdleFacts, LocKinds
  <2> QED
    BY <2>1, <2>2 DEF Readable
<1> QED
  BY <1>1, IdleFacts, LocKinds DEF IInv, TypeOK

LEMMA HoldersDefNext ==
    ASSUME NEW c \in Ctr, NEW l
    PROVE  l \in Holders(c)' <=> Holding(l)' /\ ref'[l].cnt = c
  BY LocKinds DEF Holders, Holding

\* How a count follows its set of holders through a step.
LEMMA CountSame ==
    ASSUME IInv, NEW c \in Ctr, Holders(c)' = Holders(c), count'[c] = count[c]
    PROVE  count'[c] = Cardinality(Holders(c)')
<1>1. count[c] = Cardinality(Holders(c))
  BY DEF IInv, CountsExact
<1> QED
  BY <1>1

LEMMA CountAdd ==
    ASSUME IInv, NEW c \in Ctr, NEW x, x \notin Holders(c),
           Holders(c)' = Holders(c) \cup {x}, count'[c] = count[c] + 1
    PROVE  count'[c] = Cardinality(Holders(c)')
<1>1. count[c] = Cardinality(Holders(c))
  BY DEF IInv, CountsExact
<1>2. IsFiniteSet(Holders(c))
  BY HoldersFinite DEF IInv
<1>3. Cardinality(Holders(c) \cup {x}) = Cardinality(Holders(c)) + 1
  BY <1>2, CardAdd
<1> QED
  BY <1>1, <1>3

LEMMA CountRemove ==
    ASSUME IInv, NEW c \in Ctr, NEW x \in Holders(c),
           Holders(c)' = Holders(c) \ {x}, count'[c] = count[c] - 1
    PROVE  count'[c] = Cardinality(Holders(c)')
<1>1. count[c] = Cardinality(Holders(c))
  BY DEF IInv, CountsExact
<1>2. IsFiniteSet(Holders(c))
  BY HoldersFinite DEF IInv
<1>3. Cardinality(Holders(c) \ {x}) = Cardinality(Holders(c)) - 1
  BY <1>2, CardRemove
<1> QED
  BY <1>1, <1>3

LEMMA AcquireType ==
    ASSUME NEW cs \in [Ctr -> Nat], NEW r, r.cnt \in Ctr \cup {NULL}
    PROVE  /\ Acquire(r, cs) \in [Ctr -> Nat]
           /\ \A c \in Ctr : Acquire(r, cs)[c] = IF r.cnt = c THEN cs[c] + 1 ELSE cs[c]
  BY LocKinds DEF Acquire
-------------------------------------------------------------------------------
THEOREM InitInv == Init => IInv
<1> SUFFICES ASSUME Init PROVE IInv
  OBVIOUS
<1>1. TypeOK
  BY LocKinds DEF Init, TypeOK, NullRef, NoCall
<1>2. CountsExact
  <2>1. \A c \in Ctr : Holders(c) = {}
    BY DEF Init, Holders
  <2> QED
    BY <2>1, FS_EmptySet DEF Init, CountsExact
<1>3. NoDangling /\ NoLeak
  BY DEF Init, NoDangling, NoLeak
<1>4. FieldsAgree /\ SlotsLive /\ DyingHolds /\ DyingOwner /\ CallInv /\ TmpInv
  BY DEF Init, FieldsAgree, SlotsLive, DyingHolds, DyingOwner, CallInv, TmpInv, NullRef
<1> QED
  BY <1>1, <1>2, <1>3, <1>4 DEF IInv

\* What a call that sets off no deletion must show, given who holds what after
\* it: the parts of the invariant about the pending call are then empty.
LEMMA IdleRest ==
    ASSUME IInv, dying' = {}, call' = NoCall, Tmp \notin live'
    PROVE  DyingHolds' /\ DyingOwner' /\ CallInv' /\ TmpInv'
  BY DEF DyingHolds, DyingOwner, CallInv, TmpInv

THEOREM CopyInv ==
    ASSUME IInv, NEW v \in Var, NEW l \in Var \cup Slot, Copy(v, l)
    PROVE  IInv'
<1> DEFINE r == ref[l]
<1>1. Idle /\ v \notin live /\ Readable(l, {}) /\ v \in Loc /\ v # Tmp /\ v # NULL
  BY LocKinds DEF Copy
<1>2. /\ l \in live /\ l \in Loc /\ l # v
      /\ r.cnt = NULL \/ (Holding(l) /\ r.cnt \in Ctr)
      /\ r \in [cnt : Ctr \cup {NULL}, ptr : Obj \cup {NULL}]
  BY <1>1, ReadableAlive
<1>3. /\ live' = live \cup {v} /\ ref' = [ref EXCEPT ![v] = r]
      /\ objs' = objs /\ dying' = dying /\ call' = call
      /\ dying' = {} /\ call' = NoCall
  BY <1>1 DEF Copy, Idle
<1>4. /\ count' \in [Ctr -> Nat]
      /\ \A c \in Ctr : count'[c] = IF r.cnt = c THEN count[c] + 1 ELSE count[c]
  <2>1. count \in [Ctr -> Nat] /\ r.cnt \in Ctr \cup {NULL} /\ count' = Acquire(r, count)
    BY <1>2 DEF Copy, IInv, TypeOK
  <2> HIDE DEF r
  <2> QED
    BY <2>1, AcquireType
<1>5. TypeOK'
  BY <1>1, <1>2, <1>3, <1>4 DEF IInv, TypeOK, Idle, NoCall
<1>6. /\ \A m : Holding(m)' <=> Holding(m) \/ (m = v /\ r.cnt # NULL)
      /\ \A m \in Loc : ref'[m] = IF m = v THEN r ELSE ref[m]
      /\ ~Holding(v)
  <2>1. \A m \in Loc : ref'[m] = IF m = v THEN r ELSE ref[m]
    BY <1>3 DEF IInv, TypeOK
  <2>2. \A m : Holding(m)' <=> m \in live' /\ ref'[m].cnt # NULL
    BY <1>3, <1>5, LocKinds DEF Holding, TypeOK, NoCall
  <2> QED
    BY <2>1, <2>2, <1>1, <1>3, IdleFacts DEF IInv, TypeOK
<1> HIDE DEF r
<1>7. CountsExact'
  <2> SUFFICES ASSUME NEW c \in Ctr PROVE count'[c] = Cardinality(Holders(c)')
    BY DEF CountsExact
  <2>1. CASE r.cnt = c
    <3>1. Holders(c)' = Holders(c) \cup {v} /\ v \notin Holders(c)
      BY <2>1, <1>1, <1>6, HoldersDef, HoldersDefNext, HoldingFacts, LocKinds
    <3> QED
      BY <3>1, <2>1, <1>4, CountAdd
  <2>2. CASE r.cnt # c
    <3>1. \A m : m \in Holders(c)' <=> Holding(m)' /\ ref'[m].cnt = c
      BY HoldersDefNext
    <3>2. \A m : m \in Holders(c) <=> Holding(m) /\ ref[m].cnt = c
      BY HoldersDef
    <3>3. \A m : Holding(m) => m \in Loc /\ m # v
      BY <1>6, HoldingFacts
    <3>4. Holders(c)' = Holders(c)
      BY <2>2, <1>1, <1>6, <3>1, <3>2, <3>3
    <3> QED
      BY <3>4, <2>2, <1>4, CountSame
  <2> QED
    BY <2>1, <2>2
<1>8. NoDangling'
  <2>1. ASSUME NEW m, Holding(m)' PROVE ref'[m].ptr \in objs' /\ count'[ref'[m].cnt] > 0
    <3>1. CASE Holding(m)
      BY <3>1, <1>3, <1>4, <1>6, HoldingFacts DEF IInv, TypeOK
    <3>2. CASE m = v /\ r.cnt # NULL
      <4>1. Holding(l) /\ ref'[m] = r /\ r = ref[l]
        BY <3>2, <1>1, <1>2, <1>6 DEF r
      <4> QED
        BY <4>1, <1>3, <1>4, HoldingFacts DEF IInv, TypeOK
    <3> QED
      BY <2>1, <3>1, <3>2, <1>6
  <2> QED
    BY <2>1, <1>3 DEF NoDangling
<1>9. NoLeak'
  <2>1. \A o \in objs' : \E m \in live' : Holding(m)' /\ ref'[m].ptr = o
    BY <1>1, <1>3, <1>6, HoldingFacts DEF IInv, NoLeak
  <2>2. \A o \in Obj, m \in live' : m \in Slots(o) => o \in objs' \/ m \in dying'
    <3>1. \A o \in Obj : v \notin Slots(o)
      BY LocKinds
    <3>2. \A o \in Obj, m \in live : m \in Slots(o) => o \in objs \/ m \in dying
      BY DEF IInv, NoLeak
    <3> QED
      BY <3>1, <3>2, <1>3
  <2>3. \A m, n \in live' : Holding(m)' /\ Holding(n)' =>
           (ref'[m].cnt = ref'[n].cnt <=> ref'[m].ptr = ref'[n].ptr)
    <3> DEFINE src(m) == IF m = v THEN l ELSE m
    <3>1. \A m : Holding(m)' => Holding(src(m)) /\ src(m) \in live /\ ref'[m] = ref[src(m)]
      BY <1>1, <1>2, <1>6, HoldingFacts DEF r
    <3> HIDE DEF src
    <3> QED
      BY <3>1 DEF IInv, NoLeak
  <2> QED
    BY <2>1, <2>2, <2>3 DEF NoLeak
<1>10. FieldsAgree' /\ SlotsLive'
  BY <1>2, <1>3, <1>6 DEF IInv, FieldsAgree, SlotsLive, r
<1>11. DyingHolds' /\ DyingOwner' /\ CallInv' /\ TmpInv'
  BY <1>1, <1>3, IdleFacts, IdleRest
<1> QED
  BY <1>5, <1>7, <1>8, <1>9, <1>10, <1>11 DEF IInv

\* A step that moves no handle keeps the counts.
LEMMA SameHolders ==
    ASSUME IInv, ref' = ref, count' = count, objs' = objs,
           \A m : Holding(m)' <=> Holding(m)
    PROVE  /\ CountsExact'
           /\ \A m \in live' : Holding(m)' => ref'[m].ptr \in objs' /\ count'[ref'[m].cnt] > 0
           /\ \A o \in objs' : \E m \in live' : Holding(m)' /\ ref'[m].ptr = o
           /\ \A m, n \in live' : Holding(m)' /\ Holding(n)' =>
                 (ref'[m].cnt = ref'[n].cnt <=> ref'[m].ptr = ref'[n].ptr)
<1>1. CountsExact'
  <2> SUFFICES ASSUME NEW c \in Ctr PROVE count'[c] = Cardinality(Holders(c)')
    BY DEF CountsExact
  <2>1. Holders(c)' = Holders(c)
    BY HoldersDef, HoldersDefNext
  <2> QED
    BY <2>1, CountSame
<1>2. \A m \in live' : Holding(m)' => ref'[m].ptr \in objs' /\ count'[ref'[m].cnt] > 0
  BY HoldingFacts
<1>3. \A o \in objs' : \E m \in live' : Holding(m)' /\ ref'[m].ptr = o
  <2>1. \A m : Holding(m) => m \in live'
    BY DEF Holding
  <2> QED
    BY <2>1 DEF IInv, NoLeak
<1>4. \A m, n \in live' : Holding(m)' /\ Holding(n)' =>
         (ref'[m].cnt = ref'[n].cnt <=> ref'[m].ptr = ref'[n].ptr)
  BY HoldingFacts DEF IInv, NoLeak
<1> QED
  BY <1>1, <1>2, <1>3, <1>4

THEOREM ConstructNullInv ==
    ASSUME IInv, NEW v \in Var, ConstructNull(v)
    PROVE  IInv'
<1>1. /\ Idle /\ v \notin live /\ v \in Loc /\ v # Tmp /\ v # NULL
      /\ live' = live \cup {v} /\ ref' = [ref EXCEPT ![v] = NullRef]
      /\ objs' = objs /\ count' = count /\ dying' = dying /\ call' = call
      /\ dying' = {} /\ call' = NoCall
  BY LocKinds DEF ConstructNull, Idle
<1>2. TypeOK'
  BY <1>1 DEF IInv, TypeOK, NullRef, NoCall
<1>3. /\ \A m \in Loc : ref'[m] = IF m = v THEN NullRef ELSE ref[m]
      /\ \A m : Holding(m)' <=> Holding(m)
      /\ \A m : Holding(m) => m \in Loc /\ m # v
  <2>1. \A m \in Loc : ref'[m] = IF m = v THEN NullRef ELSE ref[m]
    BY <1>1 DEF IInv, TypeOK
  <2>2. \A m : Holding(m)' <=> m \in live' /\ ref'[m].cnt # NULL
    BY <1>1, <1>2, LocKinds DEF Holding, TypeOK, NoCall
  <2>3. \A m : Holding(m) => m \in Loc /\ m # v
    BY <1>1, HoldingFacts
  <2> QED
    BY <2>1, <2>2, <2>3, <1>1, IdleFacts DEF IInv, TypeOK, NullRef
<1>4. CountsExact'
  <2> SUFFICES ASSUME NEW c \in Ctr PROVE count'[c] = Cardinality(Holders(c)')
    BY DEF CountsExact
  <2>1. \A m : m \in Holders(c)' <=> Holding(m)' /\ ref'[m].cnt = c
    BY HoldersDefNext
  <2>2. \A m : m \in Holders(c) <=> Holding(m) /\ ref[m].cnt = c
    BY HoldersDef
  <2>3. Holders(c)' = Holders(c)
    BY <1>3, <2>1, <2>2
  <2> QED
    BY <2>3, <1>1, CountSame
<1>5. NoDangling'
  BY <1>1, <1>3, HoldingFacts DEF NoDangling
<1>6. NoLeak'
  <2>1. \A o \in objs' : \E m \in live' : Holding(m)' /\ ref'[m].ptr = o
    BY <1>1, <1>3, HoldingFacts DEF IInv, NoLeak
  <2>2. \A o \in Obj, m \in live' : m \in Slots(o) => o \in objs' \/ m \in dying'
    <3>1. \A o \in Obj : v \notin Slots(o)
      BY LocKinds
    <3>2. \A o \in Obj, m \in live : m \in Slots(o) => o \in objs \/ m \in dying
      BY DEF IInv, NoLeak
    <3> QED
      BY <3>1, <3>2, <1>1
  <2>3. \A m, n \in live' : Holding(m)' /\ Holding(n)' =>
           (ref'[m].cnt = ref'[n].cnt <=> ref'[m].ptr = ref'[n].ptr)
    BY <1>3, HoldingFacts DEF IInv, NoLeak
  <2> QED
    BY <2>1, <2>2, <2>3 DEF NoLeak
<1>7. FieldsAgree' /\ SlotsLive'
  BY <1>1, <1>3 DEF IInv, FieldsAgree, SlotsLive, NullRef
<1>8. DyingHolds' /\ DyingOwner' /\ CallInv' /\ TmpInv'
  BY <1>1, IdleFacts, IdleRest
<1> QED
  BY <1>2, <1>4, <1>5, <1>6, <1>7, <1>8 DEF IInv

THEOREM DestroyInv ==
    ASSUME IInv, NEW v \in Var, Destroy(v)
    PROVE  IInv'
<1>1. /\ Idle /\ v \in live /\ v \in Loc /\ v # Tmp /\ v \notin Slot
      /\ live' = live \ ({v} \ ToDispose(v)) /\ dying' = ToDispose(v)
      /\ ref' = ref /\ objs' = objs /\ count' = count
      /\ call' = NoCall
  BY LocKinds DEF Destroy, Idle
<1>2. \/ ref[v].cnt = NULL /\ live' = live \ {v} /\ dying' = {}
      \/ ref[v].cnt # NULL /\ live' = live /\ dying' = {v}
  BY <1>1 DEF ToDispose
<1>3. TypeOK'
  BY <1>1, <1>2 DEF IInv, TypeOK, Idle, NoCall
<1>4. \A m : Holding(m)' <=> Holding(m)
  <2>1. \A m : Holding(m)' <=> m \in live' /\ ref[m].cnt # NULL
    BY <1>1, <1>3, LocKinds DEF Holding, TypeOK, NoCall
  <2> QED
    BY <2>1, <1>2, IdleFacts, <1>1
<1>5. /\ CountsExact'
      /\ \A m \in live' : Holding(m)' => ref'[m].ptr \in objs' /\ count'[ref'[m].cnt] > 0
      /\ \A o \in objs' : \E m \in live' : Holding(m)' /\ ref'[m].ptr = o
      /\ \A m, n \in live' : Holding(m)' /\ Holding(n)' =>
            (ref'[m].cnt = ref'[n].cnt <=> ref'[m].ptr = ref'[n].ptr)
  BY <1>1, <1>4, SameHolders
<1>6. NoDangling'
  BY <1>1, <1>5 DEF NoDangling
<1>7. NoLeak'
  <2>1. \A o \in Obj, m \in live' : m \in Slots(o) => o \in objs' \/ m \in dying'
    BY <1>1, <1>2 DEF IInv, NoLeak, Idle
  <2> QED
    BY <1>5, <2>1 DEF NoLeak
<1>8. FieldsAgree' /\ SlotsLive'
  <2>1. \A o \in objs : v \notin Slots(o)
    BY LocKinds DEF IInv, TypeOK
  <2> QED
    BY <2>1, <1>1, <1>2 DEF IInv, FieldsAgree, SlotsLive
<1>9. DyingHolds' /\ DyingOwner' /\ CallInv' /\ TmpInv'
  <2>1. DyingHolds' /\ CallInv'
    BY <1>1, <1>2 DEF DyingHolds, CallInv
  <2>2. DyingOwner'
    <3>1. \A o \in objs : v \notin Slots(o)
      BY LocKinds DEF IInv, TypeOK
    <3> QED
      BY <1>1, <1>2, <3>1 DEF DyingOwner
  <2>3. TmpInv'
    BY <1>1, <1>2, IdleFacts DEF TmpInv
  <2> QED
    BY <2>1, <2>2, <2>3
<1> QED
  BY <1>3, <1>5, <1>6, <1>7, <1>8, <1>9 DEF IInv

THEOREM AssignInv ==
    ASSUME IInv, NEW v \in Var, NEW l \in Var \cup Slot, Assign(v, l)
    PROVE  IInv'
<1>1. /\ Idle /\ v \in live /\ v \in Loc /\ v # Tmp /\ v \notin Slot /\ v # l
      /\ Readable(l, {v}) /\ l \in Loc /\ l # Tmp /\ l # NULL
      /\ dying' = ToDispose(v) /\ call' = [dst |-> v, src |-> l]
      /\ live' = live /\ ref' = ref /\ objs' = objs /\ count' = count
  BY LocKinds DEF Assign, SameHandle
<1>2. \/ ref[v].cnt = NULL /\ dying' = {}
      \/ ref[v].cnt # NULL /\ dying' = {v}
  BY <1>1 DEF ToDispose
<1>3. l \in live /\ call'.dst = v /\ call'.src = l /\ call' # NoCall
  BY <1>1, ReadableAlive DEF NoCall
<1>4. TypeOK'
  BY <1>1, <1>2 DEF IInv, TypeOK
<1>5. \A m : Holding(m)' <=> Holding(m)
  <2>1. \A m : Holding(m)' <=> m \in live /\ ref[m].cnt # NULL /\ (m = v => m \in dying')
    BY <1>1, <1>3 DEF Holding
  <2> QED
    BY <2>1, <1>2, <1>1, IdleFacts
<1>6. /\ CountsExact'
      /\ \A m \in live' : Holding(m)' => ref'[m].ptr \in objs' /\ count'[ref'[m].cnt] > 0
      /\ \A o \in objs' : \E m \in live' : Holding(m)' /\ ref'[m].ptr = o
      /\ \A m, n \in live' : Holding(m)' /\ Holding(n)' =>
            (ref'[m].cnt = ref'[n].cnt <=> ref'[m].ptr = ref'[n].ptr)
  BY <1>1, <1>5, SameHolders
<1>7. NoDangling'
  BY <1>1, <1>3, <1>6 DEF NoDangling
<1>8. NoLeak'
  <2>1. \A o \in Obj, m \in live' : m \in Slots(o) => o \in objs' \/ m \in dying'
    BY <1>1, <1>2 DEF IInv, NoLeak, Idle
  <2> QED
    BY <1>6, <2>1 DEF NoLeak
<1>9. FieldsAgree' /\ SlotsLive'
  BY <1>1 DEF IInv, FieldsAgree, SlotsLive
<1>10. DyingHolds' /\ DyingOwner' /\ TmpInv'
  BY <1>1, <1>2, <1>3, IdleFacts DEF DyingHolds, DyingOwner, TmpInv
<1>11. CallInv'
  <2>1. l \in Var \/ (l \in Slot /\ Kept(l)')
    <3>1. CASE l \notin Var
      <4>1. PICK u \in Var \ {v} : HoldsSlot(u, l)
        BY <3>1, <1>1 DEF Readable
      <4>2. HoldsSlot(u, l)' /\ u # call'.dst /\ u \notin dying'
        BY <4>1, <1>1, <1>2, <1>3 DEF HoldsSlot
      <4> QED
        BY <4>1, <4>2, <3>1 DEF Kept
    <3> QED
      BY <3>1
  <2> QED
    BY <2>1, <1>1, <1>2, <1>3 DEF CallInv
<1> QED
  BY <1>4, <1>6, <1>7, <1>8, <1>9, <1>10, <1>11 DEF IInv

THEOREM OwnInv ==
    ASSUME IInv, NEW v \in Var, NEW o \in Obj, NEW c \in Ctr, NEW kid \in Kids,
           v \notin live \/ ref[v] = NullRef,
           Own(v, o, c, kid)
    PROVE  IInv'
<1> DEFINE s == <<o, 1>>
<1>1. /\ Idle /\ o \notin objs /\ count[c] = 0
      /\ live' = live \cup {v} \cup Slots(o) /\ objs' = objs \cup {o}
      /\ dying' = {} /\ call' = NoCall
      /\ v \in Loc /\ v # Tmp /\ v \notin Slot /\ Tmp \notin live'
      /\ s \in Slots(o) /\ s \in Slot /\ s \in Loc /\ Slots(o) \subseteq Slot /\ Slots(o) \subseteq Loc /\ s # v
      /\ c # NULL /\ o # NULL
  <2>1. Idle /\ Tmp \notin live
    BY IdleFacts DEF Own
  <2>2. s \in Slots(o) /\ Slots(o) \subseteq Slot /\ s \in Slot /\ s \in Loc /\ Slots(o) \subseteq Loc
    BY LocKinds
  <2>3. v \in Loc /\ v # Tmp /\ v \notin Slot /\ Tmp \notin Slots(o) /\ c # NULL /\ o # NULL
    BY <2>2, LocKinds
  <2> HIDE DEF s
  <2> QED
    BY <2>1, <2>2, <2>3 DEF Own, Idle
<1>2. PICK w \in Var : kid = NullRef \/ (w \in live /\ kid = ref[w])
  BY DEF Kids
<1>3. /\ kid \in [cnt : Ctr \cup {NULL}, ptr : Obj \cup {NULL}]
      /\ kid.cnt = NULL <=> kid.ptr = NULL
      /\ kid.cnt # NULL => Holding(w) /\ kid = ref[w]
  BY <1>1, <1>2, IdleFacts, LocKinds DEF IInv, TypeOK, FieldsAgree, NullRef
<1>4. \A m : Holding(m) => m \in Loc /\ m # v /\ m \notin Slots(o) /\ m # s /\ ref[m].cnt # c /\ ref[m].ptr # o
  <2> SUFFICES ASSUME NEW m, Holding(m)
               PROVE  m \in Loc /\ m # v /\ m \notin Slots(o) /\ m # s /\ ref[m].cnt # c /\ ref[m].ptr # o
    OBVIOUS
  <2>1. /\ m \in Loc /\ m \in live /\ ref[m].cnt # NULL /\ count[ref[m].cnt] > 0
        /\ ref[m].ptr \in objs
    BY HoldingFacts DEF Holding
  <2>2. m # v
    BY <2>1 DEF NullRef
  <2>3. Slots(o) \cap live = {}
    BY <1>1, IdleFacts
  <2> HIDE DEF s
  <2>4. ref[m].cnt # c
    BY <2>1, <1>1
  <2> QED
    BY <2>1, <2>2, <2>3, <2>4, <1>1
<1>5. \A m \in Loc : ref'[m] = IF m = v THEN [cnt |-> c, ptr |-> o]
                               ELSE IF m = s THEN kid
                               ELSE IF m \in Slots(o) THEN NullRef ELSE ref[m]
  BY DEF Own
<1>6. /\ count' \in [Ctr -> Nat]
      /\ \A d \in Ctr : count'[d] = IF d = c THEN 1
                                    ELSE IF kid.cnt = d THEN count[d] + 1 ELSE count[d]
  <2>1. kid.cnt # c
    BY <1>3, <1>4, <1>1
  <2>2. [count EXCEPT ![c] = 1] \in [Ctr -> Nat]
    BY DEF IInv, TypeOK
  <2>3. count' = Acquire(kid, [count EXCEPT ![c] = 1]) /\ kid.cnt \in Ctr \cup {NULL}
    BY <1>3 DEF Own
  <2>4. /\ count' \in [Ctr -> Nat]
        /\ \A d \in Ctr : count'[d] = IF kid.cnt = d THEN [count EXCEPT ![c] = 1][d] + 1
                                      ELSE [count EXCEPT ![c] = 1][d]
    BY <2>2, <2>3, AcquireType
  <2> QED
    BY <2>1, <2>4 DEF IInv, TypeOK
<1> HIDE DEF s
<1>7. TypeOK'
  <2>1. ref' \in [Loc -> [cnt : Ctr \cup {NULL}, ptr : Obj \cup {NULL}]]
    <3>1. \A m \in Loc : ref'[m] \in [cnt : Ctr \cup {NULL}, ptr : Obj \cup {NULL}]
      BY <1>5, <1>3 DEF IInv, TypeOK, NullRef
    <3>2. ref' = [m \in Loc |-> ref'[m]]
      BY DEF Own
    <3> QED
      BY <3>1, <3>2
  <2>2. live' \subseteq Loc /\ objs' \subseteq Obj /\ dying' \subseteq live'
    BY <1>1 DEF IInv, TypeOK
  <2> QED
    BY <2>1, <2>2, <1>1, <1>6 DEF TypeOK, NoCall
<1>8. \A m : Holding(m)' <=> Holding(m) \/ m = v \/ (m = s /\ kid.cnt # NULL)
  <2>1. \A m : Holding(m)' <=> m \in live' /\ ref'[m].cnt # NULL
    BY <1>1, <1>7, LocKinds DEF Holding, TypeOK, NoCall
  <2>2. \A m : Holding(m) <=> m \in live /\ ref[m].cnt # NULL
    BY <1>1, IdleFacts
  <2>3. \A m \in live : m \in Loc
    BY DEF IInv, TypeOK
  <2>4. \A m : Holding(m)' => Holding(m) \/ m = v \/ (m = s /\ kid.cnt # NULL)
    <3> SUFFICES ASSUME NEW m, Holding(m)', m # v, m # s PROVE Holding(m)
      BY <2>1, <1>1, <1>5
    <3>1. m \in live' /\ ref'[m].cnt # NULL /\ m \in Loc
      BY <2>1, <1>7 DEF TypeOK
    <3>2. m \notin Slots(o)
      BY <3>1, <1>5 DEF NullRef
    <3> QED
      BY <3>1, <3>2, <1>1, <1>5, <2>2
  <2>5. \A m : Holding(m) => Holding(m)'
    BY <2>1, <2>2, <1>1, <1>4, <1>5
  <2>6. Holding(v)' /\ (kid.cnt # NULL => Holding(s)')
    BY <2>1, <1>1, <1>5
  <2> QED
    BY <2>4, <2>5, <2>6
\* The handle an old or a new handle repeats.
<1> DEFINE old(m) == IF m = s THEN w ELSE m
<1>9. \A m : Holding(m)' /\ m # v => Holding(old(m)) /\ ref'[m] = ref[old(m)]
  <2> SUFFICES ASSUME NEW m, Holding(m)', m # v PROVE Holding(old(m)) /\ ref'[m] = ref[old(m)]
    OBVIOUS
  <2>1. CASE m = s
    BY <2>1, <1>1, <1>3, <1>4, <1>5, <1>8
  <2>2. CASE m # s
    BY <2>2, <1>4, <1>5, <1>8
  <2> QED
    BY <2>1, <2>2
<1> HIDE DEF old
<1>10. CountsExact'
  <2> SUFFICES ASSUME NEW d \in Ctr PROVE count'[d] = Cardinality(Holders(d)')
    BY DEF CountsExact
  <2>1. \A m : m \in Holders(d)' <=> Holding(m)' /\ ref'[m].cnt = d
    BY HoldersDefNext
  <2>2. \A m : m \in Holders(d) <=> Holding(m) /\ ref[m].cnt = d
    BY HoldersDef
  <2>3. \A m : m \in Holders(d)' <=>
           \/ m \in Holders(d) \/ (m = v /\ d = c) \/ (m = s /\ kid.cnt = d /\ d # c)
    <3>1. kid.cnt # c
      BY <1>3, <1>4, <1>1
    <3>2. \A m : Holding(m) => ref'[m] = ref[m]
      BY <1>4, <1>5
    <3>3. ref'[v].cnt = c /\ ref'[s] = kid
      BY <1>1, <1>5
    <3>4. \A m : Holding(m) => m # v /\ m # s
      BY <1>4
    <3>5. d # NULL
      BY LocKinds
    <3>6. \A m : m \in Holders(d) => ref[m].cnt = d /\ Holding(m)
      BY <2>2
    <3> QED
      BY <2>1, <2>2, <1>1, <3>1, <3>2, <3>3, <3>4, <3>5, <3>6, <1>8
  <2>4. CASE d = c
    <3>1. Holders(d) = {}
      BY <2>2, <2>4, <1>4
    <3>2. Holders(d)' = {v}
      BY <2>3, <2>4, <3>1
    <3> QED
      BY <3>2, <2>4, <1>6, FS_Singleton
  <2>5. CASE d # c /\ kid.cnt = d
    <3>1. Holders(d)' = Holders(d) \cup {s}
      BY <2>3, <2>5
    <3>2. s \notin Holders(d)
      BY <2>2, <1>4
    <3> QED
      BY <3>1, <3>2, <2>5, <1>6, CountAdd
  <2>6. CASE d # c /\ kid.cnt # d
    <3>1. Holders(d)' = Holders(d)
      BY <2>3, <2>6
    <3> QED
      BY <3>1, <2>6, <1>6, CountSame
  <2> QED
    BY <2>4, <2>5, <2>6
<1>11. NoDangling'
  <2>1. ASSUME NEW m, Holding(m)' PROVE ref'[m].ptr \in objs' /\ count'[ref'[m].cnt] > 0
    <3>1. CASE m = v
      BY <3>1, <1>1, <1>5, <1>6
    <3>2. CASE m # v
      <4>1. /\ ref'[m].ptr \in objs /\ ref'[m].cnt \in Ctr /\ count[ref'[m].cnt] > 0
            /\ ref'[m].cnt # c
        BY <2>1, <3>2, <1>4, <1>9, HoldingFacts
      <4> QED
        BY <4>1, <1>1, <1>6 DEF IInv, TypeOK
    <3> QED
      BY <3>1, <3>2
  <2> QED
    BY <2>1, <1>1 DEF NoDangling
<1>12. NoLeak'
  <2>1. \A p \in objs' : \E m \in live' : Holding(m)' /\ ref'[m].ptr = p
    <3>1. Holding(v)' /\ ref'[v].ptr = o /\ v \in live'
      BY <1>1, <1>5, <1>8
    <3>2. \A p \in objs : \E m \in live : Holding(m) /\ ref[m].ptr = p
      BY DEF IInv, NoLeak
    <3>3. \A m : Holding(m) => Holding(m)' /\ ref'[m] = ref[m]
      BY <1>4, <1>5, <1>8
    <3> QED
      BY <3>1, <3>2, <3>3, <1>1
  <2>2. \A p \in Obj, m \in live' : m \in Slots(p) => p \in objs' \/ m \in dying'
    <3> SUFFICES ASSUME NEW p \in Obj, NEW m \in live', m \in Slots(p) PROVE p \in objs'
      OBVIOUS
    <3>1. m \in Slot /\ m # v
      <4>1. Slots(p) \subseteq Slot
        BY LocKinds
      <4> QED
        BY <4>1, <1>1
    <3>2. CASE m \in Slots(o)
      <4>1. p = o
        BY <3>1, <3>2, LocKinds
      <4> QED
        BY <4>1, <1>1
    <3>3. CASE m \notin Slots(o)
      <4>1. m \in live
        BY <3>1, <3>3, <1>1
      <4> QED
        BY <4>1, <1>1 DEF IInv, NoLeak, Idle
    <3> QED
      BY <3>2, <3>3
  <2>3. \A m, n \in live' : Holding(m)' /\ Holding(n)' =>
           (ref'[m].cnt = ref'[n].cnt <=> ref'[m].ptr = ref'[n].ptr)
    <3>1. ref'[v].cnt = c /\ ref'[v].ptr = o
      BY <1>1, <1>5
    <3>2. \A m : Holding(m)' /\ m # v => ref'[m].cnt # c /\ ref'[m].ptr # o
      BY <1>4, <1>9
    <3>3. \A m, n : Holding(m) /\ Holding(n) =>
             (ref[m].cnt = ref[n].cnt <=> ref[m].ptr = ref[n].ptr)
      BY HoldingFacts DEF IInv, NoLeak
    <3> QED
      BY <3>1, <3>2, <3>3, <1>9
  <2> QED
    BY <2>1, <2>2, <2>3 DEF NoLeak
<1>13. FieldsAgree'
  BY <1>1, <1>3, <1>5 DEF IInv, FieldsAgree, NullRef
<1>14. SlotsLive'
  BY <1>1 DEF IInv, SlotsLive
<1>15. DyingHolds' /\ DyingOwner' /\ CallInv' /\ TmpInv'
  BY <1>1, IdleRest
<1> QED
  BY <1>7, <1>10, <1>11, <1>12, <1>13, <1>14, <1>15 DEF IInv

THEOREM SetParamInv ==
    ASSUME IInv, NEW u \in Var, NEW l \in Slot, NEW w \in Var, setParam(u, l, w)
    PROVE  IInv'
<1> DEFINE r == ref[w]
<1>1. /\ Idle /\ HoldsSlot(u, l) /\ w \in live /\ w \in Loc /\ w # Tmp /\ w \notin Slot
      /\ u # l /\ l # Tmp /\ l \in Loc /\ l # NULL /\ Tmp # NULL /\ Tmp \in Loc /\ u # Tmp
      /\ live' = live \cup {Tmp} /\ ref' = [ref EXCEPT ![Tmp] = r] /\ objs' = objs
      /\ dying' = ToDispose(l) /\ call' = [dst |-> l, src |-> Tmp]
      /\ count' = Acquire(r, count)
  BY LocKinds DEF setParam
<1>2. /\ Tmp \notin live /\ call'.dst = l /\ call'.src = Tmp /\ call' # NoCall
      /\ \A m : Holding(m) <=> m \in live /\ ref[m].cnt # NULL
  BY <1>1, IdleFacts DEF NoCall
<1>3. /\ l \in live /\ ref[u].ptr \in objs /\ ref[u].ptr \in Obj /\ l \in Slots(ref[u].ptr) /\ Holding(u)
  BY <1>1, SlotAlive, IdleFacts, LocKinds, HoldingFacts
<1>4. \/ ref[l].cnt = NULL /\ dying' = {}
      \/ ref[l].cnt # NULL /\ dying' = {l}
  BY <1>1 DEF ToDispose
<1>5. /\ r \in [cnt : Ctr \cup {NULL}, ptr : Obj \cup {NULL}] /\ r.cnt \in Ctr \cup {NULL}
      /\ r.cnt = NULL \/ (Holding(w) /\ r.cnt \in Ctr)
      /\ r.cnt = NULL <=> r.ptr = NULL
  BY <1>1, <1>2 DEF IInv, TypeOK, FieldsAgree
<1>6. /\ \A m \in Loc : ref'[m] = IF m = Tmp THEN r ELSE ref[m]
      /\ ref' \in [Loc -> [cnt : Ctr \cup {NULL}, ptr : Obj \cup {NULL}]]
  BY <1>1, <1>5 DEF IInv, TypeOK
<1>7. r = ref[w]
  OBVIOUS
<1> HIDE DEF r
<1>8. /\ count' \in [Ctr -> Nat]
      /\ \A c \in Ctr : count'[c] = IF r.cnt = c THEN count[c] + 1 ELSE count[c]
  <2>1. count \in [Ctr -> Nat]
    BY DEF IInv, TypeOK
  <2> QED
    BY <2>1, <1>1, <1>5, AcquireType
<1>9. TypeOK'
  BY <1>1, <1>3, <1>4, <1>6, <1>8 DEF IInv, TypeOK
<1>10. /\ \A m : Holding(m) => m \in Loc /\ m # Tmp /\ m \in live
       /\ \A m : Holding(m)' <=> Holding(m) \/ (m = Tmp /\ r.cnt # NULL)
  <2>1. \A m : Holding(m) => m \in Loc /\ m # Tmp /\ m \in live
    BY <1>2, HoldingFacts
  <2>2. \A m : Holding(m)' <=> m \in live' /\ ref'[m].cnt # NULL /\ (m = l => m \in dying')
    BY <1>2 DEF Holding
  <2>3. \A m \in live : m \in Loc /\ m # Tmp
    BY <1>2 DEF IInv, TypeOK
  <2> QED
    BY <2>1, <2>2, <2>3, <1>1, <1>2, <1>4, <1>6
<1> DEFINE old(m) == IF m = Tmp THEN w ELSE m
<1>11. \A m : Holding(m)' => Holding(old(m)) /\ ref'[m] = ref[old(m)]
  BY <1>1, <1>5, <1>6, <1>7, <1>10
<1> HIDE DEF old
<1>12. CountsExact'
  <2> SUFFICES ASSUME NEW c \in Ctr PROVE count'[c] = Cardinality(Holders(c)')
    BY DEF CountsExact
  <2>1. \A m : m \in Holders(c)' <=> Holding(m)' /\ ref'[m].cnt = c
    BY HoldersDefNext
  <2>2. \A m : m \in Holders(c) <=> Holding(m) /\ ref[m].cnt = c
    BY HoldersDef
  <2>3. c # NULL
    BY LocKinds
  <2>4. \A m : m \in Holders(c)' <=> m \in Holders(c) \/ (m = Tmp /\ r.cnt = c)
    <3>1. ref'[Tmp] = r
      BY <1>1, <1>6
    <3>2. \A m : Holding(m) => ref'[m] = ref[m] /\ m # Tmp
      BY <1>10, <1>6
    <3> QED
      BY <2>1, <2>2, <2>3, <3>1, <3>2, <1>10
  <2>5. CASE r.cnt = c
    <3>1. Holders(c)' = Holders(c) \cup {Tmp} /\ Tmp \notin Holders(c)
      BY <2>2, <2>4, <2>5, <1>10
    <3> QED
      BY <3>1, <2>5, <1>8, CountAdd
  <2>6. CASE r.cnt # c
    <3>1. Holders(c)' = Holders(c)
      BY <2>4, <2>6
    <3> QED
      BY <3>1, <2>6, <1>8, CountSame
  <2> QED
    BY <2>5, <2>6
<1>13. NoDangling'
  <2>1. ASSUME NEW m, Holding(m)' PROVE ref'[m].ptr \in objs' /\ count'[ref'[m].cnt] > 0
    <3>1. ref'[m].ptr \in objs /\ ref'[m].cnt \in Ctr /\ count[ref'[m].cnt] > 0
      BY <2>1, <1>11, HoldingFacts
    <3> QED
      BY <3>1, <1>1, <1>8 DEF IInv, TypeOK
  <2> QED
    BY <2>1, <1>1, <1>2, <1>3 DEF NoDangling
<1>14. NoLeak'
  <2>1. \A o \in objs' : \E m \in live' : Holding(m)' /\ ref'[m].ptr = o
    <3>1. \A o \in objs : \E m \in live : Holding(m) /\ ref[m].ptr = o
      BY DEF IInv, NoLeak
    <3>2. \A m : Holding(m) => Holding(m)' /\ ref'[m] = ref[m]
      BY <1>6, <1>10
    <3> QED
      BY <3>1, <3>2, <1>1
  <2>2. \A o \in Obj, m \in live' : m \in Slots(o) => o \in objs' \/ m \in dying'
    <3>1. \A o \in Obj : Tmp \notin Slots(o)
      BY LocKinds
    <3>2. \A o \in Obj, m \in live : m \in Slots(o) => o \in objs
      BY <1>1 DEF IInv, NoLeak, Idle
    <3> QED
      BY <3>1, <3>2, <1>1
  <2>3. \A m, n \in live' : Holding(m)' /\ Holding(n)' =>
           (ref'[m].cnt = ref'[n].cnt <=> ref'[m].ptr = ref'[n].ptr)
    <3>1. \A m, n : Holding(m) /\ Holding(n) =>
             (ref[m].cnt = ref[n].cnt <=> ref[m].ptr = ref[n].ptr)
      BY HoldingFacts DEF IInv, NoLeak
    <3> QED
      BY <3>1, <1>11
  <2> QED
    BY <2>1, <2>2, <2>3 DEF NoLeak
<1>15. FieldsAgree' /\ SlotsLive'
  BY <1>1, <1>5, <1>6 DEF IInv, FieldsAgree, SlotsLive
<1>16. DyingHolds' /\ DyingOwner' /\ TmpInv'
  BY <1>1, <1>2, <1>4, <1>6 DEF DyingHolds, DyingOwner, TmpInv
<1>17. CallInv'
  <2>1. Kept(l)'
    <3>1. u # l /\ u \notin dying' /\ HoldsSlot(u, l)'
      <4>1. u \in Loc /\ ref'[u] = ref[u] /\ u \in live'
        BY <1>1, <1>3, <1>6, HoldingFacts
      <4> QED
        BY <4>1, <1>1, <1>4 DEF HoldsSlot
    <3> QED
      BY <3>1, <1>2 DEF Kept
  <2>2. dying' \cap Var \subseteq {l}
    BY <1>4
  <2>3. l \in live' /\ Tmp \in live' /\ Tmp # l /\ Tmp \notin dying'
    BY <1>1, <1>3, <1>4
  <2> QED
    BY <2>1, <2>2, <2>3, <1>2 DEF CallInv
<1> QED
  BY <1>9, <1>12, <1>13, <1>14, <1>15, <1>16, <1>17 DEF IInv

THEOREM CpyInv ==
    ASSUME IInv, cpy
    PROVE  IInv'
<1> DEFINE d == call.dst
           s == call.src
           r == ref[s]
<1>1. /\ dying = {} /\ call # NoCall /\ call' = NoCall /\ objs' = objs
      /\ ref' = [ref EXCEPT ![d] = r] /\ count' = Acquire(r, count)
      /\ d \in live /\ s \in live /\ s # d /\ d \in Loc /\ s \in Loc /\ d # NULL /\ s # NULL
      /\ d # Tmp /\ Tmp \in Loc
  BY LocKinds DEF cpy, IInv, CallInv, TypeOK
<1>2. /\ s = Tmp => Tmp \in live
      /\ s # Tmp => Tmp \notin live
  BY <1>1 DEF IInv, TmpInv
<1>3. \/ s # Tmp /\ live' = live /\ dying' = {}
      \/ s = Tmp /\ r.cnt = NULL /\ live' = live \ {Tmp} /\ dying' = {}
      \/ s = Tmp /\ r.cnt # NULL /\ live' = live /\ dying' = {Tmp}
  BY DEF cpy, ToDispose
<1>4. /\ r \in [cnt : Ctr \cup {NULL}, ptr : Obj \cup {NULL}] /\ r.cnt \in Ctr \cup {NULL}
      /\ r.cnt = NULL <=> r.ptr = NULL
      /\ r.cnt # NULL => Holding(s)
  BY <1>1 DEF IInv, TypeOK, FieldsAgree, Holding
<1>5. /\ \A m \in Loc : ref'[m] = IF m = d THEN r ELSE ref[m]
      /\ ref' \in [Loc -> [cnt : Ctr \cup {NULL}, ptr : Obj \cup {NULL}]]
  BY <1>1, <1>4 DEF IInv, TypeOK
<1>6. r = ref[s]
  OBVIOUS
<1>7. \A m : Holding(m) <=> m \in live /\ ref[m].cnt # NULL /\ m # d
  BY <1>1 DEF Holding
<1> HIDE DEF d, s, r
<1>8. /\ count' \in [Ctr -> Nat]
      /\ \A c \in Ctr : count'[c] = IF r.cnt = c THEN count[c] + 1 ELSE count[c]
  <2>1. count \in [Ctr -> Nat]
    BY DEF IInv, TypeOK
  <2> QED
    BY <2>1, <1>1, <1>4, AcquireType
<1>9. TypeOK'
  BY <1>1, <1>2, <1>3, <1>5, <1>8 DEF IInv, TypeOK, NoCall
<1>10. \A m : Holding(m)' <=> Holding(m) \/ (m = d /\ r.cnt # NULL)
  <2>1. \A m : Holding(m)' <=> m \in live' /\ ref'[m].cnt # NULL
    BY <1>1, <1>9, LocKinds DEF Holding, TypeOK, NoCall
  <2>2. \A m : m \in live => m \in Loc
    BY DEF IInv, TypeOK
  <2>3. \A m : m \in live' <=> m \in live /\ ~(m = Tmp /\ s = Tmp /\ r.cnt = NULL)
    BY <1>3
  <2> QED
    BY <2>1, <2>2, <2>3, <1>1, <1>5, <1>6, <1>7
<1> DEFINE old(m) == IF m = d THEN s ELSE m
<1>11. \A m : Holding(m)' => Holding(old(m)) /\ ref'[m] = ref[old(m)]
  BY <1>4, <1>5, <1>6, <1>7, <1>10, <1>1, HoldingFacts
<1> HIDE DEF old
<1>12. CountsExact'
  <2> SUFFICES ASSUME NEW c \in Ctr PROVE count'[c] = Cardinality(Holders(c)')
    BY DEF CountsExact
  <2>1. \A m : m \in Holders(c)' <=> Holding(m)' /\ ref'[m].cnt = c
    BY HoldersDefNext
  <2>2. \A m : m \in Holders(c) <=> Holding(m) /\ ref[m].cnt = c
    BY HoldersDef
  <2>3. c # NULL
    BY LocKinds
  <2>4. \A m : m \in Holders(c)' <=> m \in Holders(c) \/ (m = d /\ r.cnt = c)
    <3>1. ref'[d] = r
      BY <1>1, <1>5
    <3>2. \A m : Holding(m) => ref'[m] = ref[m] /\ m # d
      BY <1>5, <1>7, HoldingFacts
    <3> QED
      BY <2>1, <2>2, <2>3, <3>1, <3>2, <1>10
  <2>5. CASE r.cnt = c
    <3>1. Holders(c)' = Holders(c) \cup {d} /\ d \notin Holders(c)
      BY <2>2, <2>4, <2>5, <1>7
    <3> QED
      BY <3>1, <2>5, <1>8, CountAdd
  <2>6. CASE r.cnt # c
    <3>1. Holders(c)' = Holders(c)
      BY <2>4, <2>6
    <3> QED
      BY <3>1, <2>6, <1>8, CountSame
  <2> QED
    BY <2>5, <2>6
<1>13. NoDangling'
  <2>1. ASSUME NEW m, Holding(m)' PROVE ref'[m].ptr \in objs' /\ count'[ref'[m].cnt] > 0
    <3>1. ref'[m].ptr \in objs /\ ref'[m].cnt \in Ctr /\ count[ref'[m].cnt] > 0
      BY <2>1, <1>11, HoldingFacts
    <3> QED
      BY <3>1, <1>1, <1>8 DEF IInv, TypeOK
  <2> QED
    BY <2>1, <1>1 DEF NoDangling
<1>14. NoLeak'
  <2>1. \A o \in objs' : \E m \in live' : Holding(m)' /\ ref'[m].ptr = o
    <3>1. \A o \in objs : \E m \in live : Holding(m) /\ ref[m].ptr = o
      BY DEF IInv, NoLeak
    <3>2. \A m : Holding(m) => Holding(m)' /\ ref'[m] = ref[m]
      BY <1>5, <1>7, <1>10, HoldingFacts
    <3>3. \A m : Holding(m)' => m \in live'
      BY DEF Holding
    <3> QED
      BY <3>1, <3>2, <3>3, <1>1
  <2>2. \A o \in Obj, m \in live' : m \in Slots(o) => o \in objs' \/ m \in dying'
    <3>1. \A o \in Obj, m \in live : m \in Slots(o) => o \in objs
      BY <1>1 DEF IInv, NoLeak
    <3> QED
      BY <3>1, <1>1, <1>3
  <2>3. \A m, n \in live' : Holding(m)' /\ Holding(n)' =>
           (ref'[m].cnt = ref'[n].cnt <=> ref'[m].ptr = ref'[n].ptr)
    <3>1. \A m, n : Holding(m) /\ Holding(n) =>
             (ref[m].cnt = ref[n].cnt <=> ref[m].ptr = ref[n].ptr)
      BY HoldingFacts DEF IInv, NoLeak
    <3> QED
      BY <3>1, <1>11
  <2> QED
    BY <2>1, <2>2, <2>3 DEF NoLeak
<1>15. FieldsAgree' /\ SlotsLive'
  <2>1. \A o \in objs : Tmp \notin Slots(o)
    BY LocKinds DEF IInv, TypeOK
  <2> QED
    BY <2>1, <1>1, <1>3, <1>4, <1>5 DEF IInv, FieldsAgree, SlotsLive
<1>16. DyingHolds' /\ DyingOwner' /\ CallInv' /\ TmpInv'
  <2>1. \A o \in objs : Tmp \notin Slots(o)
    BY LocKinds DEF IInv, TypeOK
  <2>2. DyingHolds' /\ DyingOwner' /\ TmpInv'
    BY <2>1, <1>1, <1>2, <1>3, <1>5, <1>6 DEF DyingHolds, DyingOwner, TmpInv
  <2> QED
    BY <2>2, <1>1 DEF CallInv
<1> QED
  BY <1>9, <1>12, <1>13, <1>14, <1>15, <1>16 DEF IInv

\* The handles a pending assignment uses are out of reach of the deletions:
\* another handle keeps their object, so the count that ends is not its own.
LEMMA FreedFacts ==
    ASSUME IInv, NEW l \in dying
    PROVE  /\ Holding(l)
           /\ Freed(l) \subseteq live /\ Freed(l) \subseteq Slot
           /\ LastCount(l) => Freed(l) = Slots(ref[l].ptr)
           /\ ~LastCount(l) => Freed(l) = {}
           /\ call # NoCall => call.dst \notin Freed(l) /\ call.src \notin Freed(l)
           /\ Freed(l) \cap dying = {}
<1>1. Holding(l)
  BY DEF Holding, IInv, TypeOK, DyingHolds
<1>2. Freed(l) \subseteq live /\ Freed(l) \subseteq Slot
  BY <1>1, HoldingFacts, LocKinds DEF Freed
<1>3. ASSUME NEW x \in Slots(ref[l].ptr), LastCount(l), Kept(x), call # NoCall
      PROVE  FALSE
  <2>1. PICK u \in Var : u # call.dst /\ u \notin dying /\ HoldsSlot(u, x)
    BY <1>3 DEF Kept
  <2>2. Holding(u) /\ ref[u].ptr \in objs /\ x \in Slots(ref[u].ptr) /\ x \in Slot
    BY <2>1, SlotAlive
  <2>3. ref[u].ptr = ref[l].ptr
    BY <2>2, <1>1, <1>3, HoldingFacts, LocKinds
  <2>4. u = l
    BY <2>2, <2>3, <1>1, <1>3, SoleHolder DEF LastCount
  <2> QED
    BY <2>1, <2>4
<1>4. call # NoCall => call.dst \notin Freed(l) /\ call.src \notin Freed(l)
  <2>1. call.dst \in Slot => call.dst \notin Freed(l) \/ call = NoCall
    BY <1>3, LocKinds DEF Freed, IInv, CallInv
  <2>2. call.src \in Slot => call.src \notin Freed(l) \/ call = NoCall
    BY <1>3, LocKinds DEF Freed, IInv, CallInv
  <2> QED
    BY <2>1, <2>2, <1>2
<1>5. Freed(l) \cap dying = {}
  <2> SUFFICES ASSUME NEW x \in Freed(l), x \in dying PROVE FALSE
    OBVIOUS
  <2>1. ref[l].ptr \in objs /\ x \in Slots(ref[l].ptr) /\ x \in Loc
    BY <1>1, HoldingFacts DEF Freed, IInv, TypeOK
  <2>2. x = call.dst
    BY <2>1 DEF IInv, DyingOwner
  <2>3. call = NoCall
    BY <2>2, <1>4
  <2> QED
    BY <2>1, <2>2, <2>3, LocKinds DEF NoCall
<1> QED
  BY <1>1, <1>2, <1>4, <1>5 DEF Freed

THEOREM DisposeInv ==
    ASSUME IInv, NEW l \in Loc, dispose(l)
    PROVE  IInv'
<1> DEFINE c0 == ref[l].cnt
           o == ref[l].ptr
           F == Freed(l)
           K == Owning(F)
           last == LastCount(l)
<1>1. l \in dying
  BY DEF dispose
<1>2. /\ Holding(l) /\ F \subseteq live /\ F \subseteq Slot /\ F \cap dying = {}
      /\ last => F = Slots(o)
      /\ ~last => F = {}
      /\ call # NoCall => call.dst \notin F /\ call.src \notin F
  BY <1>1, FreedFacts
<1>3. /\ c0 \in Ctr /\ c0 # NULL /\ o \in Obj /\ o \in objs /\ count[c0] > 0 /\ l \in Holders(c0) /\ l \in live
      /\ last <=> count[c0] = 1
  BY <1>2, HoldingFacts, LocKinds DEF LastCount
<1>4. /\ K \subseteq F /\ \A m \in F : m \in K <=> ref[m].cnt # NULL
  BY DEF Owning
<1>5. /\ count' = [count EXCEPT ![c0] = count[c0] - 1]
      /\ objs' = IF last THEN objs \ {o} ELSE objs
      /\ dying' = (dying \ {l}) \cup K
      /\ live' = (live \ ({l} \ {call.dst})) \ (F \ K)
      /\ ref' = IF last THEN [ref EXCEPT ![l] = NullRef] ELSE ref
      /\ call' = call
  BY DEF dispose, Dead
<1>6. F = {} \/ (last /\ F = Slots(o))
  BY <1>2
<1>7. c0 = ref[l].cnt /\ o = ref[l].ptr
  OBVIOUS
<1>8. call.dst \notin F /\ call.src \notin F
  BY <1>2, LocKinds DEF NoCall, Loc
<1> HIDE DEF c0, o, F, K, last
<1>9. /\ \A m \in Loc : ref'[m] = IF last /\ m = l THEN NullRef ELSE ref[m]
      /\ ref' \in [Loc -> [cnt : Ctr \cup {NULL}, ptr : Obj \cup {NULL}]]
  BY <1>5 DEF IInv, TypeOK, NullRef
<1>10. /\ count' \in [Ctr -> Nat]
       /\ \A c \in Ctr : count'[c] = IF c = c0 THEN count[c] - 1 ELSE count[c]
  BY <1>3, <1>5 DEF IInv, TypeOK
<1>11. l \notin F
  BY <1>1, <1>2
<1>12. TypeOK'
  <2>1. dying' \subseteq live'
    BY <1>2, <1>4, <1>5, <1>11 DEF IInv, TypeOK
  <2>2. live' \subseteq Loc /\ objs' \subseteq Obj
    BY <1>5 DEF IInv, TypeOK
  <2> QED
    BY <2>1, <2>2, <1>5, <1>9, <1>10 DEF IInv, TypeOK
<1>13. /\ \A m : Holding(m)' <=> Holding(m) /\ m # l
       /\ \A m : Holding(m) => m \in Loc /\ m \in live
       /\ \A m : Holding(m)' => m \in live'
       /\ \A m \in Loc : m # l => ref'[m] = ref[m]
  <2>1. \A m : Holding(m) => m \in Loc /\ m \in live
    BY HoldingFacts
  <2>2. \A m : Holding(m)' <=> m \in live' /\ ref'[m].cnt # NULL /\ (m = call.dst => m \in dying')
    BY <1>5 DEF Holding
  <2>3. \A m : Holding(m) <=> m \in live /\ ref[m].cnt # NULL /\ (m = call.dst => m \in dying)
    BY DEF Holding
  <2>4. ~Holding(l)'
    <3>1. CASE l # call.dst
      BY <3>1, <2>2, <1>5
    <3>2. CASE l = call.dst
      BY <3>2, <2>2, <1>4, <1>5, <1>11
    <3> QED
      BY <3>1, <3>2
  <2>5. \A m : Holding(m) /\ m # l => Holding(m)'
    <3> SUFFICES ASSUME NEW m, Holding(m), m # l PROVE Holding(m)'
      OBVIOUS
    <3>1. m \in live /\ m \in Loc /\ ref[m].cnt # NULL /\ ref'[m] = ref[m]
      BY <2>1, <2>3, <1>9
    <3>2. m \in live'
      BY <3>1, <1>4, <1>5
    <3>3. m = call.dst => m \in dying'
      BY <2>3, <1>5
    <3> QED
      BY <2>2, <3>1, <3>2, <3>3
  <2>6. \A m : Holding(m)' /\ m # l => Holding(m)
    <3> SUFFICES ASSUME NEW m, Holding(m)', m # l PROVE Holding(m)
      OBVIOUS
    <3>1. m \in live /\ m \in Loc
      BY <2>2, <1>5 DEF IInv, TypeOK
    <3>2. ref[m].cnt # NULL
      BY <3>1, <2>2, <1>9
    <3>3. m = call.dst => m \in dying
      BY <2>2, <1>4, <1>5, <1>8
    <3> QED
      BY <2>3, <3>1, <3>2, <3>3
  <2> QED
    BY <2>1, <2>2, <2>4, <2>5, <2>6, <1>9
<1>14. CountsExact'
  <2> SUFFICES ASSUME NEW c \in Ctr PROVE count'[c] = Cardinality(Holders(c)')
    BY DEF CountsExact
  <2>1. \A m : m \in Holders(c)' <=> Holding(m)' /\ ref'[m].cnt = c
    BY HoldersDefNext
  <2>2. \A m : m \in Holders(c) <=> Holding(m) /\ ref[m].cnt = c
    BY HoldersDef
  <2>3. \A m : m \in Holders(c)' <=> m \in Holders(c) /\ m # l
    BY <2>1, <2>2, <1>13
  <2>4. CASE c = c0
    <3>1. Holders(c)' = Holders(c) \ {l} /\ l \in Holders(c)
      BY <2>3, <2>4, <1>3
    <3> QED
      BY <3>1, <2>4, <1>10, CountRemove
  <2>5. CASE c # c0
    <3>1. l \notin Holders(c)
      BY <2>2, <2>5, <1>7
    <3>2. Holders(c)' = Holders(c)
      BY <3>1, <2>3
    <3> QED
      BY <3>2, <2>5, <1>10, CountSame
  <2> QED
    BY <2>4, <2>5
<1>15. last => \A m : Holding(m) /\ m # l => ref[m].cnt # c0 /\ ref[m].ptr # o
  BY <1>2, <1>3, <1>7, SoleHolder
<1>16. NoDangling'
  <2>1. ASSUME NEW m, Holding(m)' PROVE ref'[m].ptr \in objs' /\ count'[ref'[m].cnt] > 0
    <3>1. /\ Holding(m) /\ m # l /\ ref'[m] = ref[m]
          /\ ref[m].ptr \in objs /\ ref[m].cnt \in Ctr /\ count[ref[m].cnt] > 0
      BY <2>1, <1>13, HoldingFacts
    <3>2. ref'[m].ptr \in objs'
      BY <3>1, <1>5, <1>15
    <3>3. count'[ref'[m].cnt] > 0
      <4>1. CASE last
        BY <4>1, <3>1, <1>10, <1>15
      <4>2. CASE ~last
        BY <4>2, <3>1, <1>3, <1>10 DEF IInv, TypeOK
      <4> QED
        BY <4>1, <4>2
    <3> QED
      BY <3>2, <3>3
  <2>2. call # NoCall => call.dst \in live' /\ call.src \in live'
    <3>1. call # NoCall => call.dst \in live /\ call.src \in live /\ call.src # l
      BY <1>1 DEF IInv, CallInv
    <3> QED
      BY <3>1, <1>5, <1>8
  <2> QED
    BY <2>1, <2>2, <1>5 DEF NoDangling
<1>17. NoLeak'
  <2>1. \A p \in objs' : \E m \in live' : Holding(m)' /\ ref'[m].ptr = p
    <3> SUFFICES ASSUME NEW p \in objs' PROVE \E m : Holding(m)' /\ ref'[m].ptr = p
      BY <1>13
    <3>1. PICK m \in live : Holding(m) /\ ref[m].ptr = p
      BY <1>5 DEF IInv, NoLeak
    <3>2. CASE m # l
      BY <3>1, <3>2, <1>13
    <3>3. CASE m = l
      <4>1. p = o /\ count[c0] # 1
        BY <3>1, <3>3, <1>3, <1>5, <1>7
      <4>2. PICK n \in live : n # l /\ Holding(n) /\ ref[n].cnt = ref[l].cnt
        BY <4>1, <1>2, <1>7, OtherHolder
      <4>3. ref[n].ptr = ref[l].ptr
        BY <4>2, <1>2, <1>3 DEF IInv, NoLeak
      <4> QED
        BY <4>1, <4>2, <4>3, <1>7, <1>13
    <3> QED
      BY <3>2, <3>3
  <2>2. \A p \in Obj, m \in live' : m \in Slots(p) => p \in objs' \/ m \in dying'
    <3> SUFFICES ASSUME NEW p \in Obj, NEW m \in live', m \in Slots(p), m \notin dying'
                 PROVE  p \in objs'
      OBVIOUS
    <3>1. m \in live /\ m \in Slot
      BY <1>5, LocKinds
    <3>2. p \in objs
      <4>1. CASE m = l
        <5>1. m = call.dst /\ call # NoCall /\ Kept(m)
          <6>1. m = call.dst
            BY <4>1, <1>5
          <6>2. call # NoCall
            BY <6>1, <3>1, LocKinds DEF NoCall
          <6> QED
            BY <6>1, <6>2, <3>1, LocKinds DEF IInv, CallInv
        <5>2. PICK u \in Var : u # call.dst /\ HoldsSlot(u, m)
          BY <5>1 DEF Kept
        <5>3. ref[u].ptr \in objs /\ m \in Slots(ref[u].ptr)
          BY <5>2, SlotAlive
        <5> QED
          BY <5>3, <3>1, LocKinds DEF IInv, TypeOK
      <4>2. CASE m # l
        <5>1. m \notin dying
          BY <4>2, <1>5
        <5> QED
          BY <5>1, <3>1 DEF IInv, NoLeak
      <4> QED
        BY <4>1, <4>2
    <3>3. ~(last /\ p = o)
      <4> SUFFICES ASSUME last, p = o PROVE FALSE
        OBVIOUS
      <4>1. m \in F
        BY <1>2
      <4> QED
        BY <4>1, <1>5
    <3> QED
      BY <3>2, <3>3, <1>5
  <2>3. \A m, n \in live' : Holding(m)' /\ Holding(n)' =>
           (ref'[m].cnt = ref'[n].cnt <=> ref'[m].ptr = ref'[n].ptr)
    BY <1>13 DEF IInv, NoLeak
  <2> QED
    BY <2>1, <2>2, <2>3 DEF NoLeak
<1>18. FieldsAgree'
  BY <1>9 DEF IInv, FieldsAgree, NullRef
<1>19. \A p \in objs' : p \in objs /\ Slots(p) \cap F = {}
  <2>1. \A p \in objs : last /\ p # o => Slots(p) \cap Slots(o) = {}
    BY <1>3, LocKinds DEF IInv, TypeOK
  <2> QED
    BY <2>1, <1>5, <1>6
<1>20. SlotsLive'
  <2> SUFFICES ASSUME NEW p \in objs', NEW m \in Slots(p) PROVE m \in live'
    BY DEF SlotsLive
  <2>1. p \in objs /\ m \notin F /\ m \in live
    BY <1>19 DEF IInv, SlotsLive
  <2>2. m = l => m = call.dst
    BY <2>1, <1>1 DEF IInv, DyingOwner
  <2> QED
    BY <2>1, <2>2, <1>5
<1>21. DyingHolds'
  <2> SUFFICES ASSUME NEW m \in dying' PROVE ref'[m].cnt # NULL
    BY DEF DyingHolds
  <2>1. m # l /\ ref[m].cnt # NULL /\ m \in Loc
    BY <1>2, <1>4, <1>5, <1>11 DEF IInv, DyingHolds, TypeOK
  <2> QED
    BY <2>1, <1>13
<1>22. DyingOwner'
  BY <1>4, <1>5, <1>19 DEF IInv, DyingOwner
<1>23. TmpInv'
  <2>1. Tmp # call.dst
    BY LocKinds DEF IInv, CallInv, NoCall
  <2> QED
    BY <2>1, <1>5 DEF IInv, TmpInv
<1>24. CallInv'
  <2> SUFFICES ASSUME call # NoCall PROVE CallInv'
    BY <1>5 DEF CallInv
  <2>1. call.dst \in live' /\ call.src \in live'
    BY <1>16, <1>5 DEF NoDangling
  <2>2. K \cap Var = {}
    BY <1>2, <1>4, LocKinds
  <2>3. call.src \notin dying' /\ dying' \cap Var \subseteq {call.dst}
    BY <2>2, <1>4, <1>5, <1>8 DEF IInv, CallInv
  <2>4. ASSUME NEW x, Kept(x) PROVE Kept(x)'
    <3>1. PICK u \in Var : u # call.dst /\ u \notin dying /\ HoldsSlot(u, x)
      BY <2>4 DEF Kept
    <3>2. Holding(u) /\ u # l
      BY <3>1, <1>1, SlotAlive
    <3>3. u \in live' /\ ref'[u] = ref[u]
      BY <3>2, <1>13
    <3>4. u \notin dying'
      BY <3>1, <2>2, <1>5
    <3> QED
      BY <3>1, <3>3, <3>4, <1>5 DEF Kept, HoldsSlot
  <2>5. PICK x, y : x = call.src /\ y = call.dst
    OBVIOUS
  <2>7. Kept(x)' => Kept(call.src)'
    BY <2>5, <1>5 DEF Kept, HoldsSlot
  <2>8. Kept(y)' => Kept(call.dst)'
    BY <2>5, <1>5 DEF Kept, HoldsSlot
  <2>9. \/ y \in Var /\ (x \in Var \/ (x \in Slot /\ Kept(x)))
        \/ y \in Slot /\ Kept(y) /\ x = Tmp
    BY <2>5 DEF IInv, CallInv
  <2>6. call.src # call.dst
    BY DEF IInv, CallInv
  <2> QED
    BY <2>1, <2>3, <2>4, <2>5, <2>6, <2>7, <2>8, <2>9, <1>5 DEF CallInv
<1> QED
  BY <1>12, <1>14, <1>16, <1>17, <1>18, <1>20, <1>21, <1>22, <1>23, <1>24 DEF IInv

-------------------------------------------------------------------------------
\* The inductive invariant is kept by every step.
THEOREM Invariance == Spec => []IInv
<1>1. Init => IInv
  BY InitInv
<1>2. IInv /\ [Next]_vars => IInv'
  <2> SUFFICES ASSUME IInv, [Next]_vars PROVE IInv'
    OBVIOUS
  <2>1. ASSUME NEW v \in Var, ConstructNull(v) \/ Destroy(v) PROVE IInv'
    BY <2>1, ConstructNullInv, DestroyInv
  <2>2. ASSUME NEW v \in Var, NEW o \in Obj, NEW c \in Ctr, NEW kid \in Kids,
               Construct(v, o, c, kid) \/ init(v, o, c, kid)
        PROVE  IInv'
    BY <2>2, OwnInv DEF Construct, init
  <2>3. ASSUME NEW v \in Var, NEW l \in Var \cup Slot, Copy(v, l) \/ Assign(v, l) PROVE IInv'
    BY <2>3, CopyInv, AssignInv
  <2>4. ASSUME NEW u \in Var, NEW l \in Slot, NEW w \in Var, setParam(u, l, w) PROVE IInv'
    BY <2>4, SetParamInv
  <2>5. ASSUME NEW l \in Loc, dispose(l) PROVE IInv'
    BY <2>5, DisposeInv
  <2>6. CASE cpy
    BY <2>6, CpyInv
  <2>7. CASE UNCHANGED vars
    BY <2>7 DEF vars, IInv, TypeOK, CountsExact, Holders, NoDangling, Holding, NoLeak,
               FieldsAgree, SlotsLive, DyingHolds, DyingOwner, CallInv, Kept, HoldsSlot, TmpInv
  <2> QED
    BY <2>1, <2>2, <2>3, <2>4, <2>5, <2>6, <2>7 DEF Next
<1> QED
  BY <1>1, <1>2, PTL DEF Spec

(* The fields of every handle and the bookkeeping of a call have the values *)
(* Refcount.h gives them.                                                    *)
THEOREM RefCountType == Spec => []TypeOK
<1>1. IInv => TypeOK
  BY DEF IInv
<1> QED
  BY <1>1, Invariance, PTL

(* Each counter equals the number of handles that share it, in every state  *)
(* between calls and inside them (Refcount.h:89-103).                        *)
THEOREM CountsCorrect == Spec => []CountsExact
<1>1. IInv => CountsExact
  BY DEF IInv
<1> QED
  BY <1>1, Invariance, PTL

(* No handle that holds a count, and no handle a pending copy is to use,    *)
(* refers to freed memory (Refcount.h:36-43, 84-103).                        *)
THEOREM NoUseAfterFree == Spec => []NoDangling
<1>1. IInv => NoDangling
  BY DEF IInv
<1> QED
  BY <1>1, Invariance, PTL

(* Nothing is allocated that no handle holds (Refcount.h:95-103).            *)
THEOREM LeakFree == Spec => []NoLeak
<1>1. IInv => NoLeak
  BY DEF IInv
<1> QED
  BY <1>1, Invariance, PTL

(* The deletions of an assignment leave the handle it copies from alone     *)
(* (Refcount.h:36-43).                                                       *)
THEOREM SourceUnchanged == Spec => SourceStable
<1> DEFINE A == call # NoCall /\ call' = call => ref'[call.src] = ref[call.src]
<1>1. IInv /\ [Next]_vars => [A]_vars
  <2> SUFFICES ASSUME IInv, Next, call # NoCall, call' = call
               PROVE  ref'[call.src] = ref[call.src]
    BY DEF vars
  <2>1. ~Idle /\ ~cpy
    BY DEF Idle, cpy
  <2>2. PICK l \in Loc : dispose(l)
    BY <2>1 DEF Next, ConstructNull, Destroy, Construct, init, Own, Copy, Assign, setParam
  <2>3. l \in dying /\ call.src \notin dying /\ call.src \in Loc
    BY <2>2 DEF dispose, IInv, CallInv, TypeOK
  <2> QED
    BY <2>2, <2>3 DEF dispose, IInv, TypeOK
<1> QED
  BY <1>1, Invariance, PTL DEF Spec, SourceStable
===============================================================================
