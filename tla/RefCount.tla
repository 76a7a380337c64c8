------------------------------- MODULE RefCount -------------------------------
(***************************************************************************)
(* The counted handles of spir_name_mangler/Refcount.h, and the objects    *)
(* they own.  A type of the mangler (pointer, vector, atomic, block) is an *)
(* object on the heap that holds, in its slots, handles to the types it is *)
(* built from, so giving up one handle may free a chain of objects.  The   *)
(* model runs a call one handle at a time: `dying' is the set of handles   *)
(* whose dispose() is still to come (the C++ order among them is fixed by  *)
(* the nesting of destructors and is left open here), and `call' is the    *)
(* assignment that waits for it.                                           *)
(*                                                                         *)
(* The caller is restricted to what Refcount.h cannot defend itself from:  *)
(* it wraps a raw pointer once and never a null one, and it reads a slot   *)
(* of an object only through a handle that the same statement does not     *)
(* overwrite.                                                              *)
(***************************************************************************)
EXTENDS Naturals, FiniteSets

CONSTANTS
    Var,    \* the handles a caller may declare
    Obj,    \* addresses of objects
    Ctr,    \* addresses of counters
    Arity,  \* slots of an object
    Tmp,    \* the by-value parameter of BlockType::setParam
    NULL

Slot == Obj \X (1..Arity)
Loc == Var \cup {Tmp} \cup Slot

ASSUME HeapAssumption ==
    /\ IsFiniteSet(Var) /\ IsFiniteSet(Obj) /\ Arity \in Nat \ {0}
    /\ Tmp \notin Var
    /\ (Var \cup {Tmp}) \cap Slot = {}
    /\ NULL \notin Obj \cup Ctr \cup Loc

VARIABLES
    ref,    \* the fields of each handle
    live,   \* the handles whose constructor has run and destructor has not ended
    objs,   \* the objects allocated
    count,  \* the value of each counter, 0 when it is not allocated
    dying,  \* handles whose dispose() is pending
    call    \* the assignment in progress

vars == <<ref, live, objs, count, dying, call>>

NullRef == [cnt |-> NULL, ptr |-> NULL]
NoCall == [dst |-> NULL, src |-> NULL]
Idle == dying = {} /\ call = NoCall

Slots(o) == {o} \X (1..Arity)

\* A caller names a handle of its own, or a slot of an object it holds.
HoldsSlot(u, l) == u \in live \cap Var /\ ref[u].ptr # NULL /\ l \in Slots(ref[u].ptr)
Readable(l, Excluded) ==
    \/ l \in live \cap Var
    \/ \E u \in Var \ Excluded : HoldsSlot(u, l)

Acquire_Uncounted(r, cs) == cs     \* fault: a copy that does not count

\* cpy: one more count, unless the source is a null handle.
Acquire(r, cs) == IF r.cnt = NULL THEN cs ELSE [cs EXCEPT ![r.cnt] = cs[r.cnt] + 1]

\* if (m_refCount) dispose().
ToDispose(l) == IF ref[l].cnt = NULL THEN {} ELSE {l}

Init ==
    /\ ref = [l \in Loc |-> NullRef]
    /\ live = {}
    /\ objs = {}
    /\ count = [c \in Ctr |-> 0]
    /\ dying = {}
    /\ call = NoCall
-------------------------------------------------------------------------------
ConstructNull(v) ==
    /\ Idle /\ v \notin live
    /\ live' = live \cup {v}
    /\ ref' = [ref EXCEPT ![v] = NullRef]
    /\ UNCHANGED <<objs, count, dying, call>>

\* RefCount(new T(kid)), or init() of a null handle: the object's constructor
\* copies `kid' into its first slot, the others are null.
Own(v, o, c, kid) ==
    /\ Idle
    /\ o \notin objs /\ count[c] = 0
    /\ live' = live \cup {v} \cup Slots(o)
    /\ ref' = [l \in Loc |-> IF l = v THEN [cnt |-> c, ptr |-> o]
                             ELSE IF l = <<o, 1>> THEN kid
                             ELSE IF l \in Slots(o) THEN NullRef ELSE ref[l]]
    /\ objs' = objs \cup {o}
    /\ count' = Acquire(kid, [count EXCEPT ![c] = 1])
    /\ UNCHANGED <<dying, call>>

Kids == {NullRef} \cup {ref[w] : w \in live \cap Var}

Construct(v, o, c, kid) == v \notin live /\ Own(v, o, c, kid)

init(v, o, c, kid) == v \in live /\ ref[v] = NullRef /\ Own(v, o, c, kid)

Copy(v, l) ==
    /\ Idle /\ v \notin live /\ Readable(l, {})
    /\ live' = live \cup {v}
    /\ ref' = [ref EXCEPT ![v] = ref[l]]
    /\ count' = Acquire(ref[l], count)
    /\ UNCHANGED <<objs, dying, call>>

\* fault: the handle is gone before it is disposed of
Destroy_Early(v) ==
    /\ Idle /\ v \in live
    /\ dying' = ToDispose(v)
    /\ live' = live \ {v}
    /\ UNCHANGED <<ref, objs, count, call>>

Destroy(v) ==
    /\ Idle /\ v \in live
    /\ dying' = ToDispose(v)
    /\ live' = live \ ({v} \ ToDispose(v))
    /\ UNCHANGED <<ref, objs, count, call>>

SameHandle_Never(dst, src) == FALSE     \* fault: no self-assignment check

SameHandle(dst, src) == dst = src

\* operator=: dispose of what is held, then copy; nothing on self-assignment.
Assign(v, l) ==
    /\ Idle /\ v \in live /\ Readable(l, {v}) /\ ~SameHandle(v, l)
    /\ dying' = ToDispose(v)
    /\ call' = [dst |-> v, src |-> l]
    /\ UNCHANGED <<ref, live, objs, count>>

\* BlockType::setParam copies its argument into Tmp before it assigns a slot.
setParam(u, l, w) ==
    /\ Idle /\ HoldsSlot(u, l) /\ w \in live
    /\ live' = live \cup {Tmp}
    /\ ref' = [ref EXCEPT ![Tmp] = ref[w]]
    /\ count' = Acquire(ref[w], count)
    /\ dying' = ToDispose(l)
    /\ call' = [dst |-> l, src |-> Tmp]
    /\ UNCHANGED objs

LastCount_Early(l) == count[ref[l].cnt] <= 2     \* fault: off by one
Freed_Always(l) == Slots(ref[l].ptr)             \* fault: delete outside the if
Freed_NotVirtual(l) == {}                        \* fault: base destructor not virtual

\* dispose of l frees the counter and the object with the last count, and the
\* object's destructor disposes of its slots.
LastCount(l) == count[ref[l].cnt] = 1
Freed(l) == IF LastCount(l) THEN Slots(ref[l].ptr) ELSE {}
Owning(S) == {l \in S : ref[l].cnt # NULL}
Dead(l) == {l} \ {call.dst}

dispose(l) ==
    /\ l \in dying
    /\ count' = [count EXCEPT ![ref[l].cnt] = count[ref[l].cnt] - 1]
    /\ objs' = IF LastCount(l) THEN objs \ {ref[l].ptr} ELSE objs
    /\ dying' = (dying \ {l}) \cup Owning(Freed(l))
    /\ live' = (live \ Dead(l)) \ (Freed(l) \ Owning(Freed(l)))
    /\ ref' = IF LastCount(l) THEN [ref EXCEPT ![l] = NullRef] ELSE ref
    /\ UNCHANGED call

\* The copy of operator=; the parameter of setParam is destroyed after it.
cpy ==
    /\ dying = {} /\ call # NoCall
    /\ ref' = [ref EXCEPT ![call.dst] = ref[call.src]]
    /\ count' = Acquire(ref[call.src], count)
    /\ dying' = IF call.src = Tmp THEN ToDispose(Tmp) ELSE {}
    /\ live' = IF call.src = Tmp THEN live \ ({Tmp} \ ToDispose(Tmp)) ELSE live
    /\ call' = NoCall
    /\ UNCHANGED objs

Next ==
    \/ \E v \in Var : ConstructNull(v) \/ Destroy(v)
    \/ \E v \in Var, o \in Obj, c \in Ctr, kid \in Kids :
          Construct(v, o, c, kid) \/ init(v, o, c, kid)
    \/ \E v \in Var, l \in Var \cup Slot : Copy(v, l) \/ Assign(v, l)
    \/ \E u \in Var, l \in Slot, w \in Var : setParam(u, l, w)
    \/ \E l \in Loc : dispose(l)
    \/ cpy

Spec == Init /\ [][Next]_vars
-------------------------------------------------------------------------------
\* A handle holds a count unless it is null or an assignment has disposed of
\* it and not yet copied.
Holders(c) == {l \in live : ref[l].cnt = c /\ (l = call.dst => l \in dying)}
Holding(l) == l \in live /\ ref[l].cnt # NULL /\ (l = call.dst => l \in dying)

TypeOK ==
    /\ ref \in [Loc -> [cnt : Ctr \cup {NULL}, ptr : Obj \cup {NULL}]]
    /\ live \subseteq Loc
    /\ objs \subseteq Obj
    /\ count \in [Ctr -> Nat]
    /\ dying \subseteq live
    /\ call \in [dst : Loc \cup {NULL}, src : Loc \cup {NULL}]

(* A counter holds the number of handles that share it, also between the   *)
(* release and the copy of an assignment and in the middle of a chain of   *)
(* deletions (Refcount.h:89-103).                                          *)
CountsExact == \A c \in Ctr : count[c] = Cardinality(Holders(c))

(* No use after free and no double delete: whatever a handle that holds a  *)
(* count points at is allocated, and so are the handles the pending copy   *)
(* reads and writes (Refcount.h:36-43, 84-103).                            *)
NoDangling ==
    /\ \A l \in live : Holding(l) => ref[l].ptr \in objs /\ count[ref[l].cnt] > 0
    /\ call # NoCall => call.dst \in live /\ call.src \in live

(* No leak: an object is allocated only while some handle holds it, the    *)
(* handles in its slots live as long as it does, and all the handles of an *)
(* object share one counter (Refcount.h:23-25, 95-103).                    *)
NoLeak ==
    /\ \A o \in objs : \E l \in live : Holding(l) /\ ref[l].ptr = o
    /\ \A o \in Obj, l \in live : l \in Slots(o) => o \in objs \/ l \in dying
    /\ \A l, m \in live : Holding(l) /\ Holding(m) =>
          (ref[l].cnt = ref[m].cnt <=> ref[l].ptr = ref[m].ptr)

(* The deletions an assignment sets off never change the handle it is      *)
(* about to copy from (Refcount.h:36-43: dispose() runs before cpy()).     *)
SourceStable ==
    [][call # NoCall /\ call' = call => ref'[call.src] = ref[call.src]]_vars
===============================================================================
