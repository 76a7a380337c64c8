-------------------------- MODULE FunctionDescriptor ---------------------------
(***************************************************************************)
(* FunctionDescriptor as the key of a std::map, the use its operator< is   *)
(* for: equality walks the types, the order compares the names, the number *)
(* of parameters, and then the strings that toString writes, so the two    *)
(* can disagree.  The map is external: an insertion walks the keys with    *)
(* operator< alone.                                                        *)
(*                                                                         *)
(* A string is the sequence of its characters, and a user-defined type can *)
(* have any name, that of a primitive type or of what another type is      *)
(* written as included.  Types are the addresses of a heap on which equal  *)
(* types may be there twice.                                               *)
(***************************************************************************)
EXTENDS ParameterTypes, SequencesExt

CONSTANTS
    Heap,         \* the types: nodes made of nodes before them
    Descriptors,  \* descriptors: a name (a number, in string order) and parameters
    Spelling,     \* the characters of each word, by their codes
    MaxKeys       \* insertions into the map

Types == 1..Len(Heap)
Names == {Heap[a].prim : a \in OfKind(Heap, "primitive")}
VectorLengths == {Heap[a].len : a \in OfKind(Heap, "vector")}
StructNames == {Heap[a].name : a \in OfKind(Heap, "structure")}
CodeWords == Names \cup VectorLengths \cup Keywords

ASSUME HeapAssumption == IsHeap(Heap)

\* No word of the code's own tables begins with another (ManglingUtils.cpp:15-49, 87-96),
\* nor does the length of an OpenCL vector: 2, 3, 4, 8 or 16.
ASSUME SpellingAssumption ==
    /\ DOMAIN Spelling = Words(Heap) /\ \A w \in Words(Heap) : Spelling[w] \in Seq(Nat)
    /\ \A v, w \in CodeWords : IsPrefix(Spelling[v], Spelling[w]) => v = w
    /\ Names \cap Keywords \subseteq {"void"} /\ VectorLengths \cap (Names \cup Keywords) = {}

ASSUME DescriptorsAssumption ==
    \A f \in Descriptors : f.name \in Nat /\ f.parameters \in Seq(Types)

ASSUME MaxAssumption == MaxKeys \in Nat

VARIABLES
    keys,   \* the keys of the map, in its order
    given   \* the descriptors inserted so far

mapVars == <<keys, given>>

texts == [a \in Types |-> toString(Heap, Spelling)[a]]

\* std::string::compare < 0: at the first difference, the end of s or a smaller character.
Before(s, u) ==
    \E i \in 1..Len(u) :
        /\ i <= Len(s) + 1
        /\ \A j \in 1..(i - 1) : s[j] = u[j]
        /\ i <= Len(s) => s[i] < u[i]

equal(l, r) == Len(l) = Len(r) /\ \A i \in 1..Len(l) : equals(Heap)[l[i]][r[i]]

Same(f, g) == f.name = g.name /\ equal(f.parameters, g.parameters)

\* fault: shorter lists compare their common part only
SameLength_Unchecked(f, g) == TRUE
SameLength(f, g) == Len(f.parameters) = Len(g.parameters)

Less(f, g) ==
    \/ f.name < g.name
    \/ f.name = g.name /\ ~SameLength(f, g) /\ Len(f.parameters) < Len(g.parameters)
    \/ /\ f.name = g.name /\ SameLength(f, g)
       /\ \E i \in 1..Len(f.parameters) :
            /\ i <= Len(g.parameters)
            /\ \A j \in 1..(i - 1) : texts[f.parameters[j]] = texts[g.parameters[j]]
            /\ Before(texts[f.parameters[i]], texts[g.parameters[i]])

\* std::map: the first key that is not less than f.
LowerBound(f) == Cardinality({i \in 1..Len(keys) : Less(keys[i], f)}) + 1
Found(f) == LowerBound(f) <= Len(keys) /\ ~Less(f, keys[LowerBound(f)])

MapInit == keys = <<>> /\ given = {}

Insert(f) ==
    /\ Cardinality(given) < MaxKeys
    /\ given' = given \cup {f}
    /\ keys' = IF Found(f) THEN keys ELSE InsertAt(keys, LowerBound(f), f)

MapNext == \E f \in Descriptors : Insert(f)

MapSpec == MapInit /\ [][MapNext]_mapVars
-------------------------------------------------------------------------------
\* Two descriptors whose strings are the same, which the order cannot tell apart.
Alike(f, g) ==
    /\ f.name = g.name /\ Len(f.parameters) = Len(g.parameters)
    /\ \A i \in 1..Len(f.parameters) : texts[f.parameters[i]] = texts[g.parameters[i]]

\* The names of user-defined types that cannot be taken for anything else: no other word
\* begins with one, and none begins with another word.
ToldNames ==
    {n \in StructNames \ CodeWords : \A w \in Words(Heap) \ {n} :
        ~IsPrefix(Spelling[n], Spelling[w]) /\ ~IsPrefix(Spelling[w], Spelling[n])}

\* A type, given which of the nodes before it have such names only.
ToldNode(told, a) ==
    LET t == Heap[a]
    IN  /\ t.id = "structure" => t.name \in ToldNames
        /\ t.id \in {"pointer", "vector", "atomic"} => told[t.of]
        /\ t.id = "block" => \A i \in 1..Len(t.params) : told[t.params[i]]
toldTypes == LET told[a \in Types] == ToldNode(told, a) IN told
Told(f) == \A i \in 1..Len(f.parameters) : toldTypes[f.parameters[i]]

(* operator< is the order a map needs (FunctionDescriptor.h:34-35): no two *)
(* descriptors are each less than the other, < is transitive, and neither  *)
(* is less exactly when their strings are the same, which they are when    *)
(* operator== holds, and only then unless the name of a user-defined type  *)
(* is to blame.                                                            *)
OrdersKeys == \A f, g, h \in given :
    /\ ~(Less(f, g) /\ Less(g, f))
    /\ Less(f, g) /\ Less(g, h) => Less(f, h)
    /\ ~Less(f, g) /\ ~Less(g, f) <=> Alike(f, g)
    /\ Same(f, g) => Alike(f, g)
    /\ Alike(f, g) /\ Told(f) /\ Told(g) => Same(f, g)

(* Whatever was inserted, in whatever order, is found under a key whose    *)
(* strings are its own, an equal key unless the name of a user-defined     *)
(* type is to blame, and no two keys of the map have the same strings      *)
(* (FunctionDescriptor.cpp:55-78).                                         *)
MapHolds ==
    /\ \A f \in given :
         /\ Found(f) /\ Alike(keys[LowerBound(f)], f)
         /\ Told(f) /\ Told(keys[LowerBound(f)]) => Same(keys[LowerBound(f)], f)
    /\ \A i, j \in 1..Len(keys) : Alike(keys[i], keys[j]) => i = j
===============================================================================
