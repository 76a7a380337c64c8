-------------------------- MODULE NameManglerProofs ---------------------------
(***************************************************************************)
(* What mangle does with every heap of types and every list of parameters. *)
(* The stack holds types of the heap and each number is one type's; before *)
(* SPIR 2.0 a call fails exactly at the first parameter with a type it     *)
(* lacks, because a back reference is only ever made to a type that has    *)
(* been written to its end; a word that is written, a letter of a table or *)
(* the number of a back reference, is read as what it stands for; and the  *)
(* name that is returned, read word by word, is the prototype: at each     *)
(* step the types the reader has still to put are those on the stack.      *)
(* After that, the order of descriptors: it is the one a map needs.        *)
(* operator< compares the strings that toString writes and operator==      *)
(* walks the types; that the two agree says that no two types have one     *)
(* string unless they are equal.  A string is read from its first word     *)
(* on: no word of the code's tables begins with another, which gives the   *)
(* kind of the type, what follows a type is neither a length nor the rest  *)
(* of a block, and the names of user-defined types are those that can be   *)
(* told so.  The rest is the order of strings and of lists of strings,     *)
(* and a map whose keys stay sorted, whatever the names are.               *)
(***************************************************************************)
EXTENDS NameMangler, FunctionDescriptor, RecursionLemmas, FiniteSetTheorems, SequenceTheorems

-----------------------------------------------------------------------------
\* The heap and the stack

HeapOK(h) ==
    /\ IsHeap(h) /\ Len(h) \in Nat
    /\ \A a \in 1..Len(h) : h[a].id = "primitive" => h[a].prim \in Range(PrimitiveNames)

\* What the stack can hold: types to visit and the end of a block.
End == Write(<<"E">>)
Items(h) == {Visit(a) : a \in 1..Len(h)} \cup {End}

LEMMA ItemShape ==
    /\ \A a : Visit(a).visit = TRUE /\ Visit(a).addr = a
    /\ End.visit = FALSE /\ End.word = <<"E">>
  BY DEF Visit, Write, End

LEMMA NodeShape ==
    ASSUME NEW h, HeapOK(h), NEW a \in 1..Len(h)
    PROVE  /\ h[a].id \in {"primitive", "pointer", "vector", "atomic", "block", "structure"}
           /\ h[a].id \in {"pointer", "vector", "atomic"} => h[a].of \in 1..(a - 1) /\ h[a].of \in 1..Len(h)
           /\ h[a].id = "primitive" => h[a] = Primitive(h[a].prim) /\ h[a].prim \in Range(PrimitiveNames)
           /\ h[a].id = "pointer" => /\ h[a] = Pointer(h[a].of, h[a].quals, h[a].space)
                                     /\ h[a].quals \subseteq Range(Qualifiers) /\ h[a].space \in Range(AddressSpaces)
           /\ h[a].id = "vector" => h[a] = Vector(h[a].of, h[a].len)
           /\ h[a].id = "atomic" => h[a] = Atomic(h[a].of)
           /\ h[a].id = "structure" => h[a] = UserDefined(h[a].name)
  <1>1. IsNode(h, a) /\ Len(h) \in Nat
    BY DEF HeapOK, IsHeap
  <1>2. h[a].id \in {"primitive", "pointer", "vector", "atomic", "block", "structure"}
    BY <1>1 DEF IsNode
  <1>3. h[a].id \in {"pointer", "vector", "atomic"} => h[a].of \in 1..(a - 1)
    BY <1>1 DEF IsNode
  <1>4. h[a].id = "primitive" => h[a] = Primitive(h[a].prim) /\ h[a].prim \in Range(PrimitiveNames)
    BY <1>1 DEF IsNode, HeapOK
  <1>5. h[a].id = "pointer" => /\ h[a] = Pointer(h[a].of, h[a].quals, h[a].space)
                               /\ h[a].quals \subseteq Range(Qualifiers) /\ h[a].space \in Range(AddressSpaces)
    BY <1>1 DEF IsNode
  <1>6. /\ h[a].id = "vector" => h[a] = Vector(h[a].of, h[a].len)
        /\ h[a].id = "atomic" => h[a] = Atomic(h[a].of)
        /\ h[a].id = "structure" => h[a] = UserDefined(h[a].name)
    BY <1>1 DEF IsNode
  <1>7. h[a].of \in 1..(a - 1) => h[a].of \in 1..Len(h)
    BY <1>1
  <1> QED
    BY <1>2, <1>3, <1>4, <1>5, <1>6, <1>7

LEMMA BlockShape ==
    ASSUME NEW h, HeapOK(h), NEW a \in 1..Len(h), h[a].id = "block"
    PROVE  /\ h[a] = Block(h[a].params) /\ Len(h[a].params) \in Nat
           /\ h[a].params \in Seq(1..Len(h))
           /\ \A i \in 1..Len(h[a].params) : h[a].params[i] \in 1..(a - 1) /\ h[a].params[i] \in 1..Len(h)
  <1>1. h[a] = Block(h[a].params) /\ h[a].params \in Seq(1..(a - 1)) /\ Len(h) \in Nat
    BY DEF HeapOK, IsHeap, IsNode
  <1> DEFINE p == h[a].params
  <1>2. p \in Seq(1..(a - 1))
    BY <1>1
  <1> HIDE DEF p
  <1>3. Len(p) \in Nat /\ \A i \in 1..Len(p) : p[i] \in 1..(a - 1)
    BY <1>2, LenProperties, ElementOfSeq
  <1>4. 1..(a - 1) \subseteq 1..Len(h)
    BY <1>1
  <1>5. p \in Seq(1..Len(h))
    BY <1>2, <1>4, SeqMonotonic
  <1> QED
    BY <1>1, <1>3, <1>4, <1>5 DEF p

\* A heap with one node more.
LEMMA AppendIs ==
    ASSUME NEW h, HeapOK(h), NEW n
    PROVE  /\ Append(h, n) = [a \in 1..(Len(h) + 1) |-> IF a = Len(h) + 1 THEN n ELSE h[a]]
           /\ Len(Append(h, n)) = Len(h) + 1
  <1> DEFINE S == {h[a] : a \in 1..Len(h)} \cup {n}
  <1>1. Len(h) \in Nat /\ h = [a \in 1..Len(h) |-> h[a]]
    BY DEF HeapOK, IsHeap
  <1>2. \A a \in 1..Len(h) : h[a] \in S
    OBVIOUS
  <1>3. h \in Seq(S) /\ n \in S
    <2> HIDE DEF S
    <2>1. h \in [1..Len(h) -> S]
      BY <1>1, <1>2
    <2>2. n \in S
      BY DEF S
    <2> QED
      BY <1>1, <2>1, <2>2
  <1> HIDE DEF S
  <1>4. /\ Append(h, n) \in Seq(S) /\ Len(Append(h, n)) = Len(h) + 1
        /\ \A i \in 1..Len(h) : Append(h, n)[i] = h[i]
        /\ Append(h, n)[Len(h) + 1] = n
    BY <1>3, AppendProperties
  <1> DEFINE g == Append(h, n)
             k == [a \in 1..(Len(h) + 1) |-> IF a = Len(h) + 1 THEN n ELSE h[a]]
  <1>5. DOMAIN g = 1..(Len(h) + 1) /\ g = [i \in DOMAIN g |-> g[i]]
    <2> HIDE DEF g
    <2>1. g \in Seq(S) /\ Len(g) = Len(h) + 1
      BY <1>4 DEF g
    <2> QED
      BY <2>1
  <1>6. \A i \in 1..(Len(h) + 1) : g[i] = k[i]
    BY <1>1, <1>4
  <1>7. g = k
    <2> HIDE DEF g
    <2> QED
      BY <1>5, <1>6
  <1> QED
    BY <1>4, <1>7

LEMMA HeapGrows ==
    ASSUME NEW h, HeapOK(h), NEW n,
           n.id = "primitive" => n.prim \in Range(PrimitiveNames),
           IsNode(Append(h, n), Len(h) + 1)
    PROVE  HeapOK(Append(h, n))
  <1> DEFINE g == Append(h, n)
  <1>1. g = [a \in 1..(Len(h) + 1) |-> IF a = Len(h) + 1 THEN n ELSE h[a]] /\ Len(g) = Len(h) + 1
    BY AppendIs
  <1>2. Len(h) \in Nat /\ \A a \in 1..Len(h) : IsNode(h, a)
    BY DEF HeapOK, IsHeap
  <1> HIDE DEF g
  <1>3. \A a \in 1..Len(h) : g[a] = h[a]
    BY <1>1, <1>2
  <1>4. g[Len(h) + 1] = n
    BY <1>1, <1>2
  <1>5. ASSUME NEW a \in 1..Len(h) PROVE IsNode(g, a)
    <2>1. IsNode(h, a) /\ g[a] = h[a]
      BY <1>2, <1>3
    <2>2. h[a].id = "vector" => g[h[a].of] = h[h[a].of]
      BY <1>2, <1>3, <2>1 DEF IsNode
    <2> QED
      BY <2>1, <2>2 DEF IsNode
  <1>6. ASSUME NEW a \in 1..Len(g) PROVE IsNode(g, a)
    <2>1. a \in 1..Len(h) \/ a = Len(h) + 1
      BY <1>1, <1>2
    <2> QED
      BY <1>5, <2>1 DEF g
  <1>7. g = [a \in 1..Len(g) |-> g[a]]
    BY <1>1
  <1>8. \A a \in 1..Len(g) : g[a].id = "primitive" => g[a].prim \in Range(PrimitiveNames)
    <2> SUFFICES ASSUME NEW a \in 1..Len(g), g[a].id = "primitive" PROVE g[a].prim \in Range(PrimitiveNames)
      OBVIOUS
    <2>1. a \in 1..Len(h) \/ a = Len(h) + 1
      BY <1>1, <1>2
    <2> QED
      BY <1>3, <1>4, <2>1 DEF HeapOK
  <1>9. Len(g) \in Nat
    BY <1>1, <1>2
  <1> QED
    BY <1>6, <1>7, <1>8, <1>9 DEF HeapOK, IsHeap, g
-----------------------------------------------------------------------------
\* The type invariant

TypeInv ==
    /\ HeapOK(heap)
    /\ parameters \in Seq(Addresses)
    /\ todo \in Seq(Items(heap))
    /\ current \in 0..Len(parameters)
    /\ m_nextSeqID \in Nat
    /\ m_substitutions = [a \in DOMAIN m_substitutions |-> m_substitutions[a]]
    /\ DOMAIN m_substitutions \subseteq {a \in Addresses : heap[a].id \in {"pointer", "structure"}}
    /\ IsInjective(m_substitutions) /\ Range(m_substitutions) = 0..(m_nextSeqID - 1)

\* The type on top of the stack.
LEMMA TopShape ==
    ASSUME TypeInv, todo # <<>>
    PROVE  /\ Head(todo) \in Items(heap) /\ Tail(todo) \in Seq(Items(heap))
           /\ Head(todo).visit => Top \in Addresses /\ Head(todo) = Visit(Top)
           /\ ~Head(todo).visit => Head(todo) = End
  <1>1. Head(todo) \in Items(heap) /\ Tail(todo) \in Seq(Items(heap))
    BY HeadTailProperties DEF TypeInv
  <1> QED
    BY <1>1, ItemShape DEF Items, Addresses, Top

LEMMA OneItem ==
    ASSUME NEW h, NEW a \in 1..Len(h)
    PROVE  <<Visit(a)>> \in Seq(Items(h)) /\ <<>> \in Seq(Items(h))
  <1>1. Visit(a) \in Items(h)
    BY DEF Items
  <1> HIDE DEF Items
  <1> QED
    BY <1>1

LEMMA BlockItems ==
    ASSUME NEW h, HeapOK(h), NEW a \in 1..Len(h), h[a].id = "block"
    PROVE  [i \in 1..Len(h[a].params) |-> Visit(h[a].params[i])] \o <<End>> \in Seq(Items(h))
  <1> DEFINE p == h[a].params
             v == [i \in 1..Len(p) |-> Visit(p[i])]
  <1>1. Len(p) \in Nat /\ \A i \in 1..Len(p) : p[i] \in 1..Len(h)
    BY BlockShape
  <1> HIDE DEF p
  <1>2. \A i \in 1..Len(p) : Visit(p[i]) \in Items(h)
    BY <1>1 DEF Items
  <1>3. End \in Items(h)
    BY DEF Items
  <1> HIDE DEF Items
  <1>4. v \in Seq(Items(h)) /\ <<End>> \in Seq(Items(h))
    BY <1>1, <1>2, <1>3
  <1> HIDE DEF v
  <1>5. v \o <<End>> \in Seq(Items(h))
    BY <1>4, ConcatProperties
  <1> QED
    BY <1>5 DEF v, p

\* A step that writes and leaves the numbers alone.
LEMMA EmitType ==
    ASSUME TypeInv, todo # <<>>, NEW words, NEW rest \in Seq(Items(heap)), Emit(words, rest), NoNumber
    PROVE  TypeInv'
  <1>1. Tail(todo) \in Seq(Items(heap))
    BY TopShape
  <1>2. rest \o Tail(todo) \in Seq(Items(heap))
    BY <1>1, ConcatProperties
  <1>3. todo' \in Seq(Items(heap))
    BY <1>2 DEF Emit
  <1> QED
    BY <1>3 DEF TypeInv, Emit, NoNumber, built, Addresses, HeapOK

\* A step that gives the type on top the next number.
LEMMA NumberType ==
    ASSUME TypeInv, todo # <<>>, Head(todo).visit, heap[Top].id \in {"pointer", "structure"}, ~Known,
           NEW words, NEW rest \in Seq(Items(heap)), Emit(words, rest), addSubstitution
    PROVE  TypeInv'
  <1> DEFINE m == m_substitutions
             n == m_nextSeqID
             A == DOMAIN m
  <1>1. Tail(todo) \in Seq(Items(heap)) /\ Top \in Addresses
    BY TopShape
  <1>2. todo' \in Seq(Items(heap))
    <2>1. rest \o Tail(todo) \in Seq(Items(heap))
      BY <1>1, ConcatProperties
    <2> QED
      BY <2>1 DEF Emit
  <1>3. n \in Nat /\ IsInjective(m) /\ Range(m) = 0..(n - 1)
    BY DEF TypeInv
  <1>4. m' = [a \in A \cup {Top} |-> IF a = Top THEN n ELSE m[a]] /\ n' = n + 1 /\ Top \notin A
    BY DEF addSubstitution, Known
  <1> DEFINE t == Top
             k == [a \in A \cup {t} |-> IF a = t THEN n ELSE m[a]]
  <1>5. \A a \in A : m[a] \in 0..(n - 1)
    BY <1>3 DEF Range
  <1>6. \A a, b \in A : m[a] = m[b] => a = b
    BY <1>3 DEF IsInjective
  <1>7. \A i \in 0..(n - 1) : \E a \in A : m[a] = i
    BY <1>3 DEF Range
  <1> HIDE DEF t, m, A, n
  <1>8. DOMAIN k = A \cup {t} /\ k[t] = n /\ \A a \in A : k[a] = m[a]
    BY <1>4 DEF t
  <1>9. IsInjective(k)
    <2>1. \A a, b \in A \cup {t} : k[a] = k[b] => a = b
      BY <1>3, <1>5, <1>6, <1>8
    <2> QED
      BY <1>8, <2>1 DEF IsInjective
  <1>10. Range(k) = 0..n
    <2>1. \A a \in A \cup {t} : k[a] \in 0..n
      BY <1>3, <1>5, <1>8
    <2>2. \A i \in 0..n : \E a \in A \cup {t} : k[a] = i
      <3> SUFFICES ASSUME NEW i \in 0..n PROVE \E a \in A \cup {t} : k[a] = i
        OBVIOUS
      <3> HIDE DEF k
      <3>1. CASE i = n
        BY <1>8, <3>1
      <3>2. CASE i \in 0..(n - 1)
        <4>1. PICK a \in A : m[a] = i
          BY <1>7, <3>2
        <4> QED
          BY <1>8, <4>1
      <3> QED
        BY <1>3, <3>1, <3>2
    <2> HIDE DEF k
    <2> QED
      BY <1>8, <2>1, <2>2 DEF Range
  <1>11. k = [a \in DOMAIN k |-> k[a]]
    BY <1>8
  <1>12. (n + 1) - 1 = n /\ n + 1 \in Nat
    BY <1>3
  <1> HIDE DEF k
  <1>13. m_substitutions' = k /\ m_nextSeqID' = n + 1
    BY <1>4 DEF k, t, m, n, A
  <1>14. heap' = heap /\ parameters' = parameters /\ current' = current
    BY DEF Emit, built
  <1>15. DOMAIN k \subseteq {a \in Addresses : heap[a].id \in {"pointer", "structure"}}
    <2>1. A \subseteq {a \in Addresses : heap[a].id \in {"pointer", "structure"}}
      BY DEF TypeInv, A, m
    <2> QED
      BY <1>1, <1>8, <2>1 DEF t
  <1> QED
    BY <1>2, <1>9, <1>10, <1>11, <1>12, <1>13, <1>14, <1>15 DEF TypeInv, Addresses, HeapOK

LEMMA InitType == Init => TypeInv
  <1> SUFFICES ASSUME Init PROVE TypeInv
    OBVIOUS
  <1>1. HeapOK(heap) /\ parameters \in Seq(Addresses)
    <2>1. CASE heap = <<>> /\ parameters = <<>>
      <3>1. Len(heap) = 0 /\ heap = [a \in 1..Len(heap) |-> heap[a]]
        BY <2>1
      <3> QED
        BY <2>1, <3>1 DEF HeapOK, IsHeap
    <2>2. CASE \E fd \in Given : heap = fd.heap /\ parameters = fd.parameters
      <3>1. PICK fd \in Given : heap = fd.heap /\ parameters = fd.parameters
        BY <2>2
      <3>2. /\ IsHeap(heap) /\ parameters \in Seq(1..Len(heap))
            /\ \A a \in 1..Len(heap) : heap[a].id = "primitive" => heap[a].prim \in Range(PrimitiveNames)
        BY <3>1, GivenAssumption
      <3>3. Len(heap) \in Nat
        BY <3>2 DEF IsHeap
      <3> QED
        BY <3>2, <3>3 DEF HeapOK, Addresses
    <2> QED
      BY <2>1, <2>2 DEF Init
  <1>2. m_substitutions = [a \in {} |-> 0] /\ m_nextSeqID = 0 /\ todo = <<>> /\ current = 0
    BY DEF Init, EmptyMap
  <1>3. 0 \in 0..Len(parameters)
    BY <1>1, LenProperties
  <1>4. DOMAIN m_substitutions = {} /\ Range(m_substitutions) = {} /\ 0..(m_nextSeqID - 1) = {}
    BY <1>2 DEF Range
  <1> QED
    BY <1>1, <1>2, <1>3, <1>4 DEF TypeInv, IsInjective

\* What a caller builds next is a node.
LEMMA NewNode ==
    ASSUME TypeInv, NEW n \in Nodes
    PROVE  HeapOK(Append(heap, n))
  <1> DEFINE g == Append(heap, n)
  <1>1. g = [a \in 1..(Len(heap) + 1) |-> IF a = Len(heap) + 1 THEN n ELSE heap[a]] /\ HeapOK(heap)
    BY AppendIs DEF TypeInv
  <1>2. Len(heap) \in Nat
    BY <1>1 DEF HeapOK
  <1> HIDE DEF g
  <1>3. g[Len(heap) + 1] = n /\ (Len(heap) + 1) - 1 = Len(heap) /\ \A a \in 1..Len(heap) : g[a] = heap[a]
    BY <1>1, <1>2
  <1>4. \/ \E p \in Primitives : n = Primitive(p)
        \/ \E s \in Structs : n = UserDefined(s)
        \/ \E a \in Addresses, q \in QualifierSets, as \in Spaces : n = Pointer(a, q, as)
        \/ \E a \in {b \in Addresses : heap[b].id = "primitive"}, l \in Lengths : n = Vector(a, l)
        \/ \E a \in {b \in Addresses : heap[b].id = "primitive"} : n = Atomic(a)
        \/ \E ts \in BoundedSeq(Addresses, 2) : n = Block(ts)
    BY DEF Nodes
  <1> DEFINE OK == IsNode(g, Len(heap) + 1) /\ (n.id = "primitive" => n.prim \in Range(PrimitiveNames))
  <1>5. ASSUME NEW p \in Primitives, n = Primitive(p) PROVE OK
    BY <1>3, <1>5, TypesAssumption DEF IsNode, Primitive
  <1>6. ASSUME NEW s \in Structs, n = UserDefined(s) PROVE OK
    BY <1>3, <1>6 DEF IsNode, UserDefined
  <1>7. ASSUME NEW a \in Addresses, NEW q \in QualifierSets, NEW as \in Spaces, n = Pointer(a, q, as) PROVE OK
    <2>1. q \subseteq Range(Qualifiers) /\ as \in Range(AddressSpaces)
      BY TypesAssumption
    <2>2. n = [id |-> "pointer", of |-> a, quals |-> q, space |-> as]
      BY <1>7 DEF Pointer
    <2>3. n.id = "pointer" /\ n.of = a /\ n.quals = q /\ n.space = as
      BY <2>2
    <2>4. n = Pointer(n.of, n.quals, n.space)
      BY <1>7, <2>3
    <2>5. a \in 1..((Len(heap) + 1) - 1)
      BY <1>2 DEF Addresses
    <2> HIDE DEF Nodes
    <2> QED
      BY <1>3, <2>1, <2>3, <2>4, <2>5 DEF IsNode
  <1>8. ASSUME NEW a \in Addresses, heap[a].id = "primitive", NEW l \in Lengths, n = Vector(a, l) PROVE OK
    <2>1. g[a] = heap[a]
      BY <1>3 DEF Addresses
    <2> QED
      BY <1>3, <1>8, <2>1 DEF IsNode, Vector, Addresses
  <1>9. ASSUME NEW a \in Addresses, n = Atomic(a) PROVE OK
    BY <1>3, <1>9 DEF IsNode, Atomic, Addresses
  <1>10. ASSUME NEW ts \in BoundedSeq(Addresses, 2), n = Block(ts) PROVE OK
    <2>1. ts \in Seq(Addresses)
      <3>1. PICK k \in 0..2 : ts \in [1..k -> Addresses]
        BY DEF BoundedSeq, SeqOf
      <3> QED
        BY <3>1
    <2> QED
      BY <1>3, <1>10, <2>1 DEF IsNode, Block, Addresses
  <1>11. OK
    BY <1>4, <1>5, <1>6, <1>7, <1>8, <1>9, <1>10
  <1> QED
    BY <1>1, <1>11, HeapGrows DEF g

LEMMA NewTypeType == ASSUME TypeInv, NEW n \in Nodes, NewType(n) PROVE TypeInv'
  <1> DEFINE g == Append(heap, n)
  <1>1. HeapOK(g)
    BY NewNode
  <1>2. g = [a \in 1..(Len(heap) + 1) |-> IF a = Len(heap) + 1 THEN n ELSE heap[a]] /\ Len(g) = Len(heap) + 1
        /\ Len(heap) \in Nat
    BY AppendIs DEF TypeInv, HeapOK
  <1> HIDE DEF g
  <1>3. 1..Len(heap) \subseteq 1..Len(g) /\ \A a \in 1..Len(heap) : g[a] = heap[a]
    BY <1>2
  <1>4. parameters \in Seq(1..Len(g))
    BY <1>3, SeqMonotonic DEF TypeInv, Addresses
  <1>5. todo \in Seq(Items(g))
    <2>1. Items(heap) \subseteq Items(g)
      BY <1>3 DEF Items
    <2> QED
      BY <2>1, SeqMonotonic DEF TypeInv
  <1>6. DOMAIN m_substitutions \subseteq {a \in 1..Len(g) : g[a].id \in {"pointer", "structure"}}
    BY <1>3 DEF TypeInv, Addresses
  <1>7. heap' = g /\ UNCHANGED <<parameters, todo, current, m_substitutions, m_nextSeqID>>
    BY DEF NewType, g
  <1> QED
    BY <1>1, <1>4, <1>5, <1>6, <1>7 DEF TypeInv, Addresses

LEMMA PushType == ASSUME TypeInv, NEW a \in Addresses, PushParameter(a) PROVE TypeInv'
  <1>1. parameters' \in Seq(Addresses) /\ Len(parameters') = Len(parameters) + 1
    BY AppendProperties DEF PushParameter, TypeInv
  <1>2. current \in 0..Len(parameters')
    <2>1. Len(parameters) \in Nat
      BY LenProperties DEF TypeInv
    <2> QED
      BY <1>1, <2>1 DEF TypeInv
  <1>3. UNCHANGED <<heap, todo, current, m_substitutions, m_nextSeqID>>
    BY DEF PushParameter
  <1> QED
    BY <1>1, <1>2, <1>3 DEF TypeInv, Addresses, HeapOK

LEMMA MangleType == ASSUME TypeInv, NEW ver, mangle(ver) PROVE TypeInv'
  <1>1. /\ heap' = heap /\ parameters' = parameters
        /\ m_substitutions' = [a \in {} |-> 0] /\ m_nextSeqID' = 0 /\ todo' = <<>> /\ current' = 0
    BY DEF mangle, EmptyMap
  <1>2. 0 \in 0..Len(parameters)
    BY LenProperties DEF TypeInv
  <1>3. DOMAIN m_substitutions' = {} /\ Range(m_substitutions') = {} /\ 0..(m_nextSeqID' - 1) = {}
    BY <1>1 DEF Range
  <1> QED
    BY <1>1, <1>2, <1>3 DEF TypeInv, IsInjective, Addresses, HeapOK

LEMMA ParameterShape ==
    ASSUME TypeInv
    PROVE  Len(parameters) \in Nat /\ \A i \in 1..Len(parameters) : parameters[i] \in Addresses
  BY LenProperties, ElementOfSeq DEF TypeInv

LEMMA NextParameterType == ASSUME TypeInv, NextParameter PROVE TypeInv'
  <1>1. UNCHANGED <<heap, parameters, m_substitutions, m_nextSeqID>>
    BY DEF NextParameter, built
  <1>2. CASE current < Len(parameters)
    <2>1. current + 1 \in 1..Len(parameters) /\ current + 1 \in 0..Len(parameters)
      BY <1>2, ParameterShape DEF TypeInv
    <2>2. parameters[current + 1] \in 1..Len(heap)
      BY <2>1, ParameterShape DEF Addresses
    <2>3. <<Visit(parameters[current + 1])>> \in Seq(Items(heap))
      BY <2>2, OneItem
    <2>4. current' = current + 1 /\ todo' = <<Visit(parameters[current + 1])>>
      BY <1>2 DEF NextParameter
    <2> QED
      BY <1>1, <2>1, <2>3, <2>4 DEF TypeInv, Addresses, HeapOK
  <1>3. CASE ~(current < Len(parameters))
    <2>1. UNCHANGED <<current, todo>>
      BY <1>3 DEF NextParameter
    <2> QED
      BY <1>1, <2>1 DEF TypeInv, Addresses, HeapOK
  <1> QED
    BY <1>2, <1>3

LEMMA RefuseType == ASSUME TypeInv, Refuse PROVE TypeInv'
  <1>1. UNCHANGED <<heap, parameters, m_substitutions, m_nextSeqID, current>> /\ todo' = <<>>
    BY DEF Refuse, built
  <1> QED
    BY <1>1 DEF TypeInv, Addresses, HeapOK

LEMMA VisitType == ASSUME TypeInv, Visitor \/ WriteRest PROVE TypeInv'
  <1> USE DEF Accepting, Node
  <1>0. <<>> \in Seq(Items(heap)) /\ \A a \in 1..Len(heap) : <<Visit(a)>> \in Seq(Items(heap))
    BY OneItem
  <1>1. todo # <<>> /\ (Head(todo).visit => Top \in 1..Len(heap)) /\ HeapOK(heap)
    BY TopShape DEF Addresses, TypeInv, Visitor, WriteRest, visitPrimitive, visitVector, visitAtomic, visitBlock,
       visitPointer, visitUserDefined, mangleSubstitution
  <1>2. \A a \in 1..Len(heap) : heap[a].id \in {"pointer", "vector", "atomic"} => heap[a].of \in 1..Len(heap)
    BY <1>1, NodeShape
  <1>3. CASE visitPrimitive
    BY <1>0, <1>1, <1>3, EmitType DEF visitPrimitive
  <1>4. CASE visitVector
    <2>1. <<Visit(Node.of)>> \in Seq(Items(heap))
      <3>1. Head(todo).visit /\ heap[Top].id = "vector"
        BY <1>4 DEF visitVector, Top
      <3> QED
        BY <1>0, <1>1, <1>2, <3>1
    <2>2. Emit(<<<<"Dv", Node.len>>>>, <<Visit(Node.of)>>) /\ NoNumber
      BY <1>4 DEF visitVector
    <2> QED
      BY <1>1, <2>1, <2>2, EmitType
  <1>5. CASE visitAtomic
    <2>1. <<Visit(Node.of)>> \in Seq(Items(heap))
      <3>1. Head(todo).visit /\ heap[Top].id = "atomic"
        BY <1>5 DEF visitAtomic, Top
      <3> QED
        BY <1>0, <1>1, <1>2, <3>1
    <2>2. Emit(<<<<"U7_Atomic">>>>, <<Visit(Node.of)>>) /\ NoNumber
      BY <1>5 DEF visitAtomic
    <2> QED
      BY <1>1, <2>1, <2>2, EmitType
  <1>6. CASE visitBlock
    <2>1. Top \in 1..Len(heap) /\ Node.id = "block"
      BY <1>1, <1>6 DEF visitBlock, Top
    <2> DEFINE rest == [i \in 1..Len(Node.params) |-> Visit(Node.params[i])] \o <<End>>
    <2>2. rest \in Seq(Items(heap))
      BY <1>1, <2>1, BlockItems
    <2>3. Emit(<<<<"U13block_pointerFv">>>>, rest) /\ NoNumber
      BY <1>6 DEF visitBlock, End
    <2> HIDE DEF rest
    <2> QED
      BY <1>1, <2>2, <2>3, EmitType
  <1>7. CASE visitPointer
    <2>1. CASE mangleSubstitution("pointer")
      BY <1>0, <1>1, <2>1, EmitType DEF mangleSubstitution
    <2>2. CASE ~mangleSubstitution("pointer")
      <3>1. Head(todo).visit /\ heap[Top].id = "pointer" /\ ~Known /\ addSubstitution
        BY <1>7, <2>2 DEF visitPointer, Top
      <3>2. Emit(<<<<"P">>>> \o Attributes(Node), <<Visit(Node.of)>>)
        BY <1>7, <2>2 DEF visitPointer
      <3>3. <<Visit(Node.of)>> \in Seq(Items(heap))
        BY <1>0, <1>1, <1>2, <3>1
      <3> HIDE DEF Node
      <3> QED
        BY <1>1, <3>1, <3>2, <3>3, NumberType
    <2> QED
      BY <2>1, <2>2
  <1>8. CASE visitUserDefined
    <2>1. CASE mangleSubstitution("structure")
      BY <1>0, <1>1, <2>1, EmitType DEF mangleSubstitution
    <2>2. CASE ~mangleSubstitution("structure")
      <3>1. Head(todo).visit /\ heap[Top].id = "structure" /\ ~Known /\ addSubstitution
        BY <1>8, <2>2 DEF visitUserDefined, Top
      <3>2. Emit(<<<<"n", Node.name>>>>, <<>>)
        BY <1>8, <2>2 DEF visitUserDefined
      <3> HIDE DEF Node
      <3> QED
        BY <1>0, <1>1, <3>1, <3>2, NumberType
    <2> QED
      BY <2>1, <2>2
  <1>9. CASE WriteRest
    BY <1>0, <1>1, <1>9, EmitType DEF WriteRest
  <1> QED
    BY <1>3, <1>4, <1>5, <1>6, <1>7, <1>8, <1>9 DEF Visitor

LEMMA StepType == TypeInv /\ [Next]_vars => TypeInv'
  <1> SUFFICES ASSUME TypeInv, [Next]_vars PROVE TypeInv'
    OBVIOUS
  <1>1. CASE UNCHANGED vars
    BY <1>1 DEF vars, TypeInv, Addresses, HeapOK
  <1>2. CASE Next
    BY <1>2, NewTypeType, PushType, MangleType, NextParameterType, RefuseType, VisitType DEF Next, Running
  <1> QED
    BY <1>1, <1>2

\* The stack holds types of the heap, and the numbers 0, 1, ... are given out in turn, each
\* to one pointer or structure (Mangler.cpp:97-100).
THEOREM SpecTypeOK == Spec => []TypeOK
  <1>1. TypeInv => TypeOK
    <2> SUFFICES ASSUME TypeInv, NEW i \in 1..Len(todo), todo[i].visit PROVE todo[i].addr \in Addresses
      BY DEF TypeOK, TypeInv
    <2>1. todo[i] \in Items(heap)
      BY ElementOfSeq DEF TypeInv
    <2> QED
      BY <2>1, ItemShape DEF Items, Addresses
  <1> QED
    BY <1>1, InitType, StepType, PTL DEF Spec

-----------------------------------------------------------------------------
\* What a call refuses

Use(h, u, a) ==
    \/ h[a].id \in {"atomic", "block"}
    \/ h[a].id = "primitive" /\ New(h[a].prim)
    \/ h[a].id \in {"pointer", "vector"} /\ u[h[a].of]

LEMMA UseLocal ==
    ASSUME NEW h, HeapOK(h), NEW a \in 1..Len(h), NEW u, NEW v, \A c \in 1..(a - 1) : u[c] = v[c]
    PROVE  Use(h, u, a) = Use(h, v, a)
  <1>1. h[a].id \in {"pointer", "vector"} => h[a].of \in 1..(a - 1)
    BY NodeShape
  <1> QED
    BY <1>1 DEF Use

\* A type uses what SPIR 2.0 introduced if its node or its part does.
LEMMA UsesAre ==
    ASSUME NEW h, HeapOK(h)
    PROVE  \A a \in 1..Len(h) : Uses20(h)[a] = Use(h, Uses20(h), a)
  <1> DEFINE Rec(f) == f = [a \in 1..Len(h) |-> Use(h, f, a)]
             Upto(f, m) == \A a \in 1..m : f[a] = Use(h, f, a)
             S == {m \in Nat : m <= Len(h) => \E f : Upto(f, m)}
  <1>0. Len(h) \in Nat
    BY DEF HeapOK
  <1>1. 0 \in S
    OBVIOUS
  <1>2. ASSUME NEW m \in Nat, m \in S PROVE m + 1 \in S
    <2> SUFFICES ASSUME m + 1 <= Len(h) PROVE \E f : Upto(f, m + 1)
      OBVIOUS
    <2>1. PICK f : Upto(f, m)
      BY <1>0, <1>2
    <2> DEFINE g == [a \in 1..(m + 1) |-> IF a = m + 1 THEN Use(h, f, m + 1) ELSE f[a]]
    <2>2. \A a \in 1..m : g[a] = f[a]
      OBVIOUS
    <2>3. g[m + 1] = Use(h, f, m + 1)
      OBVIOUS
    <2> HIDE DEF g
    <2>4. ASSUME NEW a \in 1..(m + 1) PROVE g[a] = Use(h, g, a)
      <3>1. a \in 1..Len(h) /\ \A c \in 1..(a - 1) : g[c] = f[c]
        BY <1>0, <2>2
      <3>2. Use(h, g, a) = Use(h, f, a)
        BY <3>1, UseLocal
      <3>3. g[a] = Use(h, f, a)
        BY <2>1, <2>2, <2>3
      <3> QED
        BY <3>2, <3>3
    <2>5. Upto(g, m + 1)
      BY <2>4
    <2> QED
      BY <2>5
  <1> HIDE DEF S
  <1>3. Len(h) \in S
    BY <1>0, <1>1, <1>2, NatSetInduction
  <1>4. PICK f : Upto(f, Len(h))
    BY <1>0, <1>3 DEF S
  <1> DEFINE g == [a \in 1..Len(h) |-> f[a]]
             X == CHOOSE u : Rec(u)
  <1>5. Rec(g)
    <2>1. ASSUME NEW a \in 1..Len(h) PROVE g[a] = Use(h, g, a)
      <3>1. \A c \in 1..(a - 1) : g[c] = f[c]
        BY <1>0
      <3>2. g[a] = Use(h, f, a)
        BY <1>4
      <3> HIDE DEF g
      <3>3. Use(h, g, a) = Use(h, f, a)
        BY <3>1, UseLocal
      <3> QED
        BY <3>2, <3>3
    <2>2. g = [a \in 1..Len(h) |-> g[a]]
      OBVIOUS
    <2> HIDE DEF g
    <2> QED
      BY <2>1, <2>2
  <1> HIDE DEF Rec
  <1>6. Rec(X)
    BY <1>5
  <1>7. Uses20(h) = X
    BY DEF Uses20, Rec, Use
  <1> HIDE DEF X
  <1> QED
    BY <1>6, <1>7 DEF Rec

U == Uses20(heap)

\* Before SPIR 2.0 blocks are refused, so the walk is at one type at a time.  It lacks
\* nothing the parameter it is part of does not; and a numbered type that uses what the
\* version lacks is above the walk, so no back reference can mean it.
Walk ==
    /\ todo # <<>> => /\ current \in 1..Len(parameters)
                      /\ \E a \in Addresses : todo = <<Visit(a)>> /\ U[a] = U[parameters[current]]
    /\ \A i \in 1..Len(parameters) : (i < current \/ (i = current /\ todo = <<>>)) => ~U[parameters[i]]
    /\ \A a \in DOMAIN m_substitutions : U[a] => todo # <<>> /\ Top < a /\ U[Top]

RefusalInv ==
    /\ status = "mangling" /\ spirVer < SPIR20 => Walk
    /\ status = "MANGLE_SUCCESS" /\ spirVer < SPIR20 => \A i \in 1..Len(parameters) : ~U[parameters[i]]
    /\ status = "MANGLE_TYPE_NOT_SUPPORTED" =>
         /\ spirVer < SPIR20 /\ current \in 1..Len(parameters) /\ U[parameters[current]]
         /\ \A i \in 1..Len(parameters) : i < current => ~U[parameters[i]]

LEMMA WalkTop ==
    ASSUME TypeInv, Walk, todo # <<>>
    PROVE  /\ Top \in Addresses /\ Head(todo) = Visit(Top) /\ todo = <<Visit(Top)>> /\ Tail(todo) = <<>>
           /\ current \in 1..Len(parameters) /\ U[Top] = U[parameters[current]]
  <1>1. PICK a \in Addresses : todo = <<Visit(a)>> /\ U[a] = U[parameters[current]]
    BY DEF Walk
  <1>2. Top = a
    BY <1>1, ItemShape DEF Top
  <1> QED
    BY <1>1, <1>2 DEF Walk

LEMMA TopUses == ASSUME TypeInv, Top \in Addresses PROVE U[Top] = Use(heap, U, Top)
  BY UsesAre DEF TypeInv, Addresses, U

\* The walk goes on to the part of the type on top.
LEMMA WalkOn ==
    ASSUME TypeInv, Walk, todo # <<>>, Node.id \in {"pointer", "vector"}, NEW words, Emit(words, <<Visit(Node.of)>>),
           DOMAIN m_substitutions' \subseteq DOMAIN m_substitutions \cup {Top}
    PROVE  Walk'
  <1> DEFINE b == Node.of
  <1>1. Top \in Addresses /\ Tail(todo) = <<>> /\ current \in 1..Len(parameters) /\ U[Top] = U[parameters[current]]
    BY WalkTop
  <1>2. b \in 1..(Top - 1) /\ b \in Addresses /\ HeapOK(heap)
    BY <1>1, NodeShape DEF Addresses, Node, TypeInv
  <1>3. U[Top] = U[b]
    <2>1. U[Top] = (Use(heap, U, Top))
      BY <1>1, TopUses
    <2>2. U[b] = Use(heap, U, b)
      BY <1>2, UsesAre DEF TypeInv, Addresses, U
    <2> QED
      BY <2>1, <2>2 DEF Use, Node
  <1>4. todo' = <<Visit(b)>>
    <2>1. todo' = <<Visit(b)>> \o <<>>
      BY <1>1 DEF Emit
    <2>2. <<Visit(b)>> \in Seq(Items(heap))
      BY <1>2, OneItem DEF Addresses
    <2> QED
      BY <2>1, <2>2, ConcatEmptySeq
  <1>5. UNCHANGED <<heap, parameters, current>>
    BY DEF Emit, built
  <1> HIDE DEF b
  <1>6. Top' = b /\ todo' # <<>> /\ U' = U
    BY <1>4, <1>5, ItemShape DEF Top, U
  <1>7. \A i \in 1..Len(parameters) : i < current => ~U[parameters[i]]
    BY DEF Walk
  <1>8. ASSUME NEW a \in DOMAIN m_substitutions', U[a] PROVE b < a /\ U[b]
    <2>1. Top \in Int /\ b \in Int /\ b < Top /\ \A c \in DOMAIN m_substitutions : c \in Int
      BY <1>1, <1>2 DEF Addresses, TypeInv, HeapOK
    <2>2. CASE a \in DOMAIN m_substitutions
      <3>1. Top < a /\ U[Top]
        BY <1>8, <2>2 DEF Walk
      <3> QED
        BY <1>3, <2>1, <2>2, <3>1
    <2>3. CASE a = Top
      BY <1>3, <1>8, <2>1, <2>3
    <2> QED
      BY <1>8, <2>2, <2>3
  <1> QED
    BY <1>1, <1>2, <1>3, <1>4, <1>5, <1>6, <1>7, <1>8 DEF Walk, Addresses

\* The walk of a parameter ends at a type the version has.
LEMMA WalkDone ==
    ASSUME TypeInv, Walk, todo # <<>>, ~U[Top], NEW words, Emit(words, <<>>),
           DOMAIN m_substitutions' \subseteq DOMAIN m_substitutions \cup {Top}
    PROVE  Walk'
  <1>1. Top \in Addresses /\ Tail(todo) = <<>> /\ current \in 1..Len(parameters) /\ U[Top] = U[parameters[current]]
    BY WalkTop
  <1>2. todo' = <<>>
    <2>1. todo' = <<>> \o <<>>
      BY <1>1 DEF Emit
    <2>2. <<>> \in Seq(Items(heap))
      OBVIOUS
    <2> QED
      BY <2>1, <2>2, ConcatEmptySeq
  <1>3. UNCHANGED <<heap, parameters, current>> /\ U' = U
    BY DEF Emit, built, U
  <1>4. \A a \in DOMAIN m_substitutions' : ~U[a]
    BY DEF Walk
  <1>5. \A i \in 1..Len(parameters) : i < current \/ i = current => ~U[parameters[i]]
    BY <1>1 DEF Walk
  <1> QED
    BY <1>2, <1>3, <1>4, <1>5 DEF Walk

LEMMA VisitWalk == ASSUME TypeInv, Walk, spirVer < SPIR20, Visitor \/ WriteRest PROVE Walk'
  <1>0. todo # <<>>
    BY DEF Accepting, Visitor, WriteRest, visitPrimitive, visitVector, visitAtomic, visitBlock,
       visitPointer, visitUserDefined, mangleSubstitution
  <1>1. Top \in Addresses /\ Head(todo).visit /\ U[Top] = Use(heap, U, Top)
    BY <1>0, WalkTop, TopUses, ItemShape
  <1>2. NoNumber => DOMAIN m_substitutions' \subseteq DOMAIN m_substitutions \cup {Top}
    BY DEF NoNumber
  <1>3. addSubstitution => DOMAIN m_substitutions' \subseteq DOMAIN m_substitutions \cup {Top}
    BY DEF addSubstitution
  <1>4. ASSUME NEW id, Accepting(id) PROVE heap[Top].id = id /\ Node.id = id
    BY <1>4 DEF Accepting, Node, Top
  <1>5. CASE visitPrimitive
    <2>1. ~U[Top]
      BY <1>1, <1>4, <1>5 DEF visitPrimitive, Supported, Needs20, Use, Node
    <2> QED
      BY <1>0, <1>2, <1>5, <2>1, WalkDone DEF visitPrimitive
  <1>6. CASE visitVector
    BY <1>0, <1>2, <1>4, <1>6, WalkOn DEF visitVector
  <1>7. ~visitAtomic
    BY <1>4 DEF visitAtomic, Supported, Needs20
  <1>8. ~visitBlock
    BY <1>4 DEF visitBlock, Supported, Needs20
  <1>9. ASSUME NEW id, mangleSubstitution(id) PROVE Walk'
    <2>1. Known /\ NoNumber
      BY <1>9 DEF mangleSubstitution
    <2>2. ~U[Top]
      <3>1. Top \in Int
        BY <1>1 DEF Addresses
      <3> QED
        BY <2>1, <3>1 DEF Known, Walk
    <2> DEFINE words == <<<<"S", SeqIdDigits(m_substitutions[Top])>>>>
    <2>3. Emit(words, <<>>)
      BY <1>9 DEF mangleSubstitution
    <2> HIDE DEF words
    <2> QED
      BY <1>0, <1>2, <2>1, <2>2, <2>3, WalkDone
  <1>10. CASE visitPointer
    <2>1. CASE mangleSubstitution("pointer")
      BY <1>9, <2>1
    <2>2. CASE ~mangleSubstitution("pointer")
      BY <1>0, <1>3, <1>4, <1>10, <2>2, WalkOn DEF visitPointer
    <2> QED
      BY <2>1, <2>2
  <1>11. CASE visitUserDefined
    <2>1. CASE mangleSubstitution("structure")
      BY <1>9, <2>1
    <2>2. CASE ~mangleSubstitution("structure")
      <3>1. ~U[Top]
        BY <1>1, <1>4, <1>11, <2>2 DEF visitUserDefined, Use
      <3>2. Emit(<<<<"n", Node.name>>>>, <<>>) /\ addSubstitution
        BY <1>11, <2>2 DEF visitUserDefined
      <3> QED
        BY <1>0, <1>3, <3>1, <3>2, WalkDone
    <2> QED
      BY <2>1, <2>2
  <1>12. ~WriteRest
    BY <1>1 DEF WriteRest
  <1> QED
    BY <1>5, <1>6, <1>7, <1>8, <1>10, <1>11, <1>12 DEF Visitor

LEMMA InitRefusal == Init => RefusalInv
  BY DEF Init, RefusalInv

LEMMA StepRefusal == TypeInv /\ RefusalInv /\ [Next]_vars => RefusalInv'
  <1> SUFFICES ASSUME TypeInv, RefusalInv, [Next]_vars PROVE RefusalInv'
    OBVIOUS
  <1>1. CASE UNCHANGED vars
    BY <1>1 DEF vars, RefusalInv, Walk, U, Top, Addresses
  <1>2. ASSUME NEW n \in Nodes, NewType(n) PROVE RefusalInv'
    BY <1>2 DEF NewType, RefusalInv
  <1>3. ASSUME NEW a \in Addresses, PushParameter(a) PROVE RefusalInv'
    BY <1>3 DEF PushParameter, RefusalInv
  <1>4. ASSUME NEW ver, mangle(ver) PROVE RefusalInv'
    <2>1. /\ todo' = <<>> /\ current' = 0 /\ m_substitutions' = [a \in {} |-> 0]
          /\ status' \in {"mangling", "MANGLE_NULL_FUNC_DESCRIPTOR"} /\ parameters' = parameters
      BY <1>4 DEF mangle, EmptyMap
    <2>2. Len(parameters) \in Nat
      BY ParameterShape
    <2>3. Walk'
      BY <2>1, <2>2 DEF Walk
    <2> QED
      BY <2>1, <2>3 DEF RefusalInv
  <1>5. CASE NextParameter
    <2>1. UNCHANGED <<heap, parameters, spirVer, m_substitutions>> /\ todo = <<>> /\ status = "mangling" /\ U' = U
      BY <1>5 DEF NextParameter, built, U
    <2>2. current \in Nat /\ Len(parameters) \in Nat /\ current <= Len(parameters)
      BY ParameterShape DEF TypeInv
    <2>3. CASE current < Len(parameters)
      <3>1. /\ current' = current + 1 /\ todo' = <<Visit(parameters[current + 1])>> /\ status' = "mangling"
            /\ parameters[current + 1] \in Addresses /\ current + 1 \in 1..Len(parameters)
        BY <1>5, <2>1, <2>2, <2>3, ParameterShape DEF NextParameter
      <3>2. ASSUME Walk PROVE Walk'
        <4>1. \A a \in DOMAIN m_substitutions : ~U[a]
          BY <2>1, <3>2 DEF Walk
        <4>2. \A i \in 1..Len(parameters) : i < current + 1 => ~U[parameters[i]]
          BY <2>1, <2>2, <3>2 DEF Walk
        <4> QED
          BY <2>1, <3>1, <4>1, <4>2 DEF Walk, Addresses
      <3> QED
        BY <2>1, <3>1, <3>2 DEF RefusalInv
    <2>4. CASE ~(current < Len(parameters))
      <3>1. status' = "MANGLE_SUCCESS"
        BY <1>5, <2>4 DEF NextParameter
      <3>2. ASSUME Walk, NEW i \in 1..Len(parameters) PROVE ~U[parameters[i]]
        BY <2>1, <2>2, <2>4, <3>2 DEF Walk
      <3> QED
        BY <2>1, <3>1, <3>2 DEF RefusalInv
    <2> QED
      BY <2>3, <2>4
  <1>6. CASE Refuse
    <2>1. /\ todo # <<>> /\ spirVer < SPIR20 /\ status = "mangling" /\ Needs20(Node)
          /\ UNCHANGED <<heap, parameters, spirVer, current>> /\ U' = U /\ status' = "MANGLE_TYPE_NOT_SUPPORTED"
      BY <1>6 DEF Refuse, built, U
    <2>2. Walk
      BY <2>1 DEF RefusalInv
    <2>3. /\ Top \in Addresses /\ current \in 1..Len(parameters) /\ U[Top] = U[parameters[current]]
          /\ U[Top] = Use(heap, U, Top)
      BY <2>1, <2>2, WalkTop, TopUses
    <2>4. U[Top]
      BY <2>1, <2>3 DEF Needs20, Use, Node
    <2>5. \A i \in 1..Len(parameters) : i < current => ~U[parameters[i]]
      BY <2>2 DEF Walk
    <2> QED
      BY <2>1, <2>3, <2>4, <2>5 DEF RefusalInv
  <1>7. CASE Visitor \/ WriteRest
    <2>1. UNCHANGED <<spirVer, status>> /\ status = "mangling"
      BY <1>7 DEF Visitor, WriteRest, Emit, built, Accepting, visitPrimitive, visitVector, visitAtomic, visitBlock,
         visitPointer, visitUserDefined, mangleSubstitution
    <2>2. ASSUME spirVer < SPIR20 PROVE Walk'
      <3>1. Walk
        BY <2>1, <2>2 DEF RefusalInv
      <3> QED
        BY <1>7, <2>2, <3>1, VisitWalk
    <2> QED
      BY <2>1, <2>2 DEF RefusalInv
  <1> QED
    BY <1>1, <1>2, <1>3, <1>4, <1>5, <1>6, <1>7 DEF Next, Running

\* A call fails exactly when the version lacks one of the types, and at the first such
\* parameter, whatever parts the parameters share (Mangler.cpp:145-155, ParameterType.cpp:25-30).
THEOREM SpecRefusesExactly == Spec => []RefusesExactly
  <1>1. TypeInv /\ RefusalInv => RefusesExactly
    BY ParameterShape DEF RefusalInv, RefusesExactly, U, TypeInv
  <1> QED
    BY <1>1, InitType, StepType, InitRefusal, StepRefusal, PTL DEF Spec

-----------------------------------------------------------------------------
\* The words of a name and what they are read as

LEMMA PlaceOf ==
    ASSUME NEW t, NEW i \in 1..Len(t), \A j, k \in 1..Len(t) : t[j] = t[k] => j = k
    PROVE  PlaceIn(t, t[i]) = i
  BY DEF PlaceIn

\* The rows of the tables differ.
Letters(e) == <<"r", "V", "K", e, "U3AS1", "U3AS2", "U3AS3", "U3AS4">>

LEMMA LettersDiffer ==
    ASSUME NEW e, e \notin {"r", "V", "K", "U3AS1", "U3AS2", "U3AS3", "U3AS4"},
           NEW i \in 1..8, NEW j \in 1..8, Letters(e)[i] = Letters(e)[j]
    PROVE  i = j
  BY DEF Letters

LEMMA MangledAttributesDiffer == \A i, j \in 1..8 : mangledAttribute[i] = mangledAttribute[j] => i = j
  <1>1. PICK e : e = ""
    OBVIOUS
  <1>2. "" \notin {"r", "V", "K", "U3AS1", "U3AS2", "U3AS3", "U3AS4"}
    OBVIOUS
  <1>3. mangledAttribute = Letters("")
    BY DEF mangledAttribute, Letters
  <1>4. e \notin {"r", "V", "K", "U3AS1", "U3AS2", "U3AS3", "U3AS4"} /\ mangledAttribute = Letters(e)
    BY <1>1, <1>2, <1>3, Zenon
  <1> QED
    BY <1>4, LettersDiffer

LEMMA ReadableAttributesDiffer == \A i, j \in 1..8 : readableAttribute[i] = readableAttribute[j] => i = j
  BY DEF readableAttribute

LEMMA MangledTypesDiffer == \A i, j \in 1..33 : mangledTypes[i] = mangledTypes[j] => i = j
  BY SMTT(60) DEF mangledTypes

LEMMA PrimitiveNamesDiffer == \A i, j \in 1..33 : PrimitiveNames[i] = PrimitiveNames[j] => i = j
  BY SMTT(60) DEF PrimitiveNames

\* A primitive type is read back from its letters.
LEMMA PrimitiveRead ==
    ASSUME NEW p \in Range(PrimitiveNames)
    PROVE  PrimitiveNames[PlaceIn(mangledTypes, mangledPrimitiveString(p))] = p
  <1>1. Len(PrimitiveNames) = 33 /\ Len(mangledTypes) = 33 /\ DOMAIN PrimitiveNames = 1..33
    BY DEF PrimitiveNames, mangledTypes
  <1>2. PICK i \in 1..33 : PrimitiveNames[i] = p
    BY <1>1 DEF Range
  <1>3. PlaceIn(PrimitiveNames, PrimitiveNames[i]) = i
    <2>1. i \in 1..Len(PrimitiveNames) /\ \A j, k \in 1..Len(PrimitiveNames) : PrimitiveNames[j] = PrimitiveNames[k] => j = k
      BY <1>1, PrimitiveNamesDiffer
    <2> QED
      BY <2>1, PlaceOf
  <1>4. PlaceIn(mangledTypes, mangledTypes[i]) = i
    <2>1. i \in 1..Len(mangledTypes) /\ \A j, k \in 1..Len(mangledTypes) : mangledTypes[j] = mangledTypes[k] => j = k
      BY <1>1, MangledTypesDiffer
    <2> QED
      BY <2>1, PlaceOf
  <1> QED
    BY <1>2, <1>3, <1>4 DEF mangledPrimitiveString

\* So is an attribute; only the private address space has no letter.
LEMMA RowRead ==
    ASSUME NEW i \in 1..8
    PROVE  /\ getMangledAttribute(readableAttribute[i]) = mangledAttribute[i]
           /\ Attribute(mangledAttribute[i]) = readableAttribute[i]
  <1>1. Len(readableAttribute) = 8 /\ Len(mangledAttribute) = 8
    <2>1. Len(readableAttribute) = 8
      BY DEF readableAttribute
    <2>2. \A e : Len(Letters(e)) = 8
      BY DEF Letters
    <2>3. mangledAttribute = Letters("")
      BY DEF mangledAttribute, Letters
    <2>4. Len(mangledAttribute) = 8
      BY <2>2, <2>3, Zenon
    <2> QED
      BY <2>1, <2>4
  <1>2. PlaceIn(readableAttribute, readableAttribute[i]) = i
    BY <1>1, PlaceOf, ReadableAttributesDiffer
  <1>3. PlaceIn(mangledAttribute, mangledAttribute[i]) = i
    BY <1>1, PlaceOf, MangledAttributesDiffer
  <1> QED
    BY <1>2, <1>3 DEF getMangledAttribute, Attribute

LEMMA QualifierRead == \A q \in Range(Qualifiers) : Attribute(getMangledAttribute(q)) = q
  <1> SUFFICES ASSUME NEW q \in Range(Qualifiers) PROVE Attribute(getMangledAttribute(q)) = q
    OBVIOUS
  <1>1. \E i \in 1..8 : q = readableAttribute[i]
    BY DEF Range, Qualifiers, readableAttribute
  <1>2. PICK i \in 1..8 : q = readableAttribute[i]
    BY <1>1
  <1> QED
    BY <1>2, RowRead

LEMMA SpaceRead ==
    ASSUME NEW as \in Range(AddressSpaces)
    PROVE  /\ Attribute(getMangledAttribute(as)) = as
           /\ getMangledAttribute(as) = "" => as = "__private"
  <1>1. \E i \in 1..8 : as = readableAttribute[i]
    <2>1. \A i \in 1..5 : AddressSpaces[i] = readableAttribute[i + 3] /\ i + 3 \in 1..8
      BY DEF AddressSpaces, readableAttribute
    <2>2. \E i \in 1..5 : as = AddressSpaces[i]
      <3>1. DOMAIN AddressSpaces = 1..5
        BY DEF AddressSpaces
      <3> QED
        BY <3>1 DEF Range
    <2> QED
      BY <2>1, <2>2
  <1>2. PICK i \in 1..8 : as = readableAttribute[i]
    BY <1>1
  <1>3. Attribute(getMangledAttribute(as)) = as
    BY <1>2, RowRead
  <1>4. mangledAttribute[4] = "" /\ readableAttribute[4] = "__private"
    <2>1. \A e : Letters(e)[4] = e
      BY DEF Letters
    <2>2. mangledAttribute = Letters("")
      BY DEF mangledAttribute, Letters
    <2>3. mangledAttribute[4] = ""
      BY <2>1, <2>2, Zenon
    <2>4. readableAttribute[4] = "__private"
      BY DEF readableAttribute
    <2> QED
      BY <2>3, <2>4
  <1>5. ASSUME getMangledAttribute(as) = mangledAttribute[4] PROVE as = "__private"
    <2>1. mangledAttribute[i] = mangledAttribute[4]
      BY <1>2, <1>5, RowRead
    <2>2. i = 4
      BY <2>1, MangledAttributesDiffer
    <2> QED
      BY <1>2, <1>4, <2>2
  <1>6. getMangledAttribute(as) = "" => getMangledAttribute(as) = mangledAttribute[4]
    BY <1>4, Zenon
  <1>7. getMangledAttribute(as) = "" => as = "__private"
    BY <1>5, <1>6, Zenon
  <1> QED
    BY <1>3, <1>7, Zenon

\* Reading a number digit by digit.
LEMMA NumberIs ==
    ASSUME NEW s \in Seq(Nat)
    PROVE  \E f : /\ f \in [0..Len(s) -> Nat] /\ f[0] = 0
                  /\ \A n \in 1..Len(s) : f[n] = f[n - 1] * 36 + s[n]
                  /\ Number(s) = f[Len(s)]
  <1> DEFINE L == Len(s)
             step == [n \in 1..L |-> [v \in Nat |-> v * 36 + s[n]]]
             Rec(f) == f = [n \in 0..L |-> IF n = 0 THEN 0 ELSE f[n - 1] * 36 + s[n]]
             X == CHOOSE f : Rec(f)
  <1>1. L \in Nat /\ \A n \in 1..L : s[n] \in Nat
    BY LenProperties, ElementOfSeq
  <1> HIDE DEF L
  <1>2. Steps(step, L, Nat)
    BY <1>1 DEF Steps
  <1>3. PICK f : Iterates(f, step, L, Nat, 0)
    BY <1>2, RecursionDefines
  <1>4. Rec(f)
    <2>1. f = [n \in 0..L |-> f[n]] /\ f[0] = 0 /\ \A n \in 0..L : f[n] \in Nat
      BY <1>3 DEF Iterates
    <2>2. \A n \in 1..L : f[n] = f[n - 1] * 36 + s[n]
      <3> SUFFICES ASSUME NEW n \in 1..L PROVE f[n] = f[n - 1] * 36 + s[n]
        OBVIOUS
      <3>1. n - 1 \in 0..L
        BY <1>1
      <3>2. f[n - 1] \in Nat
        BY <2>1, <3>1
      <3>3. f[n] = step[n][f[n - 1]]
        BY <1>3 DEF Iterates
      <3> QED
        BY <3>2, <3>3
    <2>3. \A n \in 0..L : f[n] = IF n = 0 THEN 0 ELSE f[n - 1] * 36 + s[n]
      <3> SUFFICES ASSUME NEW n \in 0..L PROVE f[n] = IF n = 0 THEN 0 ELSE f[n - 1] * 36 + s[n]
        OBVIOUS
      <3>1. CASE n = 0
        BY <2>1, <3>1
      <3>2. CASE n # 0
        <4>1. n \in 1..L
          BY <1>1, <3>2
        <4> QED
          BY <2>2, <3>2, <4>1
      <3> QED
        BY <3>1, <3>2
    <2> QED
      BY <2>1, <2>3
  <1>5. Rec(X)
    <2> HIDE DEF Rec
    <2> QED
      BY <1>4
  <1>6. Number(s) = X[L]
    BY DEF Number, L
  <1> HIDE DEF X
  <1>7. X[0] = 0 /\ \A n \in 1..L : X[n] = X[n - 1] * 36 + s[n]
    BY <1>1, <1>5
  <1>8. \A n \in 0..L : X[n] \in Nat
    <2> DEFINE S == {n \in Nat : n <= L => X[n] \in Nat}
    <2>1. 0 \in S
      BY <1>7
    <2>2. ASSUME NEW n \in Nat, n \in S PROVE n + 1 \in S
      <3> SUFFICES ASSUME n + 1 <= L PROVE X[n + 1] \in Nat
        OBVIOUS
      <3>1. n + 1 \in 1..L /\ X[n] \in Nat /\ (n + 1) - 1 = n
        BY <1>1, <2>2
      <3>2. X[n + 1] = X[n] * 36 + s[n + 1]
        BY <1>7, <3>1
      <3> QED
        BY <1>1, <3>1, <3>2
    <2> HIDE DEF S
    <2>3. Nat \subseteq S
      BY <2>1, <2>2, NatSetInduction
    <2> QED
      BY <1>1, <2>3 DEF S
  <1>9. X \in [0..L -> Nat]
    BY <1>5, <1>8
  <1> QED
    BY <1>6, <1>7, <1>9 DEF L

LEMMA NumberOfNone == Number(<<>>) = 0
  <1>1. <<>> \in Seq(Nat) /\ Len(<<>>) = 0
    BY EmptySeq
  <1>2. PICK f : f[0] = 0 /\ Number(<<>>) = f[Len(<<>>)]
    BY <1>1, NumberIs
  <1> QED
    BY <1>1, <1>2

LEMMA NumberAppend ==
    ASSUME NEW s \in Seq(Nat), NEW d \in Nat
    PROVE  Number(s \o <<d>>) = Number(s) * 36 + d
  <1> DEFINE t == s \o <<d>>
             L == Len(s)
  <1>1. L \in Nat
    BY LenProperties
  <1>2. t \in Seq(Nat) /\ Len(t) = L + 1 /\ t[L + 1] = d /\ \A n \in 1..L : t[n] = s[n]
    <2>1. <<d>> \in Seq(Nat) /\ Len(<<d>>) = 1 /\ <<d>>[1] = d
      OBVIOUS
    <2>2. /\ t \in Seq(Nat) /\ Len(t) = L + 1
          /\ \A i \in 1..(L + 1) : t[i] = IF i <= L THEN s[i] ELSE <<d>>[i - L]
      BY <2>1, ConcatProperties
    <2> HIDE DEF t, L
    <2> QED
      BY <1>1, <2>1, <2>2
  <1> HIDE DEF t
  <1>3. PICK f : /\ f \in [0..L -> Nat] /\ f[0] = 0 /\ Number(s) = f[L]
                 /\ \A n \in 1..L : f[n] = f[n - 1] * 36 + s[n]
    BY NumberIs
  <1> HIDE DEF L
  <1>4. PICK g : /\ g \in [0..(L + 1) -> Nat] /\ g[0] = 0 /\ Number(t) = g[L + 1]
                 /\ \A n \in 1..(L + 1) : g[n] = g[n - 1] * 36 + t[n]
    <2>1. \E g : /\ g \in [0..Len(t) -> Nat] /\ g[0] = 0
                 /\ \A n \in 1..Len(t) : g[n] = g[n - 1] * 36 + t[n]
                 /\ Number(t) = g[Len(t)]
      BY <1>2, NumberIs
    <2> QED
      BY <1>2, <2>1, Zenon
  <1> DEFINE S == {n \in Nat : n <= L => f[n] = g[n]}
  <1>5. 0 \in S
    BY <1>3, <1>4
  <1>6. ASSUME NEW n \in Nat, n \in S PROVE n + 1 \in S
    <2> SUFFICES ASSUME n + 1 <= L PROVE f[n + 1] = g[n + 1]
      OBVIOUS
    <2>1. n + 1 \in 1..L /\ n + 1 \in 1..(L + 1) /\ (n + 1) - 1 = n /\ f[n] = g[n]
      BY <1>1, <1>6
    <2>2. f[n + 1] = f[n] * 36 + s[n + 1]
      BY <1>3, <2>1
    <2>3. g[n + 1] = g[n] * 36 + t[n + 1]
      BY <1>4, <2>1
    <2> QED
      BY <1>2, <2>1, <2>2, <2>3
  <1> HIDE DEF S
  <1>7. Nat \subseteq S
    BY <1>5, <1>6, NatSetInduction
  <1>8. f[L] = g[L]
    BY <1>1, <1>7 DEF S
  <1>9. g[L + 1] = g[L] * 36 + t[L + 1]
    <2>1. L + 1 \in 1..(L + 1) /\ (L + 1) - 1 = L
      BY <1>1
    <2> QED
      BY <1>4, <2>1
  <1> QED
    BY <1>2, <1>3, <1>4, <1>8, <1>9 DEF t

\* The number of a back reference is read back from its digits.
LEMMA DigitsRead ==
    ASSUME NEW n \in Nat
    PROVE  Number(SeqIdDigits(n)) = n
  <1> DEFINE prev == [m \in Nat |-> m \div 36]
             step == [m \in Nat |-> [s \in Seq(Nat) |-> s \o <<m % 36>>]]
             base == [m \in Nat |-> <<>>]
             rank == [m \in Nat |-> m]
             Rec(f) == f = [m \in Nat |-> IF m = 0 THEN <<>> ELSE f[m \div 36] \o <<m % 36>>]
             X == CHOOSE f : Rec(f)
  <1>1. \A m \in Nat : m % 36 \in Nat /\ m \div 36 \in Nat /\ m = (m \div 36) * 36 + (m % 36)
                       /\ (m # 0 => m \div 36 < m)
    OBVIOUS
  <1>2. Descent({0}, prev, step, Seq(Nat), base, rank)
    <2>1. \A m \in Nat : \A s \in Seq(Nat) : s \o <<m % 36>> \in Seq(Nat)
      <3> SUFFICES ASSUME NEW m \in Nat, NEW s \in Seq(Nat) PROVE s \o <<m % 36>> \in Seq(Nat)
        OBVIOUS
      <3>1. <<m % 36>> \in Seq(Nat)
        BY <1>1
      <3> QED
        BY <3>1, ConcatProperties
    <2>2. step \in [Nat -> [Seq(Nat) -> Seq(Nat)]]
      BY <2>1
    <2>3. rank \in [Nat -> Nat] /\ \A m \in Nat : rank[m] = m /\ prev[m] = m \div 36 /\ base[m] = <<>>
      OBVIOUS
    <2>4. <<>> \in Seq(Nat)
      OBVIOUS
    <2>5. Seq(Nat) # {} /\ rank \in [Nat -> Nat]
      BY <2>3, <2>4
    <2> HIDE DEF step, rank, prev, base
    <2>6. \A x \in Nat : x \in {0} => base[x] \in Seq(Nat)
      BY <2>3, <2>4
    <2>7. \A x \in Nat : x \notin {0} => prev[x] \in Nat /\ rank[prev[x]] < rank[x]
      BY <1>1, <2>3
    <2> QED
      BY <2>2, <2>5, <2>6, <2>7 DEF Descent
  <1>3. PICK f : Descends(f, {0}, prev, step, Seq(Nat), base)
    BY <1>2, DescentDefines
  <1>4. f = [m \in Nat |-> f[m]] /\ \A m \in Nat : f[m] \in Seq(Nat)
    BY <1>3 DEF Descends
  <1>5. \A m \in Nat : f[m] = IF m = 0 THEN <<>> ELSE f[m \div 36] \o <<m % 36>>
    <2> SUFFICES ASSUME NEW m \in Nat PROVE f[m] = IF m = 0 THEN <<>> ELSE f[m \div 36] \o <<m % 36>>
      OBVIOUS
    <2>1. f[m] = IF m \in {0} THEN base[m] ELSE step[m][f[prev[m]]]
      BY <1>3 DEF Descends
    <2>2. f[m \div 36] \in Seq(Nat)
      BY <1>1, <1>4
    <2> QED
      BY <2>1, <2>2
  <1>6. Rec(f)
    BY <1>4, <1>5
  <1>7. Rec(X)
    <2> HIDE DEF Rec
    <2> QED
      BY <1>6
  <1>8. SeqIdDigits(n) = IF n = 0 THEN <<0>> ELSE X[n]
    BY DEF SeqIdDigits
  <1> HIDE DEF X
  <1>9. \A m \in Nat : X[m] = IF m = 0 THEN <<>> ELSE X[m \div 36] \o <<m % 36>>
    BY <1>7
  <1> HIDE DEF Rec
  <1> DEFINE S == {m \in Nat : \A k \in 0..m : X[k] \in Seq(Nat) /\ Number(X[k]) = k}
  <1>10. 0 \in S
    <2>1. X[0] = <<>> /\ <<>> \in Seq(Nat)
      <3>1. 0 \in Nat
        OBVIOUS
      <3> HIDE DEF X
      <3>2. X[0] = <<>>
        BY <1>9, <3>1
      <3> QED
        BY <3>2, EmptySeq
    <2>2. Number(X[0]) = 0
      BY <2>1, NumberOfNone
    <2>3. \A k \in 0..0 : k = 0
      OBVIOUS
    <2> HIDE DEF X
    <2> QED
      BY <2>1, <2>2, <2>3
  <1>11. ASSUME NEW m \in Nat, m \in S PROVE m + 1 \in S
    <2> DEFINE k == m + 1
    <2>1. k \div 36 \in 0..m /\ k % 36 \in Nat /\ k = (k \div 36) * 36 + (k % 36)
      <3>1. k \in Nat /\ k # 0 /\ k \div 36 < k
        BY <1>1
      <3> QED
        BY <1>1, <3>1
    <2>2. X[k \div 36] \in Seq(Nat) /\ Number(X[k \div 36]) = k \div 36
      BY <1>11, <2>1
    <2>3. X[k] = X[k \div 36] \o <<k % 36>>
      <3>1. k \in Nat /\ k # 0
        OBVIOUS
      <3> HIDE DEF k
      <3> QED
        BY <1>9, <3>1
    <2>4. <<k % 36>> \in Seq(Nat)
      BY <2>1
    <2>5. X[k] \in Seq(Nat)
      BY <2>2, <2>3, <2>4, ConcatProperties
    <2>6. Number(X[k]) = (k \div 36) * 36 + (k % 36)
      BY <2>1, <2>2, <2>3, NumberAppend
    <2>7. k \in Nat /\ \A j \in 0..k : j \in 0..m \/ j = k
      OBVIOUS
    <2> HIDE DEF k
    <2>8. k \in S
      BY <1>11, <2>1, <2>5, <2>6, <2>7
    <2> QED
      BY <2>8 DEF k
  <1> HIDE DEF S
  <1>12. Nat \subseteq S
    BY <1>10, <1>11, NatSetInduction
  <1>13. Number(X[n]) = n
    BY <1>12 DEF S
  <1>14. Number(<<0>>) = 0
    <2>1. <<>> \in Seq(Nat) /\ <<>> \o <<0>> = <<0>>
      OBVIOUS
    <2>2. Number(<<>> \o <<0>>) = Number(<<>>) * 36 + 0
      BY <2>1, NumberAppend
    <2> QED
      BY <2>1, <2>2, NumberOfNone
  <1> QED
    BY <1>8, <1>13, <1>14

\* The words of a name are read as what they stand for: no two primitive types,
\* qualifiers or address spaces share their letters, only the private address
\* space has none, and mangleSubstitution loses nothing of the number of a back
\* reference when it writes it in base 36 (Mangler.cpp:102-129), however large.
THEOREM WordsReadBack ==
    /\ \A n \in Nat : Number(SeqIdDigits(n)) = n
    /\ \A p \in Range(PrimitiveNames) : PrimitiveNames[PlaceIn(mangledTypes, mangledPrimitiveString(p))] = p
    /\ \A q \in Range(Qualifiers) \cup Range(AddressSpaces) : Attribute(getMangledAttribute(q)) = q
    /\ \A as \in Range(AddressSpaces) : getMangledAttribute(as) = "" => as = "__private"
  BY DigitsRead, PrimitiveRead, QualifierRead, SpaceRead

-----------------------------------------------------------------------------
\* What the stack owes

\* The front of two lists one after the other.
LEMMA FrontOf ==
    ASSUME NEW S, NEW s \in Seq(S), s # <<>>, NEW t \in Seq(S)
    PROVE  s \o t # <<>> /\ Head(s \o t) = Head(s) /\ Tail(s \o t) = Tail(s) \o t
  <1>1. /\ s \o t \in Seq(S) /\ Len(s \o t) = Len(s) + Len(t) /\ Len(s) \in Nat /\ Len(t) \in Nat
        /\ \A i \in 1..(Len(s) + Len(t)) : (s \o t)[i] = IF i <= Len(s) THEN s[i] ELSE t[i - Len(s)]
    BY ConcatProperties, LenProperties
  <1>2. Len(s) # 0
    BY EmptySeq
  <1> DEFINE g == s \o t
             l == Len(s)
             k == Len(t)
  <1>3. g # <<>> /\ Len(g) = l + k /\ l \in Nat /\ k \in Nat /\ l # 0
    BY <1>1, <1>2, EmptySeq
  <1>4. g[1] = s[1]
    BY <1>1, <1>2
  <1>5. /\ Tail(g) \in Seq(S) /\ Len(Tail(g)) = (l + k) - 1
        /\ \A i \in 1..Len(Tail(g)) : Tail(g)[i] = g[i + 1]
    BY <1>1, <1>3, HeadTailProperties
  <1>6. Tail(s) \in Seq(S) /\ Len(Tail(s)) = l - 1 /\ \A i \in 1..Len(Tail(s)) : Tail(s)[i] = s[i + 1]
    BY HeadTailProperties
  <1>7. /\ Tail(s) \o t \in Seq(S) /\ Len(Tail(s) \o t) = (l - 1) + k
        /\ \A i \in 1..((l - 1) + k) : (Tail(s) \o t)[i] = IF i <= l - 1 THEN Tail(s)[i] ELSE t[i - (l - 1)]
    BY <1>6, ConcatProperties
  <1>8. \A i \in 1..(l + k) : g[i] = IF i <= l THEN s[i] ELSE t[i - l]
    BY <1>1
  <1> HIDE DEF g, l, k
  <1>9. Tail(g) = Tail(s) \o t
    <2>1. Len(Tail(g)) = Len(Tail(s) \o t)
      BY <1>3, <1>5, <1>7
    <2>2. ASSUME NEW i \in 1..Len(Tail(g)) PROVE Tail(g)[i] = (Tail(s) \o t)[i]
      <3>1. i + 1 \in 1..(l + k) /\ i \in 1..((l - 1) + k) /\ i \in Nat
        BY <1>3, <1>5
      <3>2. Tail(g)[i] = IF i + 1 <= l THEN s[i + 1] ELSE t[(i + 1) - l]
        BY <1>5, <1>8, <3>1
      <3>3. (i + 1 <= l <=> i <= l - 1) /\ (i + 1) - l = i - (l - 1)
        BY <1>3, <3>1
      <3>4. i <= l - 1 => Tail(s)[i] = s[i + 1]
        BY <1>3, <1>6, <3>1
      <3> QED
        BY <1>7, <3>1, <3>2, <3>3, <3>4
    <2> QED
      BY <1>5, <1>7, <2>1, <2>2, SeqEqual
  <1>10. Head(g) = g[1] /\ Head(s) = s[1]
    OBVIOUS
  <1> QED
    BY <1>3, <1>4, <1>9, <1>10 DEF g

\* One item between two lists.
LEMMA Between ==
    ASSUME NEW S, NEW s \in Seq(S), NEW e \in S, NEW t \in Seq(S)
    PROVE  (s \o <<e>>) \o t = s \o (<<e>> \o t)
  <1>1. <<e>> \in Seq(S)
    OBVIOUS
  <1> QED
    BY <1>1, ConcatAssociative

\* One item before a list.
LEMMA OneOf ==
    ASSUME NEW S, NEW e \in S, NEW t \in Seq(S)
    PROVE  /\ <<e>> \in Seq(S) /\ <<e>> \o t \in Seq(S) /\ <<e>> \o t # <<>>
           /\ Head(<<e>> \o t) = e /\ Tail(<<e>> \o t) = t
  <1>1. <<e>> \in Seq(S) /\ <<e>> # <<>> /\ Head(<<e>>) = e /\ Tail(<<e>>) = <<>>
    OBVIOUS
  <1>2. <<>> \o t = t
    BY ConcatEmptySeq
  <1> QED
    BY <1>1, <1>2, FrontOf, ConcatProperties

\* Types to visit, and the items of a stack.
Visits == {Visit(a) : a \in Nat}
Stacked == Visits \cup {End}

LEMMA EndBetween == \A s, t \in Seq(Stacked) : (s \o <<End>>) \o t = s \o (<<End>> \o t)
  <1>1. End \in Stacked
    BY DEF Stacked
  <1> HIDE DEF Stacked
  <1> SUFFICES ASSUME NEW s \in Seq(Stacked), NEW t \in Seq(Stacked)
               PROVE (s \o <<End>>) \o t = s \o (<<End>> \o t)
    OBVIOUS
  <1> QED
    BY <1>1, Between

\* m blocks are open, the function first; rest[l] is due of block l, and D[l] of the blocks
\* 1..l, from the innermost outwards, each with its end.
Owes(m, D, rest) ==
    /\ m \in Nat \ {0}
    /\ D \in [Nat -> Seq(Stacked)] /\ rest \in [Nat -> Seq(Visits)]
    /\ D[1] = rest[1]
    /\ \A l \in 1..m : l > 1 => D[l] = (rest[l] \o <<End>>) \o D[l - 1]

\* Every part of what is owed is a list of items.
LEMMA OwesShape ==
    ASSUME NEW m, NEW D, NEW rest, Owes(m, D, rest)
    PROVE  /\ m \in Nat \ {0} /\ m \in Nat /\ m \in 1..m /\ 1 \in 1..m
           /\ \A l \in Nat : D[l] \in Seq(Stacked) /\ rest[l] \in Seq(Visits) /\ rest[l] \in Seq(Stacked)
           /\ m = 1 => D[m] = rest[m]
           /\ m # 1 => m > 1 /\ m - 1 \in Nat \ {0} /\ D[m] = rest[m] \o (<<End>> \o D[m - 1])
  <1>1. m \in Nat \ {0} /\ m \in Nat /\ m \in 1..m /\ 1 \in 1..m
    BY DEF Owes
  <1>2. D \in [Nat -> Seq(Stacked)] /\ rest \in [Nat -> Seq(Visits)]
    BY DEF Owes
  <1>3. Visits \subseteq Stacked /\ End \in Stacked
    BY DEF Stacked
  <1>4. \A l \in Nat : D[l] \in Seq(Stacked) /\ rest[l] \in Seq(Visits)
    BY <1>2
  <1>5. \A l \in Nat : rest[l] \in Seq(Stacked)
    BY <1>3, <1>4, SeqMonotonic
  <1>6. m # 1 => m > 1 /\ m - 1 \in Nat \ {0}
    BY <1>1
  <1>7. ASSUME m # 1 PROVE D[m] = rest[m] \o (<<End>> \o D[m - 1])
    <2>1. D[m] = (rest[m] \o <<End>>) \o D[m - 1]
      BY <1>1, <1>6, <1>7 DEF Owes
    <2>2. rest[m] \in Seq(Stacked) /\ D[m - 1] \in Seq(Stacked) /\ End \in Stacked
      BY <1>1, <1>3, <1>4, <1>5, <1>6, <1>7
    <2>3. (rest[m] \o <<End>>) \o D[m - 1] = rest[m] \o (<<End>> \o D[m - 1])
      BY <2>2, EndBetween
    <2> QED
      BY <2>1, <2>3
  <1> QED
    BY <1>1, <1>4, <1>5, <1>6, <1>7 DEF Owes

\* A type on top is due to the innermost block.
LEMMA OwesTake ==
    ASSUME NEW m, NEW D, NEW rest, Owes(m, D, rest), D[m] # <<>>, NEW a, Head(D[m]) = Visit(a)
    PROVE  /\ rest[m] # <<>> /\ Head(rest[m]) = Visit(a)
           /\ Owes(m, [D EXCEPT ![m] = Tail(D[m])], [rest EXCEPT ![m] = Tail(rest[m])])
  <1> DEFINE E == [D EXCEPT ![m] = Tail(D[m])]
             less == [rest EXCEPT ![m] = Tail(rest[m])]
             u == <<End>> \o D[m - 1]
  <1>1. /\ m \in Nat \ {0} /\ m \in Nat /\ m \in 1..m /\ 1 \in 1..m
        /\ \A l \in Nat : D[l] \in Seq(Stacked) /\ rest[l] \in Seq(Visits) /\ rest[l] \in Seq(Stacked)
        /\ m = 1 => D[m] = rest[m]
        /\ m # 1 => m > 1 /\ m - 1 \in Nat \ {0} /\ D[m] = rest[m] \o u
    BY OwesShape
  <1>2. End \in Stacked
    BY DEF Stacked
  <1>3. m # 1 => u \in Seq(Stacked) /\ u # <<>> /\ Head(u) = End
    BY <1>1, <1>2, OneOf
  <1> HIDE DEF u
  <1>4. rest[m] # <<>>
    <2> SUFFICES ASSUME rest[m] = <<>> PROVE FALSE
      OBVIOUS
    <2>1. m # 1
      BY <1>1
    <2>2. <<>> \o u = u
      BY <1>3, <2>1, ConcatEmptySeq
    <2>3. D[m] = u
      BY <1>1, <2>1, <2>2
    <2> QED
      BY <1>3, <2>1, <2>3, ItemShape
  <1>5. m # 1 => Head(rest[m] \o u) = Head(rest[m]) /\ Tail(rest[m] \o u) = Tail(rest[m]) \o u
    BY <1>1, <1>3, <1>4, FrontOf
  <1>6. Head(rest[m]) = Visit(a)
    BY <1>1, <1>5
  <1>7. Tail(rest[m]) \in Seq(Visits) /\ Tail(D[m]) \in Seq(Stacked) /\ Tail(rest[m]) \in Seq(Stacked)
    BY <1>1, <1>4, HeadTailProperties
  <1>8. /\ E \in [Nat -> Seq(Stacked)] /\ less \in [Nat -> Seq(Visits)]
        /\ E[m] = Tail(D[m]) /\ less[m] = Tail(rest[m])
        /\ \A l \in Nat : l # m => E[l] = D[l] /\ less[l] = rest[l]
    BY <1>1, <1>7 DEF Owes
  <1> HIDE DEF E, less
  <1>9. E[1] = less[1]
    <2>1. CASE m = 1
      BY <1>1, <1>8, <2>1
    <2>2. CASE m # 1
      BY <1>8, <2>2 DEF Owes
    <2> QED
      BY <2>1, <2>2
  <1>10. ASSUME NEW l \in 1..m, l > 1 PROVE E[l] = (less[l] \o <<End>>) \o E[l - 1]
    <2>1. l \in Nat /\ l - 1 \in Nat /\ l - 1 # m
      BY <1>1, <1>10
    <2>2. E[l - 1] = D[l - 1]
      BY <1>8, <2>1
    <2>3. CASE l = m
      <3>1. m # 1
        BY <1>10, <2>3
      <3>2. E[l] = Tail(rest[m]) \o (<<End>> \o D[m - 1])
        BY <1>1, <1>5, <1>8, <2>3, <3>1 DEF u
      <3>3. Tail(rest[m]) \in Seq(Stacked) /\ D[m - 1] \in Seq(Stacked)
        BY <1>1, <1>7, <3>1
      <3>4. (Tail(rest[m]) \o <<End>>) \o D[m - 1] = Tail(rest[m]) \o (<<End>> \o D[m - 1])
        BY <3>3, EndBetween
      <3> QED
        BY <1>8, <2>2, <2>3, <3>2, <3>4
    <2>4. CASE l # m
      <3>1. D[l] = (rest[l] \o <<End>>) \o D[l - 1]
        BY <1>10 DEF Owes
      <3> QED
        BY <1>8, <2>1, <2>2, <2>4, <3>1
    <2> QED
      BY <2>3, <2>4
  <1>11. Owes(m, E, less)
    BY <1>1, <1>8, <1>9, <1>10 DEF Owes
  <1> QED
    BY <1>4, <1>6, <1>11 DEF E, less

\* The end of a block on top: it has all its parameters.
LEMMA OwesEnd ==
    ASSUME NEW m, NEW D, NEW rest, Owes(m, D, rest), D[m] # <<>>, Head(D[m]) = End
    PROVE  m > 1 /\ rest[m] = <<>> /\ Owes(m - 1, D, rest) /\ Tail(D[m]) = D[m - 1]
  <1> DEFINE u == <<End>> \o D[m - 1]
  <1>1. /\ m \in Nat \ {0} /\ m \in Nat /\ m \in 1..m /\ 1 \in 1..m
        /\ \A l \in Nat : D[l] \in Seq(Stacked) /\ rest[l] \in Seq(Visits) /\ rest[l] \in Seq(Stacked)
        /\ m = 1 => D[m] = rest[m]
        /\ m # 1 => m > 1 /\ m - 1 \in Nat \ {0} /\ D[m] = rest[m] \o u
    BY OwesShape
  <1>2. End \in Stacked
    BY DEF Stacked
  <1>3. m # 1 => u \in Seq(Stacked) /\ Tail(u) = D[m - 1]
    BY <1>1, <1>2, OneOf
  <1> HIDE DEF u
  <1>4. rest[m] = <<>>
    <2> SUFFICES ASSUME rest[m] # <<>> PROVE FALSE
      OBVIOUS
    <2>1. Head(rest[m]) \in Visits
      BY <1>1, HeadTailProperties
    <2>2. Head(rest[m]) # End
      BY <2>1, ItemShape DEF Visits
    <2>3. m # 1 => Head(rest[m] \o u) = Head(rest[m])
      BY <1>1, <1>3, FrontOf
    <2> QED
      BY <1>1, <2>2, <2>3
  <1>5. m # 1
    BY <1>1, <1>4
  <1>6. D[m] = u
    <2>1. <<>> \o u = u
      BY <1>3, <1>5, ConcatEmptySeq
    <2> QED
      BY <1>1, <1>4, <1>5, <2>1
  <1>7. 1..(m - 1) \subseteq 1..m
    BY <1>1
  <1>8. Owes(m - 1, D, rest)
    BY <1>1, <1>5, <1>7 DEF Owes
  <1> QED
    BY <1>1, <1>3, <1>4, <1>5, <1>6, <1>8

\* Nothing is owed only when the function alone is open and has what was due.
LEMMA OwesNone ==
    ASSUME NEW m, NEW D, NEW rest, Owes(m, D, rest), D[m] = <<>>
    PROVE  m = 1 /\ rest[1] = <<>>
  <1> DEFINE u == <<End>> \o D[m - 1]
  <1>1. /\ m \in Nat \ {0}
        /\ \A l \in Nat : D[l] \in Seq(Stacked) /\ rest[l] \in Seq(Stacked)
        /\ m = 1 => D[m] = rest[m]
        /\ m # 1 => m > 1 /\ m - 1 \in Nat \ {0} /\ D[m] = rest[m] \o u
    BY OwesShape
  <1>2. End \in Stacked
    BY DEF Stacked
  <1>3. m # 1 => u \in Seq(Stacked) /\ u # <<>>
    BY <1>1, <1>2, OneOf
  <1> HIDE DEF u
  <1>4. ASSUME m # 1 PROVE FALSE
    <2>1. rest[m] \in Seq(Stacked) /\ u \in Seq(Stacked) /\ u # <<>> /\ rest[m] \o u = <<>>
      BY <1>1, <1>3, <1>4
    <2>2. u = <<>>
      BY <2>1, ConcatEqualIffEmpty
    <2> QED
      BY <2>1, <2>2
  <1> QED
    BY <1>1, <1>4

\* A block is opened: its parameters and its end are due first.
LEMMA OwesOpen ==
    ASSUME NEW m, NEW D, NEW rest, Owes(m, D, rest), NEW new \in Seq(Visits)
    PROVE  Owes(m + 1, [D EXCEPT ![m + 1] = (new \o <<End>>) \o D[m]], [rest EXCEPT ![m + 1] = new])
  <1> DEFINE n == m + 1
             e == (new \o <<End>>) \o D[m]
             E == [D EXCEPT ![n] = e]
             more == [rest EXCEPT ![n] = new]
  <1>1. m \in Nat \ {0} /\ D[m] \in Seq(Stacked) /\ D \in [Nat -> Seq(Stacked)] /\ rest \in [Nat -> Seq(Visits)]
    BY OwesShape DEF Owes
  <1>2. e \in Seq(Stacked)
    <2>1. Visits \subseteq Stacked /\ End \in Stacked
      BY DEF Stacked
    <2>2. new \in Seq(Stacked) /\ <<End>> \in Seq(Stacked)
      BY <2>1, SeqMonotonic
    <2>3. new \o <<End>> \in Seq(Stacked)
      BY <2>2, ConcatProperties
    <2> QED
      BY <1>1, <2>3, ConcatProperties
  <1>3. n \in Nat \ {0} /\ n > 1 /\ n - 1 = m /\ n \notin 1..m /\ \A l \in 1..n : l \in 1..m \/ l = n
    <2>1. m \in Nat \ {0}
      BY <1>1
    <2> HIDE <1>1
    <2> QED
      BY <2>1
  <1>4. e = (new \o <<End>>) \o D[m]
    OBVIOUS
  <1> HIDE DEF n, e
  <1>5. /\ E \in [Nat -> Seq(Stacked)] /\ more \in [Nat -> Seq(Visits)]
        /\ E[n] = e /\ more[n] = new
        /\ \A l \in Nat : l # n => E[l] = D[l] /\ more[l] = rest[l]
    BY <1>1, <1>2, <1>3
  <1> HIDE DEF E, more
  <1>6. E[1] = more[1]
    BY <1>3, <1>5 DEF Owes
  <1>7. ASSUME NEW l \in 1..n, l > 1 PROVE E[l] = (more[l] \o <<End>>) \o E[l - 1]
    <2>1. CASE l = n
      <3>1. E[l - 1] = D[m]
        BY <1>1, <1>3, <1>5, <2>1
      <3> QED
        BY <1>4, <1>5, <2>1, <3>1
    <2>2. CASE l \in 1..m
      <3>1. D[l] = (rest[l] \o <<End>>) \o D[l - 1]
        BY <1>7, <2>2 DEF Owes
      <3>2. l \in Nat /\ l - 1 \in Nat /\ l # n /\ l - 1 # n
        BY <1>1, <1>3, <1>7, <2>2
      <3> QED
        BY <1>5, <3>1, <3>2
    <2> QED
      BY <1>3, <2>1, <2>2
  <1>8. Owes(n, E, more)
    BY <1>3, <1>5, <1>6, <1>7 DEF Owes
  <1> QED
    BY <1>8 DEF n, e, E, more

\* The next parameter of the function is due.
LEMMA OwesNext ==
    ASSUME NEW D, NEW rest, Owes(1, D, rest), NEW a \in Nat
    PROVE  Owes(1, [D EXCEPT ![1] = <<Visit(a)>>], [rest EXCEPT ![1] = <<Visit(a)>>])
  <1>1. <<Visit(a)>> \in Seq(Visits) /\ <<Visit(a)>> \in Seq(Stacked)
    <2>1. Visit(a) \in Visits /\ Visit(a) \in Stacked
      BY DEF Visits, Stacked
    <2> HIDE DEF Visits, Stacked
    <2> QED
      BY <2>1
  <1>2. D \in [Nat -> Seq(Stacked)] /\ rest \in [Nat -> Seq(Visits)]
    BY DEF Owes
  <1>3. \A l \in 1..1 : ~(l > 1)
    OBVIOUS
  <1> QED
    BY <1>1, <1>2, <1>3 DEF Owes

\* The types a block still has to visit.
Due(ps, from, to) == [i \in 1..(to - from) |-> Visit(ps[from + i])]

\* What is due is taken from the front.
LEMMA DueIs ==
    ASSUME NEW ps, NEW from \in Nat, NEW to \in Nat, \A i \in 1..to : ps[i] \in Nat
    PROVE  /\ Due(ps, from, to) \in Seq(Visits)
           /\ Due(ps, from, to) = <<>> <=> to <= from
           /\ from < to => /\ Head(Due(ps, from, to)) = Visit(ps[from + 1])
                           /\ Tail(Due(ps, from, to)) = Due(ps, from + 1, to)
  <1> DEFINE d == Due(ps, from, to)
             k == to - from
             e == Due(ps, from + 1, to)
  <1>1. \A i \in 1..k : d[i] = Visit(ps[from + i])
    BY DEF Due
  <1>2. \A i \in 1..k : Visit(ps[from + i]) \in Visits
    BY DEF Visits
  <1>3. d \in Seq(Visits) /\ Len(d) = IF k >= 0 THEN k ELSE 0
    <2>1. CASE k >= 0
      <3>1. k \in Nat /\ d = [i \in 1..k |-> d[i]]
        BY <2>1 DEF Due
      <3> HIDE DEF d, k
      <3> QED
        BY <1>1, <1>2, <2>1, <3>1
    <2>2. CASE ~(k >= 0)
      <3>1. 1..k = {}
        BY <2>2
      <3>2. d = <<>>
        BY <3>1 DEF Due
      <3> QED
        BY <2>2, <3>2
    <2> QED
      BY <2>1, <2>2
  <1>4. d = <<>> <=> to <= from
    <2>1. d = <<>> <=> Len(d) = 0
      BY <1>3, EmptySeq
    <2>2. Len(d) = 0 <=> to <= from
      BY <1>3
    <2> QED
      BY <2>1, <2>2
  <1>5. ASSUME from < to PROVE Head(d) = Visit(ps[from + 1]) /\ Tail(d) = e
    <2>1. d # <<>> /\ k \in Nat \ {0} /\ Len(d) = k
      BY <1>3, <1>4, <1>5
    <2>2. Head(d) = Visit(ps[from + 1])
      BY <1>1, <2>1
    <2>3. Tail(d) \in Seq(Visits) /\ Len(Tail(d)) = k - 1 /\ \A i \in 1..(k - 1) : Tail(d)[i] = d[i + 1]
      BY <1>3, <2>1, HeadTailProperties
    <2>4. to - (from + 1) = k - 1 /\ \A i \in 1..(k - 1) : (from + 1) + i = from + (i + 1) /\ i + 1 \in 1..k
      BY <2>1
    <2>5. e = [i \in 1..(k - 1) |-> Visit(ps[(from + 1) + i])]
      BY <2>4 DEF Due
    <2>6. \A i \in 1..(k - 1) : Tail(d)[i] = Visit(ps[(from + 1) + i])
      BY <1>1, <2>3, <2>4
    <2>7. Tail(d) = [i \in 1..(k - 1) |-> Tail(d)[i]]
      BY <2>3, LenProperties
    <2> HIDE DEF d, k, e
    <2> QED
      BY <2>2, <2>5, <2>6, <2>7
  <1> QED
    BY <1>3, <1>4, <1>5

-----------------------------------------------------------------------------
\* Reading a name word by word

\* The words of a stream are of many shapes, so that only some set has them all.
IsList(s) == \E T : s \in Seq(T)

\* Two lists are lists over one set.
LEMMA ListTogether ==
    ASSUME NEW s, IsList(s), NEW t, IsList(t)
    PROVE  \E T : s \in Seq(T) /\ t \in Seq(T)
  <1>1. PICK S : s \in Seq(S)
    BY DEF IsList
  <1>2. PICK T : t \in Seq(T)
    BY DEF IsList
  <1>3. S \subseteq S \cup T /\ T \subseteq S \cup T
    OBVIOUS
  <1>4. s \in Seq(S \cup T)
    BY <1>1, <1>3, SeqMonotonic
  <1>5. t \in Seq(S \cup T)
    BY <1>2, <1>3, SeqMonotonic
  <1> QED
    BY <1>4, <1>5

\* Lists one after the other.
LEMMA ListJoin ==
    ASSUME NEW s, IsList(s), NEW t, IsList(t)
    PROVE  IsList(s \o t)
  <1>1. PICK T : s \in Seq(T) /\ t \in Seq(T)
    BY ListTogether
  <1>2. s \o t \in Seq(T)
    BY <1>1, ConcatProperties
  <1> QED
    BY <1>2 DEF IsList

LEMMA ListOne ==
    /\ IsList(<<>>)
    /\ \A w : IsList(<<w>>)
  <1>1. <<>> \in Seq({})
    OBVIOUS
  <1>2. \A w : <<w>> \in Seq({w})
    OBVIOUS
  <1> QED
    BY <1>1, <1>2 DEF IsList

LEMMA ListAssociative ==
    ASSUME NEW s, IsList(s), NEW t, IsList(t), NEW u, IsList(u)
    PROVE  (s \o t) \o u = s \o (t \o u)
  <1>1. PICK S : s \in Seq(S) /\ t \in Seq(S)
    BY ListTogether
  <1>2. PICK T : u \in Seq(T)
    BY DEF IsList
  <1>3. S \subseteq S \cup T /\ T \subseteq S \cup T
    OBVIOUS
  <1>4. s \in Seq(S \cup T) /\ t \in Seq(S \cup T)
    BY <1>1, <1>3, SeqMonotonic
  <1>5. u \in Seq(S \cup T)
    BY <1>2, <1>3, SeqMonotonic
  <1> QED
    BY <1>4, <1>5, ConcatAssociative

LEMMA ListNone ==
    ASSUME NEW s, IsList(s)
    PROVE  s \o <<>> = s /\ <<>> \o s = s
  BY ConcatEmptySeq DEF IsList

\* The reader's state after each word.
Reads(f, words, n) == f = [k \in 0..n |-> IF k = 0 THEN Start ELSE ReadWord(f[k - 1], words[k])]

LEMMA ReadsStep ==
    ASSUME NEW f, NEW words, NEW n \in Nat, Reads(f, words, n)
    PROVE  f[0] = Start /\ \A k \in 1..n : f[k] = ReadWord(f[k - 1], words[k])
  <1>1. \A k \in 0..n : f[k] = IF k = 0 THEN Start ELSE ReadWord(f[k - 1], words[k])
    BY Zenon DEF Reads
  <1>2. 0 \in 0..n /\ \A k \in 1..n : k \in 0..n /\ k # 0
    OBVIOUS
  <1> QED
    BY <1>1, <1>2, Zenon

\* Every sequence of words can be read.
LEMMA ReadsExist ==
    ASSUME NEW words, NEW n \in Nat
    PROVE  \E f : Reads(f, words, n)
  <1> DEFINE S == {m \in Nat : \E f : Reads(f, words, m)}
  <1>1. 0 \in S
    <2> DEFINE g == [k \in 0..0 |-> Start]
    <2>1. \A k \in 0..0 : k = 0
      OBVIOUS
    <2>2. g = [k \in 0..0 |-> IF k = 0 THEN Start ELSE ReadWord(g[k - 1], words[k])]
      BY <2>1, Zenon
    <2>3. Reads(g, words, 0)
      BY <2>2, Zenon DEF Reads
    <2> QED
      BY <2>3
  <1>2. ASSUME NEW m \in Nat, m \in S PROVE m + 1 \in S
    <2>1. PICK f : Reads(f, words, m)
      BY <1>2
    <2> DEFINE g == [k \in 0..(m + 1) |-> IF k = m + 1 THEN ReadWord(f[m], words[m + 1]) ELSE f[k]]
    <2>2. f[0] = Start /\ \A k \in 1..m : f[k] = ReadWord(f[k - 1], words[k])
      BY <2>1, ReadsStep
    <2>3. /\ g = [k \in 0..(m + 1) |-> g[k]]
          /\ g[m + 1] = ReadWord(f[m], words[m + 1])
          /\ \A k \in 0..m : g[k] = f[k]
      OBVIOUS
    <2> HIDE DEF g
    <2>4. \A k \in 0..(m + 1) : g[k] = IF k = 0 THEN Start ELSE ReadWord(g[k - 1], words[k])
      <3> SUFFICES ASSUME NEW k \in 0..(m + 1) PROVE g[k] = IF k = 0 THEN Start ELSE ReadWord(g[k - 1], words[k])
        OBVIOUS
      <3>1. CASE k = 0
        BY <2>2, <2>3, <3>1
      <3>2. CASE k \in 1..m
        <4>1. k # 0 /\ k \in 0..m /\ k - 1 \in 0..m
          BY <3>2
        <4> QED
          BY <2>2, <2>3, <3>2, <4>1
      <3>3. CASE k = m + 1
        <4>1. k # 0 /\ k - 1 = m /\ m \in 0..m
          BY <3>3
        <4> QED
          BY <2>3, <3>3, <4>1
      <3> QED
        BY <3>1, <3>2, <3>3
    <2>5. Reads(g, words, m + 1)
      BY <2>3, <2>4, Zenon DEF Reads
    <2> QED
      BY <2>5
  <1> HIDE DEF S
  <1>3. n \in S
    BY <1>1, <1>2, NatSetInduction
  <1> QED
    BY <1>3 DEF S

\* What comes after the first n words does not matter to them.
LEMMA ReadsSame ==
    ASSUME NEW n \in Nat, NEW m \in Nat, n <= m, NEW u, NEW v, \A k \in 1..n : u[k] = v[k],
           NEW f, NEW g, Reads(f, u, n), Reads(g, v, m)
    PROVE  f[n] = g[n]
  <1> DEFINE S == {k \in Nat : k <= n => f[k] = g[k]}
  <1>1. f[0] = Start /\ \A k \in 1..n : f[k] = ReadWord(f[k - 1], u[k])
    BY ReadsStep
  <1>2. g[0] = Start /\ \A k \in 1..m : g[k] = ReadWord(g[k - 1], v[k])
    BY ReadsStep
  <1>3. 0 \in S
    BY <1>1, <1>2
  <1>4. ASSUME NEW k \in Nat, k \in S PROVE k + 1 \in S
    <2> SUFFICES ASSUME k + 1 <= n PROVE f[k + 1] = g[k + 1]
      OBVIOUS
    <2>1. k + 1 \in 1..n /\ k + 1 \in 1..m /\ (k + 1) - 1 = k /\ f[k] = g[k]
      BY <1>4
    <2> QED
      BY <1>1, <1>2, <2>1
  <1> HIDE DEF S
  <1>5. n \in S
    BY <1>3, <1>4, NatSetInduction
  <1> QED
    BY <1>5 DEF S

\* The demangler reads one word after the other.
LEMMA DemangledIs ==
    ASSUME NEW words
    PROVE  Len(words) \in Nat => \E f : Reads(f, words, Len(words)) /\ Demangled(words) = f[Len(words)]
  <1> SUFFICES ASSUME Len(words) \in Nat
               PROVE  \E f : Reads(f, words, Len(words)) /\ Demangled(words) = f[Len(words)]
    OBVIOUS
  <1> DEFINE n == Len(words)
             X == CHOOSE f : Reads(f, words, n)
  <1>1. \E f : Reads(f, words, n)
    BY ReadsExist
  <1>2. Reads(X, words, n)
    BY <1>1
  <1>3. Demangled(words) = X[n]
    BY DEF Demangled, Reads
  <1> HIDE DEF X
  <1> QED
    BY <1>2, <1>3

LEMMA ReadNone == Demangled(<<>>) = Start
  <1>1. Len(<<>>) = 0
    OBVIOUS
  <1>2. PICK f : Reads(f, <<>>, 0) /\ Demangled(<<>>) = f[0]
    BY <1>1, DemangledIs
  <1> QED
    BY <1>2, ReadsStep

\* One word more is read on.
LEMMA ReadOn ==
    ASSUME NEW s, IsList(s), NEW w
    PROVE  IsList(s \o <<w>>) /\ Demangled(s \o <<w>>) = ReadWord(Demangled(s), w)
  <1>0. PICK t, n : t = s \o <<w>> /\ n = Len(s)
    OBVIOUS
  <1>1. PICK T : s \in Seq(T) /\ <<w>> \in Seq(T)
    BY ListOne, ListTogether
  <1>2. /\ t \in Seq(T) /\ Len(t) = n + Len(<<w>>) /\ n \in Nat
        /\ \A i \in 1..(n + Len(<<w>>)) : t[i] = IF i <= n THEN s[i] ELSE <<w>>[i - n]
    BY <1>1, <1>0, ConcatProperties, LenProperties
  <1>3. Len(<<w>>) = 1 /\ <<w>>[1] = w
    OBVIOUS
  <1>4. Len(t) = n + 1 /\ Len(t) \in Nat /\ t[n + 1] = w /\ \A i \in 1..n : s[i] = t[i]
    BY <1>2, <1>3
  <1>5. PICK f : Reads(f, s, n) /\ Demangled(s) = f[n]
    BY <1>0, <1>2, DemangledIs
  <1>6. PICK g : Reads(g, t, n + 1) /\ Demangled(t) = g[n + 1]
    BY <1>4, DemangledIs
  <1>7. f[n] = g[n]
    <2>1. n \in Nat /\ n + 1 \in Nat /\ n <= n + 1
      BY <1>2
    <2>2. \A k \in 1..n : s[k] = t[k]
      BY <1>4
    <2>3. Reads(f, s, n) /\ Reads(g, t, n + 1)
      BY <1>5, <1>6
    <2> QED
      BY <2>1, <2>2, <2>3, ReadsSame
  <1>8. g[n + 1] = ReadWord(g[n], t[n + 1])
    <2>1. n + 1 \in Nat /\ n + 1 \in 1..(n + 1) /\ (n + 1) - 1 = n
      BY <1>2
    <2> QED
      BY <1>6, <2>1, ReadsStep
  <1>9. IsList(t)
    BY <1>2 DEF IsList
  <1> QED
    BY <1>4, <1>5, <1>6, <1>7, <1>8, <1>9, <1>0

-----------------------------------------------------------------------------
\* The nodes the reader lays out

\* The types with one part, and such a node with q for its part.
Composite == {"pointer", "vector", "atomic"}
Part(n, q) == [n EXCEPT !.of = q]
IsComposite(n) ==
    \/ \E o, q, s : n = Pointer(o, q, s)
    \/ \E o, l : n = Vector(o, l)
    \/ \E o : n = Atomic(o)

\* One part takes the place of the other.
LEMMA PartShape ==
    ASSUME NEW n, IsComposite(n), NEW x
    PROVE  /\ IsComposite(Part(n, x)) /\ Part(n, x).of = x /\ Part(n, x).id = n.id /\ n.id \in Composite
           /\ \A y : Part(Part(n, x), y) = Part(n, y)
           /\ Part(n, n.of) = n
  <1>1. ASSUME NEW o, NEW q, NEW s, n = Pointer(o, q, s)
        PROVE  (\A y : Part(n, y) = Pointer(y, q, s)) /\ n.id = "pointer" /\ n.of = o
    BY <1>1 DEF Part, Pointer
  <1>2. ASSUME NEW o, NEW l, n = Vector(o, l)
        PROVE  (\A y : Part(n, y) = Vector(y, l)) /\ n.id = "vector" /\ n.of = o
    BY <1>2 DEF Part, Vector
  <1>3. ASSUME NEW o, n = Atomic(o)
        PROVE  (\A y : Part(n, y) = Atomic(y)) /\ n.id = "atomic" /\ n.of = o
    BY <1>3 DEF Part, Atomic
  <1>4. /\ \A y, q, s : Part(Pointer(x, q, s), y) = Pointer(y, q, s) /\ Pointer(x, q, s).of = x
                        /\ Pointer(x, q, s).id = "pointer"
        /\ \A y, l : Part(Vector(x, l), y) = Vector(y, l) /\ Vector(x, l).of = x /\ Vector(x, l).id = "vector"
        /\ \A y : Part(Atomic(x), y) = Atomic(y) /\ Atomic(x).of = x /\ Atomic(x).id = "atomic"
    BY DEF Part, Pointer, Vector, Atomic
  <1>5. CASE \E o, q, s : n = Pointer(o, q, s)
    <2>1. PICK o, q, s : n = Pointer(o, q, s)
      BY <1>5
    <2>2. \A y : Part(n, y) = Pointer(y, q, s)
      BY <1>1, <2>1
    <2> QED
      BY <1>1, <1>4, <2>1, <2>2 DEF IsComposite, Composite
  <1>6. CASE \E o, l : n = Vector(o, l)
    <2>1. PICK o, l : n = Vector(o, l)
      BY <1>6
    <2>2. \A y : Part(n, y) = Vector(y, l)
      BY <1>2, <2>1
    <2> QED
      BY <1>2, <1>4, <2>1, <2>2 DEF IsComposite, Composite
  <1>7. CASE \E o : n = Atomic(o)
    <2>1. PICK o : n = Atomic(o)
      BY <1>7
    <2>2. \A y : Part(n, y) = Atomic(y)
      BY <1>3, <2>1
    <2> QED
      BY <1>3, <1>4, <2>1, <2>2 DEF IsComposite, Composite
  <1> QED
    BY <1>5, <1>6, <1>7 DEF IsComposite

\* A node of a heap has one part, or parameters, or neither.
LEMMA CompositeIs ==
    ASSUME NEW h, HeapOK(h), NEW a \in 1..Len(h)
    PROVE  /\ h[a].id \in Composite => /\ IsComposite(h[a]) /\ h[a].of \in 1..Len(h) /\ h[a].of \in 1..(a - 1)
           /\ h[a].id \in Composite \/ h[a].id = "block" \/ h[a].id \in {"primitive", "structure"}
  <1>1. /\ h[a].id \in {"primitive", "pointer", "vector", "atomic", "block", "structure"}
        /\ h[a].id \in Composite => h[a].of \in 1..(a - 1) /\ h[a].of \in 1..Len(h)
    BY NodeShape DEF Composite
  <1>2. h[a].id = "pointer" => h[a] = Pointer(h[a].of, h[a].quals, h[a].space)
    BY NodeShape
  <1>3. h[a].id = "vector" => h[a] = Vector(h[a].of, h[a].len)
    BY NodeShape
  <1>4. h[a].id = "atomic" => h[a] = Atomic(h[a].of)
    BY NodeShape
  <1>5. h[a].id \in Composite => IsComposite(h[a])
    BY <1>2, <1>3, <1>4 DEF IsComposite, Composite
  <1> QED
    BY <1>1, <1>5 DEF Composite

\* Node p of N nodes that stand for the types A is n, laid out for the node t of a heap; the
\* nodes of short lack their part, those of open may lack the last of their parameters.
NodeLaid(N, A, n, t, p, short, open) ==
    /\ t.id \in Composite =>
         IF p \in short THEN n = Part(t, 0) ELSE n = Part(t, n.of) /\ n.of \in 1..N /\ A[n.of] = t.of
    /\ t.id = "block" =>
         /\ n = Block(n.params) /\ n.params \in Seq(1..N) /\ Len(n.params) <= Len(t.params)
         /\ \A i \in 1..Len(n.params) : A[n.params[i]] = t.params[i]
         /\ p \notin open => Len(n.params) = Len(t.params)
    /\ t.id \in {"primitive", "structure"} => n = t

\* A node stays laid out when others are added after it.
LEMMA NodeKept ==
    ASSUME NEW N \in Nat, NEW A, NEW n, NEW t, NEW p, NEW short, NEW open, NodeLaid(N, A, n, t, p, short, open),
           NEW M \in Nat, N <= M, NEW B, \A q \in 1..N : A[q] = B[q],
           NEW short2, p \in short <=> p \in short2, NEW open2, p \in open <=> p \in open2
    PROVE  NodeLaid(M, B, n, t, p, short2, open2)
  <1>1. 1..N \subseteq 1..M
    OBVIOUS
  <1>2. ASSUME t.id \in Composite
        PROVE  IF p \in short2 THEN n = Part(t, 0) ELSE n = Part(t, n.of) /\ n.of \in 1..M /\ B[n.of] = t.of
    BY <1>1, <1>2 DEF NodeLaid
  <1>3. ASSUME t.id = "block"
        PROVE  /\ n = Block(n.params) /\ n.params \in Seq(1..M) /\ Len(n.params) <= Len(t.params)
               /\ \A i \in 1..Len(n.params) : B[n.params[i]] = t.params[i]
               /\ p \notin open2 => Len(n.params) = Len(t.params)
    <2> DEFINE ps == n.params
    <2>1. /\ n = Block(ps) /\ ps \in Seq(1..N) /\ Len(ps) <= Len(t.params)
          /\ \A i \in 1..Len(ps) : A[ps[i]] = t.params[i]
          /\ p \notin open2 => Len(ps) = Len(t.params)
      BY <1>3 DEF NodeLaid
    <2> HIDE DEF ps
    <2>2. ps \in Seq(1..M)
      BY <1>1, <2>1, SeqMonotonic
    <2>3. \A i \in 1..Len(ps) : ps[i] \in 1..N
      BY <2>1, ElementOfSeq
    <2>4. \A i \in 1..Len(ps) : B[ps[i]] = t.params[i]
      BY <2>1, <2>3
    <2> QED
      BY <2>1, <2>2, <2>4 DEF ps
  <1>4. t.id \in {"primitive", "structure"} => n = t
    BY DEF NodeLaid
  <1> QED
    BY <1>2, <1>3, <1>4 DEF NodeLaid

\* What the nodes stand for.
Places == [Nat -> Nat]

\* Each node stands for the node A[p] of the heap h.
Laid(h, A, ns, short, open) ==
    /\ IsList(ns) /\ A \in Places
    /\ \A p \in 1..Len(ns) : A[p] \in 1..Len(h) /\ NodeLaid(Len(ns), A, ns[p], h[A[p]], p, short, open)

\* A list is a function on its places.
LEMMA ListShape ==
    ASSUME NEW s, IsList(s)
    PROVE  Len(s) \in Nat /\ DOMAIN s = 1..Len(s) /\ s = [i \in 1..Len(s) |-> s[i]]
  BY LenProperties DEF IsList

\* Nodes are added or changed, each for its type.
Relaid(h, A, ns, short, open, B, ms, short2, open2) ==
    /\ IsList(ms) /\ Len(ns) <= Len(ms) /\ B \in Places /\ \A p \in 1..Len(ns) : A[p] = B[p]
    /\ \A p \in 1..Len(ms) :
         \/ p \in 1..Len(ns) /\ ms[p] = ns[p] /\ (p \in short <=> p \in short2) /\ (p \in open <=> p \in open2)
         \/ B[p] \in 1..Len(h) /\ NodeLaid(Len(ms), B, ms[p], h[B[p]], p, short2, open2)

\* A step changes a few nodes and leaves the rest as they were laid out.
LEMMA LaidStep ==
    ASSUME NEW h, NEW A, NEW ns, NEW short, NEW open, Laid(h, A, ns, short, open),
           NEW B, NEW ms, NEW short2, NEW open2, Relaid(h, A, ns, short, open, B, ms, short2, open2)
    PROVE  Laid(h, B, ms, short2, open2)
  <1>1. Len(ns) \in Nat /\ Len(ms) \in Nat
    BY ListShape DEF Laid, Relaid
  <1>2. ASSUME NEW p \in 1..Len(ms)
        PROVE  B[p] \in 1..Len(h) /\ NodeLaid(Len(ms), B, ms[p], h[B[p]], p, short2, open2)
    <2>1. ASSUME p \in 1..Len(ns), ms[p] = ns[p], p \in short <=> p \in short2, p \in open <=> p \in open2
          PROVE  B[p] \in 1..Len(h) /\ NodeLaid(Len(ms), B, ms[p], h[B[p]], p, short2, open2)
      <3>1. A[p] \in 1..Len(h) /\ NodeLaid(Len(ns), A, ns[p], h[A[p]], p, short, open) /\ A[p] = B[p]
        BY <2>1 DEF Laid, Relaid
      <3>2. NodeLaid(Len(ns), A, ms[p], h[B[p]], p, short, open)
        BY <2>1, <3>1
      <3>3. PICK n, t : n = ms[p] /\ t = h[B[p]]
        OBVIOUS
      <3>4. NodeLaid(Len(ns), A, n, t, p, short, open)
        BY <3>2, <3>3
      <3>5. /\ Len(ns) \in Nat /\ Len(ms) \in Nat /\ Len(ns) <= Len(ms)
            /\ \A q \in 1..Len(ns) : A[q] = B[q]
        BY <1>1 DEF Relaid
      <3>6. NodeLaid(Len(ms), B, n, t, p, short2, open2)
        BY <2>1, <3>4, <3>5, NodeKept
      <3> QED
        BY <3>1, <3>3, <3>6
    <2> QED
      BY <2>1 DEF Relaid
  <1> QED
    BY <1>2 DEF Laid, Relaid

-----------------------------------------------------------------------------
\* The steps of the reader

\* Lists that are appended to or written over.
LEMMA ListAppend ==
    ASSUME NEW s, IsList(s), NEW x
    PROVE  /\ IsList(Append(s, x)) /\ Len(s) \in Nat /\ Len(Append(s, x)) = Len(s) + 1
           /\ Append(s, x)[Len(s) + 1] = x /\ \A i \in 1..Len(s) : Append(s, x)[i] = s[i]
  <1>1. PICK T : s \in Seq(T)
    BY DEF IsList
  <1>2. PICK S : S = T \cup {x}
    OBVIOUS
  <1>3. s \in Seq(S) /\ x \in S
    BY <1>1, <1>2, SeqMonotonic
  <1>4. Append(s, x) \in Seq(S)
    BY <1>3, AppendProperties
  <1> QED
    BY <1>3, <1>4, AppendProperties, LenProperties DEF IsList

LEMMA ListExcept ==
    ASSUME NEW s, IsList(s), NEW p \in 1..Len(s), NEW x
    PROVE  /\ IsList([s EXCEPT ![p] = x]) /\ Len(s) \in Nat /\ Len([s EXCEPT ![p] = x]) = Len(s)
           /\ [s EXCEPT ![p] = x][p] = x /\ \A i \in 1..Len(s) : i # p => [s EXCEPT ![p] = x][i] = s[i]
  <1>1. PICK T : s \in Seq(T)
    BY DEF IsList
  <1>2. PICK S : S = T \cup {x}
    OBVIOUS
  <1>3. s \in Seq(S) /\ x \in S
    BY <1>1, <1>2, SeqMonotonic
  <1>4. DOMAIN s = 1..Len(s)
    BY <1>3, LenProperties
  <1>5. [s EXCEPT ![p] = x] \in Seq(S) /\ Len([s EXCEPT ![p] = x]) = Len(s)
    BY <1>3, ExceptSeq
  <1> QED
    BY <1>3, <1>4, <1>5, LenProperties DEF IsList

\* A state of the reader.
State(nm, ns, bs, sl, kn) == [name |-> nm, nodes |-> ns, blocks |-> bs, slot |-> sl, known |-> kn]
IsReader(r) == r = State(r.name, r.nodes, r.blocks, r.slot, r.known)

LEMMA StateIs ==
    ASSUME NEW nm, NEW ns, NEW bs, NEW sl, NEW kn, NEW r, r = State(nm, ns, bs, sl, kn)
    PROVE  IsReader(r) /\ r.name = nm /\ r.nodes = ns /\ r.blocks = bs /\ r.slot = sl /\ r.known = kn
  BY DEF State, IsReader

LEMMA StateChanges ==
    ASSUME NEW r, IsReader(r), NEW x, NEW y
    PROVE  /\ [r EXCEPT !.nodes = x] = State(r.name, x, r.blocks, r.slot, r.known)
           /\ [r EXCEPT !.nodes = x, !.slot = y] = State(r.name, x, r.blocks, y, r.known)
           /\ [r EXCEPT !.slot = x] = State(r.name, r.nodes, r.blocks, x, r.known)
           /\ [r EXCEPT !.blocks = x] = State(r.name, r.nodes, x, r.slot, r.known)
           /\ [r EXCEPT !.known = x] = State(r.name, r.nodes, r.blocks, r.slot, x)
           /\ [r EXCEPT !.name = x] = State(x, r.nodes, r.blocks, r.slot, r.known)
  <1>1. PICK nm, ns, bs, sl, kn : r = State(nm, ns, bs, sl, kn)
    BY DEF IsReader
  <1>2. r.name = nm /\ r.nodes = ns /\ r.blocks = bs /\ r.slot = sl /\ r.known = kn
    BY <1>1, StateIs
  <1>3. [r EXCEPT !.nodes = x] = State(nm, x, bs, sl, kn)
    BY <1>1 DEF State
  <1>4. [r EXCEPT !.nodes = x, !.slot = y] = State(nm, x, bs, y, kn)
    <2>1. [r EXCEPT !.nodes = x, !.slot = y] = [[r EXCEPT !.nodes = x] EXCEPT !.slot = y]
      OBVIOUS
    <2>2. [State(nm, x, bs, sl, kn) EXCEPT !.slot = y] = State(nm, x, bs, y, kn)
      BY DEF State
    <2> QED
      BY <1>3, <2>1, <2>2
  <1>5. [r EXCEPT !.slot = x] = State(nm, ns, bs, x, kn)
    BY <1>1 DEF State
  <1>6. [r EXCEPT !.blocks = x] = State(nm, ns, x, sl, kn)
    BY <1>1 DEF State
  <1>7. [r EXCEPT !.known = x] = State(nm, ns, bs, sl, x)
    BY <1>1 DEF State
  <1>8. [r EXCEPT !.name = x] = State(x, ns, bs, sl, kn)
    BY <1>1 DEF State
  <1> QED
    BY <1>2, <1>3, <1>4, <1>5, <1>6, <1>7, <1>8

\* Where the part that comes next goes, and the node that gets it.
Place(r) == IF r.slot = 0 THEN Last(r.blocks) ELSE r.slot
Got(r, n) == IF r.slot = 0 THEN [r.nodes[Last(r.blocks)] EXCEPT !.params = Append(@, n)]
             ELSE Part(r.nodes[r.slot], n)

\* What q has of r when node n is put.
Placed(r, n, q) ==
    /\ IsReader(q) /\ q.name = r.name /\ q.blocks = r.blocks /\ q.slot = 0 /\ q.known = r.known
    /\ q.nodes = [r.nodes EXCEPT ![Place(r)] = Got(r, n)]
    /\ IsList(q.nodes) /\ Len(r.nodes) \in Nat /\ Len(q.nodes) = Len(r.nodes)
    /\ q.nodes[Place(r)] = Got(r, n)
    /\ \A p \in 1..Len(r.nodes) : p # Place(r) => q.nodes[p] = r.nodes[p]

\* Only the node that the part goes to changes.
LEMMA PutIs ==
    ASSUME NEW r, IsReader(r), IsList(r.nodes), Place(r) \in 1..Len(r.nodes), NEW n
    PROVE  Placed(r, n, Put(r, n))
  <1> DEFINE ms == [r.nodes EXCEPT ![Place(r)] = Got(r, n)]
  <1>1. CASE r.slot = 0
    <2>1. Put(r, n) = [r EXCEPT !.nodes = ms]
      BY <1>1 DEF Put, Place, Got
    <2> HIDE DEF ms
    <2>2. Put(r, n) = State(r.name, ms, r.blocks, 0, r.known)
      BY <1>1, <2>1, StateChanges
    <2>3. Put(r, n).nodes = ms /\ IsReader(Put(r, n)) /\ Put(r, n).name = r.name /\ Put(r, n).blocks = r.blocks
           /\ Put(r, n).slot = 0 /\ Put(r, n).known = r.known
      BY <2>2, StateIs
    <2> QED
      BY <2>3, ListExcept DEF ms, Placed
  <1>2. CASE r.slot # 0
    <2>1. Put(r, n) = [r EXCEPT !.nodes = ms, !.slot = 0]
      BY <1>2 DEF Put, Place, Got, Part
    <2> HIDE DEF ms
    <2>2. Put(r, n) = State(r.name, ms, r.blocks, 0, r.known)
      BY <2>1, StateChanges
    <2>3. Put(r, n).nodes = ms /\ IsReader(Put(r, n)) /\ Put(r, n).name = r.name /\ Put(r, n).blocks = r.blocks
           /\ Put(r, n).slot = 0 /\ Put(r, n).known = r.known
      BY <2>2, StateIs
    <2> QED
      BY <2>3, ListExcept DEF ms, Placed
  <1> QED
    BY <1>1, <1>2

-----------------------------------------------------------------------------
\* What the reader has laid out mirrors what the stack still owes

\* The blocks that are open, the function first.
Opened(F, A, bs, N) ==
    /\ bs \in Seq(1..N) /\ Len(bs) \in Nat \ {0} /\ bs[1] = 1
    /\ \A i, j \in 1..Len(bs) : bs[i] = bs[j] => i = j
    /\ \A l \in 1..Len(bs) : F[A[bs[l]]].id = "block"

\* The parameters that open block l, laid out as node n for t, is still to get.
Lacking(n, t, l, cur) == Due(t.params, Len(n.params), IF l = 1 THEN cur ELSE Len(t.params))

\* The nodes ns are laid out for the types A of the heap F, and what the open blocks bs and the
\* node sl still lack is what td, the stack, has left to visit, of the function up to parameter
\* cur.  The nodes of X lack their part and those of Y their parameters, which are not due yet.
Mirror(ns, bs, sl, F, A, D, rest, td, cur, X, Y) ==
    /\ Laid(F, A, ns, {sl} \cup X, Range(bs) \cup Y)
    /\ Opened(F, A, bs, Len(ns)) /\ Owes(Len(bs), D, rest)
    /\ \A l \in 1..Len(bs) : rest[l] = Lacking(ns[bs[l]], F[A[bs[l]]], l, cur)
    /\ IF sl = 0 THEN td = D[Len(bs)]
       ELSE sl \in 1..Len(ns) /\ F[A[sl]].id \in Composite /\ td = <<Visit(F[A[sl]].of)>> \o D[Len(bs)]
    /\ A[1] = Len(F) /\ cur \in Nat /\ cur <= Len(F[Len(F)].params) /\ Len(ns[1].params) <= cur

Mirrors(r, F, A, D, rest, td, cur, X, Y) ==
    IsReader(r) /\ Mirror(r.nodes, r.blocks, r.slot, F, A, D, rest, td, cur, X, Y)

\* Where the nodes are that the reader refers to.
LEMMA MirrorShape ==
    ASSUME NEW r, NEW F, HeapOK(F), NEW A, NEW D, NEW rest, NEW td, NEW cur, NEW X, NEW Y,
           Mirrors(r, F, A, D, rest, td, cur, X, Y)
    PROVE  /\ IsReader(r) /\ IsList(r.nodes) /\ Len(r.nodes) \in Nat /\ A \in Places
           /\ \A p \in 1..Len(r.nodes) : /\ A[p] \in 1..Len(F) /\ p # 0
                   /\ NodeLaid(Len(r.nodes), A, r.nodes[p], F[A[p]], p, {r.slot} \cup X, Range(r.blocks) \cup Y)
           /\ Len(r.blocks) \in Nat \ {0} /\ Len(r.blocks) \in 1..Len(r.blocks) /\ 1 \in 1..Len(r.blocks)
           /\ r.blocks[1] = 1 /\ 1 \in 1..Len(r.nodes) /\ F[A[1]].id = "block"
           /\ \A l \in 1..Len(r.blocks) : /\ r.blocks[l] \in 1..Len(r.nodes) /\ r.blocks[l] \in Range(r.blocks)
                                          /\ F[A[r.blocks[l]]].id = "block"
           /\ Place(r) \in 1..Len(r.nodes)
  <1>1. IsReader(r) /\ Laid(F, A, r.nodes, {r.slot} \cup X, Range(r.blocks) \cup Y) /\ Opened(F, A, r.blocks, Len(r.nodes))
    BY DEF Mirrors, Mirror
  <1>2. IsList(r.nodes) /\ Len(r.nodes) \in Nat /\ A \in Places
    BY <1>1, ListShape DEF Laid
  <1>3. /\ r.blocks \in Seq(1..Len(r.nodes)) /\ Len(r.blocks) \in Nat \ {0} /\ r.blocks[1] = 1
        /\ \A l \in 1..Len(r.blocks) : F[A[r.blocks[l]]].id = "block"
    BY <1>1 DEF Opened
  <1> DEFINE bs == r.blocks
  <1>4. Len(bs) \in 1..Len(bs) /\ 1 \in 1..Len(bs) /\ DOMAIN bs = 1..Len(bs)
    BY <1>3, LenProperties
  <1>5. \A l \in 1..Len(bs) : bs[l] \in 1..Len(r.nodes) /\ bs[l] \in Range(bs)
    BY <1>3, <1>4, ElementOfSeq DEF Range
  <1>6. Place(r) \in 1..Len(r.nodes)
    <2>1. r.slot # 0 => r.slot \in 1..Len(r.nodes)
      BY DEF Mirrors, Mirror
    <2> QED
      BY <1>4, <1>5, <2>1 DEF Place, Last
  <1>7. 1 \in 1..Len(r.nodes) /\ F[A[1]].id = "block"
    BY <1>3, <1>4, <1>5
  <1>8. \A p \in 1..Len(r.nodes) : p # 0
    OBVIOUS
  <1>9. \A p \in 1..Len(r.nodes) : A[p] \in 1..Len(F)
           /\ NodeLaid(Len(r.nodes), A, r.nodes[p], F[A[p]], p, {r.slot} \cup X, Range(r.blocks) \cup Y)
    BY <1>1 DEF Laid
  <1> QED
    BY <1>1, <1>2, <1>3, <1>4, <1>5, <1>6, <1>7, <1>8, <1>9

\* Node k, the next, stands for a.
Extended(A, k, a, B) == B \in Places /\ B[k] = a /\ \A p \in 1..(k - 1) : B[p] = A[p]

LEMMA ExtendedIs == ASSUME NEW A \in Places, NEW k \in Nat, NEW a \in Nat PROVE \E B : Extended(A, k, a, B)
  <1>1. PICK B : B = [A EXCEPT ![k] = a]
    OBVIOUS
  <1>2. B \in [Nat -> Nat] /\ B[k] = a
    BY <1>1 DEF Places
  <1>3. \A p \in 1..(k - 1) : B[p] = A[p]
    BY <1>1 DEF Places
  <1> QED
    BY <1>2, <1>3 DEF Extended, Places

\* A new node stands for the type a.
LEMMA MirrorGrow ==
    ASSUME NEW r, NEW F, HeapOK(F), NEW A, NEW D, NEW rest, NEW td, NEW cur, Mirrors(r, F, A, D, rest, td, cur, {}, {}),
           NEW k \in Nat, k = Len(r.nodes) + 1, NEW a \in 1..Len(F), NEW B, Extended(A, k, a, B),
           NEW X, NEW Y, X \subseteq {k}, Y \subseteq {k}, NEW node, NodeLaid(k, B, node, F[a], k, X, Y),
           NEW q, q = State(r.name, Append(r.nodes, node), r.blocks, r.slot, r.known)
    PROVE  /\ Mirrors(q, F, B, D, rest, td, cur, X, Y)
           /\ Len(r.nodes) \in Nat
  <1> DEFINE ns == r.nodes
             ms == Append(ns, node)
             bs == r.blocks
  <1>01. IsReader(r) /\ IsList(ns) /\ A \in Places
    BY MirrorShape
  <1>02. Len(ns) \in Nat
    BY MirrorShape
  <1>03. 1 \in 1..Len(bs) /\ bs[1] = 1 /\ 1 \in 1..Len(ns)
    BY MirrorShape
  <1>04. \A l \in 1..Len(bs) : bs[l] \in 1..Len(ns)
    BY MirrorShape
  <1>0. k = Len(ns) + 1 /\ X \subseteq {k} /\ Y \subseteq {k} /\ Extended(A, k, a, B) /\ a \in 1..Len(F) /\ k \in Nat
    OBVIOUS
  <1>2. /\ IsList(ms) /\ Len(ms) = k /\ k \in Nat /\ ms[k] = node /\ \A p \in 1..Len(ns) : ms[p] = ns[p]
    <2>1. /\ IsList(ms) /\ Len(ms) = Len(ns) + 1 /\ ms[Len(ns) + 1] = node /\ \A p \in 1..Len(ns) : ms[p] = ns[p]
      BY <1>01, ListAppend
    <2> HIDE DEF ms, ns
    <2> QED
      BY <1>0, <2>1
  <1>3. q = State(r.name, ms, bs, r.slot, r.known)
    OBVIOUS
  <1>4. /\ IsReader(q) /\ q.nodes = ms /\ q.blocks = bs /\ q.slot = r.slot
    <2>1. PICK nm, xs, ys, sl, kn : nm = r.name /\ xs = ms /\ ys = bs /\ sl = r.slot /\ kn = r.known
      OBVIOUS
    <2>2. q = State(nm, xs, ys, sl, kn)
      BY <1>3, <2>1
    <2>3. IsReader(q) /\ q.nodes = xs /\ q.blocks = ys /\ q.slot = sl
      BY <2>2, StateIs
    <2> QED
      BY <2>1, <2>3
  <1>5. /\ B \in Places /\ B[k] = a /\ \A p \in 1..Len(ns) : B[p] = A[p] /\ p # k
    <2>1. k - 1 = Len(ns) /\ \A p \in 1..Len(ns) : p # k
      BY <1>0, <1>02
    <2>2. /\ B \in Places /\ B[k] = a /\ \A p \in 1..(k - 1) : B[p] = A[p]
      BY <1>0 DEF Extended
    <2> QED
      BY <2>1, <2>2
  <1>6. r.slot # k
    BY <1>0, <1>02 DEF Mirrors, Mirror
  <1>7. k \notin Range(bs)
    <2>1. bs \in Seq(1..Len(ns))
      BY DEF Mirrors, Mirror, Opened
    <2>2. DOMAIN bs = 1..Len(bs)
      BY <2>1, LenProperties
    <2> QED
      BY <1>0, <1>02, <1>04, <2>2 DEF Range
  <1> HIDE DEF ms
  <1>8. Laid(F, B, ms, {r.slot} \cup X, Range(bs) \cup Y)
    <2> DEFINE s2 == {r.slot} \cup X
               o2 == Range(bs) \cup Y
    <2>1. Laid(F, A, ns, {r.slot} \cup {}, Range(bs) \cup {})
      BY DEF Mirrors, Mirror
    <2>2. k \in X <=> k \in s2
      BY <1>0, <1>6
    <2>3. k \in Y <=> k \in o2
      BY <1>0, <1>7
    <2>4. \A p \in 1..Len(ns) : (p \in {r.slot} \cup {} <=> p \in s2) /\ (p \in Range(bs) \cup {} <=> p \in o2)
      BY <1>5
    <2> HIDE DEF s2, o2
    <2>5. NodeLaid(k, B, node, F[a], k, s2, o2)
      <3>1. PICK t : t = F[a]
        OBVIOUS
      <3>2. NodeLaid(k, B, node, t, k, X, Y) /\ k \in Nat /\ k <= k /\ \A p \in 1..k : B[p] = B[p]
        BY <1>2, <3>1
      <3>3. NodeLaid(k, B, node, t, k, s2, o2)
        BY <2>2, <2>3, <3>2, NodeKept
      <3> QED
        BY <3>1, <3>3
    <2>6. ASSUME NEW p \in 1..Len(ms)
          PROVE  \/ p \in 1..Len(ns) /\ ms[p] = ns[p] /\ (p \in {r.slot} \cup {} <=> p \in s2) /\ (p \in Range(bs) \cup {} <=> p \in o2)
                 \/ B[p] \in 1..Len(F) /\ NodeLaid(Len(ms), B, ms[p], F[B[p]], p, s2, o2)
      <3>1. CASE p = k
        BY <1>2, <1>5, <2>5, <3>1
      <3>2. CASE p # k
        <4>1. p \in 1..Len(ns)
          BY <1>0, <1>02, <1>2, <3>2
        <4> QED
          BY <1>2, <2>4, <4>1
      <3> QED
        BY <3>1, <3>2
    <2>7. Len(ns) <= Len(ms) /\ \A p \in 1..Len(ns) : A[p] = B[p]
      BY <1>0, <1>02, <1>2, <1>5
    <2>8. Laid(F, B, ms, s2, o2)
      <3>1. IsList(ms) /\ B \in Places
        BY <1>2, <1>5
      <3>2. PICK s1, o1 : s1 = {r.slot} \cup {} /\ o1 = Range(bs) \cup {}
        OBVIOUS
      <3>3. Laid(F, A, ns, s1, o1)
        BY <2>1, <3>2
      <3>4. \A p \in 1..Len(ms) :
                 \/ p \in 1..Len(ns) /\ ms[p] = ns[p] /\ (p \in s1 <=> p \in s2) /\ (p \in o1 <=> p \in o2)
                 \/ B[p] \in 1..Len(F) /\ NodeLaid(Len(ms), B, ms[p], F[B[p]], p, s2, o2)
        BY <2>6, <3>2
      <3>5. Relaid(F, A, ns, s1, o1, B, ms, s2, o2)
        BY <2>7, <3>1, <3>4 DEF Relaid
      <3> HIDE DEF ns, bs
      <3> QED
        BY <3>3, <3>5, LaidStep
    <2> QED
      BY <2>8 DEF s2, o2
  <1>9. Opened(F, B, bs, Len(ms))
    <2>1. Opened(F, A, bs, Len(ns))
      BY DEF Mirrors, Mirror
    <2>2. bs \in Seq(1..Len(ms))
      <3>1. 1..Len(ns) \subseteq 1..Len(ms)
        BY <1>0, <1>02, <1>2
      <3>2. bs \in Seq(1..Len(ns))
        BY <2>1 DEF Opened
      <3> HIDE DEF ns, bs
      <3> QED
        BY <3>1, <3>2, SeqMonotonic
    <2>3. \A l \in 1..Len(bs) : F[B[bs[l]]].id = "block"
      BY <1>04, <1>5, <2>1 DEF Opened
    <2> QED
      BY <2>1, <2>2, <2>3 DEF Opened
  <1>10. \A l \in 1..Len(bs) : rest[l] = Lacking(ms[bs[l]], F[B[bs[l]]], l, cur)
    <2> SUFFICES ASSUME NEW l \in 1..Len(bs) PROVE rest[l] = Lacking(ms[bs[l]], F[B[bs[l]]], l, cur)
      OBVIOUS
    <2>1. rest[l] = Lacking(ns[bs[l]], F[A[bs[l]]], l, cur)
      BY DEF Mirrors, Mirror
    <2>2. ms[bs[l]] = ns[bs[l]] /\ B[bs[l]] = A[bs[l]]
      BY <1>04, <1>2, <1>5
    <2> QED
      BY <2>1, <2>2
  <1>11. IF r.slot = 0 THEN td = D[Len(bs)]
         ELSE r.slot \in 1..Len(ms) /\ F[B[r.slot]].id \in Composite /\ td = <<Visit(F[B[r.slot]].of)>> \o D[Len(bs)]
    <2>1. CASE r.slot = 0
      BY <2>1 DEF Mirrors, Mirror
    <2>2. CASE r.slot # 0
      <3>1. r.slot \in 1..Len(ns) /\ F[A[r.slot]].id \in Composite /\ td = <<Visit(F[A[r.slot]].of)>> \o D[Len(bs)]
        BY <2>2 DEF Mirrors, Mirror
      <3>2. r.slot \in 1..Len(ms) /\ B[r.slot] = A[r.slot]
        BY <1>0, <1>02, <1>2, <1>5, <3>1
      <3> QED
        BY <2>2, <3>1, <3>2
    <2> QED
      BY <2>1, <2>2
  <1>12. /\ B[1] = Len(F) /\ cur \in Nat /\ cur <= Len(F[Len(F)].params) /\ Len(ms[1].params) <= cur
    BY <1>03, <1>2, <1>5 DEF Mirrors, Mirror
  <1>13. Owes(Len(bs), D, rest)
    BY DEF Mirrors, Mirror
  <1>14. Mirrors(q, F, B, D, rest, td, cur, X, Y)
    BY <1>4, <1>8, <1>9, <1>10, <1>11, <1>12, <1>13 DEF Mirrors, Mirror
  <1> QED
    BY <1>02, <1>14

-----------------------------------------------------------------------------
\* A part is put where it belongs

\* The part of a node.
LEMMA MirrorPart ==
    ASSUME NEW r, NEW F, HeapOK(F), NEW A, NEW D, NEW rest, NEW td, NEW cur, NEW X, NEW Y,
           Mirrors(r, F, A, D, rest, td, cur, X, Y), r.slot \notin X, r.slot # 0,
           NEW a, Head(td) = Visit(a), NEW k \in 1..Len(r.nodes), A[k] = a
    PROVE  Mirrors(Put(r, k), F, A, D, rest, Tail(td), cur, X, Y) /\ td # <<>>
  <1>1. PICK ns, bs, sl, q, N : r.nodes = ns /\ r.blocks = bs /\ r.slot = sl /\ q = Put(r, k) /\ N = Len(ns)
    OBVIOUS
  <1>02. IsReader(r) /\ Mirror(ns, bs, sl, F, A, D, rest, td, cur, X, Y)
    BY <1>1 DEF Mirrors
  <1>2. /\ IsReader(r) /\ Laid(F, A, ns, {sl} \cup X, Range(bs) \cup Y)
        /\ Opened(F, A, bs, N) /\ Owes(Len(bs), D, rest)
        /\ \A l \in 1..Len(bs) : rest[l] = Lacking(ns[bs[l]], F[A[bs[l]]], l, cur)
        /\ sl \in 1..N /\ F[A[sl]].id \in Composite /\ td = <<Visit(F[A[sl]].of)>> \o D[Len(bs)]
        /\ A[1] = Len(F) /\ cur \in Nat /\ cur <= Len(F[Len(F)].params) /\ Len(ns[1].params) <= cur
    BY <1>1, <1>02 DEF Mirror
  <1>3. IsList(ns) /\ N \in Nat /\ A \in Places /\ Place(r) = sl /\ k \in 1..N /\ sl # 0 /\ sl \notin X
    BY <1>1, MirrorShape DEF Place
  <1>4. PICK t : t = F[A[sl]]
    OBVIOUS
  <1>5. A[sl] \in 1..Len(F) /\ NodeLaid(N, A, ns[sl], t, sl, {sl} \cup X, Range(bs) \cup Y)
    BY <1>1, <1>2, <1>4 DEF Laid
  <1>6. t.id \in Composite /\ IsComposite(t) /\ t.of \in 1..Len(F)
    BY <1>2, <1>4, <1>5, CompositeIs
  <1>7. td # <<>> /\ a = t.of /\ Tail(td) = D[Len(bs)]
    <2>1. Len(bs) \in Nat
      BY <1>2 DEF Opened
    <2>2. D[Len(bs)] \in Seq(Stacked)
      BY <1>2, <2>1 DEF Owes
    <2>3. Visit(t.of) \in Stacked
      BY <1>6 DEF Stacked, Visits
    <2>4. td # <<>> /\ Head(td) = Visit(t.of) /\ Tail(td) = D[Len(bs)]
      BY <1>2, <1>4, <2>2, <2>3, OneOf
    <2> QED
      BY <2>4, ItemShape
  <1>8. Got(r, k) = Part(t, k)
    <2>1. Got(r, k) = Part(ns[sl], k)
      BY <1>1, <1>3 DEF Got
    <2>2. ns[sl] = Part(t, 0)
      BY <1>5, <1>6 DEF NodeLaid
    <2> QED
      BY <1>6, <2>1, <2>2, PartShape
  <1>9. /\ IsReader(q) /\ q.blocks = bs /\ q.slot = 0 /\ IsList(q.nodes) /\ Len(q.nodes) = N
        /\ q.nodes[sl] = Part(t, k) /\ \A p \in 1..N : p # sl => q.nodes[p] = ns[p]
    <2>1. sl \in 1..Len(r.nodes) /\ IsList(r.nodes) /\ IsReader(r)
      BY <1>1, <1>2, <1>3
    <2>2. Place(r) \in 1..Len(r.nodes) /\ Place(r) = sl
      BY <1>3, <2>1
    <2>3. Placed(r, k, q)
      BY <1>1, <2>1, <2>2, PutIs
    <2> QED
      BY <1>1, <1>8, <2>2, <2>3 DEF Placed
  <1>10. PICK ms : ms = q.nodes
    OBVIOUS
  <1>11. \A l \in 1..Len(bs) : bs[l] \in 1..N /\ bs[l] # sl
    <2> SUFFICES ASSUME NEW l \in 1..Len(bs) PROVE bs[l] \in 1..N /\ bs[l] # sl
      OBVIOUS
    <2>1. bs \in Seq(1..N) /\ F[A[bs[l]]].id = "block"
      BY <1>2 DEF Opened
    <2> QED
      BY <1>4, <1>6, <2>1, ElementOfSeq DEF Composite
  <1>12. Laid(F, A, ms, {0} \cup X, Range(bs) \cup Y)
    <2>1. PICK s1, s2, o : s1 = {sl} \cup X /\ s2 = {0} \cup X /\ o = Range(bs) \cup Y
      OBVIOUS
    <2>2. NodeLaid(N, A, Part(t, k), t, sl, s2, o)
      <3>1. /\ Part(t, k).of = k /\ sl \notin s2
            /\ t.id # "block" /\ t.id \notin {"primitive", "structure"}
        BY <1>3, <1>6, <2>1, PartShape DEF Composite
      <3> QED
        BY <1>3, <1>7, <3>1 DEF NodeLaid
    <2>3. Relaid(F, A, ns, s1, o, A, ms, s2, o)
      <3>1. ASSUME NEW p \in 1..N, p # sl PROVE ms[p] = ns[p] /\ (p \in s1 <=> p \in s2)
        BY <1>9, <1>10, <2>1, <3>1
      <3>2. A[sl] \in 1..Len(F) /\ NodeLaid(N, A, ms[sl], F[A[sl]], sl, s2, o)
        BY <1>4, <1>5, <1>9, <1>10, <2>2
      <3>3. IsList(ms) /\ Len(ms) = N /\ Len(ns) = N /\ N <= N
        BY <1>1, <1>3, <1>9, <1>10
      <3> QED
        BY <1>3, <3>1, <3>2, <3>3 DEF Relaid
    <2>4. Laid(F, A, ns, s1, o)
      BY <1>2, <2>1
    <2>5. Laid(F, A, ms, s2, o)
      BY <2>3, <2>4, LaidStep
    <2> QED
      BY <2>1, <2>5
  <1>13. \A l \in 1..Len(bs) : rest[l] = Lacking(ms[bs[l]], F[A[bs[l]]], l, cur)
    BY <1>2, <1>9, <1>10, <1>11
  <1>14. ms[1] = ns[1]
    <2>1. 1 \in 1..Len(bs) /\ bs[1] = 1
      BY <1>2 DEF Opened
    <2> QED
      BY <1>9, <1>10, <1>11, <2>1
  <1>15. Opened(F, A, bs, Len(ms)) /\ Len(ms[1].params) <= cur
    BY <1>2, <1>9, <1>10, <1>14
  <1>16. Mirror(ms, bs, 0, F, A, D, rest, Tail(td), cur, X, Y)
    BY <1>2, <1>7, <1>12, <1>13, <1>15 DEF Mirror
  <1>17. Mirrors(q, F, A, D, rest, Tail(td), cur, X, Y)
    BY <1>9, <1>10, <1>16 DEF Mirrors
  <1> QED
    BY <1>1, <1>7, <1>17

\* A parameter of the innermost open block.
LEMMA MirrorParam ==
    ASSUME NEW r, NEW F, HeapOK(F), NEW A, NEW D, NEW rest, NEW td, NEW cur, NEW X, NEW Y,
           Mirrors(r, F, A, D, rest, td, cur, X, Y), r.slot = 0,
           NEW a, td # <<>>, Head(td) = Visit(a), NEW k \in 1..Len(r.nodes), A[k] = a
    PROVE  \E E, less : Mirrors(Put(r, k), F, A, E, less, Tail(td), cur, X, Y)
  <1>1. PICK ns, bs, q, N, m : r.nodes = ns /\ r.blocks = bs /\ q = Put(r, k) /\ N = Len(ns) /\ m = Len(bs)
    OBVIOUS
  <1>2. IsReader(r) /\ Mirror(ns, bs, 0, F, A, D, rest, td, cur, X, Y)
    BY <1>1 DEF Mirrors
  <1>3. /\ Laid(F, A, ns, {0} \cup X, Range(bs) \cup Y)
        /\ Opened(F, A, bs, N) /\ Owes(m, D, rest) /\ td = D[m]
        /\ A[1] = Len(F) /\ cur \in Nat /\ cur <= Len(F[Len(F)].params) /\ Len(ns[1].params) <= cur
    BY <1>1, <1>2 DEF Mirror
  <1>4. \A l \in 1..m : rest[l] = Lacking(ns[bs[l]], F[A[bs[l]]], l, cur)
    BY <1>1, <1>2 DEF Mirror
  <1>5. /\ bs \in Seq(1..N) /\ m \in Nat \ {0} /\ bs[1] = 1
        /\ \A i, j \in 1..m : bs[i] = bs[j] => i = j
        /\ \A l \in 1..m : F[A[bs[l]]].id = "block"
    BY <1>1, <1>3 DEF Opened
  <1>6. m \in 1..m /\ 1 \in 1..m
    BY <1>5
  <1>7. \A l \in 1..m : bs[l] \in 1..N
    BY <1>1, <1>5, ElementOfSeq
  <1>8. PICK b, t, n : b = bs[m] /\ t = F[A[b]] /\ n = ns[b]
    OBVIOUS
  <1>9. /\ IsList(ns) /\ N \in Nat /\ A \in Places /\ k \in 1..N /\ b \in 1..N
        /\ Place(r) = b /\ t.id = "block" /\ A[b] \in 1..Len(F)
    <2>1. IsList(ns) /\ A \in Places /\ \A p \in 1..N : A[p] \in 1..Len(F)
      BY <1>1, <1>3 DEF Laid
    <2>2. Place(r) = b
      BY <1>1, <1>8 DEF Place, Last
    <2> QED
      BY <1>1, <1>5, <1>6, <1>7, <1>8, <2>1, <2>2, ListShape
  <1>10. /\ n = Block(n.params) /\ n.params \in Seq(1..N) /\ Len(n.params) <= Len(t.params)
         /\ \A i \in 1..Len(n.params) : A[n.params[i]] = t.params[i]
    <2>1. NodeLaid(N, A, n, t, b, {0} \cup X, Range(bs) \cup Y)
      BY <1>1, <1>3, <1>8, <1>9 DEF Laid
    <2> QED
      BY <1>9, <2>1 DEF NodeLaid
  <1>11. PICK ps, us, from, to : /\ ps = n.params /\ us = t.params /\ from = Len(ps)
                                 /\ to = IF m = 1 THEN cur ELSE Len(us)
    OBVIOUS
  <1>12. /\ Len(us) \in Nat /\ \A i \in 1..Len(us) : us[i] \in Nat
    <2>1. Len(us) \in Nat /\ \A i \in 1..Len(us) : us[i] \in 1..Len(F)
      BY <1>8, <1>9, <1>11, BlockShape
    <2> QED
      BY <2>1
  <1>13. from \in Nat /\ to \in Nat /\ to <= Len(us)
    <2>1. ps \in Seq(1..N)
      BY <1>10, <1>11
    <2>2. m = 1 => cur <= Len(us)
      BY <1>3, <1>5, <1>8, <1>11
    <2> QED
      BY <1>3, <1>11, <1>12, <2>1, <2>2, LenProperties
  <1>14. /\ rest[m] = Due(us, from, to)
    BY <1>4, <1>6, <1>8, <1>11 DEF Lacking
  <1>15. PICK E, less : E = [D EXCEPT ![m] = Tail(D[m])] /\ less = [rest EXCEPT ![m] = Tail(rest[m])]
    OBVIOUS
  <1>16. rest[m] # <<>> /\ Head(rest[m]) = Visit(a) /\ Owes(m, E, less)
    BY <1>3, <1>15, OwesTake
  <1>17. from < to /\ a = us[from + 1] /\ Tail(rest[m]) = Due(us, from + 1, to)
    <2>1. \A i \in 1..to : us[i] \in Nat
      BY <1>12, <1>13
    <2>2. /\ Due(us, from, to) = <<>> <=> to <= from
          /\ from < to => /\ Head(Due(us, from, to)) = Visit(us[from + 1])
                          /\ Tail(Due(us, from, to)) = Due(us, from + 1, to)
      BY <1>13, <2>1, DueIs
    <2>3. from < to
      BY <1>13, <1>14, <1>16, <2>2
    <2> QED
      BY <1>14, <1>16, <2>2, <2>3, ItemShape
  <1>18. /\ E[m] = Tail(td) /\ less[m] = Due(us, from + 1, to)
         /\ \A l \in 1..m : l # m => less[l] = rest[l]
    <2>1. DOMAIN D = Nat /\ DOMAIN rest = Nat
      BY <1>3 DEF Owes
    <2> QED
      BY <1>3, <1>5, <1>15, <1>17, <2>1
  <1>19. PICK v : v = [n EXCEPT !.params = Append(@, k)]
    OBVIOUS
  <1>20. v = Block(Append(ps, k)) /\ v.params = Append(ps, k)
    <2>1. v = [Block(ps) EXCEPT !.params = Append(@, k)]
      BY <1>10, <1>11, <1>19
    <2>2. [Block(ps) EXCEPT !.params = Append(@, k)] = Block(Append(ps, k)) /\ Block(Append(ps, k)).params = Append(ps, k)
      BY DEF Block
    <2> QED
      BY <2>1, <2>2
  <1>21. /\ Append(ps, k) \in Seq(1..N) /\ Len(Append(ps, k)) = from + 1
         /\ \A i \in 1..(from + 1) : A[Append(ps, k)[i]] = us[i]
    <2>1. ps \in Seq(1..N) /\ k \in 1..N /\ \A i \in 1..from : A[ps[i]] = us[i]
      BY <1>9, <1>10, <1>11
    <2>2. /\ Append(ps, k) \in Seq(1..N) /\ Len(Append(ps, k)) = from + 1
          /\ \A i \in 1..from : Append(ps, k)[i] = ps[i]
          /\ Append(ps, k)[from + 1] = k
      BY <1>11, <2>1, AppendProperties
    <2>3. \A i \in 1..(from + 1) : i \in 1..from \/ i = from + 1
      BY <1>13
    <2> QED
      BY <1>17, <2>1, <2>2, <2>3
  <1>22. /\ IsReader(q) /\ q.blocks = bs /\ q.slot = 0 /\ IsList(q.nodes) /\ Len(q.nodes) = N
         /\ q.nodes[b] = v /\ \A p \in 1..N : p # b => q.nodes[p] = ns[p]
    <2>1. /\ b \in 1..Len(r.nodes) /\ IsList(r.nodes) /\ IsReader(r)
          /\ Place(r) \in 1..Len(r.nodes) /\ Place(r) = b
      BY <1>1, <1>2, <1>9
    <2>2. Placed(r, k, q)
      BY <1>1, <2>1, PutIs
    <2>3. Got(r, k) = v
      BY <1>1, <1>8, <1>19 DEF Got, Last
    <2> QED
      BY <1>1, <2>1, <2>2, <2>3 DEF Placed
  <1>23. PICK ms : ms = q.nodes
    OBVIOUS
  <1>24. Laid(F, A, ms, {0} \cup X, Range(bs) \cup Y)
    <2>1. PICK s, o : s = {0} \cup X /\ o = Range(bs) \cup Y
      OBVIOUS
    <2>2. NodeLaid(N, A, v, t, b, s, o)
      <3>1. t.id \notin Composite /\ t.id \notin {"primitive", "structure"}
        BY <1>9 DEF Composite
      <3>2. b \in o
        <4>1. DOMAIN bs = 1..m
          BY <1>1, <1>5, LenProperties
        <4> QED
          BY <1>6, <1>8, <2>1, <4>1 DEF Range
      <3>3. v = Block(v.params) /\ v.params \in Seq(1..N)
        BY <1>20, <1>21
      <3>4. Len(v.params) <= Len(t.params) /\ \A i \in 1..Len(v.params) : A[v.params[i]] = t.params[i]
        BY <1>11, <1>13, <1>17, <1>20, <1>21
      <3> QED
        BY <3>1, <3>2, <3>3, <3>4 DEF NodeLaid
    <2>3. Relaid(F, A, ns, s, o, A, ms, s, o)
      <3>1. ASSUME NEW p \in 1..N, p # b PROVE ms[p] = ns[p]
        BY <1>22, <1>23, <3>1
      <3>2. A[b] \in 1..Len(F) /\ NodeLaid(N, A, ms[b], F[A[b]], b, s, o)
        BY <1>8, <1>9, <1>22, <1>23, <2>2
      <3>3. IsList(ms) /\ Len(ms) = N /\ Len(ns) = N /\ N <= N
        BY <1>1, <1>9, <1>22, <1>23
      <3> QED
        BY <1>9, <3>1, <3>2, <3>3 DEF Relaid
    <2>4. Laid(F, A, ns, s, o)
      BY <1>3, <2>1
    <2>5. Laid(F, A, ms, s, o)
      BY <2>3, <2>4, LaidStep
    <2> QED
      BY <2>1, <2>5
  <1>25. ASSUME NEW l \in 1..m PROVE less[l] = Lacking(ms[bs[l]], F[A[bs[l]]], l, cur)
    <2>1. CASE l = m
      BY <1>8, <1>11, <1>18, <1>20, <1>21, <1>22, <1>23, <2>1 DEF Lacking
    <2>2. CASE l # m
      <3>1. bs[l] \in 1..N /\ bs[l] # b
        BY <1>5, <1>6, <1>7, <1>8, <2>2
      <3> QED
        BY <1>4, <1>18, <1>22, <1>23, <2>2, <3>1
    <2> QED
      BY <2>1, <2>2
  <1>26. Len(ms[1].params) <= cur
    <2>1. CASE m = 1
      BY <1>3, <1>5, <1>8, <1>11, <1>13, <1>17, <1>20, <1>21, <1>22, <1>23, <2>1
    <2>2. CASE m # 1
      <3>1. bs[1] # b /\ 1 \in 1..N
        BY <1>5, <1>6, <1>7, <1>8, <2>2
      <3> QED
        BY <1>3, <1>5, <1>22, <1>23, <3>1
    <2> QED
      BY <2>1, <2>2
  <1>27. Mirror(ms, bs, 0, F, A, E, less, Tail(td), cur, X, Y)
    <2>1. Len(ms) = N /\ m = Len(bs)
      BY <1>1, <1>22, <1>23
    <2> QED
      BY <1>3, <1>16, <1>18, <1>24, <1>25, <1>26, <2>1 DEF Mirror
  <1>28. Mirrors(q, F, A, E, less, Tail(td), cur, X, Y)
    BY <1>22, <1>23, <1>27 DEF Mirrors
  <1> QED
    BY <1>1, <1>28

-----------------------------------------------------------------------------
\* Reading a type

\* The reader has read what was written when td was left to write.
Follows(r, F, A, td, cur, X, Y) == \E D, rest : Mirrors(r, F, A, D, rest, td, cur, X, Y)

\* A node that stands for the type on top of the stack is put.
LEMMA FollowsPut ==
    ASSUME NEW r, NEW F, HeapOK(F), NEW A, NEW td, NEW cur, NEW X, NEW Y, Follows(r, F, A, td, cur, X, Y),
           r.slot \notin X, NEW a, td # <<>>, Head(td) = Visit(a), NEW k \in 1..Len(r.nodes), A[k] = a
    PROVE  Follows(Put(r, k), F, A, Tail(td), cur, X, Y) /\ Placed(r, k, Put(r, k))
  <1>1. PICK D, rest : Mirrors(r, F, A, D, rest, td, cur, X, Y)
    BY DEF Follows
  <1>2. Placed(r, k, Put(r, k))
    <2>1. IsReader(r) /\ IsList(r.nodes) /\ Place(r) \in 1..Len(r.nodes)
      BY <1>1, MirrorShape
    <2> QED
      BY <2>1, PutIs
  <1>3. \E E, less : Mirrors(Put(r, k), F, A, E, less, Tail(td), cur, X, Y)
    <2>1. CASE r.slot = 0
      BY <1>1, <2>1, MirrorParam
    <2>2. CASE r.slot # 0
      BY <1>1, <2>2, MirrorPart
    <2> QED
      BY <2>1, <2>2
  <1> QED
    BY <1>2, <1>3 DEF Follows

\* What q has of r when a node is added and put.
Begun(r, node, q) ==
    /\ IsReader(q) /\ q.name = r.name /\ q.blocks = r.blocks /\ q.slot = 0 /\ q.known = r.known
    /\ Len(r.nodes) \in Nat /\ Len(q.nodes) = Len(r.nodes) + 1 /\ IsList(q.nodes)
    /\ q.nodes[Len(q.nodes)] = node /\ Len(q.nodes) \notin Range(q.blocks)

\* A node for the type on top of the stack is added and put.
LEMMA FollowsBegin ==
    ASSUME NEW r, NEW F, HeapOK(F), NEW A, NEW td, NEW cur, Follows(r, F, A, td, cur, {}, {}),
           NEW a \in 1..Len(F), td # <<>>, Head(td) = Visit(a),
           NEW k \in Nat, k = Len(r.nodes) + 1, NEW B, Extended(A, k, a, B),
           NEW X, NEW Y, X \subseteq {k}, Y \subseteq {k}, NEW node, NodeLaid(k, B, node, F[a], k, X, Y)
    PROVE  /\ Follows(Begin(r, node), F, B, Tail(td), cur, X, Y) /\ Begun(r, node, Begin(r, node))
  <1>1. PICK D, rest : Mirrors(r, F, A, D, rest, td, cur, {}, {})
    BY DEF Follows
  <1>2. PICK g : g = State(r.name, Append(r.nodes, node), r.blocks, r.slot, r.known)
    OBVIOUS
  <1>3. Mirrors(g, F, B, D, rest, td, cur, X, Y)
    <2>1. /\ Mirrors(r, F, A, D, rest, td, cur, {}, {}) /\ k \in Nat /\ k = Len(r.nodes) + 1 /\ a \in 1..Len(F)
          /\ Extended(A, k, a, B) /\ X \subseteq {k} /\ Y \subseteq {k} /\ NodeLaid(k, B, node, F[a], k, X, Y)
          /\ g = State(r.name, Append(r.nodes, node), r.blocks, r.slot, r.known)
      BY <1>1, <1>2
    <2> QED
      BY <2>1, MirrorGrow
  <1>4. IsReader(r) /\ IsList(r.nodes) /\ Len(r.nodes) \in Nat
    BY <1>1, MirrorShape
  <1>5. /\ g.name = r.name /\ g.nodes = Append(r.nodes, node) /\ g.blocks = r.blocks
        /\ g.slot = r.slot /\ g.known = r.known
    <2>1. PICK ms : ms = Append(r.nodes, node)
      OBVIOUS
    <2>2. g = State(r.name, ms, r.blocks, r.slot, r.known)
      BY <1>2, <2>1
    <2>3. /\ g.name = r.name /\ g.nodes = ms /\ g.blocks = r.blocks
          /\ g.slot = r.slot /\ g.known = r.known
      BY <2>2, StateIs
    <2> QED
      BY <2>1, <2>3
  <1>6. Len(g.nodes) = k /\ k \in 1..Len(g.nodes)
    <2>1. Len(Append(r.nodes, node)) = Len(r.nodes) + 1
      BY <1>4, ListAppend
    <2> QED
      BY <1>4, <1>5, <2>1
  <1>7. g.slot \notin X
    <2>1. r.slot = 0 \/ r.slot \in 1..Len(r.nodes)
      BY <1>1 DEF Mirrors, Mirror
    <2> QED
      BY <1>4, <1>5, <2>1
  <1>8. Follows(g, F, B, td, cur, X, Y)
    BY <1>3 DEF Follows
  <1>9. Follows(Put(g, k), F, B, Tail(td), cur, X, Y) /\ Placed(g, k, Put(g, k))
    BY <1>6, <1>7, <1>8, FollowsPut DEF Extended
  <1>10. Begin(r, node) = Put(g, k)
    <2>1. PICK ms : ms = Append(r.nodes, node)
      OBVIOUS
    <2>2. [r EXCEPT !.nodes = ms] = g
      BY <1>2, <1>4, <2>1, StateChanges
    <2> QED
      BY <2>1, <2>2 DEF Begin
  <1>11. PICK q : q = Begin(r, node)
    OBVIOUS
  <1>12. /\ IsReader(q) /\ q.name = r.name /\ q.blocks = r.blocks /\ q.slot = 0 /\ q.known = r.known
         /\ Len(q.nodes) = k /\ IsList(q.nodes) /\ (k # Place(g) => q.nodes[k] = g.nodes[k])
    BY <1>5, <1>6, <1>9, <1>10, <1>11 DEF Placed
  <1>13. g.nodes[k] = node
    <2>1. Append(r.nodes, node)[Len(r.nodes) + 1] = node
      BY <1>4, ListAppend
    <2> QED
      BY <1>5, <2>1
  <1>14. k # Place(g) /\ k \notin Range(r.blocks)
    <2>1. Place(g) = Place(r)
      BY <1>5 DEF Place
    <2>2. Place(r) \in 1..Len(r.nodes) /\ \A l \in 1..Len(r.blocks) : r.blocks[l] \in 1..Len(r.nodes)
      BY <1>1, MirrorShape
    <2>3. DOMAIN r.blocks = 1..Len(r.blocks)
      BY <1>1, LenProperties DEF Mirrors, Mirror, Opened
    <2> QED
      BY <1>4, <2>1, <2>2, <2>3 DEF Range
  <1>15. Begun(r, node, Begin(r, node))
    BY <1>4, <1>11, <1>12, <1>13, <1>14 DEF Begun
  <1> QED
    BY <1>9, <1>10, <1>15

\* The part of the node that was begun comes next.
LEMMA FollowsWhole ==
    ASSUME NEW r, NEW F, HeapOK(F), NEW A, NEW td, NEW cur, NEW k, Follows(r, F, A, td, cur, {k}, {}),
           r.slot = 0, k \in 1..Len(r.nodes), NEW a, A[k] = a, F[a].id \in Composite
    PROVE  Follows([r EXCEPT !.slot = k], F, A, <<Visit(F[a].of)>> \o td, cur, {}, {})
  <1>1. PICK D, rest : Mirrors(r, F, A, D, rest, td, cur, {k}, {})
    BY DEF Follows
  <1>2. PICK ns, bs, q : r.nodes = ns /\ r.blocks = bs /\ q = [r EXCEPT !.slot = k]
    OBVIOUS
  <1>3. IsReader(r) /\ Mirror(ns, bs, 0, F, A, D, rest, td, cur, {k}, {})
    BY <1>1, <1>2 DEF Mirrors
  <1>4. IsReader(q) /\ q.nodes = ns /\ q.blocks = bs /\ q.slot = k
    <2>1. q = State(r.name, r.nodes, r.blocks, k, r.known)
      BY <1>2, <1>3, StateChanges
    <2> QED
      BY <1>2, <2>1, StateIs
  <1>5. k \in 1..Len(ns) /\ k # 0
    BY <1>2
  <1>6. Laid(F, A, ns, {k} \cup {}, Range(bs) \cup {})
    <2>1. PICK s1, s2, o : s1 = {0} \cup {k} /\ s2 = {k} \cup {} /\ o = Range(bs) \cup {}
      OBVIOUS
    <2>2. Laid(F, A, ns, s1, o)
      BY <1>3, <2>1 DEF Mirror
    <2>3. Relaid(F, A, ns, s1, o, A, ns, s2, o)
      <3>1. IsList(ns) /\ A \in Places /\ Len(ns) \in Nat /\ Len(ns) <= Len(ns)
        <4>1. IsList(ns) /\ A \in Places
          BY <2>2 DEF Laid
        <4>2. Len(ns) \in Nat
          BY <4>1, ListShape
        <4> QED
          BY <4>1, <4>2
      <3>2. \A p \in 1..Len(ns) : p \in s1 <=> p \in s2
        BY <2>1
      <3> QED
        BY <3>1, <3>2 DEF Relaid
    <2>4. Laid(F, A, ns, s2, o)
      BY <2>2, <2>3, LaidStep
    <2> QED
      BY <2>1, <2>4
  <1>7. Mirror(ns, bs, k, F, A, D, rest, <<Visit(F[a].of)>> \o td, cur, {}, {})
    BY <1>3, <1>5, <1>6 DEF Mirror
  <1> QED
    BY <1>2, <1>4, <1>7 DEF Follows, Mirrors

\* The parameters of the block that was begun come next, and its end.
LEMMA FollowsBlock ==
    ASSUME NEW r, NEW F, HeapOK(F), NEW A, NEW td, NEW cur, NEW k, Follows(r, F, A, td, cur, {}, {k}),
           r.slot = 0, k \in 1..Len(r.nodes), k \notin Range(r.blocks), Len(r.nodes[k].params) = 0,
           NEW a, A[k] = a, F[a].id = "block"
    PROVE  Follows([r EXCEPT !.blocks = Append(@, k)], F, A,
                   (Due(F[a].params, 0, Len(F[a].params)) \o <<End>>) \o td, cur, {}, {})
  <1>1. PICK D, rest : Mirrors(r, F, A, D, rest, td, cur, {}, {k})
    BY DEF Follows
  <1>2. PICK ns, bs, cs, m, new :
          /\ r.nodes = ns /\ r.blocks = bs /\ cs = Append(bs, k) /\ m = Len(bs)
          /\ new = Due(F[a].params, 0, Len(F[a].params))
    OBVIOUS
  <1>3. IsReader(r) /\ Mirror(ns, bs, 0, F, A, D, rest, td, cur, {}, {k})
    BY <1>1, <1>2 DEF Mirrors
  <1>4. PICK q : q = [r EXCEPT !.blocks = cs]
    OBVIOUS
  <1>5. IsReader(q) /\ q.nodes = ns /\ q.blocks = cs /\ q.slot = 0
    <2>1. q = State(r.name, r.nodes, cs, r.slot, r.known)
      BY <1>3, <1>4, StateChanges
    <2>2. IsReader(q) /\ q.nodes = r.nodes /\ q.blocks = cs /\ q.slot = r.slot
      BY <2>1, StateIs
    <2> QED
      BY <1>2, <2>2
  <1>6. /\ bs \in Seq(1..Len(ns)) /\ m \in Nat \ {0} /\ bs[1] = 1
        /\ \A i, j \in 1..m : bs[i] = bs[j] => i = j
        /\ \A l \in 1..m : F[A[bs[l]]].id = "block"
    BY <1>2, <1>3 DEF Mirror, Opened
  <1>7. k \in 1..Len(ns) /\ k \notin Range(bs) /\ DOMAIN bs = 1..m
    BY <1>2, <1>6, LenProperties
  <1>8. \A l \in 1..m : bs[l] # k /\ bs[l] \in 1..Len(ns)
    BY <1>2, <1>6, <1>7, ElementOfSeq DEF Range
  <1>9. /\ cs \in Seq(1..Len(ns)) /\ Len(cs) = m + 1 /\ cs[m + 1] = k /\ \A l \in 1..m : cs[l] = bs[l]
    BY <1>2, <1>6, <1>7, AppendProperties
  <1>10. \A l \in 1..(m + 1) : l \in 1..m \/ l = m + 1
    BY <1>6
  <1>11. Opened(F, A, cs, Len(ns))
    <2>1. \A i, j \in 1..(m + 1) : cs[i] = cs[j] => i = j
      BY <1>6, <1>8, <1>9, <1>10
    <2>2. \A l \in 1..(m + 1) : F[A[cs[l]]].id = "block"
      BY <1>6, <1>9, <1>10
    <2>3. m + 1 \in Nat \ {0} /\ cs[1] = 1
      BY <1>6, <1>9
    <2> QED
      BY <1>9, <2>1, <2>2, <2>3 DEF Opened
  <1>12. Range(cs) = Range(bs) \cup {k}
    <2>1. DOMAIN cs = 1..(m + 1)
      BY <1>9, LenProperties
    <2>2. Range(cs) = {cs[l] : l \in 1..(m + 1)} /\ Range(bs) = {bs[l] : l \in 1..m}
      BY <1>7, <2>1 DEF Range
    <2>3. \A x \in {cs[l] : l \in 1..(m + 1)} : x \in {bs[l] : l \in 1..m} \cup {k}
      BY <1>9, <1>10
    <2>4. m + 1 \in 1..(m + 1) /\ \A l \in 1..m : l \in 1..(m + 1)
      BY <1>6
    <2>5. \A x \in {bs[l] : l \in 1..m} \cup {k} : x \in {cs[l] : l \in 1..(m + 1)}
      BY <1>9, <2>4
    <2> QED
      BY <2>2, <2>3, <2>5
  <1>13. Laid(F, A, ns, {0} \cup {}, Range(cs) \cup {})
    <2>1. Range(cs) \cup {} = Range(bs) \cup {k}
      BY <1>12
    <2> QED
      BY <1>3, <2>1 DEF Mirror
  <1>14. PICK E, more : E = [D EXCEPT ![m + 1] = (new \o <<End>>) \o D[m]] /\ more = [rest EXCEPT ![m + 1] = new]
    OBVIOUS
  <1>15. Owes(m, D, rest) /\ td = D[m] /\ \A l \in 1..m : rest[l] = Lacking(ns[bs[l]], F[A[bs[l]]], l, cur)
    BY <1>2, <1>3 DEF Mirror
  <1>16. new \in Seq(Visits)
    <2>1. a \in 1..Len(F)
      BY <1>2, <1>3, <1>7 DEF Mirror, Laid
    <2>2. PICK us, n : us = F[a].params /\ n = Len(us)
      OBVIOUS
    <2>3. n \in Nat /\ \A i \in 1..n : us[i] \in 1..Len(F)
      BY <2>1, <2>2, BlockShape
    <2>4. \A i \in 1..n : us[i] \in Nat
      BY <2>3
    <2>5. Due(us, 0, n) \in Seq(Visits)
      BY <2>3, <2>4, DueIs
    <2> QED
      BY <1>2, <2>2, <2>5
  <1>17. Owes(m + 1, E, more)
    BY <1>14, <1>15, <1>16, OwesOpen
  <1>18. E[m + 1] = (new \o <<End>>) \o D[m] /\ more[m + 1] = new /\ \A l \in 1..m : more[l] = rest[l]
    <2>1. DOMAIN D = Nat /\ DOMAIN rest = Nat /\ m + 1 \in Nat /\ \A l \in 1..m : l # m + 1
      BY <1>6, <1>15 DEF Owes
    <2>2. PICK M, v : M = m + 1 /\ v = (new \o <<End>>) \o D[m]
      OBVIOUS
    <2>3. E = [D EXCEPT ![M] = v] /\ more = [rest EXCEPT ![M] = new] /\ M \in Nat
      BY <1>14, <2>1, <2>2
    <2>4. E[M] = v
      BY <2>1, <2>3
    <2>5. more[M] = new
      BY <2>1, <2>3
    <2>6. \A l \in 1..m : more[l] = rest[l]
      BY <2>1, <2>2, <2>3
    <2> QED
      BY <2>2, <2>4, <2>5, <2>6
  <1>19. ASSUME NEW l \in 1..(m + 1) PROVE more[l] = Lacking(ns[cs[l]], F[A[cs[l]]], l, cur)
    <2>1. CASE l \in 1..m
      BY <1>9, <1>15, <1>18, <2>1
    <2>2. CASE l = m + 1
      <3>1. Lacking(ns[k], F[a], l, cur) = Due(F[a].params, 0, Len(F[a].params))
        BY <1>2, <1>6, <2>2 DEF Lacking
      <3> QED
        BY <1>2, <1>9, <1>18, <2>2, <3>1
    <2> QED
      BY <1>10, <2>1, <2>2
  <1>20. Mirror(ns, cs, 0, F, A, E, more, (new \o <<End>>) \o td, cur, {}, {})
    <2>1. A[1] = Len(F) /\ cur \in Nat /\ cur <= Len(F[Len(F)].params) /\ Len(ns[1].params) <= cur
      BY <1>3 DEF Mirror
    <2> QED
      BY <1>9, <1>11, <1>13, <1>15, <1>17, <1>18, <1>19, <2>1 DEF Mirror
  <1>21. Mirrors(q, F, A, E, more, (new \o <<End>>) \o td, cur, {}, {})
    BY <1>5, <1>20 DEF Mirrors
  <1>22. q = [r EXCEPT !.blocks = Append(@, k)]
    BY <1>2, <1>4
  <1> QED
    BY <1>2, <1>21, <1>22 DEF Follows

\* A list without its last item.
LEMMA FrontIs ==
    ASSUME NEW S, NEW s \in Seq(S), NEW m, m = Len(s), m > 1
    PROVE  Front(s) \in Seq(S) /\ Len(Front(s)) = m - 1 /\ \A i \in 1..(m - 1) : Front(s)[i] = s[i]
  <1>1. m \in Nat
    BY LenProperties
  <1>2. \A i \in 1..(m - 1) : s[i] \in S
    BY <1>1, ElementOfSeq
  <1>3. /\ SubSeq(s, 1, m - 1) \in Seq(S)
        /\ Len(SubSeq(s, 1, m - 1)) = IF 1 <= m - 1 THEN m - 1 - 1 + 1 ELSE 0
        /\ \A i \in 1..(m - 1 - 1 + 1) : SubSeq(s, 1, m - 1)[i] = s[1 + i - 1]
    BY <1>1, <1>2, SubSeqProperties
  <1>4. m - 1 - 1 + 1 = m - 1 /\ 1 <= m - 1 /\ \A i \in 1..(m - 1) : 1 + i - 1 = i
    BY <1>1
  <1>5. Front(s) = SubSeq(s, 1, m - 1)
    BY DEF Front
  <1> QED
    BY <1>3, <1>4, <1>5

\* The innermost block that is open ends.
LEMMA FollowsEnd ==
    ASSUME NEW r, NEW F, HeapOK(F), NEW A, NEW td, NEW cur, Follows(r, F, A, td, cur, {}, {}),
           td # <<>>, Head(td) = End
    PROVE  Follows([r EXCEPT !.blocks = Front(@)], F, A, Tail(td), cur, {}, {})
  <1>1. PICK D, rest : Mirrors(r, F, A, D, rest, td, cur, {}, {})
    BY DEF Follows
  <1>2. PICK ns, bs, cs, sl, m :
          r.nodes = ns /\ r.blocks = bs /\ cs = Front(bs) /\ r.slot = sl /\ m = Len(bs)
    OBVIOUS
  <1>3. IsReader(r) /\ Mirror(ns, bs, sl, F, A, D, rest, td, cur, {}, {})
    BY <1>1, <1>2 DEF Mirrors
  <1>4. /\ bs \in Seq(1..Len(ns)) /\ m \in Nat \ {0} /\ bs[1] = 1
        /\ \A i, j \in 1..m : bs[i] = bs[j] => i = j
        /\ \A l \in 1..m : F[A[bs[l]]].id = "block"
    BY <1>2, <1>3 DEF Mirror, Opened
  <1>5. Owes(m, D, rest) /\ \A l \in 1..m : rest[l] = Lacking(ns[bs[l]], F[A[bs[l]]], l, cur)
    BY <1>2, <1>3 DEF Mirror
  <1>6. Laid(F, A, ns, {sl} \cup {}, Range(bs) \cup {})
    BY <1>3 DEF Mirror
  <1>7. \A p \in 1..Len(ns) : A[p] \in 1..Len(F) /\ NodeLaid(Len(ns), A, ns[p], F[A[p]], p, {sl} \cup {}, Range(bs) \cup {})
    BY <1>6 DEF Laid
  <1>8. sl = 0 /\ td = D[m]
    <2>1. ASSUME sl # 0 PROVE FALSE
      <3>1. sl \in 1..Len(ns) /\ F[A[sl]].id \in Composite /\ td = <<Visit(F[A[sl]].of)>> \o D[m]
        BY <1>2, <1>3, <2>1 DEF Mirror
      <3>2. A[sl] \in 1..Len(F)
        BY <1>7, <3>1
      <3>3. F[A[sl]].of \in 1..Len(F)
        BY <3>1, <3>2, CompositeIs
      <3>4. Visit(F[A[sl]].of) \in Stacked
        BY <3>3 DEF Stacked, Visits
      <3>5. D[m] \in Seq(Stacked)
        BY <1>4, <1>5 DEF Owes
      <3>6. Head(td) = Visit(F[A[sl]].of)
        BY <3>1, <3>4, <3>5, OneOf
      <3> QED
        BY <3>6, ItemShape
    <2> QED
      BY <1>2, <1>3, <2>1 DEF Mirror
  <1>9. m > 1 /\ rest[m] = <<>> /\ Owes(m - 1, D, rest) /\ Tail(td) = D[m - 1]
    BY <1>5, <1>8, OwesEnd
  <1>10. PICK b, t, n : b = bs[m] /\ t = F[A[b]] /\ n = ns[b]
    OBVIOUS
  <1>11. m \in 1..m /\ m - 1 \in Nat \ {0} /\ \A l \in 1..(m - 1) : l \in 1..m /\ l # m
    BY <1>4, <1>9
  <1>12. \A l \in 1..m : bs[l] \in 1..Len(ns)
    BY <1>2, <1>4, ElementOfSeq
  <1>13. b \in 1..Len(ns) /\ A[b] \in 1..Len(F) /\ t.id = "block"
    BY <1>4, <1>7, <1>10, <1>11, <1>12
  <1>14. /\ n = Block(n.params) /\ n.params \in Seq(1..Len(ns)) /\ Len(n.params) <= Len(t.params)
         /\ \A i \in 1..Len(n.params) : A[n.params[i]] = t.params[i]
    BY <1>7, <1>10, <1>13 DEF NodeLaid
  <1>15. Len(n.params) = Len(t.params)
    <2>1. PICK us, from, to : us = t.params /\ from = Len(n.params) /\ to = Len(us)
      OBVIOUS
    <2>2. to \in Nat /\ \A i \in 1..to : us[i] \in 1..Len(F)
      BY <1>10, <1>13, <2>1, BlockShape
    <2>3. \A i \in 1..to : us[i] \in Nat
      BY <2>2
    <2>4. from \in Nat
      <3>1. PICK ps : ps = n.params
        OBVIOUS
      <3> QED
        BY <1>14, <2>1, <3>1, LenProperties
    <2>5. rest[m] = Due(us, from, to)
      BY <1>5, <1>9, <1>10, <1>11, <2>1 DEF Lacking
    <2>6. Due(us, from, to) = <<>> <=> to <= from
      BY <2>2, <2>3, <2>4, DueIs
    <2>7. to <= from
      BY <1>9, <2>5, <2>6
    <2> QED
      BY <1>14, <2>1, <2>2, <2>4, <2>7
  <1>16. cs \in Seq(1..Len(ns)) /\ Len(cs) = m - 1 /\ \A l \in 1..(m - 1) : cs[l] = bs[l]
    BY <1>2, <1>4, <1>9, FrontIs
  <1>17. Opened(F, A, cs, Len(ns))
    <2>1. 1 \in 1..(m - 1)
      BY <1>11
    <2> QED
      BY <1>4, <1>11, <1>16, <2>1 DEF Opened
  <1>18. \A p : p # b => (p \in Range(bs) <=> p \in Range(cs))
    <2>1. DOMAIN cs = 1..(m - 1) /\ DOMAIN bs = 1..m
      BY <1>2, <1>4, <1>16, LenProperties
    <2>2. Range(cs) = {cs[l] : l \in 1..(m - 1)} /\ Range(bs) = {bs[l] : l \in 1..m}
      BY <2>1 DEF Range
    <2>3. ASSUME NEW p, p # b, p \in Range(bs) PROVE p \in Range(cs)
      <3>1. PICK l \in 1..m : p = bs[l]
        BY <2>2, <2>3
      <3>2. l \in 1..(m - 1)
        BY <1>4, <1>10, <2>3, <3>1
      <3> QED
        BY <1>16, <2>2, <3>1, <3>2
    <2>4. ASSUME NEW p, p \in Range(cs) PROVE p \in Range(bs)
      <3>1. PICK l \in 1..(m - 1) : p = cs[l]
        BY <2>2, <2>4
      <3> QED
        BY <1>11, <1>16, <2>2, <3>1
    <2> QED
      BY <2>3, <2>4
  <1>19. Laid(F, A, ns, {sl} \cup {}, Range(cs) \cup {})
    <2>1. PICK s, o1, o2 : s = {sl} \cup {} /\ o1 = Range(bs) \cup {} /\ o2 = Range(cs) \cup {}
      OBVIOUS
    <2>2. NodeLaid(Len(ns), A, n, t, b, s, o2)
      <3>1. t.id \notin Composite /\ t.id \notin {"primitive", "structure"}
        BY <1>13 DEF Composite
      <3> QED
        BY <1>14, <1>15, <3>1 DEF NodeLaid
    <2>3. IsList(ns) /\ A \in Places
      BY <1>6 DEF Laid
    <2>4. Len(ns) \in Nat
      BY <2>3, ListShape
    <2>5. Relaid(F, A, ns, s, o1, A, ns, s, o2)
      <3>1. \A p \in 1..Len(ns) : p # b => (p \in o1 <=> p \in o2)
        BY <1>18, <2>1
      <3>2. A[b] \in 1..Len(F) /\ NodeLaid(Len(ns), A, ns[b], F[A[b]], b, s, o2)
        BY <1>10, <1>13, <2>2
      <3>3. Len(ns) <= Len(ns)
        BY <2>4
      <3> QED
        BY <2>3, <3>1, <3>2, <3>3 DEF Relaid
    <2>6. Laid(F, A, ns, s, o1)
      BY <1>6, <2>1
    <2>7. Laid(F, A, ns, s, o2)
      BY <2>5, <2>6, LaidStep
    <2> QED
      BY <2>1, <2>7
  <1>20. \A l \in 1..(m - 1) : rest[l] = Lacking(ns[cs[l]], F[A[cs[l]]], l, cur)
    BY <1>5, <1>11, <1>16
  <1>21. Mirror(ns, cs, sl, F, A, D, rest, Tail(td), cur, {}, {})
    <2>1. A[1] = Len(F) /\ cur \in Nat /\ cur <= Len(F[Len(F)].params) /\ Len(ns[1].params) <= cur
      BY <1>3 DEF Mirror
    <2> QED
      BY <1>8, <1>9, <1>16, <1>17, <1>19, <1>20, <2>1 DEF Mirror
  <1>22. PICK q : q = [r EXCEPT !.blocks = cs]
    OBVIOUS
  <1>23. IsReader(q) /\ q.nodes = ns /\ q.blocks = cs /\ q.slot = sl
    <2>1. q = State(r.name, r.nodes, cs, r.slot, r.known)
      BY <1>3, <1>22, StateChanges
    <2>2. IsReader(q) /\ q.nodes = r.nodes /\ q.blocks = cs /\ q.slot = r.slot
      BY <2>1, StateIs
    <2> QED
      BY <1>2, <2>2
  <1>24. Mirrors(q, F, A, D, rest, Tail(td), cur, {}, {})
    BY <1>21, <1>23 DEF Mirrors
  <1>25. q = [r EXCEPT !.blocks = Front(@)]
    BY <1>2, <1>22
  <1> QED
    BY <1>24, <1>25 DEF Follows

\* The function alone is open and has its first parameters.
BetweenParameters(r, F, A, cur) ==
    /\ r.slot = 0 /\ r.blocks = <<1>> /\ A[1] = Len(F) /\ cur \in Nat
    /\ Len(F) \in 1..Len(F) /\ F[Len(F)].id = "block" /\ Len(r.nodes[1].params) = cur
    /\ 1 \in 1..Len(r.nodes) /\ IsReader(r) /\ cur <= Len(F[Len(F)].params)
    /\ Laid(F, A, r.nodes, {0}, {1})

\* With nothing on the stack no node waits for a part.
LEMMA FollowsNothing ==
    ASSUME NEW r, NEW F, HeapOK(F), NEW A, NEW cur, Follows(r, F, A, <<>>, cur, {}, {})
    PROVE  BetweenParameters(r, F, A, cur)
  <1>1. PICK D, rest : Mirrors(r, F, A, D, rest, <<>>, cur, {}, {})
    BY DEF Follows
  <1>2. PICK ns, bs, sl, m : r.nodes = ns /\ r.blocks = bs /\ r.slot = sl /\ m = Len(bs)
    OBVIOUS
  <1>3. IsReader(r) /\ Mirror(ns, bs, sl, F, A, D, rest, <<>>, cur, {}, {})
    BY <1>1, <1>2 DEF Mirrors
  <1>4. /\ bs \in Seq(1..Len(ns)) /\ m \in Nat \ {0} /\ bs[1] = 1
        /\ \A l \in 1..m : F[A[bs[l]]].id = "block"
    BY <1>2, <1>3 DEF Mirror, Opened
  <1>5. Owes(m, D, rest) /\ \A l \in 1..m : rest[l] = Lacking(ns[bs[l]], F[A[bs[l]]], l, cur)
    BY <1>2, <1>3 DEF Mirror
  <1>6. Laid(F, A, ns, {sl} \cup {}, Range(bs) \cup {})
    BY <1>3 DEF Mirror
  <1>7. A[1] = Len(F) /\ cur \in Nat /\ cur <= Len(F[Len(F)].params) /\ Len(ns[1].params) <= cur
    BY <1>3 DEF Mirror
  <1>8. sl = 0 /\ D[m] = <<>>
    <2>1. ASSUME sl # 0 PROVE FALSE
      <3>1. sl \in 1..Len(ns) /\ F[A[sl]].id \in Composite /\ <<>> = <<Visit(F[A[sl]].of)>> \o D[m]
        BY <1>2, <1>3, <2>1 DEF Mirror
      <3>2. A[sl] \in 1..Len(F)
        BY <1>6, <3>1 DEF Laid
      <3>3. F[A[sl]].of \in 1..Len(F)
        BY <3>1, <3>2, CompositeIs
      <3>4. Visit(F[A[sl]].of) \in Stacked
        BY <3>3 DEF Stacked, Visits
      <3>5. D[m] \in Seq(Stacked)
        BY <1>4, <1>5 DEF Owes
      <3>6. <<Visit(F[A[sl]].of)>> \o D[m] # <<>>
        BY <3>4, <3>5, OneOf
      <3> QED
        BY <3>1, <3>6
    <2> QED
      BY <1>2, <1>3, <2>1 DEF Mirror
  <1>9. m = 1 /\ rest[1] = <<>>
    BY <1>5, <1>8, OwesNone
  <1>10. bs = <<1>>
    <2>1. bs \in Seq(Nat) /\ <<1>> \in Seq(Nat)
      <3>1. 1..Len(ns) \subseteq Nat /\ bs \in Seq(1..Len(ns))
        BY <1>4
      <3> QED
        BY <3>1, SeqMonotonic
    <2>2. Len(bs) = Len(<<1>>) /\ \A i \in 1..Len(bs) : bs[i] = <<1>>[i]
      BY <1>2, <1>4, <1>9
    <2> QED
      BY <2>1, <2>2, SeqEqual
  <1>11. 1 \in 1..m /\ 1 \in 1..Len(ns) /\ F[Len(F)].id = "block" /\ Len(F) \in 1..Len(F)
    <2>1. 1 \in 1..m
      BY <1>9
    <2>2. 1 \in 1..Len(ns)
      BY <1>2, <1>4, <2>1, ElementOfSeq
    <2>3. A[1] \in 1..Len(F)
      BY <1>6, <2>2 DEF Laid
    <2> QED
      BY <1>4, <1>7, <2>1, <2>2, <2>3
  <1>12. Len(ns[1].params) = cur
    <2>1. PICK us, from : us = F[Len(F)].params /\ from = Len(ns[1].params)
      OBVIOUS
    <2>2. Len(us) \in Nat /\ \A i \in 1..Len(us) : us[i] \in 1..Len(F)
      BY <1>11, <2>1, BlockShape
    <2>3. \A i \in 1..cur : us[i] \in Nat
      BY <1>7, <2>1, <2>2
    <2>4. from \in Nat
      <3>1. PICK ps : ps = ns[1].params
        OBVIOUS
      <3>2. ps \in Seq(1..Len(ns))
        BY <1>6, <1>7, <1>11, <3>1 DEF Laid, NodeLaid
      <3> QED
        BY <2>1, <3>1, <3>2, LenProperties
    <2>5. rest[1] = Due(us, from, cur)
      BY <1>4, <1>5, <1>7, <1>11, <2>1 DEF Lacking
    <2>6. Due(us, from, cur) = <<>> <=> cur <= from
      BY <1>7, <2>3, <2>4, DueIs
    <2> QED
      BY <1>7, <1>9, <2>1, <2>4, <2>5, <2>6
  <1>13. Laid(F, A, ns, {0}, {1})
    <2>1. Range(bs) = {1}
      BY <1>2, <1>9, <1>10 DEF Range
    <2>2. {sl} \cup {} = {0} /\ Range(bs) \cup {} = {1}
      BY <1>8, <2>1
    <2> QED
      BY <1>6, <2>2
  <1> QED
    BY <1>2, <1>3, <1>7, <1>8, <1>10, <1>11, <1>12, <1>13 DEF BetweenParameters

\* The function gets its next parameter.
LEMMA FollowsNext ==
    ASSUME NEW r, NEW F, HeapOK(F), NEW A, NEW cur, Follows(r, F, A, <<>>, cur, {}, {}),
           cur < Len(F[Len(F)].params)
    PROVE  Follows(r, F, A, <<Visit(F[Len(F)].params[cur + 1])>>, cur + 1, {}, {})
  <1>1. PICK D, rest : Mirrors(r, F, A, D, rest, <<>>, cur, {}, {})
    BY DEF Follows
  <1>2. PICK ns, us : r.nodes = ns /\ us = F[Len(F)].params
    OBVIOUS
  <1>3. /\ r.slot = 0 /\ r.blocks = <<1>> /\ A[1] = Len(F) /\ cur \in Nat
        /\ Len(F) \in 1..Len(F) /\ F[Len(F)].id = "block" /\ Len(ns[1].params) = cur
        /\ 1 \in 1..Len(ns)
    <2>1. BetweenParameters(r, F, A, cur)
      BY FollowsNothing
    <2> QED
      BY <1>2, <2>1 DEF BetweenParameters
  <1>4. Mirror(ns, <<1>>, 0, F, A, D, rest, <<>>, cur, {}, {})
    BY <1>1, <1>2, <1>3 DEF Mirrors
  <1>5. Len(<<1>>) = 1 /\ <<1>>[1] = 1 /\ \A l \in 1..1 : l = 1
    OBVIOUS
  <1>6. Owes(1, D, rest)
    BY <1>4, <1>5 DEF Mirror
  <1>7. Len(us) \in Nat /\ \A i \in 1..Len(us) : us[i] \in 1..Len(F)
    BY <1>2, <1>3, BlockShape
  <1>8. cur + 1 \in 1..Len(us) /\ us[cur + 1] \in Nat /\ cur + 1 \in Nat /\ cur + 1 <= Len(us)
    BY <1>2, <1>3, <1>7
  <1>9. PICK v, E, more : v = <<Visit(us[cur + 1])>> /\ E = [D EXCEPT ![1] = v] /\ more = [rest EXCEPT ![1] = v]
    OBVIOUS
  <1>10. Owes(1, E, more) /\ E[1] = v /\ more[1] = v
    <2>1. Owes(1, [D EXCEPT ![1] = <<Visit(us[cur + 1])>>], [rest EXCEPT ![1] = <<Visit(us[cur + 1])>>])
      BY <1>6, <1>8, OwesNext
    <2>2. DOMAIN D = Nat /\ DOMAIN rest = Nat
      BY <1>6 DEF Owes
    <2> QED
      BY <1>9, <2>1, <2>2
  <1>11. v = Due(us, cur, cur + 1)
    <2>1. PICK c : c = cur + 1 /\ c \in Nat
      BY <1>8
    <2>2. \A i \in 1..c : us[i] \in Nat
      BY <1>7, <1>8, <2>1
    <2>3. (cur + 1) - cur = 1
      BY <1>3
    <2>4. Due(us, cur, cur + 1) = [i \in 1..1 |-> Visit(us[cur + i])]
      BY <2>3 DEF Due
    <2>5. \A i \in 1..1 : i = 1
      OBVIOUS
    <2>6. [i \in 1..1 |-> Visit(us[cur + i])] = <<Visit(us[cur + 1])>>
      BY <2>5
    <2> QED
      BY <1>9, <2>4, <2>6
  <1>12. more[1] = Lacking(ns[1], F[A[1]], 1, cur + 1)
    BY <1>2, <1>3, <1>10, <1>11 DEF Lacking
  <1>13. Mirror(ns, <<1>>, 0, F, A, E, more, v, cur + 1, {}, {})
    <2>1. Laid(F, A, ns, {0} \cup {}, Range(<<1>>) \cup {}) /\ Opened(F, A, <<1>>, Len(ns))
      BY <1>4 DEF Mirror
    <2>2. cur + 1 <= Len(F[Len(F)].params) /\ Len(ns[1].params) <= cur + 1
      BY <1>2, <1>3, <1>8
    <2>3. \A l \in 1..1 : more[l] = Lacking(ns[<<1>>[l]], F[A[<<1>>[l]]], l, cur + 1)
      BY <1>5, <1>12
    <2> QED
      BY <1>3, <1>5, <1>8, <1>10, <2>1, <2>2, <2>3 DEF Mirror
  <1>14. Mirrors(r, F, A, E, more, v, cur + 1, {}, {})
    BY <1>1, <1>2, <1>3, <1>13 DEF Mirrors
  <1> QED
    BY <1>2, <1>9, <1>14 DEF Follows

\* The reader starts with the function.
LEMMA FollowsStart ==
    ASSUME NEW F, HeapOK(F), Len(F) \in 1..Len(F), F[Len(F)].id = "block", NEW nm
    PROVE  \E A : Follows(State(nm, <<Block(<<>>)>>, <<1>>, 0, <<>>), F, A, <<>>, 0, {}, {})
  <1>1. PICK A, D, rest, ns, us, r :
          /\ A = [p \in Nat |-> Len(F)] /\ D = [l \in Nat |-> <<>>] /\ rest = [l \in Nat |-> <<>>]
          /\ ns = <<Block(<<>>)>> /\ us = F[Len(F)].params /\ r = State(nm, ns, <<1>>, 0, <<>>)
    OBVIOUS
  <1>2. /\ IsReader(r) /\ r.nodes = ns /\ r.blocks = <<1>> /\ r.slot = 0
    BY <1>1, StateIs
  <1>3. Len(us) \in Nat
    BY <1>1, BlockShape
  <1>4. IsList(ns) /\ Len(ns) = 1 /\ ns[1] = Block(<<>>) /\ \A p \in 1..1 : p = 1
    BY <1>1, ListOne
  <1>5. Len(F) \in Nat
    BY DEF HeapOK
  <1>6. A \in Places /\ A[1] = Len(F)
    BY <1>1, <1>5 DEF Places
  <1>7. Block(<<>>).params = <<>> /\ Len(<<>>) = 0 /\ <<>> \in Seq(1..1)
    BY DEF Block
  <1>8. Laid(F, A, ns, {0} \cup {}, Range(<<1>>) \cup {})
    <2>1. F[Len(F)].id \notin Composite /\ F[Len(F)].id \notin {"primitive", "structure"}
      BY DEF Composite
    <2>2. 1 \in Range(<<1>>) \cup {}
      BY DEF Range
    <2>3. NodeLaid(1, A, Block(<<>>), F[Len(F)], 1, {0} \cup {}, Range(<<1>>) \cup {})
      <3>1. Len(Block(<<>>).params) = 0 /\ Len(Block(<<>>).params) <= Len(F[Len(F)].params)
        BY <1>1, <1>3, <1>7
      <3>2. \A i \in 1..Len(Block(<<>>).params) : FALSE
        BY <3>1
      <3>3. Block(<<>>) = Block(Block(<<>>).params) /\ Block(<<>>).params \in Seq(1..1)
        BY <1>7
      <3> QED
        BY <2>1, <2>2, <3>1, <3>2, <3>3 DEF NodeLaid
    <2> QED
      BY <1>4, <1>6, <2>3 DEF Laid
  <1>9. Opened(F, A, <<1>>, Len(ns))
    BY <1>4, <1>6 DEF Opened
  <1>10. Owes(1, D, rest) /\ D[1] = <<>> /\ rest[1] = <<>>
    <2>1. <<>> \in Seq(Stacked) /\ <<>> \in Seq(Visits)
      OBVIOUS
    <2>2. D \in [Nat -> Seq(Stacked)] /\ rest \in [Nat -> Seq(Visits)] /\ D[1] = <<>> /\ rest[1] = <<>>
      BY <1>1, <2>1
    <2>3. 1 \in Nat \ {0} /\ \A l \in 1..1 : ~(l > 1)
      OBVIOUS
    <2>4. Owes(1, D, rest)
      BY <2>2, <2>3, Zenon DEF Owes
    <2> QED
      BY <2>2, <2>4
  <1>11. Lacking(ns[1], F[A[1]], 1, 0) = <<>>
    <2>1. Lacking(ns[1], F[A[1]], 1, 0) = Due(us, 0, 0)
      BY <1>1, <1>4, <1>6, <1>7 DEF Lacking
    <2> QED
      BY <2>1 DEF Due
  <1>12. Mirror(ns, <<1>>, 0, F, A, D, rest, <<>>, 0, {}, {})
    <2>1. Len(<<1>>) = 1 /\ <<1>>[1] = 1 /\ \A l \in 1..1 : l = 1
      OBVIOUS
    <2>2. Len(ns[1].params) <= 0 /\ 0 <= Len(F[Len(F)].params) /\ 0 \in Nat
      BY <1>1, <1>3, <1>4, <1>7
    <2>3. \A l \in 1..1 : rest[l] = Lacking(ns[<<1>>[l]], F[A[<<1>>[l]]], l, 0)
      BY <1>10, <1>11, <2>1
    <2> QED
      BY <1>6, <1>8, <1>9, <1>10, <2>1, <2>2, <2>3 DEF Mirror
  <1>13. Mirrors(r, F, A, D, rest, <<>>, 0, {}, {})
    BY <1>2, <1>12 DEF Mirrors
  <1> QED
    BY <1>1, <1>13 DEF Follows

-----------------------------------------------------------------------------
\* The words and what is read of them

\* The nodes a back reference can mean stand for the types that have the numbers.
KnownFor(r, A, subs, next) ==
    /\ IsList(r.known) /\ Len(r.known) = next
    /\ \A a \in DOMAIN subs : /\ subs[a] \in 0..(next - 1) /\ r.known[subs[a] + 1] \in 1..Len(r.nodes)
                              /\ A[r.known[subs[a] + 1]] = a

\* The numbers once a has the next.
Numbered(subs, a, next) == [b \in DOMAIN subs \cup {a} |-> IF b = a THEN next ELSE subs[b]]

\* The reader has read what was written so far, and knows what has a number.
Simulates(r, F, td, cur, subs, next) == \E A : Follows(r, F, A, td, cur, {}, {}) /\ KnownFor(r, A, subs, next)

LEMMA FollowsShape ==
    ASSUME NEW r, NEW F, HeapOK(F), NEW A, NEW td, NEW cur, NEW X, NEW Y, Follows(r, F, A, td, cur, X, Y)
    PROVE  /\ IsReader(r) /\ IsList(r.nodes) /\ Len(r.nodes) \in Nat /\ A \in Places
           /\ r.slot = 0 \/ r.slot \in 1..Len(r.nodes)
           /\ Place(r) \in 1..Len(r.nodes)
  <1>1. PICK D, rest : Mirrors(r, F, A, D, rest, td, cur, X, Y)
    BY DEF Follows
  <1>2. r.slot = 0 \/ r.slot \in 1..Len(r.nodes)
    BY <1>1 DEF Mirrors, Mirror
  <1>3. IsReader(r) /\ IsList(r.nodes) /\ Len(r.nodes) \in Nat /\ A \in Places
    BY <1>1, MirrorShape
  <1>4. Place(r) \in 1..Len(r.nodes)
    BY <1>1, MirrorShape
  <1> QED
    BY <1>2, <1>3, <1>4

\* What the reader knows does not matter to what it lays out.
LEMMA FollowsSame ==
    ASSUME NEW r, NEW F, NEW A, NEW td, NEW cur, NEW X, NEW Y, Follows(r, F, A, td, cur, X, Y),
           NEW q, IsReader(q), q.nodes = r.nodes, q.blocks = r.blocks, q.slot = r.slot
    PROVE  Follows(q, F, A, td, cur, X, Y)
  <1>1. PICK D, rest : Mirrors(r, F, A, D, rest, td, cur, X, Y)
    BY DEF Follows
  <1>2. Mirrors(q, F, A, D, rest, td, cur, X, Y)
    BY <1>1 DEF Mirrors
  <1> QED
    BY <1>2 DEF Follows

\* What is known stays known when nodes are added.
LEMMA KnownKept ==
    ASSUME NEW r, NEW A, NEW subs, NEW next \in Nat, KnownFor(r, A, subs, next),
           NEW q, q.known = r.known, NEW n \in Nat, n = Len(r.nodes), n <= Len(q.nodes), Len(q.nodes) \in Nat,
           NEW B, \A p \in 1..n : B[p] = A[p]
    PROVE  KnownFor(q, B, subs, next)
  <1>1. PICK ks, m : ks = r.known /\ m = Len(q.nodes)
    OBVIOUS
  <1>2. IsList(ks) /\ Len(ks) = next
    BY <1>1 DEF KnownFor
  <1>3. \A a \in DOMAIN subs : subs[a] \in 0..(next - 1) /\ ks[subs[a] + 1] \in 1..n /\ A[ks[subs[a] + 1]] = a
    BY <1>1 DEF KnownFor
  <1>4. n <= m /\ m \in Nat
    BY <1>1
  <1>5. \A p \in 1..n : p \in 1..m
    BY <1>4
  <1>6. \A a \in DOMAIN subs : subs[a] \in 0..(next - 1) /\ ks[subs[a] + 1] \in 1..m /\ B[ks[subs[a] + 1]] = a
    BY <1>3, <1>5
  <1> QED
    BY <1>1, <1>2, <1>6 DEF KnownFor

\* The next node is known by the next number.
LEMMA KnownNew ==
    ASSUME NEW r, NEW A, NEW subs, NEW next \in Nat, KnownFor(r, A, subs, next),
           NEW n \in Nat, n = Len(r.nodes), NEW q, q.known = Append(r.known, n + 1), Len(q.nodes) = n + 1,
           NEW B, NEW a, Extended(A, n + 1, a, B)
    PROVE  KnownFor(q, B, Numbered(subs, a, next), next + 1)
  <1>1. PICK ks, js, k, s : ks = r.known /\ js = Append(ks, k) /\ k = n + 1 /\ s = Numbered(subs, a, next)
    OBVIOUS
  <1>2. IsList(ks) /\ Len(ks) = next
    BY <1>1 DEF KnownFor
  <1>3. \A b \in DOMAIN subs : subs[b] \in 0..(next - 1) /\ ks[subs[b] + 1] \in 1..n /\ A[ks[subs[b] + 1]] = b
    BY <1>1 DEF KnownFor
  <1>4. IsList(js) /\ Len(js) = next + 1 /\ js[next + 1] = k /\ \A i \in 1..next : js[i] = ks[i]
    BY <1>1, <1>2, ListAppend
  <1>5. B[k] = a /\ \A p \in 1..n : B[p] = A[p]
    <2>1. (n + 1) - 1 = n
      OBVIOUS
    <2> QED
      BY <1>1, <2>1 DEF Extended
  <1>6. /\ DOMAIN s = DOMAIN subs \cup {a} /\ s[a] = next /\ \A b \in DOMAIN subs : b # a => s[b] = subs[b]
    BY <1>1 DEF Numbered
  <1>7. ASSUME NEW b \in DOMAIN s
        PROVE  s[b] \in 0..next /\ js[s[b] + 1] \in 1..k /\ B[js[s[b] + 1]] = b
    <2>1. CASE b = a
      <3>1. k \in 1..k /\ next \in 0..next
        BY <1>1
      <3> QED
        BY <1>4, <1>5, <1>6, <2>1, <3>1
    <2>2. CASE b # a
      <3>1. b \in DOMAIN subs /\ s[b] = subs[b]
        BY <1>6, <2>2
      <3>2. PICK i : i = subs[b]
        OBVIOUS
      <3>3. i \in 0..(next - 1) /\ ks[i + 1] \in 1..n /\ A[ks[i + 1]] = b
        BY <1>3, <3>1, <3>2
      <3>4. i \in 0..next /\ i + 1 \in 1..next /\ \A p \in 1..n : p \in 1..k
        BY <1>1, <3>3
      <3> QED
        BY <1>4, <1>5, <3>1, <3>2, <3>3, <3>4
    <2> QED
      BY <2>1, <2>2
  <1>8. q.known = js /\ Len(q.nodes) = k /\ (next + 1) - 1 = next
    BY <1>1
  <1> QED
    BY <1>1, <1>4, <1>7, <1>8 DEF KnownFor

LEMMA KnowIs ==
    ASSUME NEW r, IsReader(r)
    PROVE  /\ IsReader(Know(r)) /\ Know(r).name = r.name /\ Know(r).nodes = r.nodes /\ Know(r).blocks = r.blocks
           /\ Know(r).slot = r.slot /\ Know(r).known = Append(r.known, Len(r.nodes) + 1)
  <1>1. PICK q, ks : q = Know(r) /\ ks = Append(r.known, Len(r.nodes) + 1)
    OBVIOUS
  <1>2. q = [r EXCEPT !.known = ks]
    BY <1>1 DEF Know
  <1>3. q = State(r.name, r.nodes, r.blocks, r.slot, ks)
    BY <1>2, StateChanges
  <1>4. IsReader(q) /\ q.name = r.name /\ q.nodes = r.nodes /\ q.blocks = r.blocks /\ q.slot = r.slot /\ q.known = ks
    BY <1>3, StateIs
  <1> QED
    BY <1>1, <1>4

-----------------------------------------------------------------------------
\* Each word carries the simulation on

\* Once the next node is laid out for a, the numbers are as they should be.
WillKnow(r, A, a, subs, next) ==
    \A B, q : Extended(A, Len(r.nodes) + 1, a, B) /\ q.known = r.known /\ Len(q.nodes) = Len(r.nodes) + 1
              => KnownFor(q, B, subs, next)

\* A type that gets no number.
LEMMA WillKnowOld ==
    ASSUME NEW r, IsList(r.nodes), NEW A, NEW subs, NEW next \in Nat, KnownFor(r, A, subs, next), NEW a
    PROVE  WillKnow(r, A, a, subs, next)
  <1>1. PICK n \in Nat : n = Len(r.nodes)
    BY ListShape
  <1>2. ASSUME NEW B, NEW q, Extended(A, n + 1, a, B), q.known = r.known, Len(q.nodes) = n + 1
        PROVE  KnownFor(q, B, subs, next)
    <2>1. \A p \in 1..n : B[p] = A[p]
      <3>1. (n + 1) - 1 = n
        OBVIOUS
      <3> QED
        BY <1>2, <3>1 DEF Extended
    <2>2. n <= Len(q.nodes) /\ Len(q.nodes) \in Nat
      BY <1>2
    <2> QED
      BY <1>1, <1>2, <2>1, <2>2, KnownKept
  <1> QED
    BY <1>1, <1>2 DEF WillKnow

\* A type that gets the next number.
LEMMA WillKnowNew ==
    ASSUME NEW r, IsReader(r), IsList(r.nodes), NEW A, NEW subs, NEW next \in Nat, KnownFor(r, A, subs, next), NEW a
    PROVE  WillKnow(Know(r), A, a, Numbered(subs, a, next), next + 1)
  <1>1. PICK n \in Nat : n = Len(r.nodes)
    BY ListShape
  <1>2. Know(r).nodes = r.nodes /\ Know(r).known = Append(r.known, n + 1)
    BY <1>1, KnowIs
  <1>3. ASSUME NEW B, NEW q, Extended(A, n + 1, a, B), q.known = Append(r.known, n + 1), Len(q.nodes) = n + 1
        PROVE  KnownFor(q, B, Numbered(subs, a, next), next + 1)
    BY <1>1, <1>3, KnownNew
  <1> QED
    BY <1>1, <1>2, <1>3 DEF WillKnow

\* However the types are laid out, a node of its own is one for the type t.
Lays(k, node, t, X, Y) == \A B : NodeLaid(k, B, node, t, k, X, Y)

\* The reader q has begun node k for the type a.
BegunFor(q, r, F, td, cur, a, k, X, Y, node, subs, next) ==
    \E B : /\ Follows(q, F, B, Tail(td), cur, X, Y) /\ Begun(r, node, q)
           /\ B[k] = a /\ KnownFor(q, B, subs, next)

\* Where the next type to be read is a.
Awaits(r, F, A, td, cur, a, subs, next) ==
    /\ HeapOK(F) /\ Follows(r, F, A, td, cur, {}, {}) /\ a \in 1..Len(F) /\ WillKnow(r, A, a, subs, next)
    /\ td # <<>> /\ Head(td) = Visit(a)

\* The next node, before its own part or parameters.
LEMMA Begins ==
    ASSUME NEW r, NEW F, NEW A, NEW td, NEW cur, NEW a, NEW subs, NEW next,
           Awaits(r, F, A, td, cur, a, subs, next),
           NEW k \in Nat, k = Len(r.nodes) + 1, NEW X, NEW Y, X \subseteq {k}, Y \subseteq {k},
           NEW node, Lays(k, node, F[a], X, Y)
    PROVE  BegunFor(Begin(r, node), r, F, td, cur, a, k, X, Y, node, subs, next)
  <1>0. HeapOK(F) /\ Follows(r, F, A, td, cur, {}, {}) /\ a \in 1..Len(F) /\ td # <<>> /\ Head(td) = Visit(a)
    BY DEF Awaits
  <1>1. A \in Places /\ Len(r.nodes) \in Nat
    BY <1>0, FollowsShape
  <1>2. a \in Nat
    BY <1>0
  <1>3. PICK B : Extended(A, k, a, B)
    BY <1>1, <1>2, ExtendedIs
  <1>4. Follows(Begin(r, node), F, B, Tail(td), cur, X, Y) /\ Begun(r, node, Begin(r, node))
    <2>1. NodeLaid(k, B, node, F[a], k, X, Y)
      BY DEF Lays
    <2> QED
      BY <1>0, <1>3, <2>1, FollowsBegin
  <1>5. KnownFor(Begin(r, node), B, subs, next)
    <2>1. PICK q : q = Begin(r, node)
      OBVIOUS
    <2>2. q.known = r.known /\ Len(q.nodes) = Len(r.nodes) + 1
      BY <1>4, <2>1 DEF Begun
    <2>3. KnownFor(q, B, subs, next)
      BY <1>3, <2>2 DEF Awaits, WillKnow
    <2> QED
      BY <2>1, <2>3
  <1>6. B[k] = a
    BY <1>3 DEF Extended
  <1> QED
    BY <1>4, <1>5, <1>6 DEF BegunFor

\* A type with no part.
LEMMA SimulatesLeaf ==
    ASSUME NEW r, NEW F, NEW A, NEW td, NEW cur, NEW a, NEW subs, NEW next,
           Awaits(r, F, A, td, cur, a, subs, next),
           F[a].id \in {"primitive", "structure"}
    PROVE  Simulates(Begin(r, F[a]), F, Tail(td), cur, subs, next) /\ Begin(r, F[a]).name = r.name
  <1>1. PICK k, node : k = Len(r.nodes) + 1 /\ node = F[a]
    OBVIOUS
  <1>2. k \in Nat /\ HeapOK(F) /\ Follows(r, F, A, td, cur, {}, {}) /\ a \in 1..Len(F)
    <2>1. HeapOK(F) /\ Follows(r, F, A, td, cur, {}, {}) /\ a \in 1..Len(F)
      BY DEF Awaits
    <2> QED
      BY <1>1, <2>1, FollowsShape
  <1>3. Lays(k, node, F[a], {}, {})
    BY <1>1 DEF Lays, NodeLaid, Composite
  <1>4. PICK B : /\ Follows(Begin(r, node), F, B, Tail(td), cur, {}, {}) /\ Begun(r, node, Begin(r, node))
                 /\ B[k] = a /\ KnownFor(Begin(r, node), B, subs, next)
    <2>1. BegunFor(Begin(r, node), r, F, td, cur, a, k, {}, {}, node, subs, next)
      BY <1>1, <1>2, <1>3, Begins
    <2> QED
      BY <2>1 DEF BegunFor
  <1>5. Simulates(Begin(r, node), F, Tail(td), cur, subs, next)
    BY <1>4 DEF Simulates
  <1>6. Begin(r, node).name = r.name
    BY <1>4 DEF Begun
  <1> QED
    BY <1>1, <1>5, <1>6

\* Of the words read on from r.
Carries(q, r, F, td, cur, subs, next) == Simulates(q, F, td, cur, subs, next) /\ q.name = r.name

\* A type whose part comes next.
LEMMA SimulatesWhole ==
    ASSUME NEW r, NEW F, NEW A, NEW td, NEW cur, NEW a, NEW subs, NEW next,
           Awaits(r, F, A, td, cur, a, subs, next),
           F[a].id \in Composite, NEW node, node = Part(F[a], 0), NEW out, out = <<Visit(F[a].of)>> \o Tail(td)
    PROVE  Carries(BeginWhole(r, node), r, F, out, cur, subs, next)
  <1>1. PICK k : k = Len(r.nodes) + 1
    OBVIOUS
  <1>2. k \in Nat /\ HeapOK(F) /\ Follows(r, F, A, td, cur, {}, {}) /\ a \in 1..Len(F)
    <2>1. HeapOK(F) /\ Follows(r, F, A, td, cur, {}, {}) /\ a \in 1..Len(F)
      BY DEF Awaits
    <2> QED
      BY <1>1, <2>1, FollowsShape
  <1>3. Lays(k, node, F[a], {k}, {})
    <2>1. F[a].id # "block" /\ F[a].id \notin {"primitive", "structure"} /\ k \in {k}
      BY DEF Composite
    <2> QED
      BY <2>1 DEF Lays, NodeLaid
  <1>4. PICK B, q : /\ q = Begin(r, node) /\ Follows(q, F, B, Tail(td), cur, {k}, {}) /\ Begun(r, node, q)
                    /\ B[k] = a /\ KnownFor(q, B, subs, next)
    <2>1. {k} \subseteq {k} /\ {} \subseteq {k}
      OBVIOUS
    <2>2. BegunFor(Begin(r, node), r, F, td, cur, a, k, {k}, {}, node, subs, next)
      BY <1>1, <1>2, <1>3, <2>1, Begins
    <2> QED
      BY <2>2 DEF BegunFor
  <1>5. /\ IsReader(q) /\ q.name = r.name /\ q.slot = 0 /\ Len(q.nodes) = k /\ k \in 1..Len(q.nodes)
    BY <1>1, <1>2, <1>4 DEF Begun
  <1>6. PICK w : w = [q EXCEPT !.slot = k]
    OBVIOUS
  <1>7. Follows(w, F, B, out, cur, {}, {})
    BY <1>2, <1>4, <1>5, <1>6, FollowsWhole
  <1>8. w.name = q.name /\ w.nodes = q.nodes /\ w.known = q.known
    <2>1. w = State(q.name, q.nodes, q.blocks, k, q.known)
      BY <1>5, <1>6, StateChanges
    <2> QED
      BY <2>1, StateIs
  <1>9. KnownFor(w, B, subs, next)
    BY <1>4, <1>8 DEF KnownFor
  <1>10. w = BeginWhole(r, node)
    BY <1>1, <1>4, <1>6 DEF BeginWhole
  <1>11. Simulates(w, F, out, cur, subs, next)
    BY <1>7, <1>9 DEF Simulates
  <1> QED
    BY <1>5, <1>8, <1>10, <1>11 DEF Carries

\* A block.
LEMMA SimulatesBlock ==
    ASSUME NEW r, NEW F, NEW A, NEW td, NEW cur, NEW a, NEW subs, NEW next,
           Awaits(r, F, A, td, cur, a, subs, next),
           F[a].id = "block"
    PROVE  /\ Simulates(BeginBlock(r), F, (Due(F[a].params, 0, Len(F[a].params)) \o <<End>>) \o Tail(td), cur, subs, next)
           /\ BeginBlock(r).name = r.name
  <1>1. PICK k, node : k = Len(r.nodes) + 1 /\ node = Block(<<>>)
    OBVIOUS
  <1>2. k \in Nat /\ HeapOK(F) /\ Follows(r, F, A, td, cur, {}, {}) /\ a \in 1..Len(F)
    <2>1. HeapOK(F) /\ Follows(r, F, A, td, cur, {}, {}) /\ a \in 1..Len(F)
      BY DEF Awaits
    <2> QED
      BY <1>1, <2>1, FollowsShape
  <1>3. Lays(k, node, F[a], {}, {k})
    <2>1. F[a].id \notin Composite /\ F[a].id \notin {"primitive", "structure"} /\ k \in {k}
      BY DEF Composite
    <2>2. node.params = <<>> /\ node = Block(node.params) /\ Len(node.params) = 0 /\ node.params \in Seq(1..k)
      BY <1>1 DEF Block
    <2>3. Len(F[a].params) \in Nat
      BY <1>2, BlockShape
    <2>4. Len(node.params) <= Len(F[a].params) /\ \A i \in 1..Len(node.params) : FALSE
      BY <2>2, <2>3
    <2> QED
      BY <2>1, <2>2, <2>4 DEF Lays, NodeLaid
  <1>4. PICK B, q : /\ q = Begin(r, node) /\ Follows(q, F, B, Tail(td), cur, {}, {k}) /\ Begun(r, node, q)
                    /\ B[k] = a /\ KnownFor(q, B, subs, next)
    <2>1. {k} \subseteq {k} /\ {} \subseteq {k}
      OBVIOUS
    <2>2. BegunFor(Begin(r, node), r, F, td, cur, a, k, {}, {k}, node, subs, next)
      BY <1>1, <1>2, <1>3, <2>1, Begins
    <2> QED
      BY <2>2 DEF BegunFor
  <1>5. /\ IsReader(q) /\ q.name = r.name /\ q.slot = 0 /\ Len(q.nodes) = k /\ k \in 1..Len(q.nodes)
        /\ q.nodes[k] = node /\ k \notin Range(q.blocks)
    BY <1>1, <1>2, <1>4 DEF Begun
  <1>6. PICK w : w = [q EXCEPT !.blocks = Append(@, k)]
    OBVIOUS
  <1>7. Len(q.nodes[k].params) = 0
    BY <1>1, <1>5 DEF Block
  <1>8. PICK out : out = (Due(F[a].params, 0, Len(F[a].params)) \o <<End>>) \o Tail(td)
    OBVIOUS
  <1>9. Follows(w, F, B, out, cur, {}, {})
    BY <1>2, <1>4, <1>5, <1>6, <1>7, <1>8, FollowsBlock
  <1>10. w.name = q.name /\ w.nodes = q.nodes /\ w.known = q.known
    <2>1. PICK cs : cs = Append(q.blocks, k)
      OBVIOUS
    <2>2. w = [q EXCEPT !.blocks = cs]
      BY <1>6, <2>1
    <2>3. w = State(q.name, q.nodes, cs, q.slot, q.known)
      BY <1>5, <2>2, StateChanges
    <2> QED
      BY <2>3, StateIs
  <1>11. KnownFor(w, B, subs, next)
    BY <1>4, <1>10 DEF KnownFor
  <1>12. w = BeginBlock(r)
    BY <1>1, <1>4, <1>6 DEF BeginBlock
  <1>13. Simulates(w, F, out, cur, subs, next)
    BY <1>9, <1>11 DEF Simulates
  <1> QED
    BY <1>5, <1>8, <1>10, <1>12, <1>13

\* A back reference.
LEMMA SimulatesKnown ==
    ASSUME NEW r, NEW F, HeapOK(F), NEW td, NEW cur, NEW subs, NEW next \in Nat, Simulates(r, F, td, cur, subs, next),
           NEW a \in DOMAIN subs, td # <<>>, Head(td) = Visit(a)
    PROVE  /\ Simulates(ReadWord(r, <<"S", SeqIdDigits(subs[a])>>), F, Tail(td), cur, subs, next)
           /\ ReadWord(r, <<"S", SeqIdDigits(subs[a])>>).name = r.name
  <1>1. PICK A : Follows(r, F, A, td, cur, {}, {}) /\ KnownFor(r, A, subs, next)
    BY DEF Simulates
  <1>2. PICK i, k, q, d : i = subs[a] /\ k = r.known[i + 1] /\ q = Put(r, k) /\ d = SeqIdDigits(i)
    OBVIOUS
  <1>3. i \in Nat /\ i < Len(r.known) /\ k \in 1..Len(r.nodes) /\ A[k] = a
    BY <1>1, <1>2 DEF KnownFor
  <1>4. Number(d) = i
    BY <1>2, <1>3, DigitsRead
  <1>5. ReadWord(r, <<"S", d>>) = q
    <2>1. PICK w : w = <<"S", d>>
      OBVIOUS
    <2>2. w[1] = "S" /\ w[2] = d
      BY <2>1
    <2>3. ReadWord(r, w) = Put(r, IF Number(w[2]) < Len(r.known) THEN r.known[Number(w[2]) + 1] ELSE 0)
      BY <2>2 DEF ReadWord
    <2> QED
      BY <1>2, <1>3, <1>4, <2>1, <2>2, <2>3
  <1>6. Follows(q, F, A, Tail(td), cur, {}, {}) /\ Placed(r, k, q)
    <2>1. r.slot \notin {}
      OBVIOUS
    <2> QED
      BY <1>1, <1>2, <1>3, <2>1, FollowsPut
  <1>7. q.known = r.known /\ Len(q.nodes) = Len(r.nodes) /\ q.name = r.name
    BY <1>6 DEF Placed
  <1>8. KnownFor(q, A, subs, next)
    BY <1>1, <1>7 DEF KnownFor
  <1>9. Simulates(q, F, Tail(td), cur, subs, next)
    BY <1>6, <1>8 DEF Simulates
  <1> QED
    BY <1>2, <1>5, <1>7, <1>9

\* The end of a block.
LEMMA SimulatesEnd ==
    ASSUME NEW r, NEW F, HeapOK(F), NEW td, NEW cur, NEW subs, NEW next, Simulates(r, F, td, cur, subs, next),
           td # <<>>, Head(td) = End
    PROVE  /\ Simulates(ReadWord(r, End.word), F, Tail(td), cur, subs, next)
           /\ ReadWord(r, End.word).name = r.name
  <1>1. PICK A : Follows(r, F, A, td, cur, {}, {}) /\ KnownFor(r, A, subs, next)
    BY DEF Simulates
  <1>2. PICK q : q = [r EXCEPT !.blocks = Front(@)]
    OBVIOUS
  <1>3. ReadWord(r, End.word) = q
    <2>1. PICK w : w = End.word
      OBVIOUS
    <2>2. w[1] = "E"
      BY <2>1, ItemShape
    <2> QED
      BY <1>2, <2>1, <2>2 DEF ReadWord
  <1>4. Follows(q, F, A, Tail(td), cur, {}, {})
    BY <1>1, <1>2, FollowsEnd
  <1>5. q.known = r.known /\ q.nodes = r.nodes /\ q.name = r.name
    <2>1. IsReader(r)
      BY <1>1, FollowsShape
    <2>2. PICK bs : bs = Front(r.blocks)
      OBVIOUS
    <2>3. q = [r EXCEPT !.blocks = bs]
      BY <1>2, <2>2
    <2>4. q = State(r.name, r.nodes, bs, r.slot, r.known)
      BY <2>1, <2>3, StateChanges
    <2> QED
      BY <2>4, StateIs
  <1>6. KnownFor(q, A, subs, next)
    BY <1>1, <1>5 DEF KnownFor
  <1>7. Simulates(q, F, Tail(td), cur, subs, next)
    BY <1>4, <1>6 DEF Simulates
  <1> QED
    BY <1>3, <1>5, <1>7

\* What a word begins.
LEMMA WordBegins ==
    /\ \A r, p : ReadWord(r, <<"b", p>>) = Begin(r, Primitive(PrimitiveNames[PlaceIn(mangledTypes, p)]))
    /\ \A r, s : ReadWord(r, <<"n", s>>) = Begin(Know(r), UserDefined(s))
    /\ \A r, n : ReadWord(r, <<"Dv", n>>) = BeginWhole(r, Vector(0, n))
    /\ \A r : ReadWord(r, <<"U7_Atomic">>) = BeginWhole(r, Atomic(0))
    /\ \A r : ReadWord(r, <<"U13block_pointerFv">>) = BeginBlock(r)
    /\ \A r : ReadWord(r, <<"P">>) = BeginWhole(Know(r), PointerTo(0))
  <1>1. ASSUME NEW r, NEW p
        PROVE  ReadWord(r, <<"b", p>>) = Begin(r, Primitive(PrimitiveNames[PlaceIn(mangledTypes, p)]))
    BY DEF ReadWord
  <1>2. ASSUME NEW r, NEW s PROVE ReadWord(r, <<"n", s>>) = Begin(Know(r), UserDefined(s))
    BY DEF ReadWord
  <1>3. ASSUME NEW r, NEW n PROVE ReadWord(r, <<"Dv", n>>) = BeginWhole(r, Vector(0, n))
    BY DEF ReadWord
  <1>4. ASSUME NEW r PROVE ReadWord(r, <<"U7_Atomic">>) = BeginWhole(r, Atomic(0))
    BY DEF ReadWord
  <1>5. ASSUME NEW r PROVE ReadWord(r, <<"U13block_pointerFv">>) = BeginBlock(r)
    BY DEF ReadWord
  <1>6. ASSUME NEW r PROVE ReadWord(r, <<"P">>) = BeginWhole(Know(r), PointerTo(0))
    BY DEF ReadWord
  <1> QED
    BY <1>1, <1>2, <1>3, <1>4, <1>5, <1>6

\* The type on top of the stack is read next, without a number
LEMMA AwaitsOld ==
    ASSUME NEW r, NEW F, HeapOK(F), NEW td, NEW cur, NEW subs, NEW next \in Nat, Simulates(r, F, td, cur, subs, next),
           NEW a \in 1..Len(F), td # <<>>, Head(td) = Visit(a)
    PROVE  \E A : Awaits(r, F, A, td, cur, a, subs, next)
  <1>1. PICK A : Follows(r, F, A, td, cur, {}, {}) /\ KnownFor(r, A, subs, next)
    BY DEF Simulates
  <1>2. IsList(r.nodes)
    BY <1>1, FollowsShape
  <1>3. WillKnow(r, A, a, subs, next)
    BY <1>1, <1>2, WillKnowOld
  <1> QED
    BY <1>1, <1>3 DEF Awaits

\* or with one.
LEMMA AwaitsNew ==
    ASSUME NEW r, NEW F, HeapOK(F), NEW td, NEW cur, NEW subs, NEW next \in Nat, Simulates(r, F, td, cur, subs, next),
           NEW a \in 1..Len(F), td # <<>>, Head(td) = Visit(a)
    PROVE  /\ \E A : Awaits(Know(r), F, A, td, cur, a, Numbered(subs, a, next), next + 1)
           /\ Know(r).name = r.name
  <1>1. PICK A : Follows(r, F, A, td, cur, {}, {}) /\ KnownFor(r, A, subs, next)
    BY DEF Simulates
  <1>2. IsReader(r) /\ IsList(r.nodes)
    BY <1>1, FollowsShape
  <1>3. WillKnow(Know(r), A, a, Numbered(subs, a, next), next + 1)
    BY <1>1, <1>2, WillKnowNew
  <1>4. PICK q : q = Know(r)
    OBVIOUS
  <1>5. IsReader(q) /\ q.name = r.name /\ q.nodes = r.nodes /\ q.blocks = r.blocks /\ q.slot = r.slot
    BY <1>2, <1>4, KnowIs
  <1>6. Follows(q, F, A, td, cur, {}, {})
    BY <1>1, <1>5, FollowsSame
  <1>7. Awaits(q, F, A, td, cur, a, Numbered(subs, a, next), next + 1)
    BY <1>3, <1>4, <1>6 DEF Awaits
  <1> QED
    BY <1>4, <1>5, <1>7

\* What the word of a node without numbers does.
ReadsPlain(r, F, a, td, cur, subs, next) ==
    /\ F[a].id = "primitive" =>
         /\ Simulates(ReadWord(r, <<"b", mangledPrimitiveString(F[a].prim)>>), F, td, cur, subs, next)
         /\ ReadWord(r, <<"b", mangledPrimitiveString(F[a].prim)>>).name = r.name
    /\ F[a].id = "vector" =>
         /\ Simulates(ReadWord(r, <<"Dv", F[a].len>>), F, <<Visit(F[a].of)>> \o td, cur, subs, next)
         /\ ReadWord(r, <<"Dv", F[a].len>>).name = r.name
    /\ F[a].id = "atomic" =>
         /\ Simulates(ReadWord(r, <<"U7_Atomic">>), F, <<Visit(F[a].of)>> \o td, cur, subs, next)
         /\ ReadWord(r, <<"U7_Atomic">>).name = r.name
    /\ F[a].id = "block" =>
         /\ Simulates(ReadWord(r, <<"U13block_pointerFv">>), F,
                      (Due(F[a].params, 0, Len(F[a].params)) \o <<End>>) \o td, cur, subs, next)
         /\ ReadWord(r, <<"U13block_pointerFv">>).name = r.name

\* Such a word carries on the simulation.
LEMMA SimulatesPlain ==
    ASSUME NEW r, NEW F, HeapOK(F), NEW td, NEW cur, NEW subs, NEW next \in Nat, Simulates(r, F, td, cur, subs, next),
           NEW a \in 1..Len(F), td # <<>>, Head(td) = Visit(a)
    PROVE  ReadsPlain(r, F, a, Tail(td), cur, subs, next)
  <1>1. PICK A : Awaits(r, F, A, td, cur, a, subs, next)
    BY AwaitsOld
  <1>0. ASSUME NEW node, node = Part(F[a], 0), F[a].id \in Composite
        PROVE  /\ Simulates(BeginWhole(r, node), F, <<Visit(F[a].of)>> \o Tail(td), cur, subs, next)
               /\ BeginWhole(r, node).name = r.name
    <2>1. Awaits(r, F, A, td, cur, a, subs, next) /\ F[a].id \in Composite /\ node = Part(F[a], 0)
      BY <1>0, <1>1
    <2>2. PICK out : out = <<Visit(F[a].of)>> \o Tail(td)
      OBVIOUS
    <2>3. Carries(BeginWhole(r, node), r, F, out, cur, subs, next)
      BY <2>1, <2>2, SimulatesWhole
    <2> QED
      BY <2>2, <2>3 DEF Carries
  <1>2. CASE F[a].id = "primitive"
    <2>1. PICK p, q : p = F[a].prim /\ q = ReadWord(r, <<"b", mangledPrimitiveString(p)>>)
      OBVIOUS
    <2>2. F[a] = Primitive(p) /\ p \in Range(PrimitiveNames)
      BY <1>2, <2>1, NodeShape
    <2>3. q = Begin(r, F[a])
      BY <2>1, <2>2, WordBegins, PrimitiveRead
    <2>4. F[a].id \in {"primitive", "structure"}
      BY <1>2
    <2>5. Simulates(q, F, Tail(td), cur, subs, next) /\ q.name = r.name
      BY <1>1, <2>3, <2>4, SimulatesLeaf
    <2> QED
      BY <1>2, <2>1, <2>5 DEF ReadsPlain
  <1>3. CASE F[a].id = "vector"
    <2>1. PICK l, q, node : l = F[a].len /\ q = ReadWord(r, <<"Dv", l>>) /\ node = Vector(0, l)
      OBVIOUS
    <2>2. F[a] = Vector(F[a].of, l) /\ F[a].id \in Composite
      BY <1>3, <2>1, NodeShape DEF Composite
    <2>3. node = Part(F[a], 0)
      BY <2>1, <2>2 DEF Part, Vector
    <2>4. q = BeginWhole(r, node)
      BY <2>1, WordBegins
    <2>5. Simulates(q, F, <<Visit(F[a].of)>> \o Tail(td), cur, subs, next) /\ q.name = r.name
      BY <1>0, <2>2, <2>3, <2>4
    <2> QED
      BY <1>3, <2>1, <2>5 DEF ReadsPlain
  <1>4. CASE F[a].id = "atomic"
    <2>1. PICK q, node : q = ReadWord(r, <<"U7_Atomic">>) /\ node = Atomic(0)
      OBVIOUS
    <2>2. F[a] = Atomic(F[a].of)
      BY <1>4, NodeShape
    <2>3. node = Part(F[a], 0)
      BY <2>1, <2>2 DEF Part, Atomic
    <2>4. q = BeginWhole(r, node)
      BY <2>1, WordBegins
    <2>5. Simulates(q, F, <<Visit(F[a].of)>> \o Tail(td), cur, subs, next) /\ q.name = r.name
      <3>1. F[a].id \in Composite
        BY <1>4 DEF Composite
      <3> QED
        BY <1>0, <2>3, <2>4, <3>1
    <2> QED
      BY <1>4, <2>1, <2>5 DEF ReadsPlain
  <1>5. CASE F[a].id = "block"
    <2>1. PICK q : q = ReadWord(r, <<"U13block_pointerFv">>)
      OBVIOUS
    <2>2. q = BeginBlock(r)
      BY <2>1, WordBegins
    <2>3. /\ Simulates(q, F, (Due(F[a].params, 0, Len(F[a].params)) \o <<End>>) \o Tail(td), cur, subs, next)
          /\ q.name = r.name
      BY <1>1, <1>5, <2>2, SimulatesBlock
    <2> QED
      BY <1>5, <2>1, <2>3 DEF ReadsPlain
  <1> QED
    BY <1>2, <1>3, <1>4, <1>5 DEF ReadsPlain

\* A structure met for the first time.
LEMMA SimulatesStructure ==
    ASSUME NEW r, NEW F, HeapOK(F), NEW td, NEW cur, NEW subs, NEW next \in Nat, Simulates(r, F, td, cur, subs, next),
           NEW a \in 1..Len(F), td # <<>>, Head(td) = Visit(a), F[a].id = "structure"
    PROVE  /\ Simulates(ReadWord(r, <<"n", F[a].name>>), F, Tail(td), cur, Numbered(subs, a, next), next + 1)
           /\ ReadWord(r, <<"n", F[a].name>>).name = r.name
  <1>1. PICK s, q : s = F[a].name /\ q = ReadWord(r, <<"n", s>>)
    OBVIOUS
  <1>2. PICK A : Awaits(Know(r), F, A, td, cur, a, Numbered(subs, a, next), next + 1)
    BY AwaitsNew
  <1>3. Know(r).name = r.name
    BY AwaitsNew
  <1>4. F[a] = UserDefined(s) /\ F[a].id \in {"primitive", "structure"}
    BY <1>1, NodeShape
  <1>5. q = Begin(Know(r), F[a])
    BY <1>1, <1>4, WordBegins
  <1>6. Simulates(q, F, Tail(td), cur, Numbered(subs, a, next), next + 1) /\ q.name = Know(r).name
    BY <1>2, <1>4, <1>5, SimulatesLeaf
  <1> QED
    BY <1>1, <1>3, <1>6

\* The two ways a list can be given are one.
LEMMA ListSame ==
    ASSUME NEW s, IsList(s), NEW t, IsList(t), Len(s) = Len(t), \A i \in 1..Len(s) : s[i] = t[i]
    PROVE  s = t
  <1>1. PICK n : n = Len(s) /\ n = Len(t)
    OBVIOUS
  <1>2. s = [i \in 1..n |-> s[i]] /\ t = [i \in 1..n |-> t[i]]
    BY <1>1, ListShape
  <1>3. \A i \in 1..n : s[i] = t[i]
    BY <1>1
  <1> QED
    BY <1>2, <1>3

\* The reader once x is begun at k and its part comes next.
IsWhole(r, k, x, q) ==
    /\ q = State(r.name, q.nodes, r.blocks, k, r.known) /\ IsList(q.nodes) /\ Len(q.nodes) = k /\ q.nodes[k] = x
    /\ \A p \in 1..(k - 1) : q.nodes[p] = IF p = Place(r) THEN Got(r, k) ELSE r.nodes[p]

\* That is what the reader does.
LEMMA WholeIs ==
    ASSUME NEW r, IsReader(r), IsList(r.nodes), Place(r) \in 1..Len(r.nodes), NEW x,
           NEW k \in Nat, k = Len(r.nodes) + 1
    PROVE  IsWhole(r, k, x, BeginWhole(r, x))
  <1>1. PICK ms, s, q, w : /\ ms = Append(r.nodes, x) /\ s = State(r.name, ms, r.blocks, r.slot, r.known)
                           /\ q = Put(s, k) /\ w = BeginWhole(r, x)
    OBVIOUS
  <1>2. Len(r.nodes) \in Nat /\ k \in 1..k /\ k - 1 = Len(r.nodes)
    BY ListShape
  <1>3. IsList(ms) /\ Len(ms) = k /\ ms[k] = x /\ \A i \in 1..(k - 1) : ms[i] = r.nodes[i]
    BY <1>1, <1>2, ListAppend
  <1>4. IsReader(s) /\ s.name = r.name /\ s.nodes = ms /\ s.blocks = r.blocks /\ s.slot = r.slot /\ s.known = r.known
    <2>1. s = State(r.name, ms, r.blocks, r.slot, r.known)
      BY <1>1
    <2> QED
      BY <2>1, StateIs
  <1>5. Place(s) = Place(r) /\ Place(r) \in 1..(k - 1) /\ Place(s) \in 1..Len(s.nodes) /\ Place(r) # k
    BY <1>2, <1>3, <1>4 DEF Place
  <1>6. Got(s, k) = Got(r, k)
    <2>1. ms[Place(r)] = r.nodes[Place(r)]
      BY <1>3, <1>5
    <2> QED
      BY <1>4, <2>1 DEF Got, Place
  <1>7. Placed(s, k, q)
    BY <1>1, <1>3, <1>4, <1>5, PutIs
  <1>8. q = Begin(r, x)
    <2>1. s = [r EXCEPT !.nodes = ms]
      BY <1>1, StateChanges
    <2> QED
      BY <1>1, <2>1 DEF Begin
  <1>9. w = State(r.name, q.nodes, r.blocks, k, r.known)
    <2>1. IsReader(q) /\ q.name = r.name /\ q.blocks = r.blocks /\ q.known = r.known
      BY <1>4, <1>7 DEF Placed
    <2>2. w = [q EXCEPT !.slot = k]
      BY <1>1, <1>8 DEF BeginWhole
    <2>3. w = State(q.name, q.nodes, q.blocks, k, q.known)
      BY <2>1, <2>2, StateChanges
    <2> QED
      BY <2>1, <2>3
  <1>10. w.nodes = q.nodes
    BY <1>9, StateIs
  <1>11. IsList(q.nodes) /\ Len(q.nodes) = k /\ q.nodes[k] = x
    <2>1. IsList(q.nodes) /\ Len(q.nodes) = k
      BY <1>3, <1>4, <1>7 DEF Placed
    <2>2. q.nodes[k] = s.nodes[k]
      BY <1>2, <1>3, <1>4, <1>5, <1>7 DEF Placed
    <2> QED
      BY <1>3, <1>4, <2>1, <2>2
  <1>12. ASSUME NEW p \in 1..(k - 1)
         PROVE  q.nodes[p] = IF p = Place(r) THEN Got(r, k) ELSE r.nodes[p]
    <2>1. CASE p = Place(r)
      BY <1>5, <1>6, <1>7, <2>1 DEF Placed
    <2>2. CASE p # Place(r)
      <3>1. p \in 1..Len(s.nodes) /\ s.nodes[p] = r.nodes[p]
        BY <1>2, <1>3, <1>4
      <3>2. q.nodes[p] = s.nodes[p]
        BY <1>5, <1>7, <2>2, <3>1 DEF Placed
      <3> QED
        BY <2>2, <3>1, <3>2
    <2> QED
      BY <2>1, <2>2
  <1>13. IsWhole(r, k, x, w)
    BY <1>9, <1>10, <1>11, <1>12 DEF IsWhole
  <1> QED
    BY <1>1, <1>13

\* There is one such reader.
LEMMA WholeOne ==
    ASSUME NEW r, NEW k \in Nat \ {0}, NEW x, NEW q, IsWhole(r, k, x, q), NEW w, IsWhole(r, k, x, w)
    PROVE  q = w
  <1>1. PICK ns, ms : ns = q.nodes /\ ms = w.nodes
    OBVIOUS
  <1>2. IsList(ns) /\ IsList(ms) /\ Len(ns) = k /\ Len(ms) = k
    BY <1>1 DEF IsWhole
  <1>3. ASSUME NEW i \in 1..k PROVE ns[i] = ms[i]
    <2>1. CASE i = k
      BY <1>1, <2>1 DEF IsWhole
    <2>2. CASE i # k
      <3>1. i \in 1..(k - 1)
        BY <2>2
      <3> QED
        BY <1>1, <3>1 DEF IsWhole
    <2> QED
      BY <2>1, <2>2
  <1>4. ns = ms
    BY <1>2, <1>3, ListSame
  <1> QED
    BY <1>1, <1>4 DEF IsWhole

\* Writing over the node that was begun last.
LEMMA WholeChanges ==
    ASSUME NEW r, NEW k \in Nat \ {0}, NEW x, NEW q, IsWhole(r, k, x, q), NEW y,
           NEW ms, ms = [q.nodes EXCEPT ![k] = y], NEW w, w = State(q.name, ms, q.blocks, q.slot, q.known)
    PROVE  IsWhole(r, k, y, w)
  <1>1. PICK ns : ns = q.nodes /\ ms = [ns EXCEPT ![k] = y]
    OBVIOUS
  <1>2. /\ IsList(ns) /\ Len(ns) = k /\ k \in 1..k
        /\ \A p \in 1..(k - 1) : ns[p] = IF p = Place(r) THEN Got(r, k) ELSE r.nodes[p]
    BY <1>1 DEF IsWhole
  <1>3. /\ IsList(ms) /\ Len(ms) = k /\ ms[k] = y
        /\ \A p \in 1..(k - 1) : ms[p] = ns[p]
    BY <1>1, <1>2, ListExcept
  <1>4. w = State(r.name, ms, r.blocks, k, r.known)
    <2>1. q = State(r.name, ns, r.blocks, k, r.known)
      BY <1>1 DEF IsWhole
    <2>2. IsReader(q) /\ q.name = r.name /\ q.blocks = r.blocks /\ q.slot = k /\ q.known = r.known
      BY <2>1, StateIs
    <2> QED
      BY <2>2
  <1>5. w.nodes = ms
    BY <1>4, StateIs
  <1> QED
    BY <1>2, <1>3, <1>4, <1>5 DEF IsWhole

\* The word of a qualifier or of an address space, where it is written.
QualifierWord(n, q) == IF q \in n.quals THEN <<<<"q", getMangledAttribute(q)>>>> ELSE <<>>
SpaceWord(n) == IF getMangledAttribute(n.space) = "" THEN <<>> ELSE <<<<"as", getMangledAttribute(n.space)>>>>

\* The words of a pointer are the qualifiers and then the address space.
LEMMA AttributesAre ==
    ASSUME NEW n
    PROVE  Attributes(n) = ((QualifierWord(n, "restrict") \o QualifierWord(n, "volatile"))
                            \o QualifierWord(n, "const")) \o SpaceWord(n)
  BY DEF Attributes, QualifierWord, SpaceWord, Qualifiers

\* Writing over the node whose part comes next.
LEMMA ReadAttributes ==
    ASSUME NEW r, NEW k \in Nat \ {0}, NEW quals, NEW space, NEW q, IsWhole(r, k, Pointer(0, quals, space), q), NEW v
    PROVE  /\ IsWhole(r, k, Pointer(0, quals \cup {Attribute(v)}, space), ReadWord(q, <<"q", v>>))
           /\ IsWhole(r, k, Pointer(0, quals, Attribute(v)), ReadWord(q, <<"as", v>>))
  <1>1. PICK x, y, z, w, u, e : /\ x = Pointer(0, quals, space) /\ y = Pointer(0, quals \cup {e}, space)
                               /\ z = Pointer(0, quals, e) /\ e = Attribute(v)
                               /\ w = ReadWord(q, <<"q", v>>) /\ u = ReadWord(q, <<"as", v>>)
    OBVIOUS
  <1>2. PICK ns : ns = q.nodes
    OBVIOUS
  <1>3. q = State(r.name, ns, r.blocks, k, r.known) /\ IsList(ns) /\ Len(ns) = k /\ ns[k] = x /\ k \in 1..k
    BY <1>1, <1>2 DEF IsWhole
  <1>4. IsReader(q) /\ q.slot = k
    BY <1>3, StateIs
  <1>5. [x EXCEPT !.quals = @ \cup {e}] = y /\ [x EXCEPT !.space = e] = z
    BY <1>1 DEF Pointer
  <1>6. DOMAIN ns = 1..k
    BY <1>3, ListShape
  <1>7. w = [q EXCEPT !.nodes = [ns EXCEPT ![k] = y]]
    <2>1. w = [q EXCEPT !.nodes[k].quals = @ \cup {e}]
      BY <1>1, <1>4 DEF ReadWord
    <2>2. w = [q EXCEPT !.nodes = [ns EXCEPT ![k] = [x EXCEPT !.quals = @ \cup {e}]]]
      BY <1>2, <1>3, <1>6, <2>1
    <2> QED
      BY <1>5, <2>2
  <1>8. u = [q EXCEPT !.nodes = [ns EXCEPT ![k] = z]]
    <2>1. u = [q EXCEPT !.nodes[k].space = e]
      BY <1>1, <1>4 DEF ReadWord
    <2>2. u = [q EXCEPT !.nodes = [ns EXCEPT ![k] = [x EXCEPT !.space = e]]]
      BY <1>2, <1>3, <1>6, <2>1
    <2> QED
      BY <1>5, <2>2
  <1>9. IsWhole(r, k, x, q)
    BY <1>1
  <1>10. IsWhole(r, k, y, w)
    <2>1. PICK ms : ms = [ns EXCEPT ![k] = y]
      OBVIOUS
    <2>2. w = State(q.name, ms, q.blocks, q.slot, q.known)
      <3>1. w = [q EXCEPT !.nodes = ms]
        BY <1>7, <2>1
      <3> QED
        BY <1>4, <3>1, StateChanges
    <2> QED
      BY <1>2, <1>9, <2>1, <2>2, WholeChanges
  <1>11. IsWhole(r, k, z, u)
    <2>1. PICK ms : ms = [ns EXCEPT ![k] = z]
      OBVIOUS
    <2>2. u = State(q.name, ms, q.blocks, q.slot, q.known)
      <3>1. u = [q EXCEPT !.nodes = ms]
        BY <1>8, <2>1
      <3> QED
        BY <1>4, <3>1, StateChanges
    <2> QED
      BY <1>2, <1>9, <2>1, <2>2, WholeChanges
  <1> QED
    BY <1>1, <1>10, <1>11

\* A qualifier is read if it is written.
LEMMA ReadQualifier ==
    ASSUME NEW r, NEW k \in Nat \ {0}, NEW n, NEW quals, NEW space, NEW s, IsList(s),
           IsWhole(r, k, Pointer(0, quals, space), Demangled(s)), NEW q \in Range(Qualifiers)
    PROVE  /\ IsList(QualifierWord(n, q)) /\ IsList(s \o QualifierWord(n, q))
           /\ IsWhole(r, k, Pointer(0, quals \cup (n.quals \cap {q}), space), Demangled(s \o QualifierWord(n, q)))
  <1>1. PICK v, e : v = getMangledAttribute(q) /\ e = <<"q", v>>
    OBVIOUS
  <1>2. Attribute(v) = q
    BY <1>1, QualifierRead
  <1>3. CASE q \in n.quals
    <2>1. QualifierWord(n, q) = <<e>> /\ n.quals \cap {q} = {q}
      BY <1>1, <1>3 DEF QualifierWord
    <2>2. IsList(<<e>>) /\ IsList(s \o <<e>>) /\ Demangled(s \o <<e>>) = ReadWord(Demangled(s), e)
      BY ListOne, ReadOn
    <2>3. IsWhole(r, k, Pointer(0, quals \cup {q}, space), ReadWord(Demangled(s), e))
      BY <1>1, <1>2, ReadAttributes
    <2> QED
      BY <2>1, <2>2, <2>3
  <1>4. CASE q \notin n.quals
    <2>1. QualifierWord(n, q) = <<>> /\ quals \cup (n.quals \cap {q}) = quals
      BY <1>4 DEF QualifierWord
    <2>2. IsList(<<>>) /\ s \o <<>> = s
      BY ListOne, ListNone
    <2> QED
      BY <2>1, <2>2
  <1> QED
    BY <1>3, <1>4

\* So is an address space, and where none is written it is private.
LEMMA ReadSpace ==
    ASSUME NEW r, NEW k \in Nat \ {0}, NEW n, n.space \in Range(AddressSpaces), NEW quals, NEW s, IsList(s),
           IsWhole(r, k, Pointer(0, quals, "__private"), Demangled(s))
    PROVE  /\ IsList(SpaceWord(n)) /\ IsList(s \o SpaceWord(n))
           /\ IsWhole(r, k, Pointer(0, quals, n.space), Demangled(s \o SpaceWord(n)))
  <1>1. PICK v, e : v = getMangledAttribute(n.space) /\ e = <<"as", v>>
    OBVIOUS
  <1>2. Attribute(v) = n.space /\ (v = "" => n.space = "__private")
    BY <1>1, SpaceRead
  <1>3. CASE v # ""
    <2>1. SpaceWord(n) = <<e>>
      BY <1>1, <1>3 DEF SpaceWord
    <2>2. IsList(<<e>>) /\ IsList(s \o <<e>>) /\ Demangled(s \o <<e>>) = ReadWord(Demangled(s), e)
      BY ListOne, ReadOn
    <2>3. IsWhole(r, k, Pointer(0, quals, n.space), ReadWord(Demangled(s), e))
      BY <1>1, <1>2, ReadAttributes
    <2> QED
      BY <2>1, <2>2, <2>3
  <1>4. CASE v = ""
    <2>1. SpaceWord(n) = <<>> /\ n.space = "__private"
      BY <1>1, <1>2, <1>4 DEF SpaceWord
    <2>2. IsList(<<>>) /\ s \o <<>> = s
      BY ListOne, ListNone
    <2> QED
      BY <2>1, <2>2
  <1> QED
    BY <1>3, <1>4

\* Lists one after the other, however they are put together.
Associates(s, t, u) == (s \o t) \o u = s \o (t \o u)
LEMMA ListAssociates ==
    ASSUME NEW s, IsList(s), NEW t, IsList(t), NEW u, IsList(u)
    PROVE  Associates(s, t, u)
  BY ListAssociative DEF Associates

InOrder(s, e, t, u, v, w) == s \o (e \o (((t \o u) \o v) \o w)) = ((((s \o e) \o t) \o u) \o v) \o w
LEMMA ListInOrder ==
    ASSUME NEW s, IsList(s), NEW e, IsList(e), NEW t, IsList(t), NEW u, IsList(u), NEW v, IsList(v), NEW w, IsList(w)
    PROVE  InOrder(s, e, t, u, v, w)
  <1>1. IsList(t \o u) /\ IsList(s \o e)
    BY ListJoin
  <1>2. IsList((t \o u) \o v)
    BY <1>1, ListJoin
  <1>3. IsList(((t \o u) \o v) \o w)
    BY <1>2, ListJoin
  <1>4. Associates(s, e, ((t \o u) \o v) \o w)
    BY <1>3, ListAssociates
  <1>5. Associates(s \o e, (t \o u) \o v, w)
    BY <1>1, <1>2, ListAssociates
  <1>6. Associates(s \o e, t \o u, v)
    BY <1>1, ListAssociates
  <1>7. Associates(s \o e, t, u)
    BY <1>1, ListAssociates
  <1> QED
    BY <1>4, <1>5, <1>6, <1>7, Zenon DEF Associates, InOrder

\* The words of a pointer, read after s.
LEMMA ReadPointer ==
    ASSUME NEW n, n = Pointer(n.of, n.quals, n.space), n.quals \subseteq Range(Qualifiers),
           n.space \in Range(AddressSpaces),
           NEW s, IsList(s), NEW r, r = Know(Demangled(s)), IsReader(r), IsList(r.nodes),
           Place(r) \in 1..Len(r.nodes)
    PROVE  /\ IsList(s \o (<<<<"P">>>> \o Attributes(n)))
           /\ Demangled(s \o (<<<<"P">>>> \o Attributes(n))) = BeginWhole(r, Part(n, 0))
  <1>1. PICK k \in Nat \ {0} : k = Len(r.nodes) + 1
    BY ListShape
  <1>2. PICK e, w1, w2, w3, w4 : /\ e = <<<<"P">>>> /\ w1 = QualifierWord(n, "restrict")
                                 /\ w2 = QualifierWord(n, "volatile") /\ w3 = QualifierWord(n, "const")
                                 /\ w4 = SpaceWord(n)
    OBVIOUS
  <1>3. Range(Qualifiers) = {"restrict", "volatile", "const"}
    BY DEF Range, Qualifiers
  <1>4. PICK q1, q2, q3 : /\ q1 = {} \cup (n.quals \cap {"restrict"}) /\ q2 = q1 \cup (n.quals \cap {"volatile"})
                          /\ q3 = q2 \cup (n.quals \cap {"const"})
    OBVIOUS
  <1>5. q3 = n.quals
    BY <1>3, <1>4
  <1>6. PICK s0, s1, s2, s3, s4 : s0 = s \o e /\ s1 = s0 \o w1 /\ s2 = s1 \o w2 /\ s3 = s2 \o w3 /\ s4 = s3 \o w4
    OBVIOUS
  <1>7. IsList(e) /\ IsList(s0) /\ IsWhole(r, k, Pointer(0, {}, "__private"), Demangled(s0))
    <2>1. IsList(e) /\ IsList(s0) /\ Demangled(s0) = ReadWord(Demangled(s), <<"P">>)
      BY <1>2, <1>6, ListOne, ReadOn
    <2>2. Demangled(s0) = BeginWhole(r, Pointer(0, {}, "__private"))
      BY <2>1, WordBegins DEF PointerTo
    <2>3. IsWhole(r, k, Pointer(0, {}, "__private"), BeginWhole(r, Pointer(0, {}, "__private")))
      BY <1>1, WholeIs
    <2> QED
      BY <2>1, <2>2, <2>3
  <1>8. IsList(w1) /\ IsList(s1) /\ IsWhole(r, k, Pointer(0, q1, "__private"), Demangled(s1))
    <2>1. "restrict" \in Range(Qualifiers)
      BY <1>3
    <2> QED
      BY <1>2, <1>4, <1>6, <1>7, <2>1, ReadQualifier
  <1>9. IsList(w2) /\ IsList(s2) /\ IsWhole(r, k, Pointer(0, q2, "__private"), Demangled(s2))
    <2>1. "volatile" \in Range(Qualifiers)
      BY <1>3
    <2> QED
      BY <1>2, <1>4, <1>6, <1>8, <2>1, ReadQualifier
  <1>10. IsList(w3) /\ IsList(s3) /\ IsWhole(r, k, Pointer(0, q3, "__private"), Demangled(s3))
    <2>1. "const" \in Range(Qualifiers)
      BY <1>3
    <2> QED
      BY <1>2, <1>4, <1>6, <1>9, <2>1, ReadQualifier
  <1>11. IsList(w4) /\ IsList(s4) /\ IsWhole(r, k, Pointer(0, q3, n.space), Demangled(s4))
    BY <1>2, <1>6, <1>10, ReadSpace
  <1>12. Part(n, 0) = Pointer(0, q3, n.space)
    BY <1>5 DEF Part, Pointer
  <1>13. Demangled(s4) = BeginWhole(r, Part(n, 0))
    <2>1. IsWhole(r, k, Part(n, 0), BeginWhole(r, Part(n, 0)))
      BY <1>1, WholeIs
    <2>2. IsWhole(r, k, Part(n, 0), Demangled(s4))
      BY <1>11, <1>12
    <2> QED
      BY <2>1, <2>2, WholeOne
  <1>14. s \o (e \o Attributes(n)) = s4
    <2>1. Attributes(n) = ((w1 \o w2) \o w3) \o w4
      BY <1>2, AttributesAre
    <2>2. IsList(e) /\ IsList(w1) /\ IsList(w2) /\ IsList(w3) /\ IsList(w4)
      BY <1>7, <1>8, <1>9, <1>10, <1>11
    <2>3. InOrder(s, e, w1, w2, w3, w4)
      BY <2>2, ListInOrder
    <2> QED
      BY <1>6, <2>1, <2>3 DEF InOrder
  <1> QED
    BY <1>2, <1>11, <1>13, <1>14

\* A pointer met for the first time.
LEMMA SimulatesPointer ==
    ASSUME NEW s, IsList(s), NEW F, HeapOK(F), NEW td, NEW cur, NEW subs, NEW next \in Nat,
           Simulates(Demangled(s), F, td, cur, subs, next),
           NEW a \in 1..Len(F), td # <<>>, Head(td) = Visit(a), F[a].id = "pointer",
           NEW out, out = <<Visit(F[a].of)>> \o Tail(td), NEW t, t = s \o (<<<<"P">>>> \o Attributes(F[a]))
    PROVE  IsList(t) /\ Carries(Demangled(t), Demangled(s), F, out, cur, Numbered(subs, a, next), next + 1)
  <1>1. PICK r, n, sub : r = Know(Demangled(s)) /\ n = F[a] /\ sub = Numbered(subs, a, next)
    OBVIOUS
  <1>2. (\E A : Awaits(r, F, A, td, cur, a, sub, next + 1)) /\ r.name = Demangled(s).name
    BY <1>1, AwaitsNew
  <1>3. PICK A : Awaits(r, F, A, td, cur, a, sub, next + 1)
    BY <1>2
  <1>4. IsReader(r) /\ IsList(r.nodes) /\ Place(r) \in 1..Len(r.nodes)
    <2>1. Follows(r, F, A, td, cur, {}, {})
      BY <1>3 DEF Awaits
    <2> QED
      BY <2>1, FollowsShape
  <1>5. /\ n = Pointer(n.of, n.quals, n.space) /\ n.quals \subseteq Range(Qualifiers)
        /\ n.space \in Range(AddressSpaces)
    BY <1>1, NodeShape
  <1>6. PICK x : x = s \o (<<<<"P">>>> \o Attributes(n))
    OBVIOUS
  <1>7. x = t
    BY <1>1, <1>6
  <1>8. IsList(x) /\ Demangled(x) = BeginWhole(r, Part(n, 0))
    BY <1>1, <1>4, <1>5, <1>6, ReadPointer
  <1>9. Carries(BeginWhole(r, Part(n, 0)), r, F, out, cur, sub, next + 1)
    <2>1. PICK node : node = Part(n, 0)
      OBVIOUS
    <2>2. F[a].id \in Composite /\ node = Part(F[a], 0)
      BY <1>1, <2>1 DEF Composite
    <2> QED
      BY <1>3, <2>1, <2>2, SimulatesWhole
  <1>10. Carries(Demangled(t), Demangled(s), F, out, cur, sub, next + 1)
    BY <1>2, <1>7, <1>8, <1>9 DEF Carries
  <1> QED
    BY <1>1, <1>7, <1>8, <1>10

-----------------------------------------------------------------------------
\* mangle and its reader

\* While mangle runs, what is written is the part that is due of the prototype.
Reading ==
    /\ IsList(stream) /\ Demangled(stream).name = name
    /\ Simulates(Demangled(stream), Function, todo, current, m_substitutions, m_nextSeqID)
    /\ status = "MANGLE_SUCCESS" => todo = <<>> /\ current = Len(parameters)
ReadInv == status \in {"mangling", "MANGLE_SUCCESS"} => Reading

\* The function is a node after those of the heap.
LEMMA FunctionIs ==
    ASSUME TypeInv
    PROVE  /\ HeapOK(Function) /\ Len(Function) \in Nat /\ Len(Function) \in 1..Len(Function)
           /\ Function[Len(Function)].id = "block" /\ Function[Len(Function)].params = parameters
           /\ \A a \in Addresses : a \in 1..Len(Function) /\ Function[a] = heap[a]
  <1>1. PICK h, n, m : h = heap /\ n = Len(heap) /\ m = Block(parameters)
    OBVIOUS
  <1>2. HeapOK(h) /\ n \in Nat /\ parameters \in Seq(1..n) /\ n = Len(h)
    BY <1>1 DEF TypeInv, HeapOK, Addresses
  <1>3. /\ Append(h, m) = [a \in 1..(n + 1) |-> IF a = n + 1 THEN m ELSE h[a]]
        /\ Len(Append(h, m)) = n + 1
    BY <1>2, AppendIs
  <1>4. m.id = "block" /\ m.params = parameters /\ m = Block(m.params)
    BY <1>1 DEF Block
  <1>5. Function = Append(h, m)
    BY <1>1 DEF Function
  <1>6. PICK F : F = Function
    OBVIOUS
  <1>7. /\ F = Append(h, m) /\ Len(F) = n + 1 /\ F[n + 1] = m /\ \A a \in 1..n : F[a] = h[a] /\ a \in 1..(n + 1)
        /\ n + 1 \in 1..(n + 1) /\ n + 1 \in Nat
    <2>1. n + 1 \in 1..(n + 1) /\ n + 1 \in Nat
      BY <1>2
    <2>2. \A a \in 1..n : a \in 1..(n + 1) /\ a # n + 1
      BY <1>2
    <2> QED
      BY <1>3, <1>5, <1>6, <2>1, <2>2
  <1>8. HeapOK(F)
    <2>1. IsNode(F, n + 1)
      <3>1. (n + 1) - 1 = n
        BY <1>2
      <3>2. m.params \in Seq(1..n)
        BY <1>2, <1>4
      <3> QED
        BY <1>4, <1>7, <3>1, <3>2 DEF IsNode
    <2>2. IsNode(Append(h, m), Len(h) + 1)
      BY <1>2, <1>7, <2>1
    <2>3. m.id # "primitive"
      BY <1>4
    <2>4. HeapOK(Append(h, m))
      BY <1>2, <2>2, <2>3, HeapGrows
    <2> QED
      BY <1>7, <2>4
  <1> QED
    BY <1>1, <1>4, <1>6, <1>7, <1>8 DEF Addresses

\* What is written on is read on.
LEMMA EmitReads ==
    ASSUME Reading, status = "mangling", NEW words, NEW rest, Emit(words, rest), NEW s, s = stream \o words, IsList(s),
           Carries(Demangled(s), Demangled(stream), Function, rest \o Tail(todo), current, m_substitutions', m_nextSeqID')
    PROVE  Reading'
  <1>1. /\ stream' = s /\ todo' = rest \o Tail(todo) /\ heap' = heap /\ parameters' = parameters /\ name' = name
        /\ current' = current /\ status' = status
    BY DEF Emit, built
  <1>2. Function' = Function
    BY <1>1 DEF Function
  <1>3. Demangled(s).name = name /\ Simulates(Demangled(s), Function, todo', current, m_substitutions', m_nextSeqID')
    BY <1>1 DEF Carries, Reading
  <1>4. Demangled(stream)' = Demangled(s)
    BY <1>1
  <1>5. Simulates(Demangled(s), Function, todo', current, m_substitutions', m_nextSeqID')
        = Simulates(Demangled(stream)', Function', todo', current', m_substitutions', m_nextSeqID')
    BY <1>1, <1>2, <1>4
  <1> QED
    BY <1>1, <1>2, <1>3, <1>4, <1>5 DEF Reading

\* The same for one word.
LEMMA EmitReadsOne ==
    ASSUME Reading, status = "mangling", NEW w, NEW rest, Emit(<<w>>, rest), NEW q, q = ReadWord(Demangled(stream), w),
           Simulates(q, Function, rest \o Tail(todo), current, m_substitutions', m_nextSeqID'),
           q.name = Demangled(stream).name
    PROVE  Reading'
  <1>1. PICK s : s = stream \o <<w>>
    OBVIOUS
  <1>2. IsList(stream)
    BY DEF Reading
  <1>3. IsList(s) /\ Demangled(s) = q
    BY <1>1, <1>2, ReadOn
  <1>4. Carries(Demangled(s), Demangled(stream), Function, rest \o Tail(todo), current, m_substitutions', m_nextSeqID')
    BY <1>3 DEF Carries
  <1> QED
    BY <1>1, <1>3, <1>4, EmitReads

\* The item on top of the stack, as the reader meets it.
LEMMA TopReads ==
    ASSUME TypeInv, Reading, todo # <<>>
    PROVE  /\ HeapOK(Function) /\ m_nextSeqID \in Nat /\ <<>> \o Tail(todo) = Tail(todo)
           /\ Simulates(Demangled(stream), Function, todo, current, m_substitutions, m_nextSeqID)
           /\ Head(todo).visit => Top \in 1..Len(Function) /\ Function[Top] = Node /\ Head(todo) = Visit(Top)
           /\ ~Head(todo).visit => Head(todo) = End
  <1>1. /\ Tail(todo) \in Seq(Items(heap))
        /\ Head(todo).visit => Top \in Addresses /\ Head(todo) = Visit(Top)
        /\ ~Head(todo).visit => Head(todo) = End
    BY TopShape
  <1>2. <<>> \o Tail(todo) = Tail(todo)
    <2>1. IsList(Tail(todo))
      BY <1>1 DEF IsList
    <2> QED
      BY <2>1, ListNone
  <1>3. HeapOK(Function) /\ \A a \in Addresses : a \in 1..Len(Function) /\ Function[a] = heap[a]
    BY FunctionIs
  <1>4. m_nextSeqID \in Nat
    BY DEF TypeInv
  <1>5. Simulates(Demangled(stream), Function, todo, current, m_substitutions, m_nextSeqID)
    BY DEF Reading
  <1> QED
    BY <1>1, <1>2, <1>3, <1>4, <1>5 DEF Node

LEMMA NumberedIs ==
    ASSUME addSubstitution
    PROVE  m_substitutions' = Numbered(m_substitutions, Top, m_nextSeqID) /\ m_nextSeqID' = m_nextSeqID + 1
  BY DEF addSubstitution, Numbered

\* Each visit writes what the reader takes for the same type.
LEMMA KnownReads ==
    ASSUME TypeInv, Reading, NEW id, mangleSubstitution(id)
    PROVE  Reading'
  <1>1. /\ status = "mangling" /\ todo # <<>> /\ Head(todo).visit /\ Top \in DOMAIN m_substitutions
        /\ Emit(<<<<"S", SeqIdDigits(m_substitutions[Top])>>>>, <<>>)
        /\ m_substitutions' = m_substitutions /\ m_nextSeqID' = m_nextSeqID
    BY DEF mangleSubstitution, Accepting, Known, NoNumber
  <1>2. PICK r, w, q, F, a, subs, next, out :
            /\ r = Demangled(stream) /\ w = <<"S", SeqIdDigits(subs[a])>> /\ q = ReadWord(r, w) /\ F = Function
            /\ a = Top /\ subs = m_substitutions /\ next = m_nextSeqID /\ out = <<>> \o Tail(todo)
    OBVIOUS
  <1>3. /\ HeapOK(F) /\ next \in Nat /\ out = Tail(todo) /\ Simulates(r, F, todo, current, subs, next)
        /\ Head(todo) = Visit(a) /\ a \in DOMAIN subs
    BY <1>1, <1>2, TopReads
  <1>4. Simulates(q, F, out, current, subs, next) /\ q.name = r.name
    BY <1>1, <1>2, <1>3, SimulatesKnown
  <1> QED
    BY <1>1, <1>2, <1>4, EmitReadsOne

LEMMA PlainReads ==
    ASSUME TypeInv, Reading, visitPrimitive \/ visitVector \/ visitAtomic \/ visitBlock
    PROVE  Reading'
  <1>1. /\ status = "mangling" /\ todo # <<>> /\ Head(todo).visit
        /\ m_substitutions' = m_substitutions /\ m_nextSeqID' = m_nextSeqID
    BY DEF visitPrimitive, visitVector, visitAtomic, visitBlock, Accepting, NoNumber
  <1>2. PICK r, F, a, subs, next, td :
            /\ r = Demangled(stream) /\ F = Function
            /\ a = Top /\ subs = m_substitutions /\ next = m_nextSeqID /\ td = Tail(todo)
    OBVIOUS
  <1>3. /\ HeapOK(F) /\ next \in Nat /\ <<>> \o td = td /\ Simulates(r, F, todo, current, subs, next)
        /\ Head(todo) = Visit(a) /\ a \in 1..Len(F) /\ F[a] = Node
    BY <1>1, <1>2, TopReads
  <1>4. ReadsPlain(r, F, a, td, current, subs, next)
    BY <1>1, <1>2, <1>3, SimulatesPlain
  <1>5. CASE visitPrimitive
    <2>1. Node.id = "primitive" /\ Emit(<<<<"b", mangledPrimitiveString(Node.prim)>>>>, <<>>)
      BY <1>5 DEF visitPrimitive, Accepting, Node, Top
    <2> QED
      BY <1>1, <1>2, <1>3, <1>4, <2>1, EmitReadsOne DEF ReadsPlain
  <1>6. CASE visitVector
    <2>1. Node.id = "vector" /\ Emit(<<<<"Dv", Node.len>>>>, <<Visit(Node.of)>>)
      BY <1>6 DEF visitVector, Accepting, Node, Top
    <2> QED
      BY <1>1, <1>2, <1>3, <1>4, <2>1, EmitReadsOne DEF ReadsPlain
  <1>7. CASE visitAtomic
    <2>1. Node.id = "atomic" /\ Emit(<<<<"U7_Atomic">>>>, <<Visit(Node.of)>>)
      BY <1>7 DEF visitAtomic, Accepting, Node, Top
    <2> QED
      BY <1>1, <1>2, <1>3, <1>4, <2>1, EmitReadsOne DEF ReadsPlain
  <1>8. CASE visitBlock
    <2>1. PICK ps : ps = Node.params
      OBVIOUS
    <2>2. Node.id = "block" /\ Emit(<<<<"U13block_pointerFv">>>>, [i \in 1..Len(ps) |-> Visit(ps[i])] \o <<End>>)
      BY <1>8, <2>1 DEF visitBlock, Accepting, Node, Top, End
    <2>3. Due(ps, 0, Len(ps)) = [i \in 1..Len(ps) |-> Visit(ps[i])]
      <3>1. PICK n \in Nat : n = Len(ps)
        BY <1>3, <2>1, <2>2, BlockShape
      <3>2. n - 0 = n /\ \A i \in 1..n : 0 + i = i
        OBVIOUS
      <3> QED
        BY <3>1, <3>2 DEF Due
    <2>4. Emit(<<<<"U13block_pointerFv">>>>, Due(ps, 0, Len(ps)) \o <<End>>)
      BY <2>2, <2>3
    <2> QED
      BY <1>1, <1>2, <1>3, <1>4, <2>1, <2>2, <2>4, EmitReadsOne DEF ReadsPlain
  <1> QED
    BY <1>5, <1>6, <1>7, <1>8

LEMMA StructureReads ==
    ASSUME TypeInv, Reading, visitUserDefined
    PROVE  Reading'
  <1>1. CASE mangleSubstitution("structure")
    BY <1>1, KnownReads
  <1>2. CASE Accepting("structure") /\ ~Known /\ addSubstitution /\ Emit(<<<<"n", Node.name>>>>, <<>>)
    <2>1. status = "mangling" /\ todo # <<>> /\ Head(todo).visit /\ Node.id = "structure"
      BY <1>2 DEF Accepting, Node, Top
    <2>2. PICK r, w, q, F, a, subs, next, out :
              /\ r = Demangled(stream) /\ w = <<"n", F[a].name>> /\ q = ReadWord(r, w) /\ F = Function
              /\ a = Top /\ subs = m_substitutions /\ next = m_nextSeqID /\ out = <<>> \o Tail(todo)
      OBVIOUS
    <2>3. /\ HeapOK(F) /\ next \in Nat /\ out = Tail(todo) /\ Simulates(r, F, todo, current, subs, next)
          /\ Head(todo) = Visit(a) /\ a \in 1..Len(F) /\ F[a] = Node
      BY <2>1, <2>2, TopReads
    <2>4. m_substitutions' = Numbered(subs, a, next) /\ m_nextSeqID' = next + 1
      BY <1>2, <2>2, NumberedIs
    <2>5. Simulates(q, F, out, current, Numbered(subs, a, next), next + 1) /\ q.name = r.name
      BY <2>1, <2>2, <2>3, SimulatesStructure
    <2>6. Emit(<<w>>, <<>>)
      BY <1>2, <2>2, <2>3
    <2>7. Simulates(q, Function, <<>> \o Tail(todo), current, m_substitutions', m_nextSeqID')
      BY <2>2, <2>4, <2>5
    <2> QED
      BY <2>1, <2>2, <2>5, <2>6, <2>7, EmitReadsOne
  <1> QED
    BY <1>1, <1>2 DEF visitUserDefined

LEMMA PointerReads ==
    ASSUME TypeInv, Reading, visitPointer
    PROVE  Reading'
  <1>1. CASE mangleSubstitution("pointer")
    BY <1>1, KnownReads
  <1>2. CASE /\ Accepting("pointer") /\ ~Known /\ addSubstitution
             /\ Emit(<<<<"P">>>> \o Attributes(Node), <<Visit(Node.of)>>)
    <2>1. status = "mangling" /\ todo # <<>> /\ Head(todo).visit /\ Node.id = "pointer"
      BY <1>2 DEF Accepting, Node, Top
    <2>2. PICK F, a, subs, next, out, words, s, t :
              /\ F = Function /\ a = Top /\ subs = m_substitutions /\ next = m_nextSeqID
              /\ out = <<Visit(F[a].of)>> \o Tail(todo) /\ words = <<<<"P">>>> \o Attributes(F[a])
              /\ s = stream /\ t = s \o words
      OBVIOUS
    <2>3. /\ HeapOK(F) /\ next \in Nat /\ Simulates(Demangled(s), F, todo, current, subs, next)
          /\ Head(todo) = Visit(a) /\ a \in 1..Len(F) /\ F[a] = Node
      BY <2>1, <2>2, TopReads
    <2>4. m_substitutions' = Numbered(subs, a, next) /\ m_nextSeqID' = next + 1
      BY <1>2, <2>2, NumberedIs
    <2>5. IsList(s)
      BY <2>2 DEF Reading
    <2>6. F[a].id = "pointer" /\ t = s \o (<<<<"P">>>> \o Attributes(F[a]))
      BY <2>1, <2>2, <2>3
    <2>7. IsList(t) /\ Carries(Demangled(t), Demangled(s), F, out, current, Numbered(subs, a, next), next + 1)
      BY <2>1, <2>2, <2>3, <2>5, <2>6, SimulatesPointer
    <2>8. Emit(words, <<Visit(F[a].of)>>)
      BY <1>2, <2>2, <2>3
    <2>9. /\ t = stream \o words
          /\ Carries(Demangled(t), Demangled(stream), Function, <<Visit(F[a].of)>> \o Tail(todo), current,
                     m_substitutions', m_nextSeqID')
      BY <2>2, <2>4, <2>7
    <2> QED
      BY <2>1, <2>7, <2>8, <2>9, EmitReads
  <1> QED
    BY <1>1, <1>2 DEF visitPointer

LEMMA EndReads ==
    ASSUME TypeInv, Reading, WriteRest
    PROVE  Reading'
  <1>1. /\ status = "mangling" /\ todo # <<>> /\ ~Head(todo).visit
        /\ Emit(<<Head(todo).word>>, <<>>) /\ m_substitutions' = m_substitutions /\ m_nextSeqID' = m_nextSeqID
    BY DEF WriteRest, NoNumber
  <1>2. PICK r, w, q, F, subs, next, out :
            /\ r = Demangled(stream) /\ w = End.word /\ q = ReadWord(r, w) /\ F = Function
            /\ subs = m_substitutions /\ next = m_nextSeqID /\ out = <<>> \o Tail(todo)
    OBVIOUS
  <1>3. /\ HeapOK(F) /\ out = Tail(todo) /\ Simulates(r, F, todo, current, subs, next)
        /\ Head(todo) = End
    BY <1>1, <1>2, TopReads
  <1>4. Simulates(q, F, out, current, subs, next) /\ q.name = r.name
    BY <1>1, <1>2, <1>3, SimulatesEnd
  <1>5. Emit(<<w>>, <<>>)
    BY <1>1, <1>2, <1>3
  <1> QED
    BY <1>1, <1>2, <1>4, <1>5, EmitReadsOne

\* The next parameter is due, or mangle returns.
LEMMA NextReads ==
    ASSUME TypeInv, Reading, NextParameter
    PROVE  Reading'
  <1>1. /\ status = "mangling" /\ todo = <<>> /\ heap' = heap /\ parameters' = parameters /\ name' = name
        /\ stream' = stream /\ m_substitutions' = m_substitutions /\ m_nextSeqID' = m_nextSeqID
    BY DEF NextParameter, built
  <1>2. PICK r, F, subs, next : r = Demangled(stream) /\ F = Function /\ subs = m_substitutions /\ next = m_nextSeqID
    OBVIOUS
  <1>3. /\ stream' = stream /\ Function' = F /\ Demangled(stream)' = r /\ r.name = name /\ IsList(stream)
        /\ Simulates(r, F, <<>>, current, subs, next)
    BY <1>1, <1>2 DEF Reading, Function
  <1>4. HeapOK(F) /\ F[Len(F)].params = parameters
    BY <1>2, FunctionIs
  <1>5. CASE current < Len(parameters)
    <2>1. current' = current + 1 /\ todo' = <<Visit(parameters[current + 1])>> /\ status' = status
      BY <1>5 DEF NextParameter
    <2>2. PICK A : Follows(r, F, A, <<>>, current, {}, {}) /\ KnownFor(r, A, subs, next)
      BY <1>3 DEF Simulates
    <2>3. Follows(r, F, A, <<Visit(parameters[current + 1])>>, current + 1, {}, {})
      BY <1>4, <1>5, <2>2, FollowsNext
    <2>4. Simulates(r, F, todo', current', subs, next)
      BY <2>1, <2>2, <2>3 DEF Simulates
    <2> QED
      BY <1>1, <1>2, <1>3, <2>1, <2>4 DEF Reading
  <1>6. CASE ~(current < Len(parameters))
    <2>1. current' = current /\ todo' = todo
      BY <1>6 DEF NextParameter
    <2>2. current = Len(parameters)
      <3>1. Len(parameters) \in Nat
        BY ParameterShape
      <3> QED
        BY <1>6, <3>1 DEF TypeInv
    <2> QED
      BY <1>1, <1>2, <1>3, <2>1, <2>2 DEF Reading
  <1> QED
    BY <1>5, <1>6

\* A call starts with the name, and the reader with it.
LEMMA StartReads ==
    ASSUME TypeInv, NEW ver, mangle(ver), status' = "mangling"
    PROVE  Reading'
  <1>1. /\ todo' = <<>> /\ stream' = <<<<"_Z", name>>>> /\ current' = 0 /\ m_substitutions' = EmptyMap
        /\ m_nextSeqID' = 0 /\ heap' = heap /\ parameters' = parameters /\ name' = name
    BY DEF mangle
  <1>2. PICK r, F, w, e : /\ r = State(name, <<Block(<<>>)>>, <<1>>, 0, <<>>) /\ F = Function
                          /\ w = <<"_Z", name>> /\ e = <<>>
    OBVIOUS
  <1>3. r.name = name /\ r.known = <<>>
    BY <1>2, StateIs
  <1>4. IsList(e) /\ e \o <<w>> = <<w>> /\ IsList(<<w>>)
    BY <1>2, ListOne, ListNone
  <1>5. Demangled(<<w>>) = r
    <2>1. Demangled(e \o <<w>>) = ReadWord(Start, w)
      BY <1>2, <1>4, ReadOn, ReadNone
    <2>2. ReadWord(Start, w) = [Start EXCEPT !.name = name]
      BY <1>2 DEF ReadWord
    <2>3. [Start EXCEPT !.name = name] = r
      <3>1. PICK nm, ns, bs, ks : nm = "" /\ ns = <<Block(<<>>)>> /\ bs = <<1>> /\ ks = <<>>
        OBVIOUS
      <3>2. Start = State(nm, ns, bs, 0, ks)
        BY <3>1 DEF Start, State
      <3>3. [Start EXCEPT !.name = name] = State(name, ns, bs, 0, ks)
        <4>1. /\ IsReader(Start) /\ Start.nodes = ns /\ Start.blocks = bs /\ Start.slot = 0 /\ Start.known = ks
          BY <3>2, StateIs
        <4> QED
          BY <4>1, StateChanges
      <3> QED
        BY <1>2, <3>1, <3>3
    <2> QED
      BY <1>4, <2>1, <2>2, <2>3
  <1>6. /\ HeapOK(F) /\ Len(F) \in 1..Len(F) /\ F[Len(F)].id = "block"
    BY <1>2, FunctionIs
  <1>7. PICK A : Follows(r, F, A, <<>>, 0, {}, {})
    BY <1>2, <1>6, FollowsStart
  <1>8. KnownFor(r, A, EmptyMap, 0)
    <2>1. IsList(r.known) /\ Len(r.known) = 0
      BY <1>3, ListOne
    <2>2. DOMAIN EmptyMap = {}
      BY DEF EmptyMap
    <2> QED
      BY <2>1, <2>2 DEF KnownFor
  <1>9. Simulates(r, F, <<>>, 0, EmptyMap, 0)
    BY <1>7, <1>8 DEF Simulates
  <1>10. stream' = <<w>> /\ Function' = F /\ Demangled(stream)' = r
    BY <1>1, <1>2, <1>5 DEF Function
  <1>11. Simulates(Demangled(stream)', Function', todo', current', m_substitutions', m_nextSeqID')
    BY <1>1, <1>9, <1>10
  <1>12. status' # "MANGLE_SUCCESS"
    OBVIOUS
  <1> QED
    BY <1>1, <1>3, <1>4, <1>10, <1>11, <1>12 DEF Reading

LEMMA StepReads == TypeInv /\ ReadInv /\ [Next]_vars => ReadInv'
  <1> SUFFICES ASSUME TypeInv, ReadInv, [Next]_vars PROVE ReadInv'
    OBVIOUS
  <1>1. CASE \E n \in Nodes : NewType(n)
    BY <1>1 DEF NewType, ReadInv
  <1>2. CASE \E a \in Addresses : PushParameter(a)
    BY <1>2 DEF PushParameter, ReadInv
  <1>3. CASE \E ver \in {SPIR12, SPIR20} : mangle(ver)
    <2>1. PICK ver : mangle(ver)
      BY <1>3
    <2>2. status' \in {"mangling", "MANGLE_NULL_FUNC_DESCRIPTOR"}
      BY <2>1 DEF mangle
    <2> QED
      BY <2>1, <2>2, StartReads DEF ReadInv
  <1>4. CASE NextParameter
    <2>1. status = "mangling"
      BY <1>4 DEF NextParameter
    <2> QED
      BY <1>4, <2>1, NextReads DEF ReadInv
  <1>5. CASE Refuse
    BY <1>5 DEF Refuse, ReadInv
  <1>6. CASE Visitor \/ WriteRest
    <2>1. status = "mangling"
      BY <1>6 DEF Visitor, WriteRest, visitPrimitive, visitVector, visitAtomic, visitBlock, visitPointer,
                  visitUserDefined, mangleSubstitution, Accepting
    <2>2. Reading
      BY <2>1 DEF ReadInv
    <2>3. Reading'
      BY <1>6, <2>2, PlainReads, PointerReads, StructureReads, EndReads DEF Visitor
    <2> QED
      BY <2>3 DEF ReadInv
  <1>7. CASE UNCHANGED vars
    <2>1. /\ status' = status /\ stream' = stream /\ name' = name /\ heap' = heap /\ parameters' = parameters
          /\ todo' = todo /\ current' = current /\ m_substitutions' = m_substitutions /\ m_nextSeqID' = m_nextSeqID
      BY <1>7 DEF vars
    <2> QED
      BY <2>1 DEF ReadInv, Reading, Function
  <1> QED
    BY <1>1, <1>2, <1>3, <1>4, <1>5, <1>6, <1>7 DEF Next, Running

LEMMA InitReads == Init => ReadInv
  BY DEF Init, ReadInv

-----------------------------------------------------------------------------
\* The types of the nodes

\* The type of each kind of node.
LEMMA TypeOfIs ==
    ASSUME NEW n, NEW f
    PROVE  /\ n.id \in Composite => TypeOf(n, f) = Part(n, f[n.of])
           /\ n.id \in {"primitive", "structure"} => TypeOf(n, f) = n
           /\ \A ps : n = Block(ps) => TypeOf(n, f) = Block([i \in 1..Len(ps) |-> f[ps[i]]])
  <1>1. n.id \in Composite => TypeOf(n, f) = Part(n, f[n.of])
    BY DEF TypeOf, Composite, Part
  <1>2. n.id \in {"primitive", "structure"} => TypeOf(n, f) = n
    BY DEF TypeOf
  <1>3. ASSUME NEW ps, n = Block(ps)
        PROVE  TypeOf(n, f) = Block([i \in 1..Len(ps) |-> f[ps[i]]])
    <2>1. PICK ts : ts = [i \in 1..Len(ps) |-> f[ps[i]]]
      OBVIOUS
    <2>2. n.id = "block" /\ n.params = ps /\ [n EXCEPT !.params = ts] = Block(ts)
      BY <1>3 DEF Block
    <2>3. TypeOf(n, f) = [n EXCEPT !.params = [i \in 1..Len(n.params) |-> f[n.params[i]]]]
      BY <2>2 DEF TypeOf
    <2> QED
      BY <2>1, <2>2, <2>3
  <1> QED
    BY <1>1, <1>2, <1>3

\* Only the parts of a node matter to its type.
LEMMA TypeOfLocal ==
    ASSUME NEW h, HeapOK(h), NEW a \in 1..Len(h), NEW u, NEW v, \A c \in 1..(a - 1) : u[c] = v[c]
    PROVE  TypeOf(h[a], u) = TypeOf(h[a], v)
  <1>1. PICK n : n = h[a]
    OBVIOUS
  <1>2. CASE n.id \in Composite
    <2>1. n.of \in 1..(a - 1)
      BY <1>1, <1>2, CompositeIs
    <2> QED
      BY <1>1, <1>2, <2>1, TypeOfIs
  <1>3. CASE n.id = "block"
    <2>1. PICK ps : ps = n.params
      OBVIOUS
    <2>2. n = Block(ps) /\ Len(ps) \in Nat /\ \A i \in 1..Len(ps) : ps[i] \in 1..(a - 1)
      BY <1>1, <1>3, <2>1, BlockShape
    <2>3. [i \in 1..Len(ps) |-> u[ps[i]]] = [i \in 1..Len(ps) |-> v[ps[i]]]
      BY <2>2
    <2>4. /\ TypeOf(n, u) = Block([i \in 1..Len(ps) |-> u[ps[i]]])
          /\ TypeOf(n, v) = Block([i \in 1..Len(ps) |-> v[ps[i]]])
      BY <2>2, TypeOfIs
    <2> QED
      BY <1>1, <2>3, <2>4
  <1>4. CASE n.id \in {"primitive", "structure"}
    BY <1>1, <1>4, TypeOfIs
  <1> QED
    BY <1>1, <1>2, <1>3, <1>4, CompositeIs

\* The type of an address is made of the types of its parts.
LEMMA TypesAre ==
    ASSUME NEW h, HeapOK(h)
    PROVE  \A a \in 1..Len(h) : TypeAt(h)[a] = TypeOf(h[a], TypeAt(h))
  <1> DEFINE Rec(f) == f = [a \in 1..Len(h) |-> TypeOf(h[a], f)]
             Upto(f, m) == \A a \in 1..m : f[a] = TypeOf(h[a], f)
             S == {m \in Nat : m <= Len(h) => \E f : Upto(f, m)}
  <1>0. Len(h) \in Nat
    BY DEF HeapOK
  <1>1. 0 \in S
    OBVIOUS
  <1>2. ASSUME NEW m \in Nat, m \in S PROVE m + 1 \in S
    <2> SUFFICES ASSUME m + 1 <= Len(h) PROVE \E f : Upto(f, m + 1)
      OBVIOUS
    <2>1. PICK f : Upto(f, m)
      BY <1>0, <1>2
    <2> DEFINE g == [a \in 1..(m + 1) |-> IF a = m + 1 THEN TypeOf(h[m + 1], f) ELSE f[a]]
    <2>2. \A a \in 1..m : g[a] = f[a]
      OBVIOUS
    <2>3. g[m + 1] = TypeOf(h[m + 1], f)
      OBVIOUS
    <2> HIDE DEF g
    <2>4. ASSUME NEW a \in 1..(m + 1) PROVE g[a] = TypeOf(h[a], g)
      <3>1. a \in 1..Len(h) /\ \A c \in 1..(a - 1) : g[c] = f[c]
        BY <1>0, <2>2
      <3>2. TypeOf(h[a], g) = TypeOf(h[a], f)
        BY <3>1, TypeOfLocal
      <3>3. g[a] = TypeOf(h[a], f)
        BY <2>1, <2>2, <2>3
      <3> QED
        BY <3>2, <3>3
    <2>5. Upto(g, m + 1)
      BY <2>4
    <2> QED
      BY <2>5
  <1> HIDE DEF S
  <1>3. Len(h) \in S
    BY <1>0, <1>1, <1>2, NatSetInduction
  <1>4. PICK f : Upto(f, Len(h))
    BY <1>0, <1>3 DEF S
  <1> DEFINE g == [a \in 1..Len(h) |-> f[a]]
  <1>5. Rec(g)
    <2>1. \A a \in 1..Len(h) : g[a] = f[a]
      OBVIOUS
    <2>2. g = [a \in 1..Len(h) |-> g[a]]
      OBVIOUS
    <2> HIDE DEF g
    <2>3. ASSUME NEW a \in 1..Len(h) PROVE g[a] = TypeOf(h[a], g)
      <3>1. \A c \in 1..(a - 1) : g[c] = f[c]
        BY <1>0, <2>1
      <3>2. TypeOf(h[a], g) = TypeOf(h[a], f)
        BY <3>1, TypeOfLocal
      <3> QED
        BY <1>4, <2>1, <3>2
    <2> QED
      BY <2>2, <2>3
  <1> DEFINE X == CHOOSE e : Rec(e)
  <1>6. Rec(X)
    <2> HIDE DEF Rec
    <2> QED
      BY <1>5
  <1>7. TypeAt(h) = X
    BY DEF TypeAt
  <1> HIDE DEF X
  <1> QED
    BY <1>6, <1>7

\* The types as far down as d, from those one less far down.
Row(nodes, below, d) == [n \in 0..Len(nodes) |-> IF d = 0 \/ n = 0 THEN UserDefined("?") ELSE TypeOf(nodes[n], below)]
Rows(f, nodes, depth) == f = [d \in 0..depth |-> Row(nodes, f[d - 1], d)]

\* The recursion on the depth defines the rows.
LEMMA RowsExist ==
    ASSUME NEW nodes, NEW depth \in Nat
    PROVE  \E f : Rows(f, nodes, depth)
  <1> DEFINE S == {m \in Nat : m <= depth => \E f : Rows(f, nodes, m)}
  <1>0. \A b, c : Row(nodes, b, 0) = Row(nodes, c, 0)
    BY DEF Row
  <1>1. 0 \in S
    <2> DEFINE f == [d \in 0..0 |-> Row(nodes, 0, 0)]
    <2>1. f = [d \in 0..0 |-> f[d]] /\ \A d \in 0..0 : d = 0 /\ f[d] = Row(nodes, 0, 0)
      OBVIOUS
    <2> HIDE DEF f
    <2>2. \A d \in 0..0 : f[d] = Row(nodes, f[d - 1], d)
      BY <1>0, <2>1
    <2>3. Rows(f, nodes, 0)
      BY <2>1, <2>2 DEF Rows
    <2> QED
      BY <2>3
  <1>2. ASSUME NEW m \in Nat, m \in S PROVE m + 1 \in S
    <2> SUFFICES ASSUME m + 1 <= depth PROVE \E f : Rows(f, nodes, m + 1)
      OBVIOUS
    <2>1. PICK f : Rows(f, nodes, m)
      BY <1>2
    <2> DEFINE g == [d \in 0..(m + 1) |-> IF d = m + 1 THEN Row(nodes, f[m], m + 1) ELSE f[d]]
    <2>2. \A d \in 0..m : f[d] = Row(nodes, f[d - 1], d)
      BY <2>1 DEF Rows
    <2>3. /\ g = [d \in 0..(m + 1) |-> g[d]]
          /\ g[m + 1] = Row(nodes, f[m], m + 1)
          /\ \A d \in 0..m : g[d] = f[d]
      OBVIOUS
    <2> HIDE DEF g
    <2>4. \A d \in 0..(m + 1) : g[d] = Row(nodes, g[d - 1], d)
      <3> SUFFICES ASSUME NEW d \in 0..(m + 1) PROVE g[d] = Row(nodes, g[d - 1], d)
        OBVIOUS
      <3>1. CASE d = 0
        <4>1. 0 \in 0..m
          OBVIOUS
        <4> QED
          BY <1>0, <2>2, <2>3, <3>1, <4>1
      <3>2. CASE d \in 1..m
        <4>1. d \in 0..m /\ d - 1 \in 0..m
          BY <3>2
        <4> QED
          BY <2>2, <2>3, <4>1
      <3>3. CASE d = m + 1
        <4>1. d - 1 = m /\ m \in 0..m
          BY <3>3
        <4> QED
          BY <2>3, <3>3, <4>1
      <3> QED
        BY <3>1, <3>2, <3>3
    <2>5. Rows(g, nodes, m + 1)
      BY <2>3, <2>4, Zenon DEF Rows
    <2> QED
      BY <2>5
  <1> HIDE DEF S
  <1>3. depth \in S
    BY <1>1, <1>2, NatSetInduction
  <1> QED
    BY <1>3 DEF S

LEMMA TypesReadAre ==
    ASSUME NEW nodes, NEW depth \in Nat
    PROVE  \E f : Rows(f, nodes, depth) /\ TypesRead(nodes, depth) = f[depth]
  <1> DEFINE X == CHOOSE f : Rows(f, nodes, depth)
  <1>1. \E f : Rows(f, nodes, depth)
    BY RowsExist
  <1>2. Rows(X, nodes, depth)
    BY <1>1
  <1>3. TypesRead(nodes, depth) = X[depth]
    BY DEF TypesRead, Rows, Row
  <1> HIDE DEF X
  <1> QED
    BY <1>2, <1>3

\* A node that is laid out completely has the type of what it stands for, once its parts do.
Complete(N, A, n, t) ==
    /\ t.id \in Composite => n = Part(t, n.of) /\ n.of \in 1..N /\ A[n.of] = t.of
    /\ t.id = "block" => /\ n = Block(n.params) /\ n.params \in Seq(1..N) /\ Len(n.params) = Len(t.params)
                         /\ \A i \in 1..Len(n.params) : A[n.params[i]] = t.params[i]
    /\ t.id \in {"primitive", "structure"} => n = t

\* The parts that stand for what is before a have the types of it; all nodes are complete.
PartsTyped(N, A, a, T, below) == \A p \in 1..N : A[p] \in 1..(a - 1) => below[p] = T[A[p]]
AllLaid(nodes, A, h) ==
    \A p \in 1..Len(nodes) : A[p] \in 1..Len(h) /\ Complete(Len(nodes), A, nodes[p], h[A[p]])

LEMMA CompleteType ==
    ASSUME NEW h, HeapOK(h), NEW a \in 1..Len(h), NEW N, NEW A, NEW n, Complete(N, A, n, h[a]),
           NEW T, NEW below, PartsTyped(N, A, a, T, below)
    PROVE  TypeOf(n, below) = TypeOf(h[a], T)
  <1>1. PICK t : t = h[a]
    OBVIOUS
  <1>2. CASE t.id \in Composite
    <2>1. PICK o : o = n.of
      OBVIOUS
    <2>2. IsComposite(t) /\ t.of \in 1..(a - 1)
      BY <1>1, <1>2, CompositeIs
    <2>3. n = Part(t, o) /\ o \in 1..N /\ A[o] = t.of
      BY <1>1, <1>2, <2>1 DEF Complete
    <2>4. below[o] = T[t.of]
      BY <2>2, <2>3 DEF PartsTyped
    <2>5. n.id \in Composite /\ n.of = o /\ Part(n, below[o]) = Part(t, below[o])
      BY <2>2, <2>3, PartShape
    <2>6. TypeOf(n, below) = Part(n, below[o]) /\ TypeOf(t, T) = Part(t, T[t.of])
      BY <1>2, <2>5, TypeOfIs
    <2> QED
      BY <1>1, <2>4, <2>5, <2>6
  <1>3. CASE t.id = "block"
    <2>1. PICK ps, qs : ps = t.params /\ qs = n.params
      OBVIOUS
    <2>2. t = Block(ps) /\ Len(ps) \in Nat /\ \A i \in 1..Len(ps) : ps[i] \in 1..(a - 1)
      BY <1>1, <1>3, <2>1, BlockShape
    <2>3. n = Block(qs) /\ qs \in Seq(1..N) /\ Len(qs) = Len(ps) /\ \A i \in 1..Len(ps) : A[qs[i]] = ps[i]
      BY <1>1, <1>3, <2>1 DEF Complete
    <2>4. \A i \in 1..Len(ps) : qs[i] \in 1..N
      BY <2>3, ElementOfSeq
    <2>5. \A i \in 1..Len(ps) : below[qs[i]] = T[ps[i]]
      BY <2>2, <2>3, <2>4 DEF PartsTyped
    <2>6. [i \in 1..Len(ps) |-> below[qs[i]]] = [i \in 1..Len(ps) |-> T[ps[i]]]
      BY <2>5
    <2>7. /\ TypeOf(n, below) = Block([i \in 1..Len(qs) |-> below[qs[i]]])
          /\ TypeOf(t, T) = Block([i \in 1..Len(ps) |-> T[ps[i]]])
      BY <2>2, <2>3, TypeOfIs
    <2> QED
      BY <1>1, <2>3, <2>6, <2>7
  <1>4. CASE t.id \in {"primitive", "structure"}
    <2>1. n = t
      BY <1>1, <1>4 DEF Complete
    <2> QED
      BY <1>1, <1>4, <2>1, TypeOfIs
  <1> QED
    BY <1>1, <1>2, <1>3, <1>4, CompositeIs

\* With no parameter being read every node is laid out completely.
LEMMA AllComplete ==
    ASSUME NEW r, NEW F, HeapOK(F), NEW A, NEW cur, BetweenParameters(r, F, A, cur), cur = Len(F[Len(F)].params)
    PROVE  /\ Len(r.nodes) \in Nat /\ 1 \in 1..Len(r.nodes) /\ A[1] = Len(F) /\ r.blocks = <<1>>
           /\ AllLaid(r.nodes, A, F)
  <1>1. PICK ns, N : ns = r.nodes /\ N = Len(ns)
    OBVIOUS
  <1>2. /\ Laid(F, A, ns, {0}, {1}) /\ 1 \in 1..N /\ A[1] = Len(F) /\ r.blocks = <<1>> /\ Len(ns[1].params) = cur
    BY <1>1 DEF BetweenParameters
  <1>3. N \in Nat
    BY <1>1, <1>2, ListShape DEF Laid
  <1>4. ASSUME NEW p \in 1..N
        PROVE  A[p] \in 1..Len(F) /\ Complete(N, A, ns[p], F[A[p]])
    <2>1. PICK n, t : n = ns[p] /\ t = F[A[p]]
      OBVIOUS
    <2>2. A[p] \in 1..Len(F) /\ NodeLaid(N, A, n, t, p, {0}, {1})
      BY <1>1, <1>2, <2>1 DEF Laid
    <2>3. p \notin {0}
      BY <1>3
    <2>4. ASSUME t.id = "block" PROVE Len(n.params) = Len(t.params)
      <3>1. CASE p = 1
        BY <1>2, <2>1, <3>1
      <3>2. CASE p # 1
        BY <2>2, <2>4, <3>2 DEF NodeLaid
      <3> QED
        BY <3>1, <3>2
    <2>5. Complete(N, A, n, t)
      BY <2>2, <2>3, <2>4 DEF NodeLaid, Complete
    <2> QED
      BY <2>1, <2>2, <2>5
  <1> QED
    BY <1>1, <1>2, <1>3, <1>4 DEF AllLaid

\* The types that are read are those that the nodes stand for, by induction on the address.
LEMMA TypesAgree ==
    ASSUME NEW F, HeapOK(F), NEW A, NEW nodes, Len(nodes) \in Nat,
           AllLaid(nodes, A, F)
    PROVE  \A p \in 1..Len(nodes) : TypesRead(nodes, Len(F))[p] = TypeAt(F)[A[p]]
  <1>1. PICK N, L, T : N = Len(nodes) /\ L = Len(F) /\ T = TypeAt(F)
    OBVIOUS
  <1>9. \A p \in 1..N : A[p] \in 1..L /\ Complete(N, A, nodes[p], F[A[p]])
    BY <1>1 DEF AllLaid
  <1>2. N \in Nat /\ L \in Nat /\ \A a \in 1..L : T[a] = TypeOf(F[a], T)
    BY <1>1, TypesAre DEF HeapOK
  <1>3. PICK f : Rows(f, nodes, L) /\ TypesRead(nodes, L) = f[L]
    BY <1>2, TypesReadAre
  <1>4. \A d \in 0..L : f[d] = Row(nodes, f[d - 1], d)
    BY <1>3 DEF Rows
  <1> DEFINE S == {d \in Nat : d <= L => \A p \in 1..N : A[p] <= d => f[d][p] = T[A[p]]}
  <1>5. 0 \in S
    <2>1. \A p \in 1..N : ~(A[p] <= 0)
      BY <1>2, <1>9
    <2> QED
      BY <2>1
  <1>6. ASSUME NEW d \in Nat, d \in S PROVE d + 1 \in S
    <2> SUFFICES ASSUME d + 1 <= L, NEW p \in 1..N, A[p] <= d + 1 PROVE f[d + 1][p] = T[A[p]]
      OBVIOUS
    <2>1. PICK a, below, n : a = A[p] /\ below = f[d] /\ n = nodes[p]
      OBVIOUS
    <2>2. a \in 1..L /\ Complete(N, A, n, F[a]) /\ a <= d + 1
      BY <1>9, <2>1
    <2>3. PartsTyped(N, A, a, T, below)
      <3> SUFFICES ASSUME NEW q \in 1..N, A[q] \in 1..(a - 1) PROVE below[q] = T[A[q]]
        BY DEF PartsTyped
      <3>1. A[q] <= d /\ d <= L
        BY <1>2, <2>2
      <3> QED
        BY <1>6, <2>1, <3>1
    <2>4. TypeOf(n, below) = TypeOf(F[a], T)
      BY <1>1, <2>2, <2>3, CompleteType
    <2>5. f[d + 1][p] = TypeOf(n, below)
      <3>1. d + 1 \in 0..L /\ (d + 1) - 1 = d /\ d + 1 # 0 /\ p # 0 /\ p \in 0..N
        BY <1>2
      <3>2. f[d + 1] = Row(nodes, below, d + 1)
        BY <1>4, <2>1, <3>1
      <3> QED
        BY <1>1, <2>1, <3>1, <3>2 DEF Row
    <2> QED
      BY <1>2, <2>1, <2>2, <2>4, <2>5
  <1> HIDE DEF S
  <1>7. L \in S
    BY <1>2, <1>5, <1>6, NatSetInduction
  <1>8. \A p \in 1..N : f[L][p] = T[A[p]]
    <2>1. \A p \in 1..N : A[p] <= L
      BY <1>2, <1>9
    <2> QED
      BY <1>2, <1>7, <2>1 DEF S
  <1> QED
    BY <1>1, <1>3, <1>8

LEMMA ReadDenotes == TypeInv /\ ReadInv => NameDenotesPrototype
  <1> SUFFICES ASSUME TypeInv, Reading, status = "MANGLE_SUCCESS" PROVE NameDenotesPrototype
    BY DEF ReadInv, NameDenotesPrototype
  <1>1. PICK r, F : r = Demangled(stream) /\ F = Function
    OBVIOUS
  <1>2. PICK A : Follows(r, F, A, <<>>, current, {}, {})
    BY <1>1 DEF Reading, Simulates
  <1>3. /\ HeapOK(F) /\ F[Len(F)].params = parameters /\ current = Len(parameters) /\ r.name = name
    BY <1>1, FunctionIs DEF Reading
  <1>4. BetweenParameters(r, F, A, current)
    BY <1>2, <1>3, FollowsNothing
  <1>5. /\ Len(r.nodes) \in Nat /\ 1 \in 1..Len(r.nodes) /\ A[1] = Len(F) /\ r.blocks = <<1>>
        /\ AllLaid(r.nodes, A, F)
    BY <1>3, <1>4, AllComplete
  <1>6. PICK ns : ns = r.nodes
    OBVIOUS
  <1>7. TypesRead(ns, Len(F))[1] = TypeAt(F)[A[1]]
    BY <1>3, <1>5, <1>6, TypesAgree
  <1> QED
    BY <1>1, <1>3, <1>5, <1>6, <1>7 DEF NameDenotesPrototype

\* The name says what was mangled: a demangler that reads it word by word, and takes each
\* back reference for the type its number was given to, ends with the prototype, whatever
\* the heap, however its types are shared and whatever the parameters (Mangler.cpp:29-129).
THEOREM SpecNameDenotesPrototype == Spec => []NameDenotesPrototype
  <1>1. Init => TypeInv /\ ReadInv
    BY InitType, InitReads
  <1>2. TypeInv /\ ReadInv /\ [Next]_vars => TypeInv' /\ ReadInv'
    BY StepType, StepReads
  <1>3. TypeInv /\ ReadInv => NameDenotesPrototype
    BY ReadDenotes
  <1> QED
    BY <1>1, <1>2, <1>3, PTL DEF Spec
-----------------------------------------------------------------------------
\* The order of descriptors: what the recursive definitions define

LEMMA HeapShape ==
    /\ Len(Heap) \in Nat /\ DOMAIN Heap = Types
    /\ \A a \in Types : IsNode(Heap, a)
  BY HeapAssumption DEF IsHeap, Types

\* What is said of a node hangs on the nodes before it only.
LEMMA EqualNodesLocal ==
    ASSUME NEW a \in Types, NEW f, NEW g, \A c \in 1..(a - 1) : f[c] = g[c]
    PROVE  \A b \in Types : EqualNodes(Heap, f, a, b) = EqualNodes(Heap, g, a, b)
  <1> SUFFICES ASSUME NEW b \in Types PROVE EqualNodes(Heap, f, a, b) = EqualNodes(Heap, g, a, b)
    OBVIOUS
  <1> DEFINE t == Heap[a]
  <1>1. t.id \in {"pointer", "vector", "atomic"} => t.of \in 1..(a - 1)
    BY HeapShape DEF IsNode
  <1>2. t.id = "block" => t.params \in Seq(1..(a - 1))
    BY HeapShape DEF IsNode
  <1>3. t.id \in {"pointer", "vector", "atomic"} => f[t.of] = g[t.of]
    BY <1>1
  <1>4. ASSUME t.id = "block" PROVE \A i \in 1..Len(t.params) : f[t.params[i]] = g[t.params[i]]
    <2> DEFINE p == t.params
    <2>1. p \in Seq(1..(a - 1))
      BY <1>2, <1>4
    <2> HIDE DEF p
    <2>2. \A i \in 1..Len(p) : p[i] \in 1..(a - 1)
      BY <2>1, ElementOfSeq
    <2>3. \A i \in 1..Len(p) : f[p[i]] = g[p[i]]
      BY <2>2
    <2> QED
      BY <2>3 DEF p
  <1> QED
    BY <1>3, <1>4 DEF EqualNodes

LEMMA EqualsIs ==
    \A a, b \in Types : equals(Heap)[a][b] = EqualNodes(Heap, equals(Heap), a, b)
  <1> DEFINE Rec(f) == f = [a \in Types |-> [b \in Types |-> EqualNodes(Heap, f, a, b)]]
             Upto(f, m) == \A a \in 1..m : f[a] = [b \in Types |-> EqualNodes(Heap, f, a, b)]
             S == {m \in Nat : m <= Len(Heap) => \E f : Upto(f, m)}
  <1>1. 0 \in S
    OBVIOUS
  <1>2. ASSUME NEW m \in Nat, m \in S PROVE m + 1 \in S
    <2> SUFFICES ASSUME m + 1 <= Len(Heap) PROVE \E f : Upto(f, m + 1)
      OBVIOUS
    <2>1. PICK f : Upto(f, m)
      BY <1>2, HeapShape
    <2> DEFINE g == [a \in 1..(m + 1) |-> IF a = m + 1 THEN [b \in Types |-> EqualNodes(Heap, f, m + 1, b)]
                                          ELSE f[a]]
    <2>2. \A a \in 1..m : g[a] = f[a]
      OBVIOUS
    <2>3. g[m + 1] = [b \in Types |-> EqualNodes(Heap, f, m + 1, b)]
      OBVIOUS
    <2> HIDE DEF g
    <2>4. ASSUME NEW a \in 1..(m + 1) PROVE g[a] = [b \in Types |-> EqualNodes(Heap, g, a, b)]
      <3>1. a \in Types /\ \A c \in 1..(a - 1) : g[c] = f[c]
        BY <2>2, HeapShape DEF Types
      <3>2. \A b \in Types : EqualNodes(Heap, g, a, b) = EqualNodes(Heap, f, a, b)
        BY <3>1, EqualNodesLocal
      <3>3. g[a] = [b \in Types |-> EqualNodes(Heap, f, a, b)]
        BY <2>1, <2>2, <2>3
      <3> QED
        BY <3>2, <3>3
    <2>5. Upto(g, m + 1)
      BY <2>4
    <2> QED
      BY <2>5
  <1> HIDE DEF S
  <1>3. Len(Heap) \in S
    BY <1>1, <1>2, NatSetInduction, HeapShape
  <1>4. PICK f : Upto(f, Len(Heap))
    BY <1>3, HeapShape DEF S
  <1> DEFINE g == [a \in Types |-> f[a]]
             X == CHOOSE h : Rec(h)
  <1>5. Rec(g)
    <2>1. ASSUME NEW a \in Types PROVE g[a] = [b \in Types |-> EqualNodes(Heap, g, a, b)]
      <3>1. \A c \in 1..(a - 1) : g[c] = f[c]
        BY HeapShape DEF Types
      <3>2. g[a] = [b \in Types |-> EqualNodes(Heap, f, a, b)]
        BY <1>4 DEF Types
      <3> HIDE DEF g
      <3>3. \A b \in Types : EqualNodes(Heap, g, a, b) = EqualNodes(Heap, f, a, b)
        BY <3>1, EqualNodesLocal
      <3> QED
        BY <3>2, <3>3
    <2> QED
      BY <2>1
  <1>6. equals(Heap) = X
    BY DEF equals, Types
  <1>7. Rec(X)
    <2> HIDE DEF Rec, g
    <2> QED
      BY <1>5
  <1> HIDE DEF X
  <1> QED
    BY <1>6, <1>7

\* Which types are told: by the nodes before them only.
LEMMA ToldNodeLocal ==
    ASSUME NEW a \in Types, NEW f, NEW g, \A c \in 1..(a - 1) : f[c] = g[c]
    PROVE  ToldNode(f, a) = ToldNode(g, a)
  <1> DEFINE t == Heap[a]
  <1>1. t.id \in {"pointer", "vector", "atomic"} => f[t.of] = g[t.of]
    BY HeapShape DEF IsNode
  <1>2. ASSUME t.id = "block" PROVE \A i \in 1..Len(t.params) : f[t.params[i]] = g[t.params[i]]
    <2> DEFINE p == t.params
    <2>1. p \in Seq(1..(a - 1))
      BY <1>2, HeapShape DEF IsNode
    <2> HIDE DEF p
    <2>2. \A i \in 1..Len(p) : f[p[i]] = g[p[i]]
      BY <2>1, ElementOfSeq
    <2> QED
      BY <2>2 DEF p
  <1> QED
    BY <1>1, <1>2 DEF ToldNode

LEMMA ToldIs == \A a \in Types : toldTypes[a] = ToldNode(toldTypes, a)
  <1> DEFINE Rec(f) == f = [a \in Types |-> ToldNode(f, a)]
             Upto(f, m) == \A a \in 1..m : f[a] = ToldNode(f, a)
             S == {m \in Nat : m <= Len(Heap) => \E f : Upto(f, m)}
  <1>1. 0 \in S
    OBVIOUS
  <1>2. ASSUME NEW m \in Nat, m \in S PROVE m + 1 \in S
    <2> SUFFICES ASSUME m + 1 <= Len(Heap) PROVE \E f : Upto(f, m + 1)
      OBVIOUS
    <2>1. PICK f : Upto(f, m)
      BY <1>2, HeapShape
    <2> DEFINE g == [a \in 1..(m + 1) |-> IF a = m + 1 THEN ToldNode(f, m + 1) ELSE f[a]]
    <2>2. \A a \in 1..m : g[a] = f[a]
      OBVIOUS
    <2>3. g[m + 1] = ToldNode(f, m + 1)
      OBVIOUS
    <2> HIDE DEF g
    <2>4. ASSUME NEW a \in 1..(m + 1) PROVE g[a] = ToldNode(g, a)
      <3>1. a \in Types /\ \A c \in 1..(a - 1) : g[c] = f[c]
        BY <2>2, HeapShape DEF Types
      <3>2. ToldNode(g, a) = ToldNode(f, a)
        BY <3>1, ToldNodeLocal
      <3>3. g[a] = ToldNode(f, a)
        BY <2>1, <2>2, <2>3
      <3> QED
        BY <3>2, <3>3
    <2>5. Upto(g, m + 1)
      BY <2>4
    <2> QED
      BY <2>5
  <1> HIDE DEF S
  <1>3. Len(Heap) \in S
    BY <1>1, <1>2, NatSetInduction, HeapShape
  <1>4. PICK f : Upto(f, Len(Heap))
    BY <1>3, HeapShape DEF S
  <1> DEFINE g == [a \in Types |-> f[a]]
             X == CHOOSE h : Rec(h)
  <1>5. Rec(g)
    <2>1. ASSUME NEW a \in Types PROVE g[a] = ToldNode(g, a)
      <3>1. \A c \in 1..(a - 1) : g[c] = f[c]
        BY HeapShape DEF Types
      <3>2. g[a] = ToldNode(f, a)
        BY <1>4 DEF Types
      <3> HIDE DEF g
      <3>3. ToldNode(g, a) = ToldNode(f, a)
        BY <3>1, ToldNodeLocal
      <3> QED
        BY <3>2, <3>3
    <2> QED
      BY <2>1
  <1>6. toldTypes = X
    BY DEF toldTypes
  <1>7. Rec(X)
    <2> HIDE DEF Rec, g
    <2> QED
      BY <1>5
  <1> HIDE DEF X
  <1> QED
    BY <1>6, <1>7
-----------------------------------------------------------------------------
\* Words and strings

Word == Words(Heap)
Strings == Seq(Nat)

\* The words that are told from each other wherever they stand.
Clear == CodeWords \cup ToldNames

LEMMA WordsOfHeap ==
    /\ Clear \subseteq Word /\ CodeWords \subseteq Clear /\ ToldNames \subseteq Clear
    /\ StructNames \subseteq Word /\ Keywords \subseteq CodeWords
    /\ Names \subseteq CodeWords /\ VectorLengths \subseteq CodeWords
    /\ {" ", "*", "atomic_", "void", "(", ", ", ")*"} \subseteq Keywords
    /\ Range(Qualifiers) \subseteq Keywords /\ Range(AddressSpaces) \subseteq Keywords
  BY DEF Word, Words, Clear, CodeWords, ToldNames, Names, VectorLengths, StructNames, Keywords

LEMMA SpellingType == \A w \in Word : Spelling[w] \in Strings
  BY SpellingAssumption DEF Word, Strings

LEMMA PrefixFree ==
    ASSUME NEW v \in Clear, NEW w \in Clear, IsPrefix(Spelling[v], Spelling[w])
    PROVE  v = w
  <1>1. v \in Word /\ w \in Word
    BY WordsOfHeap
  <1>2. CASE v \in CodeWords /\ w \in CodeWords
    BY <1>2, SpellingAssumption
  <1>3. CASE v \in ToldNames
    BY <1>1, <1>3 DEF ToldNames, Word
  <1>4. CASE w \in ToldNames
    BY <1>1, <1>4 DEF ToldNames, Word
  <1> QED
    BY <1>2, <1>3, <1>4 DEF Clear

\* L holds what is written of the last k of the texts ts.
Endings(L, ts) ==
    /\ L \in [0..Len(ts) -> Strings]
    /\ L[0] = <<>>
    /\ \A k \in 1..Len(ts) :
          L[k] = (IF k = Len(ts) THEN <<>> ELSE Spelling[", "]) \o ts[Len(ts) - k + 1] \o L[k - 1]

LEMMA ListedIs ==
    ASSUME NEW ts \in Seq(Strings)
    PROVE  \E L : Endings(L, ts) /\ Listed(Spelling[", "], ts) = L[Len(ts)]
  <1> DEFINE n == Len(ts)
             Sep(k) == IF k = n THEN <<>> ELSE Spelling[", "]
             step == [k \in 1..n |-> [e \in Strings |-> Sep(k) \o ts[n - k + 1] \o e]]
             Rec(f) == f = [k \in 0..n |-> IF k = 0 THEN <<>> ELSE Sep(k) \o ts[n - k + 1] \o f[k - 1]]
             X == CHOOSE f : Rec(f)
  <1>1. n \in Nat /\ <<>> \in Strings
    BY DEF Strings
  <1>2. \A k \in 1..n : Sep(k) \in Strings /\ ts[n - k + 1] \in Strings
    <2>1. Spelling[", "] \in Strings
      BY WordsOfHeap, SpellingType
    <2>2. \A k \in 1..n : n - k + 1 \in 1..Len(ts)
      BY <1>1
    <2> QED
      BY <1>1, <2>1, <2>2, ElementOfSeq
  <1>3. \A k \in 1..n, e \in Strings : Sep(k) \o ts[n - k + 1] \o e \in Strings
    <2> HIDE DEF Sep, n
    <2> QED
      BY <1>2, ConcatProperties DEF Strings
  <1>4. step \in [1..n -> [Strings -> Strings]]
    <2> HIDE DEF Sep, n
    <2> QED
      BY <1>3
  <1>5. PICK L : Iterates(L, step, n, Strings, <<>>)
    <2> HIDE DEF step, n
    <2> QED
      BY <1>1, <1>4, RecursionDefines DEF Steps
  <1>6. L \in [0..n -> Strings] /\ L[0] = <<>>
    BY <1>5 DEF Iterates
  <1>7. \A k \in 1..n : L[k] = Sep(k) \o ts[n - k + 1] \o L[k - 1]
    <2> SUFFICES ASSUME NEW k \in 1..n PROVE L[k] = Sep(k) \o ts[n - k + 1] \o L[k - 1]
      OBVIOUS
    <2>1. L[k] = step[k][L[k - 1]]
      <3> HIDE DEF step, n
      <3> QED
        BY <1>5 DEF Iterates
    <2>2. L[k - 1] \in Strings
      <3> HIDE DEF n
      <3> QED
        BY <1>1, <1>6
    <2> HIDE DEF Sep, n
    <2> QED
      BY <2>1, <2>2
  <1>8. Endings(L, ts)
    BY <1>6, <1>7 DEF Endings
  <1>9. Listed(Spelling[", "], ts) = X[n]
    BY DEF Listed
  <1>10. Rec(L)
    <2>1. \A k \in 0..n : L[k] = IF k = 0 THEN <<>> ELSE Sep(k) \o ts[n - k + 1] \o L[k - 1]
      <3> HIDE DEF Sep, n
      <3> QED
        BY <1>1, <1>6, <1>7
    <2> HIDE DEF Sep, n
    <2> QED
      BY <1>6, <2>1
  <1>11. Rec(X)
    <2> HIDE DEF Rec
    <2> QED
      BY <1>10
  <1>12. \A k \in 0..n : X[k] = IF k = 0 THEN <<>> ELSE Sep(k) \o ts[n - k + 1] \o X[k - 1]
    <2> HIDE DEF X, Sep, n
    <2> QED
      BY <1>11
  <1> DEFINE S == {k \in Nat : k <= n => X[k] = L[k]}
  <1>13. 0 \in S
    <2> HIDE DEF X, Sep, n
    <2> QED
      BY <1>1, <1>6, <1>12
  <1>14. ASSUME NEW k \in Nat, k \in S PROVE k + 1 \in S
    <2> HIDE DEF X, Sep, n
    <2> SUFFICES ASSUME k + 1 <= n PROVE X[k + 1] = L[k + 1]
      OBVIOUS
    <2>1. k + 1 \in 1..n /\ (k + 1) - 1 = k /\ k + 1 # 0 /\ k + 1 \in 0..n
      BY <1>1
    <2>2. X[k] = L[k]
      BY <1>1, <1>14
    <2>3. L[k + 1] = Sep(k + 1) \o ts[n - (k + 1) + 1] \o L[k]
      BY <1>7, <2>1
    <2>4. X[k + 1] = Sep(k + 1) \o ts[n - (k + 1) + 1] \o X[k]
      BY <1>12, <2>1
    <2> QED
      BY <2>2, <2>3, <2>4
  <1>15. X[n] = L[n]
    <2> HIDE DEF X, S
    <2>1. n \in S
      BY <1>1, <1>13, <1>14, NatSetInduction
    <2> HIDE DEF n
    <2> QED
      BY <1>1, <2>1 DEF S
  <1> QED
    BY <1>8, <1>9, <1>15

LEMMA TextOfLocal ==
    ASSUME NEW a \in Types, NEW f, NEW g, \A c \in 1..(a - 1) : f[c] = g[c]
    PROVE  TextOf(Heap, Spelling, f, a) = TextOf(Heap, Spelling, g, a)
  <1> DEFINE t == Heap[a]
  <1>1. t.id \in {"primitive", "pointer", "vector", "atomic", "block", "structure"}
    BY HeapShape DEF IsNode
  <1>2. t.id \in {"pointer", "vector", "atomic"} => t.of \in 1..(a - 1)
    BY HeapShape DEF IsNode
  <1>3. t.id \in {"pointer", "vector", "atomic"} => f[t.of] = g[t.of]
    BY <1>2
  <1>4. ASSUME t.id = "block"
        PROVE  [i \in 1..Len(t.params) |-> f[t.params[i]]] = [i \in 1..Len(t.params) |-> g[t.params[i]]]
    <2> DEFINE p == t.params
    <2>1. p \in Seq(1..(a - 1))
      BY <1>4, HeapShape DEF IsNode
    <2> HIDE DEF p
    <2>2. \A i \in 1..Len(p) : p[i] \in 1..(a - 1)
      BY <2>1, ElementOfSeq
    <2>3. [i \in 1..Len(p) |-> f[p[i]]] = [i \in 1..Len(p) |-> g[p[i]]]
      BY <2>2
    <2> QED
      BY <2>3 DEF p
  <1> QED
    BY <1>1, <1>3, <1>4 DEF TextOf

T == texts

LEMMA TextsAre == \A a \in Types : T[a] = TextOf(Heap, Spelling, T, a)
  <1> DEFINE Rec(f) == f = [a \in Types |-> TextOf(Heap, Spelling, f, a)]
             Upto(f, m) == \A a \in 1..m : f[a] = TextOf(Heap, Spelling, f, a)
             S == {m \in Nat : m <= Len(Heap) => \E f : Upto(f, m)}
  <1>1. 0 \in S
    OBVIOUS
  <1>2. ASSUME NEW m \in Nat, m \in S PROVE m + 1 \in S
    <2> SUFFICES ASSUME m + 1 <= Len(Heap) PROVE \E f : Upto(f, m + 1)
      OBVIOUS
    <2>1. PICK f : Upto(f, m)
      BY <1>2, HeapShape
    <2> DEFINE g == [a \in 1..(m + 1) |-> IF a = m + 1 THEN TextOf(Heap, Spelling, f, m + 1) ELSE f[a]]
    <2>2. \A a \in 1..m : g[a] = f[a]
      OBVIOUS
    <2>3. g[m + 1] = TextOf(Heap, Spelling, f, m + 1)
      OBVIOUS
    <2> HIDE DEF g
    <2>4. ASSUME NEW a \in 1..(m + 1) PROVE g[a] = TextOf(Heap, Spelling, g, a)
      <3>1. a \in Types /\ \A c \in 1..(a - 1) : g[c] = f[c]
        BY <2>2, HeapShape DEF Types
      <3>2. TextOf(Heap, Spelling, g, a) = TextOf(Heap, Spelling, f, a)
        BY <3>1, TextOfLocal
      <3>3. g[a] = TextOf(Heap, Spelling, f, a)
        BY <2>1, <2>2, <2>3
      <3> QED
        BY <3>2, <3>3
    <2>5. Upto(g, m + 1)
      BY <2>4
    <2> QED
      BY <2>5
  <1> HIDE DEF S
  <1>3. Len(Heap) \in S
    BY <1>1, <1>2, NatSetInduction, HeapShape
  <1>4. PICK f : Upto(f, Len(Heap))
    BY <1>3, HeapShape DEF S
  <1> DEFINE g == [a \in Types |-> f[a]]
             X == CHOOSE h : Rec(h)
  <1>5. Rec(g)
    <2>1. ASSUME NEW a \in Types PROVE g[a] = TextOf(Heap, Spelling, g, a)
      <3>1. \A c \in 1..(a - 1) : g[c] = f[c]
        BY HeapShape DEF Types
      <3>2. g[a] = TextOf(Heap, Spelling, f, a)
        BY <1>4 DEF Types
      <3> HIDE DEF g
      <3>3. TextOf(Heap, Spelling, g, a) = TextOf(Heap, Spelling, f, a)
        BY <3>1, TextOfLocal
      <3> QED
        BY <3>2, <3>3
    <2> QED
      BY <2>1
  <1>6. T = [a \in Types |-> X[a]]
    BY DEF T, texts, toString, Types
  <1>7. Rec(X)
    <2> HIDE DEF Rec, g
    <2> QED
      BY <1>5
  <1> HIDE DEF X
  <1>8. T = X
    BY <1>6, <1>7
  <1> QED
    BY <1>7, <1>8
-----------------------------------------------------------------------------
\* The words of a type

LEMMA KindsOfWords ==
    /\ Names \cap VectorLengths = {} /\ Names \cap Keywords \subseteq {"void"}
    /\ VectorLengths \cap Keywords = {} /\ ToldNames \cap CodeWords = {}
  BY SpellingAssumption DEF ToldNames

\* The node at a and what it is made of.
LEMMA TypeShape ==
    ASSUME NEW a \in Types
    PROVE  /\ Heap[a].id \in {"primitive", "pointer", "vector", "atomic", "block", "structure"}
           /\ Heap[a].id \in {"pointer", "vector", "atomic"} => Heap[a].of \in 1..(a - 1) /\ Heap[a].of \in Types
           /\ Heap[a].id = "primitive" => Heap[a].prim \in Names
           /\ Heap[a].id = "pointer" => Heap[a].quals \subseteq Range(Qualifiers) /\ Heap[a].space \in Range(AddressSpaces)
           /\ Heap[a].id = "vector" => Heap[a].len \in VectorLengths /\ Heap[Heap[a].of].id = "primitive"
           /\ Heap[a].id = "block" => Heap[a].params \in Seq(1..(a - 1)) /\ Heap[a].params \in Seq(Types)
           /\ Heap[a].id = "structure" => Heap[a].name \in StructNames
  <1>1. IsNode(Heap, a) /\ a \in OfKind(Heap, Heap[a].id)
    BY HeapShape DEF OfKind, Types
  <1>2. 1..(a - 1) \subseteq Types
    BY HeapShape DEF Types
  <1>3. Heap[a].id = "block" => Heap[a].params \in Seq(1..(a - 1)) /\ Heap[a].params \in Seq(Types)
    <2>1. Heap[a].id = "block" => Heap[a].params \in Seq(1..(a - 1))
      BY <1>1 DEF IsNode
    <2> QED
      BY <1>2, <2>1, SeqMonotonic
  <1>4. Heap[a].id \in {"pointer", "vector", "atomic"} => Heap[a].of \in 1..(a - 1)
    BY <1>1 DEF IsNode
  <1>5. /\ Heap[a].id \in {"primitive", "pointer", "vector", "atomic", "block", "structure"}
        /\ Heap[a].id = "pointer" => Heap[a].quals \subseteq Range(Qualifiers)
                                     /\ Heap[a].space \in Range(AddressSpaces)
        /\ Heap[a].id = "vector" => Heap[Heap[a].of].id = "primitive"
    BY <1>1 DEF IsNode
  <1>6. /\ Heap[a].id = "primitive" => Heap[a].prim \in Names
        /\ Heap[a].id = "vector" => Heap[a].len \in VectorLengths
        /\ Heap[a].id = "structure" => Heap[a].name \in StructNames
    BY <1>1 DEF Names, VectorLengths, StructNames
  <1> QED
    BY <1>2, <1>3, <1>4, <1>5, <1>6

LEMMA Join == ASSUME NEW s \in Strings, NEW u \in Strings PROVE s \o u \in Strings
  BY ConcatProperties DEF Strings

\* What a told type is made of is told.
LEMMA TypeTold ==
    ASSUME NEW a \in Types, toldTypes[a]
    PROVE  /\ Heap[a].id = "structure" => Heap[a].name \in ToldNames
           /\ Heap[a].id \in {"pointer", "vector", "atomic"} => toldTypes[Heap[a].of]
           /\ Heap[a].id = "block" => \A i \in 1..Len(Heap[a].params) : toldTypes[Heap[a].params[i]]
  BY ToldIs DEF ToldNode

LEMMA WordType == ASSUME NEW w \in CodeWords PROVE Spelling[w] \in Strings
  BY WordsOfHeap, SpellingType

LEMMA QualifierWords ==
    /\ Qualifiers[1] = "restrict" /\ Qualifiers[2] = "volatile" /\ Qualifiers[3] = "const"
    /\ Len(Qualifiers) = 3
    /\ Range(Qualifiers) = {"restrict", "volatile", "const"}
    /\ {"restrict", "volatile", "const", " "} \subseteq CodeWords
    /\ Range(AddressSpaces) = {"__private", "__global", "__constant", "__local", "__generic"}
  <1>1. DOMAIN Qualifiers = 1..3 /\ DOMAIN AddressSpaces = 1..5
    BY DEF Qualifiers, AddressSpaces
  <1>2. Qualifiers[1] = "restrict" /\ Qualifiers[2] = "volatile" /\ Qualifiers[3] = "const" /\ Len(Qualifiers) = 3
    BY DEF Qualifiers
  <1>3. Range(Qualifiers) = {"restrict", "volatile", "const"}
    BY <1>1, <1>2 DEF Range
  <1>4. Range(AddressSpaces) = {"__private", "__global", "__constant", "__local", "__generic"}
    BY <1>1 DEF Range, AddressSpaces
  <1> QED
    BY <1>2, <1>3, <1>4, WordsOfHeap

\* A qualifier of the pointer t and a blank, if it has it.
Piece(q, t) == IF q \in t.quals THEN Spelling[q] \o Spelling[" "] ELSE <<>>

LEMMA WrittenIs ==
    ASSUME NEW t
    PROVE  /\ Written(Spelling, t) = (Piece("restrict", t) \o Piece("volatile", t)) \o Piece("const", t)
           /\ \A q \in {"restrict", "volatile", "const"} : Piece(q, t) \in Strings
           /\ Written(Spelling, t) \in Strings
  <1>1. Written(Spelling, t) = (Piece("restrict", t) \o Piece("volatile", t)) \o Piece("const", t)
    BY QualifierWords DEF Written, Piece
  <1>2. \A q \in {"restrict", "volatile", "const"} : Piece(q, t) \in Strings
    <2>0. <<>> \in Strings
      BY DEF Strings
    <2>1. \A q \in {"restrict", "volatile", "const", " "} : Spelling[q] \in Strings
      BY QualifierWords, WordType
    <2>2. \A q \in {"restrict", "volatile", "const"} : Spelling[q] \o Spelling[" "] \in Strings
      BY <2>1, Join
    <2> QED
      BY <2>0, <2>2 DEF Piece
  <1>3. Written(Spelling, t) \in Strings
    BY <1>1, <1>2, Join
  <1> QED
    BY <1>1, <1>2, <1>3

LEMMA TextType == \A a \in Types : T[a] \in Strings
  <1> DEFINE S == {m \in Nat : \A a \in Types : a <= m => T[a] \in Strings}
  <1>1. 0 \in S
    BY DEF Types
  <1>2. ASSUME NEW m \in Nat, m \in S PROVE m + 1 \in S
    <2> SUFFICES ASSUME NEW a \in Types, a <= m + 1 PROVE T[a] \in Strings
      OBVIOUS
    <2> DEFINE t == Heap[a]
    <2>1. \A c \in 1..(a - 1) : T[c] \in Strings
      BY <1>2, HeapShape DEF Types
    <2>2. T[a] = TextOf(Heap, Spelling, T, a)
      BY TextsAre
    <2>9. \A w \in {" ", "*", "atomic_", "void", "(", ", ", ")*"} : Spelling[w] \in Strings
      BY WordsOfHeap, WordType
    <2>3. CASE t.id = "primitive"
      BY <2>2, <2>3, TypeShape, WordsOfHeap, WordType DEF TextOf
    <2>4. CASE t.id = "structure"
      BY <2>2, <2>4, TypeShape, WordsOfHeap, SpellingType DEF TextOf
    <2>5. CASE t.id = "vector"
      <3>1. T[a] = T[t.of] \o Spelling[t.len]
        BY <2>2, <2>5 DEF TextOf
      <3>2. T[t.of] \in Strings /\ Spelling[t.len] \in Strings
        BY <2>1, <2>5, TypeShape, WordsOfHeap, WordType
      <3> QED
        BY <3>1, <3>2, Join
    <2>6. CASE t.id = "atomic"
      <3>1. T[a] = Spelling["atomic_"] \o T[t.of]
        BY <2>2, <2>6 DEF TextOf
      <3>2. T[t.of] \in Strings
        BY <2>1, <2>6, TypeShape
      <3> QED
        BY <2>9, <3>1, <3>2, Join
    <2>7. CASE t.id = "pointer"
      <3>1. T[a] = Written(Spelling, t) \o Spelling[t.space] \o Spelling[" "] \o T[t.of] \o Spelling[" "] \o Spelling["*"]
        BY <2>2, <2>7 DEF TextOf
      <3>2. T[t.of] \in Strings /\ Spelling[t.space] \in Strings
        BY <2>1, <2>7, TypeShape, WordsOfHeap, WordType
      <3>3. Written(Spelling, t) \in Strings
        BY WrittenIs
      <3> HIDE DEF t
      <3>4. Written(Spelling, t) \o Spelling[t.space] \o Spelling[" "] \o T[t.of] \in Strings
        BY <2>9, <3>2, <3>3, Join
      <3> QED
        BY <2>9, <3>1, <3>4, Join
    <2>8. CASE t.id = "block"
      <3> DEFINE p == t.params
                 ts == [i \in 1..Len(p) |-> T[p[i]]]
                 l == Listed(Spelling[", "], ts)
      <3>1. T[a] = Spelling["void"] \o Spelling[" "] \o Spelling["("] \o l \o Spelling[")*"]
        BY <2>2, <2>8 DEF TextOf
      <3>2. p \in Seq(1..(a - 1))
        BY <2>8, TypeShape
      <3>3. ts \in Seq(Strings)
        <4> HIDE DEF p
        <4>1. \A i \in 1..Len(p) : T[p[i]] \in Strings
          BY <2>1, <3>2, ElementOfSeq
        <4>2. Len(p) \in Nat
          BY <3>2
        <4> HIDE DEF Strings
        <4> QED
          BY <4>1, <4>2
      <3> HIDE DEF ts
      <3>4. PICK L : Endings(L, ts) /\ l = L[Len(ts)]
        BY <3>3, ListedIs
      <3> HIDE DEF l
      <3>5. l \in Strings
        <4>1. Len(ts) \in Nat
          BY <3>3, LenProperties
        <4>2. L \in [0..Len(ts) -> Strings]
          BY <3>4 DEF Endings
        <4> QED
          BY <3>4, <4>1, <4>2
      <3>6. Spelling["void"] \o Spelling[" "] \o Spelling["("] \in Strings
        BY <2>9, Join
      <3> DEFINE z == Spelling["void"] \o Spelling[" "] \o Spelling["("]
      <3>7. Spelling[")*"] \in Strings
        BY <2>9
      <3>8. T[a] = (z \o l) \o Spelling[")*"]
        BY <3>1
      <3>9. z \in Strings
        BY <3>6
      <3> HIDE DEF z
      <3>10. z \o l \in Strings
        BY <3>5, <3>9, Join
      <3> QED
        BY <3>7, <3>8, <3>10, Join
    <2>10. t.id \in {"primitive", "pointer", "vector", "atomic", "block", "structure"}
      BY TypeShape
    <2> QED
      BY <2>3, <2>4, <2>5, <2>6, <2>7, <2>8, <2>10
  <1> HIDE DEF S
  <1>3. Len(Heap) \in S
    BY <1>1, <1>2, NatSetInduction, HeapShape
  <1> QED
    BY <1>3 DEF S, Types
-----------------------------------------------------------------------------
\* Strings from their first word on

\* A string, or a word, and what follows it; and a string that opens with a word.
Cat(s, u) == s \o u
Lead(x, r) == Spelling[x] \o r
Opens(r, x) == \E u \in Strings : r = Lead(x, u)

LEMMA CatType == ASSUME NEW s \in Strings, NEW u \in Strings PROVE Cat(s, u) \in Strings
  BY Join DEF Cat

LEMMA LeadType == ASSUME NEW x \in Word, NEW r \in Strings PROVE Lead(x, r) \in Strings
  BY Join, SpellingType DEF Lead

LEMMA CatAssoc ==
    ASSUME NEW s \in Strings, NEW u \in Strings, NEW v \in Strings
    PROVE  Cat(Cat(s, u), v) = Cat(s, Cat(u, v))
  BY ConcatAssociative DEF Strings, Cat

LEMMA CatLead ==
    ASSUME NEW x \in Word, NEW s \in Strings, NEW u \in Strings
    PROVE  Cat(Spelling[x], u) = Lead(x, u) /\ Cat(Lead(x, s), u) = Lead(x, Cat(s, u)) /\ Cat(<<>>, u) = u
  <1>1. Cat(Cat(Spelling[x], s), u) = Cat(Spelling[x], Cat(s, u))
    BY CatAssoc, SpellingType
  <1>2. <<>> \o u = u
    BY DEF Strings
  <1> QED
    BY <1>1, <1>2 DEF Cat, Lead

\* Two words that can be told open a string only if they are one.
LEMMA CancelWord ==
    ASSUME NEW x \in Clear, NEW y \in Clear, NEW r \in Strings, NEW s \in Strings, Lead(x, r) = Lead(y, s)
    PROVE  x = y /\ r = s
  <1> DEFINE p == Spelling[x]
             q == Spelling[y]
  <1>1. p \in Strings /\ q \in Strings
    BY WordsOfHeap, SpellingType
  <1>2. p \o r = q \o s
    BY DEF Lead
  <1>3. IsPrefix(p, q) => x = y
    BY PrefixFree
  <1>4. IsPrefix(q, p) => y = x
    BY PrefixFree
  <1> HIDE DEF p, q
  <1>5. Len(p) \in Nat /\ Len(q) \in Nat
    BY <1>1, LenProperties DEF Strings
  <1>6. ASSUME NEW v \in Strings, NEW w \in Strings, NEW e \in Strings, NEW f \in Strings,
               v \o e = w \o f, Len(v) <= Len(w)
        PROVE  IsPrefix(v, w)
    <2>1. Len(v) \in Nat /\ Len(w) \in Nat /\ Len(e) \in Nat /\ Len(f) \in Nat
      BY LenProperties DEF Strings
    <2>2. \A i \in 1..Len(v) : (v \o e)[i] = v[i]
      <3>1. \A i \in 1..(Len(v) + Len(e)) : (v \o e)[i] = IF i <= Len(v) THEN v[i] ELSE e[i - Len(v)]
        BY ConcatProperties DEF Strings
      <3> QED
        BY <2>1, <3>1
    <2>3. \A i \in 1..Len(w) : (w \o f)[i] = w[i]
      <3>1. \A i \in 1..(Len(w) + Len(f)) : (w \o f)[i] = IF i <= Len(w) THEN w[i] ELSE f[i - Len(w)]
        BY ConcatProperties DEF Strings
      <3> QED
        BY <2>1, <3>1
    <2>4. \A i \in 1..Len(v) : v[i] = w[i] /\ v[i] \in Nat /\ w[i] \in Nat
      <3> SUFFICES ASSUME NEW i \in 1..Len(v) PROVE v[i] = w[i] /\ v[i] \in Nat /\ w[i] \in Nat
        OBVIOUS
      <3>1. i \in 1..Len(w)
        BY <1>6, <2>1
      <3>2. v[i] = w[i]
        BY <1>6, <2>2, <2>3, <3>1
      <3>3. w[i] \in Nat
        BY <3>1, ElementOfSeq DEF Strings
      <3> QED
        BY <3>2, <3>3
    <2>5. /\ SubSeq(v, 1, Len(v)) \in Seq(Nat) /\ Len(SubSeq(v, 1, Len(v))) = Len(v)
          /\ \A i \in 1..Len(v) : SubSeq(v, 1, Len(v))[i] = v[i]
      <3>1. /\ SubSeq(v, 1, Len(v)) \in Seq(Nat)
            /\ Len(SubSeq(v, 1, Len(v))) = IF 1 <= Len(v) THEN Len(v) - 1 + 1 ELSE 0
            /\ \A i \in 1..(Len(v) - 1 + 1) : SubSeq(v, 1, Len(v))[i] = v[1 + i - 1]
        BY <2>1, <2>4, SubSeqProperties
      <3> QED
        BY <2>1, <3>1
    <2>6. /\ SubSeq(w, 1, Len(v)) \in Seq(Nat) /\ Len(SubSeq(w, 1, Len(v))) = Len(v)
          /\ \A i \in 1..Len(v) : SubSeq(w, 1, Len(v))[i] = w[i]
      <3>1. /\ SubSeq(w, 1, Len(v)) \in Seq(Nat)
            /\ Len(SubSeq(w, 1, Len(v))) = IF 1 <= Len(v) THEN Len(v) - 1 + 1 ELSE 0
            /\ \A i \in 1..(Len(v) - 1 + 1) : SubSeq(w, 1, Len(v))[i] = w[1 + i - 1]
        BY <2>1, <2>4, SubSeqProperties
      <3> QED
        BY <2>1, <3>1
    <2> DEFINE g == SubSeq(v, 1, Len(v))
               h == SubSeq(w, 1, Len(v))
    <2>7. g = h
      <3>1. g \in Seq(Nat) /\ h \in Seq(Nat) /\ Len(g) = Len(h) /\ \A i \in 1..Len(g) : g[i] = h[i]
        BY <2>4, <2>5, <2>6
      <3> HIDE DEF g, h
      <3> QED
        BY <3>1, SeqEqual
    <2> QED
      BY <1>6, <2>7 DEF IsPrefix
  <1>7. x = y
    <2>1. CASE Len(p) <= Len(q)
      BY <1>1, <1>2, <1>3, <1>6, <2>1
    <2>2. CASE Len(q) <= Len(p)
      BY <1>1, <1>2, <1>4, <1>6, <2>2
    <2> QED
      BY <1>5, <2>1, <2>2
  <1>8. r = s
    <2>1. p \o r = p \o s
      BY <1>2, <1>7 DEF p, q
    <2> QED
      BY <1>1, <2>1, ConcatSimplifications DEF Strings
  <1> QED
    BY <1>7, <1>8

LEMMA LeadOpens ==
    ASSUME NEW x \in Clear, NEW r \in Strings, NEW w \in Clear
    PROVE  Opens(Lead(x, r), w) <=> x = w
  BY CancelWord DEF Opens

LEMMA OpensOnce ==
    ASSUME NEW v \in Clear, NEW w \in Clear, NEW r, Opens(r, v), Opens(r, w)
    PROVE  v = w
  BY CancelWord DEF Opens

\* A qualifier and a blank, if the pointer has it.
Maybe(q, t, r) == IF q \in t.quals THEN Lead(q, Lead(" ", r)) ELSE r

LEMMA ClearWords == CodeWords \subseteq Clear /\ CodeWords \subseteq Word /\ Clear \subseteq Word /\ " " \in CodeWords
  BY WordsOfHeap

LEMMA MaybeType ==
    ASSUME NEW q \in CodeWords, NEW t, NEW r \in Strings
    PROVE  /\ Maybe(q, t, r) \in Strings /\ Lead(" ", r) \in Strings
           /\ \A w \in Clear : Opens(Maybe(q, t, r), w) => w = q \/ Opens(r, w)
  <1>1. Lead(" ", r) \in Strings
    BY ClearWords, LeadType
  <1>2. Lead(q, Lead(" ", r)) \in Strings
    BY <1>1, ClearWords, LeadType
  <1>3. \A w \in Clear : Opens(Lead(q, Lead(" ", r)), w) => w = q
    BY <1>1, ClearWords, LeadOpens
  <1> QED
    BY <1>1, <1>2, <1>3 DEF Maybe

LEMMA MaybeTells ==
    ASSUME NEW q \in CodeWords, NEW t, NEW u, NEW r \in Strings, NEW s \in Strings,
           ~Opens(r, q), ~Opens(s, q), Maybe(q, t, r) = Maybe(q, u, s)
    PROVE  (q \in t.quals <=> q \in u.quals) /\ r = s
  <1> DEFINE x == Lead(" ", r)
             y == Lead(" ", s)
  <1>1. x \in Strings /\ y \in Strings /\ q \in Clear
    BY ClearWords, MaybeType
  <1>2. x = y => r = s
    BY ClearWords, CancelWord
  <1>3. Maybe(q, t, r) = (IF q \in t.quals THEN Lead(q, x) ELSE r) /\ Maybe(q, u, s) = (IF q \in u.quals THEN Lead(q, y) ELSE s)
    BY DEF Maybe
  <1> HIDE DEF x, y
  <1>4. Opens(Lead(q, x), q) /\ Opens(Lead(q, y), q)
    BY <1>1, LeadOpens
  <1>5. Lead(q, x) = Lead(q, y) => x = y
    BY <1>1, CancelWord
  <1> QED
    BY <1>2, <1>3, <1>4, <1>5

LEMMA CatWritten ==
    ASSUME NEW t, NEW r \in Strings
    PROVE  Cat(Written(Spelling, t), r) = Maybe("restrict", t, Maybe("volatile", t, Maybe("const", t, r)))
  <1>1. ASSUME NEW q \in {"restrict", "volatile", "const"}, NEW s \in Strings
        PROVE  Cat(Piece(q, t), s) = Maybe(q, t, s)
    <2> DEFINE c == Spelling[q]
               d == Spelling[" "]
    <2>1. q \in Word /\ " " \in Word /\ c \in Strings /\ d \in Strings
      BY QualifierWords, ClearWords, SpellingType
    <2>2. Cat(c, Lead(" ", s)) = Lead(q, Lead(" ", s)) /\ Cat(d, s) = Lead(" ", s) /\ Cat(<<>>, s) = s
      BY <2>1, LeadType, CatLead
    <2>3. Piece(q, t) = IF q \in t.quals THEN Cat(c, d) ELSE <<>>
      BY DEF Piece, Cat
    <2> HIDE DEF c, d
    <2>4. Cat(Cat(c, d), s) = Cat(c, Cat(d, s))
      BY <2>1, CatAssoc
    <2> QED
      BY <2>2, <2>3, <2>4 DEF Maybe
  <1> DEFINE a == Piece("restrict", t)
             b == Piece("volatile", t)
             c == Piece("const", t)
  <1>2. a \in Strings /\ b \in Strings /\ c \in Strings /\ Written(Spelling, t) = Cat(Cat(a, b), c)
    BY WrittenIs DEF Cat
  <1>3. Cat(c, r) = Maybe("const", t, r) /\ Maybe("const", t, r) \in Strings
    BY <1>1, MaybeType, QualifierWords
  <1>4. Cat(b, Cat(c, r)) = Maybe("volatile", t, Maybe("const", t, r))
        /\ Maybe("volatile", t, Maybe("const", t, r)) \in Strings
    BY <1>1, <1>3, MaybeType, QualifierWords
  <1>5. Cat(a, Cat(b, Cat(c, r))) = Maybe("restrict", t, Maybe("volatile", t, Maybe("const", t, r)))
    BY <1>1, <1>4
  <1> HIDE DEF a, b, c
  <1>6. Cat(Cat(Cat(a, b), c), r) = Cat(a, Cat(b, Cat(c, r)))
    <2>1. Cat(a, b) \in Strings /\ Cat(c, r) \in Strings
      BY <1>2, CatType
    <2>2. Cat(Cat(Cat(a, b), c), r) = Cat(Cat(a, b), Cat(c, r))
      BY <1>2, <2>1, CatAssoc
    <2>3. Cat(Cat(a, b), Cat(c, r)) = Cat(a, Cat(b, Cat(c, r)))
      BY <1>2, <2>1, CatAssoc
    <2> QED
      BY <2>2, <2>3
  <1> QED
    BY <1>2, <1>5, <1>6

\* The words a pointer begins with say its qualifiers and its address space.
LEMMA WrittenTells ==
    ASSUME NEW t, NEW u, NEW x \in Range(AddressSpaces), NEW y \in Range(AddressSpaces),
           NEW r \in Strings, NEW s \in Strings,
           Cat(Written(Spelling, t), Lead(x, r)) = Cat(Written(Spelling, u), Lead(y, s))
    PROVE  /\ \A q \in Range(Qualifiers) : q \in t.quals <=> q \in u.quals
           /\ x = y /\ r = s
  <1> DEFINE a3 == Maybe("const", t, Lead(x, r))
             b3 == Maybe("const", u, Lead(y, s))
             a2 == Maybe("volatile", t, a3)
             b2 == Maybe("volatile", u, b3)
  <1>0. \A q \in {"restrict", "volatile", "const"} : q \in Clear /\ q \in CodeWords
    BY QualifierWords, ClearWords
  <1>1. x \in Clear /\ y \in Clear /\ x \in Word /\ y \in Word
        /\ \A q \in {"restrict", "volatile", "const"} : x # q /\ y # q
    BY QualifierWords, WordsOfHeap
  <1>2. Lead(x, r) \in Strings /\ Lead(y, s) \in Strings
        /\ \A q \in {"restrict", "volatile", "const"} : ~Opens(Lead(x, r), q) /\ ~Opens(Lead(y, s), q)
    BY <1>0, <1>1, LeadType, LeadOpens
  <1>3. a3 \in Strings /\ b3 \in Strings /\ \A q \in {"restrict", "volatile"} : ~Opens(a3, q) /\ ~Opens(b3, q)
    BY <1>0, <1>2, MaybeType
  <1>4. Maybe("restrict", t, a2) = Maybe("restrict", u, b2)
    BY <1>2, CatWritten
  <1> HIDE DEF a3, b3
  <1>5. a2 \in Strings /\ b2 \in Strings /\ ~Opens(a2, "restrict") /\ ~Opens(b2, "restrict")
    BY <1>0, <1>3, MaybeType
  <1> HIDE DEF a2, b2
  <1>6. ("restrict" \in t.quals <=> "restrict" \in u.quals) /\ a2 = b2
    BY <1>0, <1>4, <1>5, MaybeTells
  <1>7. ("volatile" \in t.quals <=> "volatile" \in u.quals) /\ a3 = b3
    BY <1>0, <1>3, <1>6, MaybeTells DEF a2, b2
  <1>8. ("const" \in t.quals <=> "const" \in u.quals) /\ Lead(x, r) = Lead(y, s)
    BY <1>0, <1>2, <1>7, MaybeTells DEF a3, b3
  <1>9. x = y /\ r = s
    <2>1. x \in Clear /\ y \in Clear /\ Lead(x, r) = Lead(y, s)
      BY <1>1, <1>8
    <2> QED
      BY <2>1, CancelWord
  <1> QED
    BY <1>6, <1>7, <1>8, <1>9, QualifierWords
-----------------------------------------------------------------------------
\* No two told types are written alike unless they are equal

E == equals(Heap)

\* The parameters of a block as they are written, and all of them with commas.
ParamTexts(a) == [i \in 1..Len(Heap[a].params) |-> T[Heap[a].params[i]]]

ListedOf(ts) == Listed(Spelling[", "], ts)

LEMMA ParamTextsType ==
    ASSUME NEW a \in Types, Heap[a].id = "block"
    PROVE  /\ ParamTexts(a) \in Seq(Strings) /\ Len(ParamTexts(a)) = Len(Heap[a].params)
           /\ Len(Heap[a].params) \in Nat
           /\ \A i \in 1..Len(Heap[a].params) :
                 /\ ParamTexts(a)[i] = T[Heap[a].params[i]]
                 /\ Heap[a].params[i] \in 1..(a - 1) /\ Heap[a].params[i] \in Types
  <1> DEFINE p == Heap[a].params
             ts == [i \in 1..Len(p) |-> T[p[i]]]
  <1>1. p \in Seq(1..(a - 1)) /\ p \in Seq(Types)
    BY TypeShape
  <1> HIDE DEF p
  <1>2. \A i \in 1..Len(p) : p[i] \in 1..(a - 1) /\ p[i] \in Types
    BY <1>1, ElementOfSeq
  <1>3. Len(p) \in Nat
    BY <1>1, LenProperties
  <1>4. \A i \in 1..Len(p) : T[p[i]] \in Strings
    BY <1>2, TextType
  <1>5. ts \in Seq(Strings) /\ Len(ts) = Len(p)
    <2> HIDE DEF Strings
    <2> QED
      BY <1>3, <1>4
  <1>6. ParamTexts(a) = ts
    BY DEF ParamTexts, p
  <1>7. \A i \in 1..Len(p) : ts[i] = T[p[i]]
    OBVIOUS
  <1> HIDE DEF ts
  <1> QED
    BY <1>2, <1>3, <1>5, <1>6, <1>7 DEF p

LEMMA ListedType ==
    ASSUME NEW a \in Types, Heap[a].id = "block"
    PROVE  ListedOf(ParamTexts(a)) \in Strings
  <1>1. ParamTexts(a) \in Seq(Strings) /\ Len(ParamTexts(a)) \in Nat
    BY ParamTextsType
  <1>2. PICK L : Endings(L, ParamTexts(a)) /\ ListedOf(ParamTexts(a)) = L[Len(ParamTexts(a))]
    BY <1>1, ListedIs DEF ListedOf
  <1>3. L \in [0..Len(ParamTexts(a)) -> Strings]
    BY <1>2 DEF Endings
  <1> QED
    BY <1>1, <1>2, <1>3

LEMMA KeyWords ==
    \A w \in {" ", "*", "atomic_", "void", "(", ", ", ")*"} :
        w \in CodeWords /\ w \in Clear /\ w \in Word /\ w \notin VectorLengths /\ Spelling[w] \in Strings
  BY WordsOfHeap, SpellingType, KindsOfWords

\* A word at the end of a string comes before what follows the string.
LEMMA Shift ==
    ASSUME NEW s \in Strings, NEW x \in Word, NEW r \in Strings
    PROVE  /\ Lead(x, r) \in Strings /\ Cat(s, Spelling[x]) \in Strings
           /\ Cat(Cat(s, Spelling[x]), r) = Cat(s, Lead(x, r))
  <1>1. Spelling[x] \in Strings
    BY SpellingType
  <1>2. Cat(Cat(s, Spelling[x]), r) = Cat(s, Cat(Spelling[x], r))
    BY <1>1, CatAssoc
  <1> QED
    BY <1>1, <1>2, CatLead, CatType, LeadType

\* A type and what follows it, by its kind.
LEMMA CatPrimitive ==
    ASSUME NEW a \in Types, NEW r \in Strings, Heap[a].id = "primitive"
    PROVE  /\ Heap[a].prim \in Names /\ Heap[a].prim \in Word /\ Heap[a].prim \in Clear
           /\ T[a] = Spelling[Heap[a].prim] /\ Cat(T[a], r) = Lead(Heap[a].prim, r)
  <1>1. T[a] = TextOf(Heap, Spelling, T, a)
    BY TextsAre
  <1>2. T[a] = Spelling[Heap[a].prim]
    BY <1>1 DEF TextOf
  <1>3. Heap[a].prim \in Names
    BY TypeShape
  <1>4. Heap[a].prim \in Word /\ Heap[a].prim \in Clear
    BY <1>3, WordsOfHeap
  <1> QED
    BY <1>2, <1>3, <1>4, CatLead

LEMMA CatStructure ==
    ASSUME NEW a \in Types, NEW r \in Strings, Heap[a].id = "structure"
    PROVE  /\ Heap[a].name \in Word /\ (toldTypes[a] => Heap[a].name \in ToldNames /\ Heap[a].name \in Clear)
           /\ T[a] = Spelling[Heap[a].name] /\ Cat(T[a], r) = Lead(Heap[a].name, r)
  <1>1. T[a] = TextOf(Heap, Spelling, T, a)
    BY TextsAre
  <1>2. T[a] = Spelling[Heap[a].name]
    BY <1>1 DEF TextOf
  <1>3. Heap[a].name \in StructNames /\ (toldTypes[a] => Heap[a].name \in ToldNames)
    BY TypeShape, TypeTold
  <1>4. Heap[a].name \in Word /\ (toldTypes[a] => Heap[a].name \in Clear)
    BY <1>3, WordsOfHeap
  <1> QED
    BY <1>2, <1>3, <1>4, CatLead

LEMMA CatVector ==
    ASSUME NEW a \in Types, NEW r \in Strings, Heap[a].id = "vector"
    PROVE  /\ Heap[a].of \in Types /\ Heap[a].of \in 1..(a - 1) /\ Heap[Heap[a].of].id = "primitive"
           /\ Heap[Heap[a].of].prim \in Names /\ Heap[Heap[a].of].prim \in Clear
           /\ Heap[a].len \in VectorLengths /\ Heap[a].len \in Clear /\ Lead(Heap[a].len, r) \in Strings
           /\ T[a] = Cat(T[Heap[a].of], Spelling[Heap[a].len])
           /\ Cat(T[a], r) = Lead(Heap[Heap[a].of].prim, Lead(Heap[a].len, r))
  <1> DEFINE b == Heap[a].of
             x == Heap[Heap[a].of].prim
             l == Heap[a].len
  <1>1. b \in Types /\ b \in 1..(a - 1) /\ Heap[b].id = "primitive" /\ l \in VectorLengths
    BY TypeShape
  <1>2. l \in Word /\ l \in Clear
    BY <1>1, WordsOfHeap
  <1>3. T[a] = Cat(T[b], Spelling[l])
    <2>1. T[a] = TextOf(Heap, Spelling, T, a)
      BY TextsAre
    <2> QED
      BY <2>1 DEF TextOf, Cat
  <1> HIDE DEF b, l
  <1>4. T[b] \in Strings
    BY <1>1, TextType
  <1>5. Lead(l, r) \in Strings /\ Cat(T[a], r) = Cat(T[b], Lead(l, r))
    BY <1>2, <1>3, <1>4, Shift
  <1>6. x \in Names /\ x \in Clear /\ Cat(T[b], Lead(l, r)) = Lead(x, Lead(l, r))
    BY <1>1, <1>5, CatPrimitive DEF b
  <1> QED
    BY <1>1, <1>2, <1>3, <1>5, <1>6 DEF b, l

LEMMA CatAtomic ==
    ASSUME NEW a \in Types, NEW r \in Strings, Heap[a].id = "atomic"
    PROVE  /\ Heap[a].of \in Types /\ Heap[a].of \in 1..(a - 1) /\ Cat(T[Heap[a].of], r) \in Strings
           /\ T[a] = Lead("atomic_", T[Heap[a].of])
           /\ Cat(T[a], r) = Lead("atomic_", Cat(T[Heap[a].of], r))
  <1> DEFINE b == Heap[a].of
             x == "atomic_"
  <1>1. b \in Types /\ b \in 1..(a - 1)
    BY TypeShape
  <1>2. T[b] \in Strings
    BY <1>1, TextType
  <1>3. x \in Word
    BY KeyWords
  <1>4. T[a] = Lead(x, T[b])
    <2>1. T[a] = TextOf(Heap, Spelling, T, a)
      BY TextsAre
    <2> QED
      BY <2>1 DEF TextOf, Lead
  <1> HIDE DEF b, x
  <1>5. Cat(Lead(x, T[b]), r) = Lead(x, Cat(T[b], r)) /\ Cat(T[b], r) \in Strings
    BY <1>2, <1>3, CatLead, CatType
  <1> QED
    BY <1>1, <1>4, <1>5 DEF b, x

\* What follows the type a pointer points to, with what follows the pointer.
Star(r) == Lead(" ", Lead("*", r))

LEMMA StarType == ASSUME NEW r \in Strings PROVE Star(r) \in Strings /\ Lead("*", r) \in Strings
  BY KeyWords, LeadType DEF Star

LEMMA CatPointer ==
    ASSUME NEW a \in Types, NEW r \in Strings, Heap[a].id = "pointer"
    PROVE  /\ Heap[a].of \in Types /\ Heap[a].of \in 1..(a - 1)
           /\ Heap[a].space \in Range(AddressSpaces)
           /\ Star(r) \in Strings /\ Cat(T[Heap[a].of], Star(r)) \in Strings
           /\ Lead(" ", Cat(T[Heap[a].of], Star(r))) \in Strings
           /\ T[a] = Cat(Cat(Cat(Cat(Cat(Written(Spelling, Heap[a]), Spelling[Heap[a].space]), Spelling[" "]),
                                 T[Heap[a].of]), Spelling[" "]), Spelling["*"])
           /\ Cat(T[a], r) = Cat(Written(Spelling, Heap[a]),
                                 Lead(Heap[a].space, Lead(" ", Cat(T[Heap[a].of], Star(r)))))
  <1> DEFINE b == Heap[a].of
             as == Heap[a].space
             w == Written(Spelling, Heap[a])
             u == T[b]
             blank == " "
             star == "*"
             w1 == Cat(w, Spelling[as])
             w2 == Cat(w1, Spelling[blank])
             w3 == Cat(w2, u)
             w4 == Cat(w3, Spelling[blank])
             r1 == Lead(star, r)
             r2 == Lead(blank, r1)
             r3 == Cat(u, r2)
             r4 == Lead(blank, r3)
  <1>1. b \in Types /\ b \in 1..(a - 1) /\ as \in Range(AddressSpaces)
    BY TypeShape
  <1>2. as \in Word /\ blank \in Word /\ star \in Word
    BY <1>1, WordsOfHeap, KeyWords
  <1>3. w \in Strings /\ u \in Strings
    BY <1>1, TextType, WrittenIs
  <1>4. T[a] = Cat(w4, Spelling[star])
    <2>1. T[a] = TextOf(Heap, Spelling, T, a)
      BY TextsAre
    <2> QED
      BY <2>1 DEF TextOf, Cat
  <1>5. r2 = Star(r)
    BY DEF Star
  <1> HIDE DEF b, as, blank, star, w, u
  <1>6. w1 \in Strings
    BY <1>2, <1>3, Shift
  <1>7. w2 \in Strings
    <2> HIDE DEF w1
    <2> QED
      BY <1>2, <1>6, Shift
  <1>8. w3 \in Strings
    <2> HIDE DEF w2
    <2> QED
      BY <1>3, <1>7, CatType
  <1>9. w4 \in Strings
    <2> HIDE DEF w3
    <2> QED
      BY <1>2, <1>8, Shift
  <1>10. r1 \in Strings /\ r2 \in Strings /\ r3 \in Strings /\ r4 \in Strings
    <2>1. r1 \in Strings
      BY <1>2, LeadType
    <2> HIDE DEF r1
    <2>2. r2 \in Strings
      BY <1>2, <2>1, LeadType
    <2> HIDE DEF r2
    <2>3. r3 \in Strings
      BY <1>3, <2>2, CatType
    <2> HIDE DEF r3
    <2>4. r4 \in Strings
      BY <1>2, <2>3, LeadType
    <2> QED
      BY <2>1, <2>2, <2>3, <2>4
  <1>11. Cat(T[a], r) = Cat(w4, r1)
    <2> HIDE DEF w4
    <2> QED
      BY <1>2, <1>4, <1>9, Shift
  <1>12. Cat(w4, r1) = Cat(w3, r2)
    <2> HIDE DEF w3, r1
    <2> QED
      BY <1>2, <1>8, <1>10, Shift
  <1>13. Cat(w3, r2) = Cat(w2, r3)
    <2> HIDE DEF w2, r2
    <2> QED
      BY <1>3, <1>7, <1>10, CatAssoc
  <1>14. Cat(w2, r3) = Cat(w1, r4)
    <2> HIDE DEF w1, r3
    <2> QED
      BY <1>2, <1>6, <1>10, Shift
  <1>15. Cat(w1, r4) = Cat(w, Lead(as, r4))
    <2> HIDE DEF r4
    <2> QED
      BY <1>2, <1>3, <1>10, Shift
  <1>16. Cat(T[a], r) = Cat(w, Lead(as, r4))
    <2> HIDE DEF w1, w2, w3, w4, r1, r2, r3, r4
    <2> QED
      BY <1>11, <1>12, <1>13, <1>14, <1>15
  <1> QED
    BY <1>1, <1>4, <1>5, <1>10, <1>16 DEF b, as, w, u, blank, star

\* A block with nothing but its first words left out.
Parens(r) == Lead(" ", Lead("(", r))

LEMMA ParensType == ASSUME NEW r \in Strings PROVE Parens(r) \in Strings /\ Lead("(", r) \in Strings
  BY KeyWords, LeadType DEF Parens

LEMMA CatBlock ==
    ASSUME NEW a \in Types, NEW r \in Strings, Heap[a].id = "block"
    PROVE  /\ ListedOf(ParamTexts(a)) \in Strings
           /\ Lead(")*", r) \in Strings /\ Cat(ListedOf(ParamTexts(a)), Lead(")*", r)) \in Strings
           /\ T[a] = Cat(Cat(Cat(Cat(Spelling["void"], Spelling[" "]), Spelling["("]), ListedOf(ParamTexts(a))),
                         Spelling[")*"])
           /\ Cat(T[a], r) = Lead("void", Parens(Cat(ListedOf(ParamTexts(a)), Lead(")*", r))))
  <1> DEFINE l == ListedOf(ParamTexts(a))
             void == "void"
             blank == " "
             par == "("
             end == ")*"
             w1 == Cat(Spelling[void], Spelling[blank])
             w2 == Cat(w1, Spelling[par])
             w3 == Cat(w2, l)
             r1 == Lead(end, r)
             r2 == Cat(l, r1)
             r3 == Lead(par, r2)
             r4 == Lead(blank, r3)
  <1>1. void \in Word /\ blank \in Word /\ par \in Word /\ end \in Word /\ Spelling[void] \in Strings
    BY KeyWords
  <1>2. l \in Strings
    BY ListedType
  <1>3. T[a] = Cat(w3, Spelling[end])
    <2>1. T[a] = TextOf(Heap, Spelling, T, a)
      BY TextsAre
    <2> QED
      BY <2>1 DEF TextOf, Cat, ParamTexts, ListedOf
  <1>4. r4 = Parens(r2)
    BY DEF Parens
  <1> HIDE DEF l, void, blank, par, end
  <1>5. w1 \in Strings
    BY <1>1, Shift
  <1>6. w2 \in Strings
    <2> HIDE DEF w1
    <2> QED
      BY <1>1, <1>5, Shift
  <1>7. w3 \in Strings
    <2> HIDE DEF w2
    <2> QED
      BY <1>2, <1>6, CatType
  <1>8. r1 \in Strings /\ r2 \in Strings /\ r3 \in Strings /\ r4 \in Strings
    <2>1. r1 \in Strings
      BY <1>1, LeadType
    <2> HIDE DEF r1
    <2>2. r2 \in Strings
      BY <1>2, <2>1, CatType
    <2> HIDE DEF r2
    <2>3. r3 \in Strings
      BY <1>1, <2>2, LeadType
    <2> HIDE DEF r3
    <2>4. r4 \in Strings
      BY <1>1, <2>3, LeadType
    <2> QED
      BY <2>1, <2>2, <2>3, <2>4
  <1>9. Cat(T[a], r) = Cat(w3, r1)
    <2> HIDE DEF w3
    <2> QED
      BY <1>1, <1>3, <1>7, Shift
  <1>10. Cat(w3, r1) = Cat(w2, r2)
    <2> HIDE DEF w2, r1
    <2> QED
      BY <1>2, <1>6, <1>8, CatAssoc
  <1>11. Cat(w2, r2) = Cat(w1, r3)
    <2> HIDE DEF w1, r2
    <2> QED
      BY <1>1, <1>5, <1>8, Shift
  <1>12. Cat(w1, r3) = Cat(Spelling[void], r4)
    <2> HIDE DEF r3
    <2> QED
      BY <1>1, <1>8, Shift
  <1>13. Cat(Spelling[void], r4) = Lead(void, r4)
    <2> HIDE DEF r4
    <2> QED
      BY <1>1, <1>8, CatLead
  <1>14. Cat(T[a], r) = Lead(void, r4)
    <2> HIDE DEF w1, w2, w3, r1, r2, r3, r4
    <2> QED
      BY <1>9, <1>10, <1>11, <1>12, <1>13
  <1> QED
    BY <1>2, <1>3, <1>4, <1>8, <1>14 DEF l, void, blank, par, end

\* The words a told type can begin with, by its kind.
FirstWords(id) ==
    CASE id \in {"primitive", "vector"} -> Names
      [] id = "structure" -> ToldNames
      [] id = "pointer" -> Range(Qualifiers) \cup Range(AddressSpaces)
      [] id = "atomic" -> {"atomic_"}
      [] id = "block" -> {"void"}

\* Qualifiers by their places and by their names.
LEMMA EachQualifier ==
    ASSUME NEW t, NEW u
    PROVE  /\ (\A q \in Range(Qualifiers) : q \in t.quals <=> q \in u.quals)
              => \A i \in 1..Len(Qualifiers) : (Qualifiers[i] \in t.quals) = (Qualifiers[i] \in u.quals)
           /\ (\A i \in 1..Len(Qualifiers) : (Qualifiers[i] \in t.quals) = (Qualifiers[i] \in u.quals))
              => \A q \in {"restrict", "volatile", "const"} : q \in t.quals <=> q \in u.quals
  <1> DEFINE Q(q) == (q \in t.quals) = (q \in u.quals)
  <1>1. Range(Qualifiers) = {"restrict", "volatile", "const"}
    BY QualifierWords
  <1>2. DOMAIN Qualifiers = 1..3 /\ Len(Qualifiers) = 3
    BY DEF Qualifiers
  <1>3. Qualifiers[1] = "restrict" /\ Qualifiers[2] = "volatile" /\ Qualifiers[3] = "const"
    BY DEF Qualifiers
  <1>4. Q("restrict") /\ Q("volatile") /\ Q("const") => \A i \in 1..Len(Qualifiers) : Q(Qualifiers[i])
    BY <1>2, <1>3
  <1>5. (\A i \in 1..Len(Qualifiers) : Q(Qualifiers[i])) => Q("restrict") /\ Q("volatile") /\ Q("const")
    <2>1. 1 \in 1..3 /\ 2 \in 1..3 /\ 3 \in 1..3
      OBVIOUS
    <2> HIDE DEF Q
    <2> QED
      BY <1>2, <1>3, <2>1
  <1> QED
    BY <1>1, <1>4, <1>5

LEMMA PointerBegins ==
    ASSUME NEW t, NEW s \in Strings, NEW x \in Range(AddressSpaces), Opens(s, x)
    PROVE  \E w \in FirstWords("pointer") : Opens(Cat(Written(Spelling, t), s), w)
  <1> DEFINE W == Range(Qualifiers) \cup Range(AddressSpaces)
             OK(u) == u \in Strings /\ \E w \in W : Opens(u, w)
  <1>1. ASSUME NEW q \in {"restrict", "volatile", "const"}, NEW u, OK(u)
        PROVE  OK(Maybe(q, t, u))
    <2>1. q \in CodeWords /\ q \in W
      BY QualifierWords
    <2>2. Lead(" ", u) \in Strings /\ Maybe(q, t, u) \in Strings
      BY <1>1, <2>1, MaybeType
    <2>3. Opens(Lead(q, Lead(" ", u)), q)
      BY <2>2 DEF Opens
    <2> QED
      BY <1>1, <2>1, <2>2, <2>3 DEF Maybe
  <1>2. OK(s)
    OBVIOUS
  <1>3. Cat(Written(Spelling, t), s) = Maybe("restrict", t, Maybe("volatile", t, Maybe("const", t, s)))
    BY CatWritten
  <1> HIDE DEF OK
  <1>4. OK(Maybe("const", t, s))
    BY <1>1, <1>2
  <1>5. OK(Maybe("volatile", t, Maybe("const", t, s)))
    BY <1>1, <1>4
  <1>6. OK(Cat(Written(Spelling, t), s))
    BY <1>1, <1>3, <1>5
  <1>7. FirstWords("pointer") = W
    BY DEF FirstWords
  <1> QED
    BY <1>6, <1>7 DEF OK

LEMMA TypeBegins ==
    ASSUME NEW a \in Types, toldTypes[a], NEW r \in Strings
    PROVE  \E w \in FirstWords(Heap[a].id) : Opens(Cat(T[a], r), w)
  <1> DEFINE id == Heap[a].id
             Goal == \E w \in FirstWords(id) : Opens(Cat(T[a], r), w)
  <1>1. ASSUME id = "primitive" PROVE Goal
    <2>1. Heap[a].prim \in FirstWords(id) /\ Cat(T[a], r) = Lead(Heap[a].prim, r)
      BY <1>1, CatPrimitive DEF FirstWords
    <2> QED
      BY <2>1 DEF Opens
  <1>2. ASSUME id = "structure" PROVE Goal
    <2>1. Heap[a].name \in FirstWords(id) /\ Cat(T[a], r) = Lead(Heap[a].name, r)
      BY <1>2, CatStructure DEF FirstWords
    <2> QED
      BY <2>1 DEF Opens
  <1>3. ASSUME id = "vector" PROVE Goal
    <2> DEFINE x == Heap[Heap[a].of].prim
    <2>1. x \in Names /\ Lead(Heap[a].len, r) \in Strings /\ Cat(T[a], r) = Lead(x, Lead(Heap[a].len, r))
      BY <1>3, CatVector
    <2>2. x \in FirstWords(id)
      BY <1>3, <2>1 DEF FirstWords
    <2> QED
      BY <2>1, <2>2 DEF Opens
  <1>4. ASSUME id = "atomic" PROVE Goal
    <2>1. Cat(T[Heap[a].of], r) \in Strings /\ Cat(T[a], r) = Lead("atomic_", Cat(T[Heap[a].of], r))
      BY <1>4, CatAtomic
    <2>2. "atomic_" \in FirstWords(id)
      BY <1>4 DEF FirstWords
    <2> QED
      BY <2>1, <2>2 DEF Opens
  <1>5. ASSUME id = "block" PROVE Goal
    <2> DEFINE s == Cat(ListedOf(ParamTexts(a)), Lead(")*", r))
    <2>1. s \in Strings /\ Cat(T[a], r) = Lead("void", Parens(s))
      BY <1>5, CatBlock
    <2> HIDE DEF s
    <2>2. Parens(s) \in Strings
      BY <2>1, ParensType
    <2>3. "void" \in FirstWords(id)
      BY <1>5 DEF FirstWords
    <2> QED
      BY <2>1, <2>2, <2>3 DEF Opens
  <1>6. ASSUME id = "pointer" PROVE Goal
    <2> DEFINE as == Heap[a].space
               u == Lead(" ", Cat(T[Heap[a].of], Star(r)))
               s == Lead(as, u)
    <2>1. as \in Range(AddressSpaces) /\ u \in Strings /\ Cat(T[a], r) = Cat(Written(Spelling, Heap[a]), s)
      BY <1>6, CatPointer
    <2> HIDE DEF u, as
    <2>2. s \in Strings /\ Opens(s, as)
      BY <2>1, LeadType, WordsOfHeap DEF Opens
    <2> HIDE DEF s
    <2>3. \E w \in FirstWords("pointer") : Opens(Cat(Written(Spelling, Heap[a]), s), w)
      BY <2>1, <2>2, PointerBegins
    <2> QED
      BY <1>6, <2>1, <2>3
  <1>7. id \in {"primitive", "pointer", "vector", "atomic", "block", "structure"}
    BY TypeShape
  <1> QED
    BY <1>1, <1>2, <1>3, <1>4, <1>5, <1>6, <1>7

\* The first words of a told type tell its kind, but for vectors and blocks, which can begin
\* as scalars do; none is a length, a comma or the end of a block.
Kinds == {"primitive", "pointer", "vector", "atomic", "block", "structure"}
KindTold(id) == IF id \in {"vector", "block"} THEN "primitive" ELSE id

LEMMA FirstWordsTell ==
    /\ \A i, j \in Kinds :
          FirstWords(i) \cap FirstWords(j) # {} => KindTold(i) = KindTold(j)
    /\ \A i \in Kinds :
          FirstWords(i) \cap (VectorLengths \cup {", ", ")*", "*"}) = {} /\ FirstWords(i) \subseteq Clear
  <1>1. /\ FirstWords("primitive") = Names /\ FirstWords("vector") = Names
        /\ FirstWords("structure") = ToldNames /\ FirstWords("atomic") = {"atomic_"}
        /\ FirstWords("block") = {"void"}
        /\ FirstWords("pointer") = {"restrict", "volatile", "const", "__private", "__global", "__constant",
                                    "__local", "__generic"}
    BY QualifierWords DEF FirstWords
  <1>2. Keywords = {"restrict", "volatile", "const", "__private", "__global", "__constant", "__local", "__generic",
                    " ", "*", "atomic_", "void", "(", ", ", ")*"}
    BY QualifierWords DEF Keywords
  <1>3. /\ Names \cap VectorLengths = {} /\ Names \cap Keywords \subseteq {"void"}
        /\ VectorLengths \cap Keywords = {} /\ ToldNames \cap CodeWords = {}
        /\ Names \subseteq CodeWords /\ VectorLengths \subseteq CodeWords /\ Keywords \subseteq CodeWords
        /\ CodeWords \subseteq Clear /\ ToldNames \subseteq Clear
    BY KindsOfWords, WordsOfHeap
  <1>4. ASSUME NEW i \in Kinds,
               NEW j \in Kinds, KindTold(i) # KindTold(j)
        PROVE  FirstWords(i) \cap FirstWords(j) = {}
    BY <1>1, <1>2, <1>3, <1>4 DEF Kinds, KindTold
  <1>5. ASSUME NEW i \in Kinds
        PROVE  FirstWords(i) \cap (VectorLengths \cup {", ", ")*", "*"}) = {} /\ FirstWords(i) \subseteq Clear
    BY <1>1, <1>2, <1>3 DEF Kinds
  <1> QED
    BY <1>4, <1>5

\* What may follow a type: neither the length of a vector nor what a block has after void.
Apart(r) == (\A l \in VectorLengths : ~Opens(r, l)) /\ ~(\E u \in Strings : r = Parens(u))

LEMMA LeadApart ==
    ASSUME NEW x \in CodeWords, x \notin VectorLengths, x # " ", NEW r \in Strings
    PROVE  Apart(Lead(x, r))
  <1> DEFINE blank == " "
  <1>1. x \in Clear /\ blank \in Clear /\ VectorLengths \subseteq Clear /\ x # blank
    BY WordsOfHeap, KeyWords
  <1>2. \A l \in VectorLengths : ~Opens(Lead(x, r), l)
    BY <1>1, LeadOpens
  <1>3. ASSUME NEW u \in Strings, Lead(x, r) = Parens(u) PROVE FALSE
    <2> DEFINE v == Lead("(", u)
    <2>1. v \in Strings
      BY ParensType
    <2>2. Lead(x, r) = Lead(blank, v)
      BY <1>3 DEF Parens
    <2> HIDE DEF v, blank
    <2> QED
      BY <1>1, <2>1, <2>2, CancelWord
  <1> QED
    BY <1>2, <1>3 DEF Apart

LEMMA StarApart == ASSUME NEW r \in Strings PROVE Apart(Star(r))
  <1> DEFINE blank == " "
             star == "*"
             par == "("
             v == Lead(star, r)
  <1>1. blank \in Clear /\ star \in Clear /\ par \in Clear /\ blank \notin VectorLengths
        /\ VectorLengths \subseteq Clear
    BY WordsOfHeap, KeyWords
  <1>2. v \in Strings
    BY StarType
  <1>3. Star(r) = Lead(blank, v)
    BY DEF Star
  <1>4. star # par
    OBVIOUS
  <1>5. \A u \in Strings : Lead(par, u) \in Strings /\ Parens(u) = Lead(blank, Lead(par, u))
    BY ParensType DEF Parens
  <1> HIDE DEF blank, star, par
  <1>6. ASSUME NEW u \in Strings, Star(r) = Parens(u) PROVE FALSE
    <2>1. v = Lead(par, u)
      <3> DEFINE w == Lead(par, u)
      <3>1. w \in Strings /\ Lead(blank, v) = Lead(blank, w)
        BY <1>3, <1>5, <1>6
      <3> HIDE DEF v, w
      <3>2. v = w
        BY <1>1, <1>2, <3>1, CancelWord
      <3> QED
        BY <3>2 DEF w
    <2> QED
      BY <1>1, <1>4, <2>1, CancelWord
  <1>7. \A l \in VectorLengths : ~Opens(Lead(blank, v), l)
    <2> HIDE DEF v
    <2> QED
      BY <1>1, <1>2, LeadOpens
  <1> QED
    BY <1>3, <1>6, <1>7 DEF Apart

\* What is told of a vector or a block begins with more than a scalar.
LEMMA KindsApart ==
    ASSUME NEW a \in Types, NEW b \in Types, NEW r \in Strings, NEW s \in Strings, Apart(r),
           Cat(T[a], r) = Cat(T[b], s)
    PROVE  /\ ~(Heap[a].id = "primitive" /\ Heap[b].id = "vector")
           /\ ~(Heap[a].id = "primitive" /\ Heap[b].id = "block")
           /\ ~(Heap[a].id = "vector" /\ Heap[b].id = "block")
  <1> DEFINE void == "void"
             blank == " "
             par == "("
  <1>1. void \in Clear /\ blank \in Clear /\ blank \notin VectorLengths
    BY KeyWords
  <1>2. \A u \in Strings : Lead(par, u) \in Strings /\ Parens(u) \in Strings /\ Parens(u) = Lead(blank, Lead(par, u))
    BY ParensType DEF Parens
  <1>3. ASSUME Heap[b].id = "block"
        PROVE  \E u \in Strings : Cat(T[b], s) = Lead(void, Parens(u))
    BY <1>3, CatBlock
  <1> HIDE DEF void, blank, par
  <1>4. ASSUME Heap[a].id = "primitive", Heap[b].id = "vector" PROVE FALSE
    <2> DEFINE x == Heap[a].prim
               y == Heap[Heap[b].of].prim
               l == Heap[b].len
               v == Lead(l, s)
    <2>1. x \in Clear /\ Cat(T[a], r) = Lead(x, r)
      BY <1>4, CatPrimitive
    <2>2. y \in Clear /\ l \in VectorLengths /\ v \in Strings /\ Cat(T[b], s) = Lead(y, v)
      BY <1>4, CatVector
    <2>3. Lead(x, r) = Lead(y, v)
      BY <2>1, <2>2
    <2> HIDE DEF x, y, v
    <2>4. r = v
      BY <2>1, <2>2, <2>3, CancelWord
    <2> QED
      BY <2>2, <2>4 DEF v, Apart, Opens
  <1>5. ASSUME Heap[a].id = "primitive", Heap[b].id = "block" PROVE FALSE
    <2> DEFINE x == Heap[a].prim
    <2>1. x \in Clear /\ Cat(T[a], r) = Lead(x, r)
      BY <1>5, CatPrimitive
    <2>2. PICK u \in Strings : Cat(T[b], s) = Lead(void, Parens(u))
      BY <1>3, <1>5
    <2>3. Lead(x, r) = Lead(void, Parens(u)) /\ Parens(u) \in Strings
      BY <1>2, <2>1, <2>2
    <2> HIDE DEF x
    <2>4. r = Parens(u)
      BY <1>1, <2>1, <2>3, CancelWord
    <2> QED
      BY <2>4 DEF Apart
  <1>6. ASSUME Heap[a].id = "vector", Heap[b].id = "block" PROVE FALSE
    <2> DEFINE x == Heap[Heap[a].of].prim
               l == Heap[a].len
               v == Lead(l, r)
    <2>1. x \in Clear /\ l \in VectorLengths /\ l \in Clear /\ v \in Strings /\ Cat(T[a], r) = Lead(x, v)
      BY <1>6, CatVector
    <2>2. PICK u \in Strings : Cat(T[b], s) = Lead(void, Parens(u))
      BY <1>3, <1>6
    <2>3. Lead(x, v) = Lead(void, Parens(u)) /\ Parens(u) \in Strings
      BY <1>2, <2>1, <2>2
    <2> HIDE DEF x, v
    <2>4. v = Parens(u)
      BY <1>1, <2>1, <2>3, CancelWord
    <2>5. Lead(l, r) = Lead(blank, Lead(par, u)) /\ Lead(par, u) \in Strings
      BY <1>2, <2>4 DEF v
    <2> HIDE DEF l
    <2>6. l = blank
      BY <1>1, <2>1, <2>5, CancelWord
    <2> QED
      BY <1>1, <2>1, <2>6
  <1> QED
    BY <1>4, <1>5, <1>6

LEMMA SameKind ==
    ASSUME NEW a \in Types, NEW b \in Types, NEW r \in Strings, NEW s \in Strings,
           toldTypes[a], toldTypes[b], Apart(r), Apart(s), Cat(T[a], r) = Cat(T[b], s)
    PROVE  Heap[a].id = Heap[b].id
  <1>1. PICK w \in FirstWords(Heap[a].id) : Opens(Cat(T[a], r), w)
    BY TypeBegins
  <1>2. PICK x \in FirstWords(Heap[b].id) : Opens(Cat(T[b], s), x)
    BY TypeBegins
  <1>3. Heap[a].id \in Kinds /\ Heap[b].id \in Kinds
    BY TypeShape DEF Kinds
  <1>4. w \in Clear /\ x \in Clear
    BY <1>3, FirstWordsTell
  <1>5. w = x
    BY <1>1, <1>2, <1>4, OpensOnce
  <1>6. KindTold(Heap[a].id) = KindTold(Heap[b].id)
    BY <1>3, <1>5, FirstWordsTell
  <1>7. /\ ~(Heap[a].id = "primitive" /\ Heap[b].id = "vector")
        /\ ~(Heap[a].id = "primitive" /\ Heap[b].id = "block")
        /\ ~(Heap[a].id = "vector" /\ Heap[b].id = "block")
    BY KindsApart
  <1>8. /\ ~(Heap[b].id = "primitive" /\ Heap[a].id = "vector")
        /\ ~(Heap[b].id = "primitive" /\ Heap[a].id = "block")
        /\ ~(Heap[b].id = "vector" /\ Heap[a].id = "block")
    BY KindsApart
  <1> QED
    BY <1>3, <1>6, <1>7, <1>8 DEF Kinds, KindTold

\* F[i] is what follows the first i parameters of a block, up to what follows the block.
Rests(F, a, r) ==
    LET p == Heap[a].params
    IN  /\ F \in [0..Len(p) -> Strings]
        /\ F[Len(p)] = Lead(")*", r)
        /\ F[0] = Cat(ListedOf(ParamTexts(a)), Lead(")*", r))
        /\ \A i \in 0..(Len(p) - 1) :
              F[i] = IF i = 0 THEN Cat(T[p[i + 1]], F[i + 1]) ELSE Lead(", ", Cat(T[p[i + 1]], F[i + 1]))

LEMMA BlockRests ==
    ASSUME NEW a \in Types, Heap[a].id = "block", NEW r \in Strings
    PROVE  \E F : Rests(F, a, r)
  <1> DEFINE p == Heap[a].params
             ts == ParamTexts(a)
             n == Len(p)
             R == Lead(")*", r)
  <1>1. ts \in Seq(Strings) /\ Len(ts) = n /\ n \in Nat /\ \A i \in 1..n : ts[i] = T[p[i]] /\ p[i] \in Types
    BY ParamTextsType
  <1>2. R \in Strings /\ ", " \in Word
    <2>1. ")*" \in Word /\ ", " \in Word
      BY KeyWords
    <2> QED
      BY <2>1, LeadType
  <1> HIDE DEF R
  <1>3. PICK L : Endings(L, ts) /\ ListedOf(ts) = L[Len(ts)]
    BY <1>1, ListedIs DEF ListedOf
  <1>4. L \in [0..n -> Strings] /\ L[0] = <<>>
    BY <1>1, <1>3 DEF Endings
  <1>5. \A k \in 1..n : L[k] = IF k = n THEN Cat(ts[n - k + 1], L[k - 1])
                               ELSE Cat(Lead(", ", ts[n - k + 1]), L[k - 1])
    <2> SUFFICES ASSUME NEW k \in 1..n
                 PROVE  L[k] = IF k = n THEN Cat(ts[n - k + 1], L[k - 1]) ELSE Cat(Lead(", ", ts[n - k + 1]), L[k - 1])
      OBVIOUS
    <2> DEFINE t == ts[n - k + 1]
               e == L[k - 1]
    <2>1. L[k] = (IF k = n THEN <<>> ELSE Spelling[", "]) \o t \o e
      BY <1>1, <1>3 DEF Endings
    <2>2. t \in Strings /\ <<>> \in Strings
      <3>1. n - k + 1 \in 1..Len(ts)
        BY <1>1
      <3> QED
        BY <1>1, <3>1, ElementOfSeq DEF Strings
    <2> HIDE DEF t, e
    <2>3. CASE k = n
      <3>1. Cat(<<>>, t) = t
        BY <1>2, <2>2, CatLead
      <3> QED
        BY <2>1, <2>3, <3>1 DEF Cat, t, e
    <2>4. CASE k # n
      BY <2>1, <2>4 DEF Cat, Lead, t, e
    <2> QED
      BY <2>3, <2>4
  <1> DEFINE F == [i \in 0..n |-> Cat(L[n - i], R)]
  <1>6. F \in [0..n -> Strings]
    <2>1. \A i \in 0..n : L[n - i] \in Strings
      BY <1>1, <1>4
    <2> HIDE DEF n
    <2> QED
      BY <1>2, <2>1, CatType
  <1>7. F[n] = R /\ F[0] = Cat(ListedOf(ts), R)
    <2>1. Cat(<<>>, R) = R
      BY <1>2, CatLead
    <2>2. n - n = 0 /\ n - 0 = n /\ 0 \in 0..n /\ n \in 0..n
      BY <1>1
    <2> HIDE DEF n
    <2>3. F[n] = Cat(L[n - n], R) /\ F[0] = Cat(L[n - 0], R)
      BY <2>2
    <2> QED
      BY <1>1, <1>3, <1>4, <2>1, <2>2, <2>3
  <1>8. ASSUME NEW i \in 0..(n - 1)
        PROVE  F[i] = IF i = 0 THEN Cat(T[p[i + 1]], F[i + 1]) ELSE Lead(", ", Cat(T[p[i + 1]], F[i + 1]))
    <2> DEFINE t == T[p[i + 1]]
               e == L[n - (i + 1)]
    <2>1. /\ n - i \in 1..n /\ n - (n - i) + 1 = i + 1 /\ (n - i) - 1 = n - (i + 1)
          /\ i + 1 \in 1..n /\ i + 1 \in 0..n /\ i \in 0..n /\ n - (i + 1) \in 0..n
          /\ (n - i = n <=> i = 0)
      BY <1>1
    <2>2. ts[i + 1] = t /\ p[i + 1] \in Types
      BY <1>1, <2>1
    <2>3. t \in Strings /\ e \in Strings
      BY <1>4, <2>1, <2>2, TextType
    <2>4. L[n - i] = IF i = 0 THEN Cat(t, e) ELSE Cat(Lead(", ", t), e)
      BY <1>5, <2>1, <2>2
    <2>5. F[i] = Cat(L[n - i], R) /\ F[i + 1] = Cat(e, R)
      BY <2>1
    <2> HIDE DEF t, e, n, p, F
    <2> HIDE DEF R
    <2>6. Cat(e, R) \in Strings /\ Cat(Cat(t, e), R) = Cat(t, Cat(e, R))
      <3>1. t \in Strings /\ e \in Strings /\ R \in Strings
        BY <1>2, <2>3
      <3>2. Cat(e, R) \in Strings
        BY <3>1, CatType
      <3>3. Cat(Cat(t, e), R) = Cat(t, Cat(e, R))
        BY <3>1, CatAssoc
      <3> QED
        BY <3>2, <3>3
    <2>7. Cat(Cat(Lead(", ", t), e), R) = Lead(", ", Cat(t, Cat(e, R)))
      <3>1. Cat(t, e) \in Strings
        BY <2>3, CatType
      <3>2. Cat(Lead(", ", t), e) = Lead(", ", Cat(t, e))
        BY <1>2, <2>3, CatLead
      <3>3. Cat(Lead(", ", Cat(t, e)), R) = Lead(", ", Cat(Cat(t, e), R))
        BY <1>2, <3>1, CatLead
      <3> QED
        BY <2>6, <3>2, <3>3
    <2>8. F[i] = IF i = 0 THEN Cat(t, F[i + 1]) ELSE Lead(", ", Cat(t, F[i + 1]))
      BY <2>4, <2>5, <2>6, <2>7
    <2> QED
      BY <2>8 DEF t
  <1>9. Rests(F, a, r)
    <2> HIDE DEF F
    <2> QED
      BY <1>6, <1>7, <1>8 DEF Rests, R
  <1> QED
    BY <1>9

LEMMA RestBegins ==
    ASSUME NEW a \in Types, Heap[a].id = "block", toldTypes[a], NEW r \in Strings, NEW F, Rests(F, a, r)
    PROVE  /\ \A i \in 0..Len(Heap[a].params) : Opens(F[i], ")*") <=> i = Len(Heap[a].params)
           /\ \A i \in 1..Len(Heap[a].params) : Apart(F[i])
  <1> DEFINE p == Heap[a].params
             n == Len(p)
             C == ", "
             B == ")*"
  <1>1. n \in Nat /\ \A i \in 1..n : p[i] \in Types /\ toldTypes[p[i]]
    BY ParamTextsType, TypeTold
  <1>2. F \in [0..n -> Strings] /\ F[n] = Lead(B, r)
        /\ \A i \in 0..(n - 1) : F[i] = IF i = 0 THEN Cat(T[p[i + 1]], F[i + 1])
                                        ELSE Lead(C, Cat(T[p[i + 1]], F[i + 1]))
    BY DEF Rests
  <1>3. C \in CodeWords /\ B \in CodeWords /\ C \in Clear /\ B \in Clear /\ C # B
        /\ C \notin VectorLengths /\ B \notin VectorLengths /\ C # " " /\ B # " "
    BY KeyWords
  <1> HIDE DEF C, B, p
  <1>4. Opens(F[n], B) /\ Apart(F[n])
    <2>1. Apart(Lead(B, r))
      BY <1>3, LeadApart
    <2>2. Opens(Lead(B, r), B)
      BY <1>3, LeadOpens
    <2> QED
      BY <1>2, <2>1, <2>2
  <1>5. ASSUME NEW i \in 1..(n - 1) PROVE ~Opens(F[i], B) /\ Apart(F[i])
    <2> DEFINE u == Cat(T[p[i + 1]], F[i + 1])
    <2>1. i + 1 \in 1..n /\ i + 1 \in 0..n /\ i # 0 /\ i \in 0..(n - 1)
      BY <1>1
    <2>2. T[p[i + 1]] \in Strings /\ F[i + 1] \in Strings
      BY <1>1, <1>2, <2>1, TextType
    <2>3. u \in Strings
      BY <2>2, CatType
    <2>4. F[i] = Lead(C, u)
      BY <1>2, <2>1
    <2> HIDE DEF u
    <2>5. Apart(Lead(C, u))
      BY <1>3, <2>3, LeadApart
    <2>6. ~Opens(Lead(C, u), B)
      BY <1>3, <2>3, LeadOpens
    <2> QED
      BY <2>4, <2>5, <2>6
  <1>6. ASSUME n # 0 PROVE ~Opens(F[0], B)
    <2>1. 1 \in 1..n /\ 1 \in 0..n /\ 0 \in 0..(n - 1)
      BY <1>1, <1>6
    <2>2. p[1] \in Types /\ toldTypes[p[1]] /\ F[1] \in Strings /\ F[0] = Cat(T[p[1]], F[1])
      BY <1>1, <1>2, <2>1
    <2>3. PICK w \in FirstWords(Heap[p[1]].id) : Opens(F[0], w)
      BY <2>2, TypeBegins
    <2>4. Heap[p[1]].id \in Kinds
      BY <2>2, TypeShape DEF Kinds
    <2>5. w # B /\ w \in Clear
      BY <2>4, FirstWordsTell DEF B
    <2> QED
      BY <1>3, <2>3, <2>5, OpensOnce
  <1>7. ASSUME NEW i \in 0..n PROVE Opens(F[i], B) <=> i = n
    <2>1. i = n \/ i \in 1..(n - 1) \/ (i = 0 /\ n # 0)
      BY <1>1
    <2> QED
      BY <1>1, <1>4, <1>5, <1>6, <2>1
  <1>8. ASSUME NEW i \in 1..n PROVE Apart(F[i])
    <2>1. i = n \/ i \in 1..(n - 1)
      BY <1>1
    <2> QED
      BY <1>4, <1>5, <2>1
  <1> QED
    BY <1>7, <1>8 DEF B, p

\* A told type is told from another, and from what follows it.
TellsApart(a) ==
    \A b \in Types, r, s \in Strings :
        /\ toldTypes[a] /\ toldTypes[b] /\ Apart(r) /\ Apart(s)
        /\ Cat(T[a], r) = Cat(T[b], s)
        => E[a][b] /\ r = s

LEMMA BlockTells ==
    ASSUME NEW a \in Types, NEW b \in Types, Heap[a].id = "block", Heap[b].id = "block",
           toldTypes[a], toldTypes[b], NEW r \in Strings, NEW s \in Strings,
           \A c \in 1..(a - 1) : TellsApart(c),
           Cat(ListedOf(ParamTexts(a)), Lead(")*", r)) = Cat(ListedOf(ParamTexts(b)), Lead(")*", s))
    PROVE  /\ Len(Heap[a].params) = Len(Heap[b].params)
           /\ \A i \in 1..Len(Heap[a].params) : E[Heap[a].params[i]][Heap[b].params[i]]
           /\ r = s
  <1> DEFINE p == Heap[a].params
             q == Heap[b].params
             n == Len(p)
             m == Len(q)
  <1>1. n \in Nat /\ m \in Nat
        /\ (\A i \in 1..n : p[i] \in 1..(a - 1) /\ p[i] \in Types /\ toldTypes[p[i]])
        /\ (\A i \in 1..m : q[i] \in Types /\ toldTypes[q[i]])
    BY ParamTextsType, TypeTold
  <1>2. PICK F : Rests(F, a, r)
    BY BlockRests
  <1>3. PICK G : Rests(G, b, s)
    BY BlockRests
  <1>4. /\ F \in [0..n -> Strings] /\ F[n] = Lead(")*", r)
        /\ \A i \in 0..(n - 1) : F[i] = IF i = 0 THEN Cat(T[p[i + 1]], F[i + 1])
                                        ELSE Lead(", ", Cat(T[p[i + 1]], F[i + 1]))
    BY <1>2 DEF Rests
  <1>5. /\ G \in [0..m -> Strings] /\ G[m] = Lead(")*", s)
        /\ \A i \in 0..(m - 1) : G[i] = IF i = 0 THEN Cat(T[q[i + 1]], G[i + 1])
                                        ELSE Lead(", ", Cat(T[q[i + 1]], G[i + 1]))
    BY <1>3 DEF Rests
  <1>6. /\ \A i \in 0..n : Opens(F[i], ")*") <=> i = n
        /\ \A i \in 1..n : Apart(F[i])
        /\ \A i \in 0..m : Opens(G[i], ")*") <=> i = m
        /\ \A i \in 1..m : Apart(G[i])
    BY <1>2, <1>3, RestBegins
  <1>7. F[0] = G[0]
    BY <1>2, <1>3 DEF Rests
  <1> HIDE DEF p, q, n, m
  <1> DEFINE S == {i \in Nat : i <= n /\ i <= m => F[i] = G[i] /\ \A j \in 1..i : E[p[j]][q[j]]}
  <1>8. 0 \in S
    BY <1>7
  <1>9. ASSUME NEW i \in Nat, i \in S PROVE i + 1 \in S
    <2> SUFFICES ASSUME i + 1 <= n, i + 1 <= m
                 PROVE  F[i + 1] = G[i + 1] /\ \A j \in 1..(i + 1) : E[p[j]][q[j]]
      OBVIOUS
    <2>1. /\ i \in 0..(n - 1) /\ i + 1 \in 1..n /\ i + 1 \in 0..n
          /\ i \in 0..(m - 1) /\ i + 1 \in 1..m /\ i + 1 \in 0..m
      BY <1>1
    <2>2. F[i] = G[i] /\ \A j \in 1..i : E[p[j]][q[j]]
      BY <1>1, <1>9
    <2> DEFINE c == p[i + 1]
               d == q[i + 1]
               u == F[i + 1]
               v == G[i + 1]
    <2>3. c \in Types /\ c \in 1..(a - 1) /\ d \in Types /\ u \in Strings /\ v \in Strings
          /\ Apart(u) /\ Apart(v) /\ toldTypes[c] /\ toldTypes[d]
      BY <1>1, <1>4, <1>5, <1>6, <2>1
    <2>4. F[i] = (IF i = 0 THEN Cat(T[c], u) ELSE Lead(", ", Cat(T[c], u)))
          /\ G[i] = (IF i = 0 THEN Cat(T[d], v) ELSE Lead(", ", Cat(T[d], v)))
      BY <1>4, <1>5, <2>1
    <2> HIDE DEF c, d, u, v
    <2>5. Cat(T[c], u) = Cat(T[d], v)
      <3>1. Cat(T[c], u) \in Strings /\ Cat(T[d], v) \in Strings
        BY <2>3, TextType, CatType
      <3>2. ", " \in Clear
        BY KeyWords
      <3>3. CASE i = 0
        BY <2>2, <2>4, <3>3
      <3>4. CASE i # 0
        <4> DEFINE x == Cat(T[c], u)
                   y == Cat(T[d], v)
                   w == ", "
        <4>1. Lead(w, x) = Lead(w, y)
          BY <2>2, <2>4, <3>4
        <4>2. x \in Strings /\ y \in Strings /\ w \in Clear
          BY <3>1, <3>2
        <4> HIDE DEF x, y, w
        <4>3. x = y
          BY <4>1, <4>2, CancelWord
        <4> QED
          BY <4>3 DEF x, y
      <3> QED
        BY <3>3, <3>4
    <2>6. E[c][d] /\ u = v
      BY <2>3, <2>5 DEF TellsApart
    <2>7. \A j \in 1..(i + 1) : j \in 1..i \/ j = i + 1
      OBVIOUS
    <2> QED
      BY <2>2, <2>6, <2>7 DEF c, d, u, v
  <1> DEFINE k == IF n <= m THEN n ELSE m
  <1>10. k \in Nat /\ k <= n /\ k <= m /\ (k = n \/ k = m)
    BY <1>1
  <1>11. F[k] = G[k] /\ \A j \in 1..k : E[p[j]][q[j]]
    <2> HIDE DEF S
    <2>1. k \in S
      BY <1>8, <1>9, <1>10, NatSetInduction
    <2> HIDE DEF k
    <2> QED
      BY <1>10, <2>1 DEF S
  <1> HIDE DEF k
  <1>12. k = n /\ k = m
    <2>1. k \in 0..n /\ k \in 0..m
      BY <1>1, <1>10
    <2> QED
      BY <1>6, <1>10, <1>11, <2>1
  <1>13. r = s
    <2> DEFINE B == ")*"
    <2>1. B \in Clear
      BY KeyWords
    <2>2. Lead(B, r) = Lead(B, s)
      BY <1>4, <1>5, <1>11, <1>12
    <2> HIDE DEF B
    <2> QED
      BY <2>1, <2>2, CancelWord
  <1> QED
    BY <1>11, <1>12, <1>13 DEF n, m, p, q
\* Each kind of type tells itself apart, if what it is made of does.
LEMMA ScalarTells ==
    ASSUME NEW a \in Types, NEW b \in Types, NEW r \in Strings, NEW s \in Strings,
           Heap[a].id = Heap[b].id, Heap[a].id = "primitive" \/ Heap[a].id = "vector",
           Cat(T[a], r) = Cat(T[b], s)
    PROVE  E[a][b] /\ r = s
  <1> DEFINE t == Heap[a]
             u == Heap[b]
  <1>2. E[a][b] = EqualNodes(Heap, E, a, b)
    BY EqualsIs DEF E
  <1>4. ASSUME t.id = "primitive" PROVE E[a][b] /\ r = s
    <2>1. t.prim \in Clear /\ Cat(T[a], r) = Lead(t.prim, r)
      BY <1>4, CatPrimitive
    <2>2. u.prim \in Clear /\ Cat(T[b], s) = Lead(u.prim, s)
      BY <1>4, CatPrimitive
    <2>3. t.prim = u.prim /\ r = s
      <3>1. Lead(t.prim, r) = Lead(u.prim, s)
        BY <2>1, <2>2
      <3> QED
        BY <2>1, <2>2, <3>1, CancelWord
    <2> QED
      BY <1>2, <1>4, <2>3 DEF EqualNodes
  <1>6. ASSUME t.id = "vector" PROVE E[a][b] /\ r = s
    <2> DEFINE x == Heap[t.of].prim
               y == Heap[u.of].prim
               l == t.len
               m == u.len
    <2>1. /\ t.of \in Types /\ Heap[t.of].id = "primitive"
          /\ x \in Clear /\ l \in Clear /\ Lead(l, r) \in Strings /\ Cat(T[a], r) = Lead(x, Lead(l, r))
      BY <1>6, CatVector
    <2>2. /\ u.of \in Types /\ Heap[u.of].id = "primitive"
          /\ y \in Clear /\ m \in Clear /\ Lead(m, s) \in Strings /\ Cat(T[b], s) = Lead(y, Lead(m, s))
      BY <1>6, CatVector
    <2> HIDE DEF x, y, l, m
    <2>3. x = y /\ Lead(l, r) = Lead(m, s)
      <3>1. Lead(x, Lead(l, r)) = Lead(y, Lead(m, s))
        BY <2>1, <2>2
      <3> QED
        BY <2>1, <2>2, <3>1, CancelWord
    <2>4. l = m /\ r = s
      BY <2>1, <2>2, <2>3, CancelWord
    <2>5. E[t.of][u.of]
      <3>1. E[t.of][u.of] = EqualNodes(Heap, E, t.of, u.of)
        BY <2>1, <2>2, EqualsIs DEF E
      <3> QED
        BY <2>1, <2>2, <2>3, <3>1 DEF EqualNodes, x, y
    <2> QED
      BY <1>2, <1>6, <2>4, <2>5 DEF EqualNodes, l, m
  <1> QED
    BY <1>4, <1>6

LEMMA MadeTells ==
    ASSUME NEW a \in Types, \A c \in 1..(a - 1) : TellsApart(c)
    PROVE  TellsApart(a)
  <1> SUFFICES ASSUME NEW b \in Types, NEW r \in Strings, NEW s \in Strings,
                      toldTypes[a], toldTypes[b], Apart(r), Apart(s), Cat(T[a], r) = Cat(T[b], s)
               PROVE  E[a][b] /\ r = s
    BY DEF TellsApart
  <1> DEFINE t == Heap[a]
             u == Heap[b]
  <1>1. t.id \in Kinds /\ u.id = t.id
    BY SameKind, TypeShape DEF Kinds
  <1>2. E[a][b] = EqualNodes(Heap, E, a, b)
    BY EqualsIs DEF E
  <1>3. ASSUME t.id = "structure" PROVE E[a][b] /\ r = s
    <2>1. t.name \in Clear /\ Cat(T[a], r) = Lead(t.name, r)
      BY <1>3, CatStructure
    <2>2. u.name \in Clear /\ Cat(T[b], s) = Lead(u.name, s)
      BY <1>1, <1>3, CatStructure
    <2>3. t.name = u.name /\ r = s
      <3>1. Lead(t.name, r) = Lead(u.name, s)
        BY <2>1, <2>2
      <3> QED
        BY <2>1, <2>2, <3>1, CancelWord
    <2> QED
      BY <1>1, <1>2, <1>3, <2>3 DEF EqualNodes
  <1>4. ASSUME t.id = "atomic" PROVE E[a][b] /\ r = s
    <2> DEFINE w == "atomic_"
    <2>0. w \in Clear
      BY KeyWords
    <2>1. t.of \in 1..(a - 1) /\ Cat(T[t.of], r) \in Strings /\ Cat(T[a], r) = Lead(w, Cat(T[t.of], r))
          /\ toldTypes[t.of]
      BY <1>4, CatAtomic, TypeTold
    <2>2. u.of \in Types /\ Cat(T[u.of], s) \in Strings /\ Cat(T[b], s) = Lead(w, Cat(T[u.of], s))
          /\ toldTypes[u.of]
      BY <1>1, <1>4, CatAtomic, TypeTold
    <2> HIDE DEF w
    <2>3. Cat(T[t.of], r) = Cat(T[u.of], s)
      <3>1. Lead(w, Cat(T[t.of], r)) = Lead(w, Cat(T[u.of], s))
        BY <2>1, <2>2
      <3> QED
        BY <2>0, <2>1, <2>2, <3>1, CancelWord
    <2>4. E[t.of][u.of] /\ r = s
      BY <2>1, <2>2, <2>3 DEF TellsApart
    <2> QED
      BY <1>1, <1>2, <1>4, <2>4 DEF EqualNodes
  <1>5. ASSUME t.id = "pointer" PROVE E[a][b] /\ r = s
    <2> DEFINE x == Cat(T[t.of], Star(r))
               y == Cat(T[u.of], Star(s))
               blank == " "
               star == "*"
    <2>1. /\ t.of \in 1..(a - 1) /\ t.space \in Range(AddressSpaces) /\ Star(r) \in Strings /\ x \in Strings
          /\ Lead(blank, x) \in Strings /\ toldTypes[t.of]
          /\ Cat(T[a], r) = Cat(Written(Spelling, t), Lead(t.space, Lead(blank, x)))
      BY <1>5, CatPointer, TypeTold
    <2>2. /\ u.of \in Types /\ u.space \in Range(AddressSpaces) /\ Star(s) \in Strings /\ y \in Strings
          /\ Lead(blank, y) \in Strings /\ toldTypes[u.of]
          /\ Cat(T[b], s) = Cat(Written(Spelling, u), Lead(u.space, Lead(blank, y)))
      BY <1>1, <1>5, CatPointer, TypeTold
    <2>3. blank \in Clear /\ star \in Clear
      BY KeyWords
    <2>4. /\ Star(r) = Lead(blank, Lead(star, r)) /\ Star(s) = Lead(blank, Lead(star, s))
          /\ Lead(star, r) \in Strings /\ Lead(star, s) \in Strings
      BY StarType DEF Star
    <2> HIDE DEF x, y, blank, star
    <2>5. /\ \A q \in Range(Qualifiers) : q \in t.quals <=> q \in u.quals
          /\ t.space = u.space /\ Lead(blank, x) = Lead(blank, y)
      <3>1. Cat(Written(Spelling, t), Lead(t.space, Lead(blank, x)))
            = Cat(Written(Spelling, u), Lead(u.space, Lead(blank, y)))
        BY <2>1, <2>2
      <3> DEFINE v == Lead(blank, x)
                 w == Lead(blank, y)
      <3>2. v \in Strings /\ w \in Strings
        BY <2>1, <2>2
      <3> HIDE DEF t, u, v, w
      <3> QED
        BY <2>1, <2>2, <3>1, <3>2, WrittenTells DEF v, w
    <2>6. x = y
      BY <2>1, <2>2, <2>3, <2>5, CancelWord
    <2>7. Apart(Star(r)) /\ Apart(Star(s))
      BY StarApart
    <2>8. E[t.of][u.of] /\ Star(r) = Star(s)
      <3>1. Cat(T[t.of], Star(r)) = Cat(T[u.of], Star(s))
        BY <2>6 DEF x, y
      <3> QED
        BY <2>1, <2>2, <2>7, <3>1 DEF TellsApart
    <2>9. r = s
      <3>1. Lead(star, r) = Lead(star, s)
        BY <2>3, <2>4, <2>8, CancelWord
      <3> QED
        BY <2>3, <3>1, CancelWord
    <2>10. \A i \in 1..Len(Qualifiers) : (Qualifiers[i] \in t.quals) = (Qualifiers[i] \in u.quals)
      BY <2>5, EachQualifier
    <2> QED
      BY <1>1, <1>2, <1>5, <2>5, <2>8, <2>9, <2>10 DEF EqualNodes
  <1>6. ASSUME t.id = "block" PROVE E[a][b] /\ r = s
    <2> DEFINE void == "void"
               blank == " "
               par == "("
               x == Cat(ListedOf(ParamTexts(a)), Lead(")*", r))
               y == Cat(ListedOf(ParamTexts(b)), Lead(")*", s))
    <2>1. x \in Strings /\ Cat(T[a], r) = Lead(void, Parens(x))
      BY <1>6, CatBlock
    <2>2. y \in Strings /\ Cat(T[b], s) = Lead(void, Parens(y))
      BY <1>1, <1>6, CatBlock
    <2>3. void \in Clear /\ blank \in Clear /\ par \in Clear
      BY KeyWords
    <2>4. /\ Parens(x) = Lead(blank, Lead(par, x)) /\ Parens(y) = Lead(blank, Lead(par, y))
          /\ Parens(x) \in Strings /\ Parens(y) \in Strings /\ Lead(par, x) \in Strings /\ Lead(par, y) \in Strings
      <3> HIDE DEF x, y
      <3> QED
        BY <2>1, <2>2, ParensType DEF Parens
    <2> HIDE DEF void, blank, par, x, y
    <2>5. Parens(x) = Parens(y)
      <3>1. Lead(void, Parens(x)) = Lead(void, Parens(y))
        BY <2>1, <2>2
      <3> DEFINE v == Parens(x)
                 w == Parens(y)
      <3>2. v \in Strings /\ w \in Strings /\ Lead(void, v) = Lead(void, w)
        BY <2>4, <3>1
      <3> HIDE DEF v, w
      <3>3. v = w
        BY <2>3, <3>2, CancelWord
      <3> QED
        BY <3>3 DEF v, w
    <2>6. Lead(par, x) = Lead(par, y)
      <3> DEFINE v == Lead(par, x)
                 w == Lead(par, y)
      <3>1. v \in Strings /\ w \in Strings /\ Lead(blank, v) = Lead(blank, w)
        BY <2>4, <2>5
      <3> HIDE DEF v, w
      <3>2. v = w
        BY <2>3, <3>1, CancelWord
      <3> QED
        BY <3>2 DEF v, w
    <2>7. x = y
      BY <2>1, <2>2, <2>3, <2>6, CancelWord
    <2>8. /\ Len(t.params) = Len(u.params)
          /\ \A i \in 1..Len(t.params) : E[t.params[i]][u.params[i]]
          /\ r = s
      BY <1>1, <1>6, <2>7, BlockTells DEF x, y
    <2> QED
      BY <1>1, <1>2, <1>6, <2>8 DEF EqualNodes
  <1> QED
    BY <1>1, <1>3, <1>4, <1>5, <1>6, ScalarTells DEF Kinds

LEMMA AllTellApart == \A a \in Types : TellsApart(a)
  <1> DEFINE S == {m \in Nat : \A a \in Types : a <= m => TellsApart(a)}
  <1>1. 0 \in S
    BY DEF Types
  <1>2. ASSUME NEW m \in Nat, m \in S PROVE m + 1 \in S
    <2> SUFFICES ASSUME NEW a \in Types, a <= m + 1 PROVE TellsApart(a)
      OBVIOUS
    <2>1. \A c \in 1..(a - 1) : TellsApart(c)
      BY <1>2, HeapShape DEF Types
    <2> QED
      BY <2>1, MadeTells
  <1> HIDE DEF S
  <1>3. Len(Heap) \in S
    BY <1>1, <1>2, NatSetInduction, HeapShape
  <1> QED
    BY <1>3 DEF S, Types

\* Equal types are written alike.
WrittenAlike(a) == \A b \in Types : E[a][b] => T[a] = T[b]

LEMMA EqualNodesAlike ==
    ASSUME NEW a \in Types, \A c \in 1..(a - 1) : WrittenAlike(c)
    PROVE  WrittenAlike(a)
  <1> SUFFICES ASSUME NEW b \in Types, E[a][b] PROVE T[a] = T[b]
    BY DEF WrittenAlike
  <1> DEFINE t == Heap[a]
             u == Heap[b]
  <1>0. EqualNodes(Heap, E, a, b)
    BY EqualsIs DEF E
  <1>1. t.id \in Kinds /\ u.id = t.id
    BY <1>0, TypeShape DEF EqualNodes, Kinds
  <1>2. <<>> \in Strings
    BY DEF Strings
  <1>3. ASSUME t.id = "structure" PROVE T[a] = T[b]
    <2>1. T[a] = Spelling[t.name] /\ T[b] = Spelling[u.name]
      BY <1>1, <1>2, <1>3, CatStructure
    <2> QED
      BY <1>0, <1>3, <2>1 DEF EqualNodes
  <1>4. ASSUME t.id = "primitive" PROVE T[a] = T[b]
    <2>1. T[a] = Spelling[t.prim] /\ T[b] = Spelling[u.prim]
      BY <1>1, <1>2, <1>4, CatPrimitive
    <2> QED
      BY <1>0, <1>4, <2>1 DEF EqualNodes
  <1>5. ASSUME t.id = "vector" PROVE T[a] = T[b]
    <2>1. t.of \in 1..(a - 1) /\ T[a] = Cat(T[t.of], Spelling[t.len])
      BY <1>2, <1>5, CatVector
    <2>2. u.of \in Types /\ T[b] = Cat(T[u.of], Spelling[u.len])
      BY <1>1, <1>2, <1>5, CatVector
    <2>3. E[t.of][u.of] /\ t.len = u.len
      BY <1>0, <1>5 DEF EqualNodes
    <2> QED
      BY <2>1, <2>2, <2>3 DEF WrittenAlike
  <1>6. ASSUME t.id = "atomic" PROVE T[a] = T[b]
    <2>1. t.of \in 1..(a - 1) /\ T[a] = Lead("atomic_", T[t.of])
      BY <1>2, <1>6, CatAtomic
    <2>2. u.of \in Types /\ T[b] = Lead("atomic_", T[u.of])
      BY <1>1, <1>2, <1>6, CatAtomic
    <2>3. E[t.of][u.of]
      BY <1>0, <1>6 DEF EqualNodes
    <2> QED
      BY <2>1, <2>2, <2>3 DEF WrittenAlike
  <1>7. ASSUME t.id = "pointer" PROVE T[a] = T[b]
    <2>1. t.of \in 1..(a - 1)
          /\ T[a] = Cat(Cat(Cat(Cat(Cat(Written(Spelling, t), Spelling[t.space]), Spelling[" "]), T[t.of]),
                             Spelling[" "]), Spelling["*"])
      BY <1>2, <1>7, CatPointer
    <2>2. u.of \in Types
          /\ T[b] = Cat(Cat(Cat(Cat(Cat(Written(Spelling, u), Spelling[u.space]), Spelling[" "]), T[u.of]),
                             Spelling[" "]), Spelling["*"])
      BY <1>1, <1>2, <1>7, CatPointer
    <2>3. /\ E[t.of][u.of] /\ t.space = u.space
          /\ \A i \in 1..Len(Qualifiers) : (Qualifiers[i] \in t.quals) = (Qualifiers[i] \in u.quals)
      BY <1>0, <1>7 DEF EqualNodes
    <2>4. Written(Spelling, t) = Written(Spelling, u)
      <3>1. \A q \in {"restrict", "volatile", "const"} : q \in t.quals <=> q \in u.quals
        BY <2>3, EachQualifier
      <3>2. \A q \in {"restrict", "volatile", "const"} : Piece(q, t) = Piece(q, u)
        BY <3>1 DEF Piece
      <3> QED
        BY <3>2, WrittenIs
    <2>5. T[t.of] = T[u.of]
      BY <2>1, <2>2, <2>3 DEF WrittenAlike
    <2> QED
      BY <2>1, <2>2, <2>3, <2>4, <2>5
  <1>8. ASSUME t.id = "block" PROVE T[a] = T[b]
    <2>1. /\ T[a] = Cat(Cat(Cat(Cat(Spelling["void"], Spelling[" "]), Spelling["("]), ListedOf(ParamTexts(a))),
                         Spelling[")*"])
          /\ T[b] = Cat(Cat(Cat(Cat(Spelling["void"], Spelling[" "]), Spelling["("]), ListedOf(ParamTexts(b))),
                         Spelling[")*"])
      BY <1>1, <1>2, <1>8, CatBlock
    <2> DEFINE p == t.params
               q == u.params
    <2>2. Len(p) = Len(q) /\ \A i \in 1..Len(p) : E[p[i]][q[i]]
      BY <1>0, <1>8 DEF EqualNodes
    <2>3. \A i \in 1..Len(p) : p[i] \in 1..(a - 1)
      BY <1>8, ParamTextsType
    <2>4. \A i \in 1..Len(q) : q[i] \in Types
      BY <1>1, <1>8, ParamTextsType
    <2>5. ParamTexts(a) = [i \in 1..Len(p) |-> T[p[i]]] /\ ParamTexts(b) = [i \in 1..Len(q) |-> T[q[i]]]
      BY DEF ParamTexts
    <2> HIDE DEF p, q
    <2>6. \A i \in 1..Len(p) : T[p[i]] = T[q[i]]
      BY <2>2, <2>3, <2>4 DEF WrittenAlike
    <2>7. ParamTexts(a) = ParamTexts(b)
      BY <2>2, <2>5, <2>6
    <2> QED
      BY <2>1, <2>7
  <1> QED
    BY <1>1, <1>3, <1>4, <1>5, <1>6, <1>7, <1>8 DEF Kinds

LEMMA AllWrittenAlike == \A a \in Types : WrittenAlike(a)
  <1> DEFINE S == {m \in Nat : \A a \in Types : a <= m => WrittenAlike(a)}
  <1>1. 0 \in S
    BY DEF Types
  <1>2. ASSUME NEW m \in Nat, m \in S PROVE m + 1 \in S
    <2> SUFFICES ASSUME NEW a \in Types, a <= m + 1 PROVE WrittenAlike(a)
      OBVIOUS
    <2>1. \A c \in 1..(a - 1) : WrittenAlike(c)
      BY <1>2, HeapShape DEF Types
    <2> QED
      BY <2>1, EqualNodesAlike
  <1> HIDE DEF S
  <1>3. Len(Heap) \in S
    BY <1>1, <1>2, NatSetInduction, HeapShape
  <1> QED
    BY <1>3 DEF S, Types

\* operator== and operator< see the same of a type, whatever user-defined types are called,
\* as far as they can: equal types have one string, and one string is that of one type
\* unless the name of a user-defined type in one of the two can be taken for other words
\* (ParameterType.cpp, toString and equals of each kind).
THEOREM EqualIsWrittenAlike ==
    \A a, b \in Types :
        /\ equals(Heap)[a][b] => texts[a] = texts[b]
        /\ toldTypes[a] /\ toldTypes[b] /\ texts[a] = texts[b] => equals(Heap)[a][b]
  <1> SUFFICES ASSUME NEW a \in Types, NEW b \in Types
               PROVE  /\ E[a][b] => T[a] = T[b]
                      /\ toldTypes[a] /\ toldTypes[b] /\ T[a] = T[b] => E[a][b]
    BY DEF E, T
  <1> DEFINE e == Lead("*", <<>>)
  <1>1. <<>> \in Strings
    BY DEF Strings
  <1>2. e \in Strings /\ Apart(e)
    BY <1>1, KeyWords, LeadApart, StarType
  <1> HIDE DEF e
  <1>3. ASSUME T[a] = T[b], toldTypes[a], toldTypes[b] PROVE E[a][b]
    <2>1. Cat(T[a], e) = Cat(T[b], e)
      BY <1>3
    <2>2. TellsApart(a)
      BY AllTellApart
    <2> QED
      BY <1>2, <1>3, <2>1, <2>2 DEF TellsApart
  <1>4. ASSUME E[a][b] PROVE T[a] = T[b]
    BY <1>4, AllWrittenAlike DEF WrittenAlike
  <1> QED
    BY <1>3, <1>4
-----------------------------------------------------------------------------
\* The order of texts and of lists of texts

LEMMA InText ==
    ASSUME NEW s \in Strings
    PROVE  Len(s) \in Nat /\ \A i \in 1..Len(s) : s[i] \in Nat
  <1>1. Len(s) \in Nat
    BY LenProperties DEF Strings
  <1>2. \A i \in 1..Len(s) : s[i] \in Nat
    BY ElementOfSeq DEF Strings
  <1> QED
    BY <1>1, <1>2

\* s is before u, the two told apart at i.
BeforeAt(s, u, i) ==
    /\ i \in 1..Len(u) /\ i <= Len(s) + 1
    /\ \A j \in 1..(i - 1) : s[j] = u[j]
    /\ i <= Len(s) => s[i] < u[i]

LEMMA BeforeIs == \A s, u : Before(s, u) <=> \E i : BeforeAt(s, u, i)
  BY DEF Before, BeforeAt

LEMMA BeforeIrreflexive == ASSUME NEW s \in Strings PROVE ~Before(s, s)
  <1> SUFFICES ASSUME NEW i, BeforeAt(s, s, i) PROVE FALSE
    BY BeforeIs
  <1>1. i \in 1..Len(s) /\ i <= Len(s) /\ s[i] < s[i]
    BY InText DEF BeforeAt
  <1>2. s[i] \in Nat
    BY <1>1, InText
  <1> QED
    BY <1>1, <1>2

LEMMA BeforeTransitive ==
    ASSUME NEW s \in Strings, NEW u \in Strings, NEW v \in Strings, Before(s, u), Before(u, v)
    PROVE  Before(s, v)
  <1>1. PICK i : BeforeAt(s, u, i)
    BY BeforeIs
  <1>2. PICK k : BeforeAt(u, v, k)
    BY BeforeIs
  <1>3. Len(s) \in Nat /\ Len(u) \in Nat /\ Len(v) \in Nat
    BY InText
  <1>4. /\ \A j \in 1..Len(s) : s[j] \in Nat
        /\ \A j \in 1..Len(u) : u[j] \in Nat
        /\ \A j \in 1..Len(v) : v[j] \in Nat
    BY InText
  <1>5. i \in Nat /\ k \in Nat
    BY <1>1, <1>2, <1>3 DEF BeforeAt
  <1>6. CASE i < k
    <2>1. BeforeAt(s, v, i)
      BY <1>1, <1>2, <1>3, <1>4, <1>5, <1>6 DEF BeforeAt
    <2> QED
      BY <2>1, BeforeIs
  <1>7. CASE i = k
    <2>1. i \in 1..Len(v) /\ i <= Len(s) + 1 /\ i <= Len(u)
      BY <1>1, <1>2, <1>3, <1>7 DEF BeforeAt
    <2>2. \A j \in 1..(i - 1) : s[j] = v[j]
      BY <1>1, <1>2, <1>7 DEF BeforeAt
    <2>3. u[i] < v[i] /\ (i <= Len(s) => s[i] < u[i])
      BY <1>1, <1>2, <1>7, <2>1 DEF BeforeAt
    <2>4. i <= Len(s) => s[i] < v[i]
      BY <1>3, <1>4, <2>1, <2>3
    <2>5. BeforeAt(s, v, i)
      BY <2>1, <2>2, <2>4 DEF BeforeAt
    <2> QED
      BY <2>5, BeforeIs
  <1>8. CASE k < i
    <2>1. k \in 1..Len(v) /\ k <= Len(s) /\ k <= Len(u) /\ k \in 1..(i - 1)
      BY <1>1, <1>2, <1>3, <1>5, <1>8 DEF BeforeAt
    <2>2. \A j \in 1..(k - 1) : s[j] = v[j]
      BY <1>1, <1>2, <1>5, <1>8 DEF BeforeAt
    <2>3. s[k] = u[k] /\ u[k] < v[k]
      BY <1>1, <1>2, <2>1 DEF BeforeAt
    <2>4. BeforeAt(s, v, k)
      BY <1>3, <2>1, <2>2, <2>3 DEF BeforeAt
    <2> QED
      BY <2>4, BeforeIs
  <1> QED
    BY <1>5, <1>6, <1>7, <1>8

LEMMA BeforeTotal ==
    ASSUME NEW s \in Strings, NEW u \in Strings, s # u
    PROVE  Before(s, u) \/ Before(u, s)
  <1> DEFINE D == {i \in Nat : i # 0 /\ (i > Len(s) \/ i > Len(u) \/ s[i] # u[i])}
  <1>1. Len(s) \in Nat /\ Len(u) \in Nat
    BY InText
  <1>2. Len(s) + 1 \in D
    BY <1>1
  <1>3. PICK i \in D : \A m \in D : i <= m
    <2> HIDE DEF D
    <2>1. D # {}
      BY <1>2
    <2>2. D \in SUBSET Nat
      BY DEF D
    <2> QED
      BY <2>1, <2>2, LeastNatural
  <1>4. i \in Nat /\ i # 0
    OBVIOUS
  <1>5. \A j \in 1..(i - 1) : j <= Len(s) /\ j <= Len(u) /\ s[j] = u[j]
    <2> SUFFICES ASSUME NEW j \in 1..(i - 1), ~(j <= Len(s) /\ j <= Len(u) /\ s[j] = u[j]) PROVE FALSE
      OBVIOUS
    <2>1. j \in D
      BY <1>1, <1>4
    <2> QED
      BY <1>3, <1>4, <2>1
  <1>6. i <= Len(s) + 1 /\ i <= Len(u) + 1
    BY <1>1, <1>4, <1>5
  <1>7. CASE i <= Len(s) /\ i <= Len(u)
    <2>1. s[i] # u[i] /\ i \in 1..Len(s) /\ i \in 1..Len(u)
      BY <1>1, <1>4, <1>7
    <2>2. s[i] \in Nat /\ u[i] \in Nat
      BY <2>1, InText
    <2>3. BeforeAt(s, u, i) \/ BeforeAt(u, s, i)
      BY <1>5, <1>6, <2>1, <2>2 DEF BeforeAt
    <2> QED
      BY <2>3, BeforeIs
  <1>8. CASE i = Len(s) + 1 /\ i <= Len(u)
    <2>1. BeforeAt(s, u, i)
      BY <1>1, <1>4, <1>5, <1>8 DEF BeforeAt
    <2> QED
      BY <2>1, BeforeIs
  <1>9. CASE i <= Len(s) /\ i = Len(u) + 1
    <2>1. BeforeAt(u, s, i)
      BY <1>1, <1>4, <1>5, <1>9 DEF BeforeAt
    <2> QED
      BY <2>1, BeforeIs
  <1>10. CASE i = Len(s) + 1 /\ i = Len(u) + 1
    <2>1. Len(s) = Len(u) /\ \A j \in 1..Len(s) : s[j] = u[j]
      BY <1>1, <1>5, <1>10
    <2>2. s = u
      BY <2>1, SeqEqual DEF Strings
    <2> QED
      BY <2>2
  <1> QED
    BY <1>1, <1>4, <1>6, <1>7, <1>8, <1>9, <1>10

\* Lists of parameters of one length, in the order of the first texts that differ.
LexAt(p, q, i) ==
    /\ i \in 1..Len(p) /\ i <= Len(q)
    /\ \A j \in 1..(i - 1) : T[p[j]] = T[q[j]]
    /\ Before(T[p[i]], T[q[i]])
Lex(p, q) == \E i : LexAt(p, q, i)
SameTexts(p, q) == Len(p) = Len(q) /\ \A i \in 1..Len(p) : T[p[i]] = T[q[i]]

LEMMA InParameters ==
    ASSUME NEW p \in Seq(Types)
    PROVE  Len(p) \in Nat /\ \A i \in 1..Len(p) : T[p[i]] \in Strings
  <1>1. Len(p) \in Nat
    BY LenProperties
  <1>2. \A i \in 1..Len(p) : p[i] \in Types
    BY ElementOfSeq
  <1> QED
    BY <1>1, <1>2, TextType

LEMMA LexIrreflexive ==
    ASSUME NEW p \in Seq(Types), NEW q \in Seq(Types), SameTexts(p, q)
    PROVE  ~Lex(p, q)
  <1> SUFFICES ASSUME NEW i, LexAt(p, q, i) PROVE FALSE
    BY DEF Lex
  <1>1. i \in 1..Len(p) /\ Before(T[p[i]], T[q[i]]) /\ T[p[i]] = T[q[i]]
    BY DEF LexAt, SameTexts
  <1> QED
    BY <1>1, InParameters, BeforeIrreflexive

LEMMA LexTransitive ==
    ASSUME NEW p \in Seq(Types), NEW q \in Seq(Types), NEW r \in Seq(Types),
           Len(p) = Len(q), Len(q) = Len(r), Lex(p, q), Lex(q, r)
    PROVE  Lex(p, r)
  <1>1. PICK i : LexAt(p, q, i)
    BY DEF Lex
  <1>2. PICK k : LexAt(q, r, k)
    BY DEF Lex
  <1>3. Len(p) \in Nat /\ \A j \in 1..Len(p) : T[p[j]] \in Strings /\ T[q[j]] \in Strings /\ T[r[j]] \in Strings
    BY InParameters
  <1>4. i \in 1..Len(p) /\ k \in 1..Len(p) /\ i \in Nat /\ k \in Nat
    BY <1>1, <1>2, <1>3 DEF LexAt
  <1>5. CASE i < k
    <2>1. LexAt(p, r, i)
      BY <1>1, <1>2, <1>3, <1>4, <1>5 DEF LexAt
    <2> QED
      BY <2>1 DEF Lex
  <1>6. CASE i = k
    <2>1. Before(T[p[i]], T[q[i]]) /\ Before(T[q[i]], T[r[i]])
      BY <1>1, <1>2, <1>6 DEF LexAt
    <2>2. Before(T[p[i]], T[r[i]])
      BY <1>3, <1>4, <2>1, BeforeTransitive
    <2>3. LexAt(p, r, i)
      BY <1>1, <1>2, <1>4, <1>6, <2>2 DEF LexAt
    <2> QED
      BY <2>3 DEF Lex
  <1>7. CASE k < i
    <2>1. LexAt(p, r, k)
      BY <1>1, <1>2, <1>3, <1>4, <1>7 DEF LexAt
    <2> QED
      BY <2>1 DEF Lex
  <1> QED
    BY <1>4, <1>5, <1>6, <1>7

LEMMA LexTotal ==
    ASSUME NEW p \in Seq(Types), NEW q \in Seq(Types), Len(p) = Len(q), ~SameTexts(p, q)
    PROVE  Lex(p, q) \/ Lex(q, p)
  <1> DEFINE D == {i \in Nat : i \in 1..Len(p) /\ T[p[i]] # T[q[i]]}
  <1>1. Len(p) \in Nat /\ \A j \in 1..Len(p) : T[p[j]] \in Strings /\ T[q[j]] \in Strings
    BY InParameters
  <1>2. D # {} /\ D \in SUBSET Nat
    BY <1>1 DEF SameTexts
  <1>3. PICK i \in D : \A m \in D : i <= m
    <2> HIDE DEF D
    <2> QED
      BY <1>2, LeastNatural
  <1>4. i \in 1..Len(p) /\ i \in Nat /\ T[p[i]] # T[q[i]]
    OBVIOUS
  <1>5. \A j \in 1..(i - 1) : T[p[j]] = T[q[j]]
    <2> SUFFICES ASSUME NEW j \in 1..(i - 1), T[p[j]] # T[q[j]] PROVE FALSE
      OBVIOUS
    <2>1. j \in D
      BY <1>1, <1>4
    <2> QED
      BY <1>3, <1>4, <2>1
  <1>6. Before(T[p[i]], T[q[i]]) \/ Before(T[q[i]], T[p[i]])
    BY <1>1, <1>4, BeforeTotal
  <1>7. LexAt(p, q, i) \/ LexAt(q, p, i)
    BY <1>1, <1>4, <1>5, <1>6 DEF LexAt
  <1> QED
    BY <1>7 DEF Lex
-----------------------------------------------------------------------------
\* The order of descriptors

LEMMA InDescriptor ==
    ASSUME NEW f \in Descriptors
    PROVE  f.name \in Nat /\ f.parameters \in Seq(Types) /\ Len(f.parameters) \in Nat
  BY DescriptorsAssumption, InParameters

LEMMA AlikeIs ==
    ASSUME NEW f \in Descriptors, NEW g \in Descriptors
    PROVE  /\ Alike(f, g) <=> f.name = g.name /\ SameTexts(f.parameters, g.parameters)
           /\ Same(f, g) => Alike(f, g)
           /\ Alike(f, g) /\ Told(f) /\ Told(g) => Same(f, g)
  <1> DEFINE p == f.parameters
             q == g.parameters
  <1>1. p \in Seq(Types) /\ q \in Seq(Types)
    BY InDescriptor
  <1>2. Same(f, g) <=> f.name = g.name /\ Len(p) = Len(q) /\ \A i \in 1..Len(p) : equals(Heap)[p[i]][q[i]]
    BY DEF Same, equal
  <1>3. Alike(f, g) <=> f.name = g.name /\ Len(p) = Len(q) /\ \A i \in 1..Len(p) : T[p[i]] = T[q[i]]
    BY DEF Alike, T
  <1>4. /\ Told(f) => \A i \in 1..Len(p) : toldTypes[p[i]]
        /\ Told(g) => \A i \in 1..Len(q) : toldTypes[q[i]]
    BY DEF Told
  <1> HIDE DEF p, q
  <1>5. ASSUME Len(p) = Len(q), NEW i \in 1..Len(p)
        PROVE  /\ equals(Heap)[p[i]][q[i]] => T[p[i]] = T[q[i]]
               /\ toldTypes[p[i]] /\ toldTypes[q[i]] /\ T[p[i]] = T[q[i]] => equals(Heap)[p[i]][q[i]]
    <2>1. p[i] \in Types /\ q[i] \in Types
      BY <1>1, <1>5, ElementOfSeq
    <2> QED
      BY <2>1, EqualIsWrittenAlike DEF T
  <1>6. Alike(f, g) <=> f.name = g.name /\ SameTexts(p, q)
    BY <1>3 DEF SameTexts
  <1>7. Same(f, g) => Alike(f, g)
    BY <1>2, <1>3, <1>5
  <1>8. ASSUME Alike(f, g), Told(f), Told(g) PROVE Same(f, g)
    <2>1. \A i \in 1..Len(p) : toldTypes[p[i]] /\ toldTypes[q[i]]
      BY <1>3, <1>4, <1>8
    <2> QED
      BY <1>2, <1>3, <1>5, <1>8, <2>1
  <1> QED
    BY <1>6, <1>7, <1>8 DEF p, q

LEMMA LessIs ==
    ASSUME NEW f \in Descriptors, NEW g \in Descriptors
    PROVE  Less(f, g) <=> \/ f.name < g.name
                          \/ f.name = g.name /\ Len(f.parameters) < Len(g.parameters)
                          \/ /\ f.name = g.name /\ Len(f.parameters) = Len(g.parameters)
                             /\ Lex(f.parameters, g.parameters)
  <1> DEFINE p == f.parameters
             q == g.parameters
  <1>1. Len(p) \in Nat /\ Len(q) \in Nat
    BY InDescriptor
  <1>2. Less(f, g) <=> \/ f.name < g.name
                       \/ f.name = g.name /\ Len(p) # Len(q) /\ Len(p) < Len(q)
                       \/ /\ f.name = g.name /\ Len(p) = Len(q)
                          /\ \E i \in 1..Len(p) : /\ i <= Len(q)
                                                  /\ \A j \in 1..(i - 1) : T[p[j]] = T[q[j]]
                                                  /\ Before(T[p[i]], T[q[i]])
    BY DEF Less, SameLength, T
  <1> HIDE DEF p, q
  <1>3. (\E i \in 1..Len(p) : /\ i <= Len(q)
                              /\ \A j \in 1..(i - 1) : T[p[j]] = T[q[j]]
                              /\ Before(T[p[i]], T[q[i]]))
        <=> Lex(p, q)
    BY DEF Lex, LexAt
  <1>4. Len(p) < Len(q) => Len(p) # Len(q)
    BY <1>1
  <1> QED
    BY <1>2, <1>3, <1>4 DEF p, q

LEMMA LessTransitive ==
    ASSUME NEW f \in Descriptors, NEW g \in Descriptors, NEW h \in Descriptors, Less(f, g), Less(g, h)
    PROVE  Less(f, h)
  <1> DEFINE p == f.parameters
             q == g.parameters
             r == h.parameters
  <1>1. /\ f.name \in Nat /\ g.name \in Nat /\ h.name \in Nat
        /\ p \in Seq(Types) /\ q \in Seq(Types) /\ r \in Seq(Types)
        /\ Len(p) \in Nat /\ Len(q) \in Nat /\ Len(r) \in Nat
    BY InDescriptor
  <1>2. \/ f.name < g.name
        \/ f.name = g.name /\ Len(p) < Len(q)
        \/ f.name = g.name /\ Len(p) = Len(q) /\ Lex(p, q)
    BY LessIs
  <1>3. \/ g.name < h.name
        \/ g.name = h.name /\ Len(q) < Len(r)
        \/ g.name = h.name /\ Len(q) = Len(r) /\ Lex(q, r)
    BY LessIs
  <1>4. Less(f, h) <=> \/ f.name < h.name
                       \/ f.name = h.name /\ Len(p) < Len(r)
                       \/ f.name = h.name /\ Len(p) = Len(r) /\ Lex(p, r)
    BY LessIs
  <1> HIDE DEF p, q, r
  <1>5. Len(p) = Len(q) /\ Len(q) = Len(r) /\ Lex(p, q) /\ Lex(q, r) => Lex(p, r)
    BY <1>1, LexTransitive
  <1> QED
    BY <1>1, <1>2, <1>3, <1>4, <1>5

LEMMA LessTells ==
    ASSUME NEW f \in Descriptors, NEW g \in Descriptors
    PROVE  ~Less(f, g) /\ ~Less(g, f) <=> Alike(f, g)
  <1> DEFINE p == f.parameters
             q == g.parameters
  <1>1. /\ f.name \in Nat /\ g.name \in Nat /\ p \in Seq(Types) /\ q \in Seq(Types)
        /\ Len(p) \in Nat /\ Len(q) \in Nat
    BY InDescriptor
  <1>2. Less(f, g) <=> \/ f.name < g.name
                       \/ f.name = g.name /\ Len(p) < Len(q)
                       \/ f.name = g.name /\ Len(p) = Len(q) /\ Lex(p, q)
    BY LessIs
  <1>3. Less(g, f) <=> \/ g.name < f.name
                       \/ g.name = f.name /\ Len(q) < Len(p)
                       \/ g.name = f.name /\ Len(q) = Len(p) /\ Lex(q, p)
    BY LessIs
  <1>4. Alike(f, g) <=> f.name = g.name /\ SameTexts(p, q)
    BY AlikeIs
  <1> HIDE DEF p, q
  <1>5. SameTexts(p, q) => Len(p) = Len(q) /\ ~Lex(p, q) /\ ~Lex(q, p)
    <2> SUFFICES ASSUME SameTexts(p, q) PROVE Len(p) = Len(q) /\ ~Lex(p, q) /\ ~Lex(q, p)
      OBVIOUS
    <2>1. SameTexts(q, p)
      BY DEF SameTexts
    <2> QED
      BY <1>1, <2>1, LexIrreflexive DEF SameTexts
  <1>6. Len(p) = Len(q) /\ ~Lex(p, q) /\ ~Lex(q, p) => SameTexts(p, q)
    BY <1>1, LexTotal
  <1> QED
    BY <1>1, <1>2, <1>3, <1>4, <1>5, <1>6

LEMMA AlikeTransitive ==
    ASSUME NEW f \in Descriptors, NEW g \in Descriptors, NEW h \in Descriptors, Alike(f, g), Alike(g, h)
    PROVE  Alike(f, h) /\ Alike(g, f)
  <1>1. f.name = g.name /\ SameTexts(f.parameters, g.parameters)
    BY AlikeIs
  <1>2. g.name = h.name /\ SameTexts(g.parameters, h.parameters)
    BY AlikeIs
  <1>3. SameTexts(f.parameters, h.parameters) /\ SameTexts(g.parameters, f.parameters)
    BY <1>1, <1>2 DEF SameTexts
  <1> QED
    BY <1>1, <1>2, <1>3, AlikeIs

\* The order does not tell descriptors with the same strings apart.
LEMMA LessOfAlike ==
    ASSUME NEW f \in Descriptors, NEW g \in Descriptors, NEW h \in Descriptors, Alike(f, g)
    PROVE  Less(h, f) <=> Less(h, g)
  <1>1. Alike(g, f)
    BY LessTells
  <1>2. ASSUME NEW a \in Descriptors, NEW b \in Descriptors, Alike(a, b), Alike(b, a), Less(h, a)
        PROVE  Less(h, b)
    <2> SUFFICES ASSUME ~Less(h, b) PROVE FALSE
      OBVIOUS
    <2>1. CASE Less(b, h)
      <3>1. Less(b, a)
        BY <1>2, <2>1, LessTransitive
      <3> QED
        BY <1>2, <3>1, LessTells
    <2>2. CASE ~Less(b, h)
      <3>1. Alike(h, b)
        BY <2>2, LessTells
      <3>2. Alike(h, a)
        BY <1>2, <3>1, AlikeTransitive
      <3> QED
        BY <1>2, <3>2, LessTells
    <2> QED
      BY <2>1, <2>2
  <1> QED
    BY <1>1, <1>2

LEMMA DescriptorsOrdered ==
    \A f, g, h \in Descriptors :
        /\ ~(Less(f, g) /\ Less(g, f))
        /\ Less(f, g) /\ Less(g, h) => Less(f, h)
        /\ ~Less(f, g) /\ ~Less(g, f) <=> Alike(f, g)
        /\ Same(f, g) => Alike(f, g)
        /\ Alike(f, g) /\ Told(f) /\ Told(g) => Same(f, g)
  <1> SUFFICES ASSUME NEW f \in Descriptors, NEW g \in Descriptors, NEW h \in Descriptors
               PROVE  /\ ~(Less(f, g) /\ Less(g, f))
                      /\ Less(f, g) /\ Less(g, h) => Less(f, h)
                      /\ ~Less(f, g) /\ ~Less(g, f) <=> Alike(f, g)
                      /\ Same(f, g) => Alike(f, g)
                      /\ Alike(f, g) /\ Told(f) /\ Told(g) => Same(f, g)
    OBVIOUS
  <1>1. Alike(f, f)
    BY AlikeIs DEF SameTexts
  <1>2. ~Less(f, f)
    BY <1>1, LessTells
  <1> QED
    BY <1>2, AlikeIs, LessTells, LessTransitive

\* operator< orders any descriptors a map is given, for every heap of types, whatever
\* user-defined types are called, and ties exactly those it has the same strings for
\* (FunctionDescriptor.cpp:55-78).
THEOREM SpecOrdersKeys == MapSpec => []OrdersKeys
  <1> DEFINE Inv == given \subseteq Descriptors
  <1>1. MapInit => Inv
    BY DEF MapInit
  <1>2. Inv /\ [MapNext]_mapVars => Inv'
    BY DEF MapNext, Insert, mapVars
  <1>3. Inv => OrdersKeys
    BY DescriptorsOrdered DEF OrdersKeys
  <1> QED
    BY <1>1, <1>2, <1>3, PTL DEF MapSpec
-----------------------------------------------------------------------------
\* The map

\* A set of numbers with all the numbers below each of its numbers.
LEMMA LowerSet ==
    ASSUME NEW n \in Nat, NEW S \in SUBSET (1..n), \A i, j \in 1..n : i < j /\ j \in S => i \in S
    PROVE  /\ Cardinality(S) \in 0..n
           /\ \A i \in 1..n : i \in S <=> i <= Cardinality(S)
  <1> DEFINE Out == {i \in Nat : i # 0 /\ i \notin S}
  <1>1. n + 1 \in Out
    OBVIOUS
  <1>2. PICK m \in Out : \A i \in Out : m <= i
    <2> HIDE DEF Out
    <2>1. Out # {}
      BY <1>1
    <2>2. Out \in SUBSET Nat
      BY DEF Out
    <2> QED
      BY <2>1, <2>2, LeastNatural
  <1>3. m \in Nat /\ m # 0 /\ m \notin S
    OBVIOUS
  <1>4. m - 1 \in 0..n
    BY <1>1, <1>2, <1>3
  <1>5. \A i \in 1..(m - 1) : i \in S
    <2> SUFFICES ASSUME NEW i \in 1..(m - 1), i \notin S PROVE FALSE
      OBVIOUS
    <2>1. i \in Out
      BY <1>3
    <2> QED
      BY <1>2, <1>3, <2>1
  <1> HIDE DEF Out
  <1>6. \A i \in S : i \in 1..(m - 1)
    <2> SUFFICES ASSUME NEW i \in S, i \notin 1..(m - 1) PROVE FALSE
      OBVIOUS
    <2>1. m \in 1..n /\ (m < i \/ m = i)
      BY <1>3
    <2> QED
      BY <1>3, <2>1
  <1>7. S = 1..(m - 1)
    BY <1>5, <1>6
  <1>8. Cardinality(S) = m - 1
    <2>1. Cardinality(1..(m - 1)) = IF 1 > m - 1 THEN 0 ELSE (m - 1) - 1 + 1
      BY <1>3, FS_Interval
    <2> QED
      BY <1>3, <1>7, <2>1
  <1> QED
    BY <1>4, <1>7, <1>8

LEMMA InsertAtIs ==
    ASSUME NEW s \in Seq(Descriptors), NEW f \in Descriptors, NEW m \in 1..(Len(s) + 1)
    PROVE  /\ InsertAt(s, m, f) \in Seq(Descriptors)
           /\ Len(InsertAt(s, m, f)) = Len(s) + 1
           /\ \A i \in 1..(Len(s) + 1) :
                 InsertAt(s, m, f)[i] = IF i < m THEN s[i] ELSE IF i = m THEN f ELSE s[i - 1]
  <1> DEFINE a == SubSeq(s, 1, m - 1)
             b == <<f>>
             c == SubSeq(s, m, Len(s))
  <1>1. Len(s) \in Nat /\ m \in Nat /\ \A i \in 1..Len(s) : s[i] \in Descriptors
    BY LenProperties, ElementOfSeq
  <1>2. a \in Seq(Descriptors) /\ Len(a) = m - 1 /\ \A i \in 1..(m - 1) : a[i] = s[i]
    <2>1. \A i \in 1..(m - 1) : s[i] \in Descriptors
      BY <1>1
    <2>2. /\ a \in Seq(Descriptors) /\ Len(a) = IF 1 <= m - 1 THEN (m - 1) - 1 + 1 ELSE 0
          /\ \A i \in 1..((m - 1) - 1 + 1) : a[i] = s[1 + i - 1]
      BY <1>1, <2>1, SubSeqProperties
    <2> QED
      BY <1>1, <2>2
  <1>3. c \in Seq(Descriptors) /\ Len(c) = Len(s) - m + 1 /\ \A i \in 1..(Len(s) - m + 1) : c[i] = s[m + i - 1]
    <2>1. \A i \in m..Len(s) : s[i] \in Descriptors
      BY <1>1
    <2>2. /\ c \in Seq(Descriptors) /\ Len(c) = IF m <= Len(s) THEN Len(s) - m + 1 ELSE 0
          /\ \A i \in 1..(Len(s) - m + 1) : c[i] = s[m + i - 1]
      BY <1>1, <2>1, SubSeqProperties
    <2> QED
      BY <1>1, <2>2
  <1>4. b \in Seq(Descriptors) /\ Len(b) = 1 /\ b[1] = f
    OBVIOUS
  <1>5. InsertAt(s, m, f) = (a \o b) \o c
    BY DEF InsertAt
  <1> HIDE DEF a, b, c
  <1>6. /\ a \o b \in Seq(Descriptors) /\ Len(a \o b) = m
        /\ \A i \in 1..m : (a \o b)[i] = IF i <= m - 1 THEN a[i] ELSE b[i - (m - 1)]
    <2>1. /\ a \o b \in Seq(Descriptors) /\ Len(a \o b) = Len(a) + Len(b)
          /\ \A i \in 1..(Len(a) + Len(b)) : (a \o b)[i] = IF i <= Len(a) THEN a[i] ELSE b[i - Len(a)]
      BY <1>2, <1>4, ConcatProperties
    <2> QED
      BY <1>1, <1>2, <1>4, <2>1
  <1> DEFINE d == a \o b
             e == d \o c
  <1>7. /\ e \in Seq(Descriptors) /\ Len(e) = Len(d) + Len(c)
        /\ \A i \in 1..(Len(d) + Len(c)) : e[i] = IF i <= Len(d) THEN d[i] ELSE c[i - Len(d)]
    <2>1. d \in Seq(Descriptors) /\ c \in Seq(Descriptors)
      BY <1>3, <1>6
    <2> HIDE DEF d
    <2> QED
      BY <2>1, ConcatProperties
  <1>8. Len(d) = m /\ Len(e) = Len(s) + 1
    BY <1>1, <1>3, <1>6, <1>7
  <1>9. ASSUME NEW i \in 1..(Len(s) + 1)
        PROVE  e[i] = IF i < m THEN s[i] ELSE IF i = m THEN f ELSE s[i - 1]
    <2> HIDE DEF e
    <2>1. e[i] = IF i <= m THEN d[i] ELSE c[i - m]
      BY <1>1, <1>3, <1>7, <1>8
    <2>2. CASE i < m
      BY <1>1, <1>2, <1>6, <2>1, <2>2
    <2>3. CASE i = m
      <3>1. m \in 1..m /\ ~(m <= m - 1)
        BY <1>1
      <3>2. m - (m - 1) = 1
        BY <1>1
      <3>3. d[m] = b[m - (m - 1)]
        BY <1>6, <3>1
      <3> QED
        BY <1>1, <1>4, <2>1, <2>3, <3>2, <3>3
    <2>4. CASE i > m
      <3>1. i - m \in 1..(Len(s) - m + 1) /\ m + (i - m) - 1 = i - 1 /\ ~(i <= m)
        BY <1>1, <2>4
      <3> QED
        BY <1>1, <1>3, <2>1, <2>4, <3>1
    <2> QED
      BY <1>1, <2>2, <2>3, <2>4
  <1> HIDE DEF d, e
  <1> QED
    BY <1>5, <1>7, <1>8, <1>9 DEF d, e

\* The keys are descriptors in ascending order.
Ascending(s) == s \in Seq(Descriptors) /\ \A i, j \in 1..Len(s) : i < j => Less(s[i], s[j])

\* Every descriptor of the map has the strings of one of its keys.
Holds(s, f) == \E i \in 1..Len(s) : Alike(s[i], f)

KeysInv ==
    /\ given \subseteq Descriptors
    /\ Ascending(keys)
    /\ \A f \in given : Holds(keys, f)

\* Where the map looks for a descriptor: the keys before it are less than it, the others not.
LEMMA LowerBoundIs ==
    ASSUME Ascending(keys), NEW f \in Descriptors
    PROVE  /\ LowerBound(f) \in 1..(Len(keys) + 1)
           /\ \A i \in 1..Len(keys) : Less(keys[i], f) <=> i < LowerBound(f)
  <1> DEFINE S == {i \in 1..Len(keys) : Less(keys[i], f)}
             n == Len(keys)
  <1>1. n \in Nat /\ \A i \in 1..n : keys[i] \in Descriptors
    BY LenProperties, ElementOfSeq DEF Ascending
  <1>2. \A i, j \in 1..n : i < j /\ j \in S => i \in S
    BY <1>1, LessTransitive DEF Ascending
  <1>3. LowerBound(f) = Cardinality(S) + 1
    BY DEF LowerBound
  <1>4. S \in SUBSET (1..n) /\ \A i \in 1..n : i \in S <=> Less(keys[i], f)
    OBVIOUS
  <1> HIDE DEF S, n
  <1>5. Cardinality(S) \in 0..n /\ \A i \in 1..n : i \in S <=> i <= Cardinality(S)
    BY <1>1, <1>2, <1>4, LowerSet
  <1> QED
    BY <1>1, <1>3, <1>4, <1>5 DEF n

LEMMA FoundIs ==
    ASSUME Ascending(keys), NEW f \in Descriptors
    PROVE  /\ Found(f) => Alike(keys[LowerBound(f)], f) /\ LowerBound(f) \in 1..Len(keys)
           /\ Holds(keys, f) => Found(f)
           /\ ~Found(f) => \A i \in 1..Len(keys) : LowerBound(f) <= i => Less(f, keys[i])
  <1> DEFINE n == Len(keys)
             m == LowerBound(f)
  <1>1. n \in Nat /\ \A i \in 1..n : keys[i] \in Descriptors
    BY LenProperties, ElementOfSeq DEF Ascending
  <1>2. m \in 1..(n + 1) /\ \A i \in 1..n : Less(keys[i], f) <=> i < m
    BY LowerBoundIs
  <1>3. Found(f) <=> m <= n /\ ~Less(f, keys[m])
    BY DEF Found
  <1> HIDE DEF n, m
  <1>4. ASSUME Found(f) PROVE Alike(keys[m], f) /\ m \in 1..n
    <2>1. m \in 1..n /\ ~Less(f, keys[m])
      BY <1>1, <1>2, <1>3, <1>4
    <2>2. ~Less(keys[m], f)
      BY <1>1, <1>2, <2>1
    <2> QED
      BY <1>1, <2>1, <2>2, LessTells
  <1>5. ASSUME Holds(keys, f) PROVE Found(f)
    <2>1. PICK k \in 1..n : Alike(keys[k], f)
      BY <1>5 DEF Holds, n
    <2>2. ~Less(keys[k], f) /\ ~Less(f, keys[k])
      BY <1>1, <2>1, LessTells
    <2>3. m <= k
      BY <1>1, <1>2, <2>2
    <2>4. m <= n /\ m \in 1..n
      BY <1>1, <1>2, <2>3
    <2>5. ASSUME Less(f, keys[m]) PROVE FALSE
      <3>1. CASE m = k
        BY <2>2, <2>5, <3>1
      <3>2. CASE m < k
        <4>1. Less(keys[m], keys[k])
          BY <2>4, <3>2 DEF Ascending, n
        <4>2. Less(f, keys[k])
          BY <1>1, <2>4, <2>5, <4>1, LessTransitive
        <4> QED
          BY <2>2, <4>2
      <3> QED
        BY <1>2, <2>3, <3>1, <3>2
    <2> QED
      BY <1>3, <2>4, <2>5
  <1>6. ASSUME ~Found(f), NEW i \in 1..n, m <= i PROVE Less(f, keys[i])
    <2>1. m \in 1..n
      BY <1>1, <1>2, <1>6
    <2>2. Less(f, keys[m])
      BY <1>3, <1>6, <2>1
    <2>3. CASE m = i
      BY <2>2, <2>3
    <2>4. CASE m < i
      <3>1. Less(keys[m], keys[i])
        BY <2>1, <2>4 DEF Ascending, n
      <3> QED
        BY <1>1, <2>1, <2>2, <3>1, LessTransitive
    <2> QED
      BY <1>2, <1>6, <2>3, <2>4
  <1> QED
    BY <1>4, <1>5, <1>6 DEF n, m

LEMMA InsertKeeps ==
    ASSUME Ascending(keys), NEW f \in Descriptors, ~Found(f)
    PROVE  /\ Ascending(InsertAt(keys, LowerBound(f), f))
           /\ Holds(InsertAt(keys, LowerBound(f), f), f)
           /\ \A g : Holds(keys, g) => Holds(InsertAt(keys, LowerBound(f), f), g)
  <1> DEFINE n == Len(keys)
             m == LowerBound(f)
             s == InsertAt(keys, m, f)
  <1>1. n \in Nat /\ keys \in Seq(Descriptors) /\ \A i \in 1..n : keys[i] \in Descriptors
    BY LenProperties, ElementOfSeq DEF Ascending
  <1>2. m \in 1..(n + 1) /\ \A i \in 1..n : Less(keys[i], f) <=> i < m
    BY LowerBoundIs
  <1>3. \A i \in 1..n : m <= i => Less(f, keys[i])
    BY FoundIs
  <1>4. \A i, j \in 1..n : i < j => Less(keys[i], keys[j])
    BY DEF Ascending
  <1>5. /\ s \in Seq(Descriptors) /\ Len(s) = n + 1
        /\ \A i \in 1..(n + 1) : s[i] = IF i < m THEN keys[i] ELSE IF i = m THEN f ELSE keys[i - 1]
    BY <1>1, <1>2, InsertAtIs
  <1> HIDE DEF s, m, n
  <1>6. ASSUME NEW i \in 1..(n + 1), NEW j \in 1..(n + 1), i < j PROVE Less(s[i], s[j])
    <2>1. CASE j < m
      <3>1. i \in 1..n /\ j \in 1..n /\ i < m
        BY <1>1, <1>2, <1>6, <2>1
      <3> QED
        BY <1>4, <1>5, <1>6, <2>1, <3>1
    <2>2. CASE j = m
      <3>1. i \in 1..n /\ i < m
        BY <1>1, <1>2, <1>6, <2>2
      <3>2. s[i] = keys[i] /\ s[j] = f
        BY <1>2, <1>5, <2>2, <3>1
      <3> QED
        BY <1>2, <3>1, <3>2
    <2>3. CASE j > m /\ i < m
      <3>1. i \in 1..n /\ j - 1 \in 1..n /\ i < j - 1
        BY <1>1, <1>2, <1>6, <2>3
      <3>2. s[i] = keys[i] /\ s[j] = keys[j - 1]
        BY <1>2, <1>5, <2>3
      <3> QED
        BY <1>4, <3>1, <3>2
    <2>4. CASE j > m /\ i = m
      <3>1. j - 1 \in 1..n /\ m <= j - 1
        BY <1>1, <1>2, <1>6, <2>4
      <3>2. s[i] = f /\ s[j] = keys[j - 1]
        BY <1>2, <1>5, <2>4
      <3> QED
        BY <1>3, <3>1, <3>2
    <2>5. CASE j > m /\ i > m
      <3>1. i - 1 \in 1..n /\ j - 1 \in 1..n /\ i - 1 < j - 1
        BY <1>1, <1>2, <1>6, <2>5
      <3>2. s[i] = keys[i - 1] /\ s[j] = keys[j - 1]
        BY <1>2, <1>5, <2>5
      <3> QED
        BY <1>4, <3>1, <3>2
    <2> QED
      BY <1>2, <2>1, <2>2, <2>3, <2>4, <2>5
  <1>7. Ascending(s)
    BY <1>5, <1>6 DEF Ascending
  <1>8. Holds(s, f)
    <2>1. m \in 1..Len(s) /\ s[m] = f
      BY <1>1, <1>2, <1>5
    <2>2. Alike(f, f)
      BY AlikeIs DEF SameTexts
    <2> QED
      BY <2>1, <2>2 DEF Holds
  <1>9. ASSUME NEW g, Holds(keys, g) PROVE Holds(s, g)
    <2>1. PICK i \in 1..n : Alike(keys[i], g)
      BY <1>9 DEF Holds, n
    <2>2. CASE i < m
      <3>1. i \in 1..Len(s) /\ s[i] = keys[i]
        BY <1>1, <1>5, <2>2
      <3> QED
        BY <2>1, <3>1 DEF Holds
    <2>3. CASE ~(i < m)
      <3>1. i + 1 \in 1..Len(s) /\ s[i + 1] = keys[i]
        BY <1>1, <1>2, <1>5, <2>3
      <3> QED
        BY <2>1, <3>1 DEF Holds
    <2> QED
      BY <2>2, <2>3
  <1> QED
    BY <1>7, <1>8, <1>9 DEF s, m

LEMMA InsertStep == ASSUME KeysInv, NEW f \in Descriptors, Insert(f) PROVE KeysInv'
  <1>1. given' \subseteq Descriptors
    BY DEF KeysInv, Insert
  <1>2. CASE Found(f)
    <2>1. keys' = keys /\ given' = given \cup {f}
      BY <1>2 DEF Insert
    <2>2. Holds(keys, f)
      BY <1>2, FoundIs DEF KeysInv, Holds
    <2>3. Ascending(keys) /\ \A g \in given \cup {f} : Holds(keys, g)
      BY <2>2 DEF KeysInv
    <2> QED
      BY <1>1, <2>1, <2>3 DEF KeysInv, Ascending, Holds
  <1>3. CASE ~Found(f)
    <2> DEFINE s == InsertAt(keys, LowerBound(f), f)
    <2>1. keys' = s /\ given' = given \cup {f}
      BY <1>3 DEF Insert
    <2>2. Ascending(s) /\ Holds(s, f) /\ \A g : Holds(keys, g) => Holds(s, g)
      BY <1>3, InsertKeeps DEF KeysInv
    <2> HIDE DEF s
    <2>3. \A g \in given \cup {f} : Holds(s, g)
      BY <2>2 DEF KeysInv
    <2> QED
      BY <1>1, <2>1, <2>2, <2>3 DEF KeysInv, Ascending, Holds
  <1> QED
    BY <1>2, <1>3

LEMMA KeysInvHolds == KeysInv => MapHolds
  <1> SUFFICES ASSUME KeysInv PROVE MapHolds
    OBVIOUS
  <1>1. \A i \in 1..Len(keys) : keys[i] \in Descriptors
    BY ElementOfSeq DEF KeysInv, Ascending
  <1>2. ASSUME NEW f \in given
        PROVE  /\ Found(f) /\ Alike(keys[LowerBound(f)], f)
               /\ Told(f) /\ Told(keys[LowerBound(f)]) => Same(keys[LowerBound(f)], f)
    <2>1. f \in Descriptors /\ Ascending(keys) /\ Holds(keys, f)
      BY DEF KeysInv
    <2>2. Found(f) /\ Alike(keys[LowerBound(f)], f) /\ LowerBound(f) \in 1..Len(keys)
      BY <2>1, FoundIs
    <2> DEFINE k == keys[LowerBound(f)]
    <2>3. k \in Descriptors /\ Alike(k, f)
      BY <1>1, <2>2
    <2> HIDE DEF k
    <2>4. Told(f) /\ Told(k) => Same(k, f)
      BY <2>1, <2>3, AlikeIs
    <2> QED
      BY <2>2, <2>4 DEF k
  <1>3. ASSUME NEW i \in 1..Len(keys), NEW j \in 1..Len(keys), Alike(keys[i], keys[j]) PROVE i = j
    <2>1. ~Less(keys[i], keys[j]) /\ ~Less(keys[j], keys[i])
      BY <1>1, <1>3, LessTells
    <2>2. ~(i < j) /\ ~(j < i)
      BY <2>1 DEF KeysInv, Ascending
    <2> QED
      BY <2>2
  <1> QED
    BY <1>2, <1>3 DEF MapHolds

\* Whatever is inserted into a map keyed by descriptors is found again, under an equal key
\* unless the name of a user-defined type can be taken for other words, and no two of its
\* keys have the same strings (FunctionDescriptor.cpp:55-78).
THEOREM SpecMapHolds == MapSpec => []MapHolds
  <1>1. MapInit => KeysInv
    BY DEF MapInit, KeysInv, Ascending, Holds
  <1>2. KeysInv /\ [MapNext]_mapVars => KeysInv'
    <2> SUFFICES ASSUME KeysInv, [MapNext]_mapVars PROVE KeysInv'
      OBVIOUS
    <2>1. CASE MapNext
      BY <2>1, InsertStep DEF MapNext
    <2>2. CASE UNCHANGED mapVars
      BY <2>2 DEF mapVars, KeysInv, Ascending, Holds
    <2> QED
      BY <2>1, <2>2
  <1> QED
    BY <1>1, <1>2, KeysInvHolds, PTL DEF MapSpec
===============================================================================
