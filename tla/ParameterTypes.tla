---------------------------- MODULE ParameterTypes ----------------------------
(***************************************************************************)
(* The parameter types of spir_name_mangler/ParameterType.h.  A caller      *)
(* builds them bottom up on a heap: a type is the address of a node, and   *)
(* what it is made of is at smaller addresses, which several nodes may     *)
(* share.  NameMangler walks a heap, FunctionDescriptor compares the types *)
(* on one.  With types in the place of addresses the same constructors     *)
(* make a type with the sharing forgotten.                                 *)
(***************************************************************************)
EXTENDS Integers, Sequences, Functions

Primitive(p) == [id |-> "primitive", prim |-> p]
Pointer(t, q, as) == [id |-> "pointer", of |-> t, quals |-> q, space |-> as]
PointerTo(t) == Pointer(t, {}, "__private")                \* the constructor
Vector(t, n) == [id |-> "vector", of |-> t, len |-> n]     \* n: the word for the length
Atomic(t) == [id |-> "atomic", of |-> t]
Block(ts) == [id |-> "block", params |-> ts]
UserDefined(s) == [id |-> "structure", name |-> s]

Qualifiers == <<"restrict", "volatile", "const">>     \* in the order of TypeAttributeEnum
AddressSpaces == <<"__private", "__global", "__constant", "__local", "__generic">>

\* Attributes of the wrong sort are ignored.
setQualifier(p, q, enabled) ==
    IF q \notin Range(Qualifiers) THEN p
    ELSE [p EXCEPT !.quals = IF enabled THEN @ \cup {q} ELSE @ \ {q}]
setAddressSpace(p, as) == IF as \in Range(AddressSpaces) THEN [p EXCEPT !.space = as] ELSE p

\* A heap: a node is made of nodes before it, and a vector packs scalars.
IsNode(h, a) ==
    LET n == h[a]
        before == 1..(a - 1)
    IN  /\ n.id \in {"primitive", "pointer", "vector", "atomic", "block", "structure"}
        /\ n.id = "primitive" => n = Primitive(n.prim)
        /\ n.id = "pointer" => /\ n = Pointer(n.of, n.quals, n.space) /\ n.of \in before
                               /\ n.quals \subseteq Range(Qualifiers) /\ n.space \in Range(AddressSpaces)
        /\ n.id = "vector" => n = Vector(n.of, n.len) /\ n.of \in before /\ h[n.of].id = "primitive"
        /\ n.id = "atomic" => n = Atomic(n.of) /\ n.of \in before
        /\ n.id = "block" => n = Block(n.params) /\ n.params \in Seq(before)
        /\ n.id = "structure" => n = UserDefined(n.name)
IsHeap(h) == h = [a \in 1..Len(h) |-> h[a]] /\ \A a \in 1..Len(h) : IsNode(h, a)

\* Two nodes, given which of the nodes before them are equal.
EqualNodes(h, same, a, b) ==
    LET t == h[a]
        u == h[b]
    IN  /\ t.id = u.id
        /\ t.id = "primitive" => t.prim = u.prim
        /\ t.id = "pointer" =>
             /\ t.space = u.space
             /\ \A i \in 1..Len(Qualifiers) : (Qualifiers[i] \in t.quals) = (Qualifiers[i] \in u.quals)
             /\ same[t.of][u.of]
        /\ t.id = "vector" => t.len = u.len /\ same[t.of][u.of]
        /\ t.id = "atomic" => same[t.of][u.of]
        /\ t.id = "block" =>
             /\ Len(t.params) = Len(u.params)
             /\ \A i \in 1..Len(t.params) : same[t.params[i]][u.params[i]]
        /\ t.id = "structure" => t.name = u.name

equals(h) ==
    LET same[a \in 1..Len(h)] == [b \in 1..Len(h) |-> EqualNodes(h, same, a, b)] IN same

\* What toString puts together: the words of a heap, blanks among them.  A spelling gives
\* each word the characters it is written with.
Keywords ==
    Range(Qualifiers) \cup Range(AddressSpaces) \cup {" ", "*", "atomic_", "void", "(", ", ", ")*"}
OfKind(h, id) == {a \in 1..Len(h) : h[a].id = id}
Words(h) ==
    Keywords \cup {h[a].prim : a \in OfKind(h, "primitive")} \cup {h[a].len : a \in OfKind(h, "vector")}
             \cup {h[a].name : a \in OfKind(h, "structure")}

\* fault: < ATTR_QUALIFIER_LAST for <=
Written_Short(spell, t) ==
    LET Word(q) == IF q \in t.quals THEN spell[q] \o spell[" "] ELSE <<>>
    IN  Word(Qualifiers[1]) \o Word(Qualifiers[2])

\* The qualifiers of a pointer.
Written(spell, t) ==
    LET Word(q) == IF q \in t.quals THEN spell[q] \o spell[" "] ELSE <<>>
    IN  Word(Qualifiers[1]) \o Word(Qualifiers[2]) \o Word(Qualifiers[3])

\* The parameters of a block, each written.
Listed(comma, texts) ==
    LET last[n \in 0..Len(texts)] ==
          IF n = 0 THEN <<>>
          ELSE (IF n = Len(texts) THEN <<>> ELSE comma) \o texts[Len(texts) - n + 1] \o last[n - 1]
    IN  last[Len(texts)]

\* A node, given what the nodes before it are written as.
TextOf(h, spell, written, a) ==
    LET t == h[a]
    IN  CASE t.id = "primitive" -> spell[t.prim]
          [] t.id = "pointer" ->
               Written(spell, t) \o spell[t.space] \o spell[" "] \o written[t.of] \o spell[" "] \o spell["*"]
          [] t.id = "vector" -> written[t.of] \o spell[t.len]
          [] t.id = "atomic" -> spell["atomic_"] \o written[t.of]
          [] t.id = "block" ->
               spell["void"] \o spell[" "] \o spell["("]
               \o Listed(spell[", "], [i \in 1..Len(t.params) |-> written[t.params[i]]]) \o spell[")*"]
          [] t.id = "structure" -> spell[t.name]

toString(h, spell) == LET written[a \in 1..Len(h)] == TextOf(h, spell, written, a) IN written
===============================================================================
