----------------------------- MODULE NameMangler ------------------------------
(***************************************************************************)
(* NameMangler::mangle and its visitor (spir_name_mangler/Mangler.cpp).    *)
(* A caller builds types bottom up on a heap; a type is the address of a   *)
(* node whose children have smaller addresses, and the same address may be *)
(* the child of several nodes and appear several times among the           *)
(* parameters.  mangle walks the parameters with a stack of what is left   *)
(* to write.  The stream is a sequence of words, one per thing written:    *)
(* "P", a qualifier, an address space, a back reference S<n>_; Text is     *)
(* what a word looks like in the string that mangle returns.               *)
(***************************************************************************)
EXTENDS ParameterTypes, ManglingUtils, FiniteSets, SequencesExt

CONSTANTS
    Given,          \* descriptors the caller has built: name, heap, parameters
    Primitives,     \* the types it builds others from,
    QualifierSets,  \* the qualifiers
    Spaces,         \* and address spaces of its pointers,
    Lengths, Structs,
    MaxTypes, MaxParams    \* and how many it builds and pushes

ASSUME TypesAssumption ==
    /\ Primitives \subseteq Range(PrimitiveNames)
    /\ QualifierSets \subseteq SUBSET Range(Qualifiers) /\ Spaces \subseteq Range(AddressSpaces)

ASSUME GivenAssumption == \A fd \in Given :
    /\ IsHeap(fd.heap) /\ fd.parameters \in Seq(1..Len(fd.heap))
    /\ \A a \in 1..Len(fd.heap) : fd.heap[a].id = "primitive" => fd.heap[a].prim \in Range(PrimitiveNames)

VARIABLES
    heap,         \* the nodes, by address
    name,         \* FunctionDescriptor::name
    parameters,   \* FunctionDescriptor::parameters
    spirVer,      \* MangleVisitor::spirVer
    todo,         \* what the calls on the C++ stack have left to write
    stream,       \* m_stream
    m_substitutions, m_nextSeqID,
    current,      \* the parameter being visited
    status        \* "building", "built", "mangling", or what mangle returned

vars == <<heap, name, parameters, spirVer, todo, stream, m_substitutions, m_nextSeqID, current, status>>
built == <<heap, name, parameters, spirVer>>

Addresses == 1..Len(heap)
EmptyMap == [a \in {} |-> 0]

\* Nodes are the values of ParameterTypes with addresses for children.
Nodes ==
    {Primitive(p) : p \in Primitives} \cup {UserDefined(s) : s \in Structs}
    \cup {Pointer(a, q, as) : a \in Addresses, q \in QualifierSets, as \in Spaces}
    \cup {Vector(a, n) : a \in {b \in Addresses : heap[b].id = "primitive"}, n \in Lengths}
    \cup {Atomic(a) : a \in {b \in Addresses : heap[b].id = "primitive"}}
    \cup {Block(ts) : ts \in BoundedSeq(Addresses, 2)}

Init ==
    /\ \/ /\ name = "" /\ heap = <<>> /\ parameters = <<>> /\ status = "building"
       \/ \E fd \in Given : /\ name = fd.name /\ heap = fd.heap /\ parameters = fd.parameters
                           /\ status = "built"
    /\ spirVer = SPIR20
    /\ todo = <<>> /\ stream = <<>> /\ current = 0
    /\ m_substitutions = EmptyMap /\ m_nextSeqID = 0
-------------------------------------------------------------------------------
NewType(n) ==
    /\ status = "building" /\ parameters = <<>> /\ Len(heap) < MaxTypes
    /\ heap' = Append(heap, n)
    /\ UNCHANGED <<name, parameters, spirVer, todo, stream, m_substitutions, m_nextSeqID, current, status>>

PushParameter(a) ==
    /\ status = "building" /\ Len(parameters) < MaxParams
    /\ parameters' = Append(parameters, a)
    /\ UNCHANGED <<heap, name, spirVer, todo, stream, m_substitutions, m_nextSeqID, current, status>>

\* A new visitor for each call; a descriptor with no name and no parameters
\* is null.
isNull == name = "" /\ parameters = <<>>

mangle(ver) ==
    /\ status # "mangling"
    /\ spirVer' = ver
    /\ todo' = <<>> /\ stream' = <<<<"_Z", name>>>> /\ current' = 0
    /\ m_substitutions' = EmptyMap /\ m_nextSeqID' = 0
    /\ status' = IF isNull THEN "MANGLE_NULL_FUNC_DESCRIPTOR" ELSE "mangling"
    /\ UNCHANGED <<heap, name, parameters>>

Visit(a) == [visit |-> TRUE, addr |-> a, word |-> <<>>]
Write(w) == [visit |-> FALSE, addr |-> 0, word |-> w]

NextParameter ==
    /\ status = "mangling" /\ todo = <<>>
    /\ IF current < Len(parameters)
       THEN /\ current' = current + 1 /\ todo' = <<Visit(parameters[current + 1])>>
            /\ UNCHANGED status
       ELSE /\ status' = "MANGLE_SUCCESS" /\ UNCHANGED <<current, todo>>
    /\ UNCHANGED <<built, stream, m_substitutions, m_nextSeqID>>

\* accept() of the node refuses it before SPIR 2.0.
New(p) == getSupportedVersion(p) >= SPIR20
Needs20_NotBlocks(n) == n.id = "atomic" \/ (n.id = "primitive" /\ New(n.prim))   \* fault: no check
Needs20(n) == \/ n.id \in {"atomic", "block"}
              \/ n.id = "primitive" /\ New(n.prim)

\* The node on top of the stack, about to be accepted.
Accepting(id) == /\ status = "mangling" /\ todo # <<>> /\ Head(todo).visit
                 /\ heap[Head(todo).addr].id = id
Top == Head(todo).addr
Node == heap[Top]
Known == Top \in DOMAIN m_substitutions

\* fault: the number is not moved on
addSubstitution_Stuck ==
    /\ m_substitutions' = [a \in DOMAIN m_substitutions \cup {Top} |->
                             IF a = Top THEN m_nextSeqID ELSE m_substitutions[a]]
    /\ UNCHANGED m_nextSeqID

addSubstitution ==
    /\ m_substitutions' = [a \in DOMAIN m_substitutions \cup {Top} |->
                             IF a = Top THEN m_nextSeqID ELSE m_substitutions[a]]
    /\ m_nextSeqID' = m_nextSeqID + 1

Emit(words, rest) ==
    /\ stream' = stream \o words
    /\ todo' = rest \o Tail(todo)
    /\ UNCHANGED <<built, current, status>>

\* fault: the error is dropped and the type accepted once more
Refuse_Again == status = "mangling" /\ todo # <<>> /\ Head(todo).visit /\ Needs20(Node) /\ UNCHANGED vars

Refuse ==
    /\ status = "mangling" /\ todo # <<>> /\ Head(todo).visit
    /\ Needs20(Node) /\ spirVer < SPIR20
    /\ status' = "MANGLE_TYPE_NOT_SUPPORTED"
    /\ todo' = <<>>
    /\ UNCHANGED <<built, stream, m_substitutions, m_nextSeqID, current>>

Supported == ~(Needs20(Node) /\ spirVer < SPIR20)
NoNumber == UNCHANGED <<m_substitutions, m_nextSeqID>>

visitPrimitive ==
    /\ Accepting("primitive") /\ Supported
    /\ Emit(<<<<"b", mangledPrimitiveString(Node.prim)>>>>, <<>>) /\ NoNumber

visitVector == Accepting("vector") /\ Emit(<<<<"Dv", Node.len>>>>, <<Visit(Node.of)>>) /\ NoNumber

visitAtomic == Accepting("atomic") /\ Supported /\ Emit(<<<<"U7_Atomic">>>>, <<Visit(Node.of)>>) /\ NoNumber

visitBlock ==
    /\ Accepting("block") /\ Supported /\ NoNumber
    /\ Emit(<<<<"U13block_pointerFv">>>>,
            [i \in 1..Len(Node.params) |-> Visit(Node.params[i])] \o <<Write(<<"E">>)>>)

\* The number in base 36, written from the end of the buffer; fault: from its start.
SeqIdDigits_Reversed(n) ==
    LET digits[m \in Nat] == IF m < 36 THEN <<m>> ELSE <<m % 36>> \o digits[m \div 36]
    IN  digits[n]
SeqIdDigits(n) ==
    LET digits[m \in Nat] == IF m = 0 THEN <<>> ELSE digits[m \div 36] \o <<m % 36>>
    IN  IF n = 0 THEN <<0>> ELSE digits[n]

mangleSubstitution(id) ==
    Accepting(id) /\ Known /\ Emit(<<<<"S", SeqIdDigits(m_substitutions[Top])>>>>, <<>>) /\ NoNumber

\* Qualifiers and then the address space, of which private is not written.
Attributes(n) ==
    LET Word(q) == IF q \in n.quals THEN <<<<"q", getMangledAttribute(q)>>>> ELSE <<>>
        space == getMangledAttribute(n.space)
    IN  Word(Qualifiers[1]) \o Word(Qualifiers[2]) \o Word(Qualifiers[3])
        \o (IF space = "" THEN <<>> ELSE <<<<"as", space>>>>)

visitPointer ==
    \/ mangleSubstitution("pointer")
    \/ /\ Accepting("pointer") /\ ~Known /\ addSubstitution
       /\ Emit(<<<<"P">>>> \o Attributes(Node), <<Visit(Node.of)>>)

visitUserDefined ==
    \/ mangleSubstitution("structure")
    \/ /\ Accepting("structure") /\ ~Known /\ addSubstitution
       /\ Emit(<<<<"n", Node.name>>>>, <<>>)

\* The end of a block's parameters.
WriteRest ==
    /\ status = "mangling" /\ todo # <<>> /\ ~Head(todo).visit
    /\ Emit(<<Head(todo).word>>, <<>>) /\ NoNumber

Visitor == visitPrimitive \/ visitVector \/ visitAtomic \/ visitBlock \/ visitPointer \/ visitUserDefined

Running == NextParameter \/ Refuse \/ Visitor \/ WriteRest

Next ==
    \/ \E n \in Nodes : NewType(n)
    \/ \E a \in Addresses : PushParameter(a)
    \/ \E ver \in {SPIR12, SPIR20} : mangle(ver)
    \/ Running

\* mangle runs to its return once it is called; nobody has to call it.
Spec == Init /\ [][Next]_vars /\ WF_vars(Running)
-------------------------------------------------------------------------------
\* What each word is in the string: m_stream << ...
Digit(d) == SubSeq("0123456789ABCDEFGHIJKLMNOPQRSTUVWXYZ", d + 1, d + 1)
Joined(words) == FoldLeft(LAMBDA s, w : s \o w, "", words)
Counted(s) == ToString(Len(s)) \o s
Text(w) ==
    CASE w[1] = "_Z" -> "_Z" \o Counted(w[2])
      [] w[1] = "n" -> Counted(w[2])
      [] w[1] = "Dv" -> "Dv" \o w[2] \o "_"
      [] w[1] = "S" -> "S" \o Joined([i \in 1..Len(w[2]) |-> Digit(w[2][i])]) \o "_"
      [] w[1] \in {"b", "q", "as"} -> w[2]
      [] OTHER -> w[1]

\* A type as the error names it (PointerType::toString and its like).
Readable(h, a) == Joined(toString(h, [w \in Words(h) |-> <<w>>])[a])

\* The type an address stands for, with the sharing forgotten.
TypeOf(n, type) ==
    CASE n.id \in {"pointer", "vector", "atomic"} -> [n EXCEPT !.of = type[n.of]]
      [] n.id = "block" -> [n EXCEPT !.params = [i \in 1..Len(n.params) |-> type[n.params[i]]]]
      [] OTHER -> n
TypeAt(h) == LET type[a \in 1..Len(h)] == TypeOf(h[a], type) IN type

\* The string mangle returns through its second argument.
mangledName ==
    CASE status = "MANGLE_SUCCESS" -> Joined([i \in 1..Len(stream) |-> Text(stream[i])])
      [] status = "MANGLE_TYPE_NOT_SUPPORTED" ->
           "Type " \o Readable(heap, parameters[current])
           \o " is not supported in " \o getSPIRVersionAsString(spirVer)
      [] OTHER -> "<invalid>"
-------------------------------------------------------------------------------
(* The numbers given out are 0, 1, ... in the order of first occurrence,   *)
(* each to one address (Mangler.cpp:97-100); the stack holds addresses.    *)
TypeOK ==
    /\ \A i \in 1..Len(todo) : todo[i].visit => todo[i].addr \in Addresses
    /\ DOMAIN m_substitutions \subseteq {a \in Addresses : heap[a].id \in {"pointer", "structure"}}
    /\ IsInjective(m_substitutions) /\ Range(m_substitutions) = 0..(m_nextSeqID - 1)

\* The types with a part that SPIR 2.0 introduced.
Uses20(h) ==
    LET uses[a \in 1..Len(h)] ==
          \/ h[a].id \in {"atomic", "block"}
          \/ h[a].id = "primitive" /\ New(h[a].prim)
          \/ h[a].id \in {"pointer", "vector"} /\ uses[h[a].of]
    IN  uses

\* A demangler.  It reads one word after the other and lays the types out as nodes that
\* name their parts by number: first the function, as a block that does not end.  It keeps
\* the blocks that are open, the node whose part comes next (0: the innermost open block
\* gets a parameter) and the nodes that a back reference can mean, in the order they begin.
Number(digits) ==
    LET value[n \in 0..Len(digits)] == IF n = 0 THEN 0 ELSE value[n - 1] * 36 + digits[n]
    IN  value[Len(digits)]
Attribute(s) == readableAttribute[PlaceIn(mangledAttribute, s)]
Start == [name |-> "", nodes |-> <<Block(<<>>)>>, blocks |-> <<1>>, slot |-> 0, known |-> <<>>]

\* The part that comes next is node n: one read before, or a new one.
Put(r, n) ==
    IF r.slot = 0 THEN [r EXCEPT !.nodes[Last(r.blocks)].params = Append(@, n)]
    ELSE [r EXCEPT !.nodes[r.slot].of = n, !.slot = 0]
Begin(r, node) == Put([r EXCEPT !.nodes = Append(@, node)], Len(r.nodes) + 1)
BeginWhole(r, node) == [Begin(r, node) EXCEPT !.slot = Len(r.nodes) + 1]    \* its part comes next
BeginBlock(r) == [Begin(r, Block(<<>>)) EXCEPT !.blocks = Append(@, Len(r.nodes) + 1)]
Know(r) == [r EXCEPT !.known = Append(@, Len(r.nodes) + 1)]

ReadWord(r, w) ==
    CASE w[1] = "_Z" -> [r EXCEPT !.name = w[2]]
      [] w[1] = "b" -> Begin(r, Primitive(PrimitiveNames[PlaceIn(mangledTypes, w[2])]))
      [] w[1] = "n" -> Begin(Know(r), UserDefined(w[2]))
      [] w[1] = "S" -> Put(r, IF Number(w[2]) < Len(r.known) THEN r.known[Number(w[2]) + 1] ELSE 0)
      [] w[1] = "Dv" -> BeginWhole(r, Vector(0, w[2]))
      [] w[1] = "U7_Atomic" -> BeginWhole(r, Atomic(0))
      [] w[1] = "U13block_pointerFv" -> BeginBlock(r)
      [] w[1] = "E" -> [r EXCEPT !.blocks = Front(@)]
      [] w[1] = "P" -> BeginWhole(Know(r), PointerTo(0))
      [] w[1] = "q" -> [r EXCEPT !.nodes[r.slot].quals = @ \cup {Attribute(w[2])}]
      [] w[1] = "as" -> [r EXCEPT !.nodes[r.slot].space = Attribute(w[2])]

Demangled(words) ==
    LET read[n \in 0..Len(words)] == IF n = 0 THEN Start ELSE ReadWord(read[n - 1], words[n])
    IN  read[Len(words)]

\* The type of each node, as far down as depth; node 0 has not been read.
TypesRead(nodes, depth) ==
    LET read[d \in 0..depth] ==
          LET below == read[d - 1]
          IN  [n \in 0..Len(nodes) |-> IF d = 0 \/ n = 0 THEN UserDefined("?") ELSE TypeOf(nodes[n], below)]
    IN  read[depth]

\* The function as one more block on the heap.
Function == Append(heap, Block(parameters))

(* The name says what was mangled: read back, with each back reference     *)
(* taken for the type its number was given to, it is the prototype         *)
(* (Mangler.cpp:29-81, 97-129; NameMangleAPI.h:22-23).  A type is no       *)
(* deeper than there are nodes on the heap.                                *)
NameDenotesPrototype == status = "MANGLE_SUCCESS" =>
    LET r == Demangled(stream)
    IN  /\ r.name = name /\ r.blocks = <<1>>
        /\ TypesRead(r.nodes, Len(Function))[1] = TypeAt(Function)[Len(Function)]

(* Once called, mangle returns: the walk of a type ends however its nodes   *)
(* are shared (Mangler.cpp:145-156).                                       *)
MangleReturns == status = "mangling" ~> status # "mangling"

(* mangle fails exactly when the version lacks one of the types, however   *)
(* deep and however shared, and stops at the first such parameter, which   *)
(* the error message names (Mangler.cpp:145-155, ParameterType.cpp:25-30,  *)
(* 153-158, 179-184).                                                      *)
RefusesExactly ==
    LET bad == {i \in 1..Len(parameters) : spirVer < SPIR20 /\ Uses20(heap)[parameters[i]]}
    IN /\ status = "MANGLE_SUCCESS" => bad = {}
       /\ status = "MANGLE_TYPE_NOT_SUPPORTED" => current \in bad /\ \A i \in bad : current <= i
===============================================================================
