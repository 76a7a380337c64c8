---------------------------- MODULE MCNameMangler -----------------------------
(* Heaps of three types and lists of three parameters that the caller       *)
(* builds: nested and repeated pointers, a block that shares its parameters *)
(* with the function, types that only SPIR 2.0 has at every depth.  Then    *)
(* what is given: every built-in function of the OpenCL header, the         *)
(* descriptors of the tests, and forty pointers each used twice, so that    *)
(* the numbers of the back references reach two digits.                     *)
EXTENDS NameMangler, OpenCLBuiltins, MangleTest

MCQualifierSets == {{}, {"const"}}

\* A prototype laid out on a heap, one node for each type that is not there yet.
RECURSIVE Place(_, _)
Place(h, t) ==
    LET sub == Place(h, t.of)
        n == IF t.id = "primitive" THEN t ELSE [t EXCEPT !.of = sub.at]
        g == IF t.id = "primitive" THEN h ELSE sub.heap
    IN IF \E i \in 1..Len(g) : g[i] = n THEN [heap |-> g, at |-> CHOOSE i \in 1..Len(g) : g[i] = n]
       ELSE [heap |-> Append(g, n), at |-> Len(g) + 1]
LaidOut(b) ==
    LET Step(d, t) == LET p == Place(d.heap, t)
                      IN [d EXCEPT !.heap = p.heap, !.parameters = Append(@, p.at)]
    IN FoldLeft(Step, Fd(b.name, <<>>, <<>>), b.parameters)

Forty == 1..40
ManyPointers == Fd("f", <<IntT>> \o [i \in Forty |-> PointerTo(1)],
                   [i \in Forty |-> i + 1] \o [i \in Forty |-> i + 1])

MCGiven == {LaidOut(b) : b \in Builtins} \cup {t.fd : t \in Tests} \cup {ManyPointers}

(* Every test of the suite gets what it expects, in either version, the     *)
(* string as well as the error (MangleTest.cpp:23-958).                     *)
TestsPass == status \notin {"building", "built", "mangling"} =>
    \A t \in Tests : t.fd = Fd(name, heap, parameters) /\ t.ver = spirVer =>
        status = t.err /\ mangledName = t.mangled
===============================================================================
