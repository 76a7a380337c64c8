------------------------------ MODULE SpirReport ------------------------------
(***************************************************************************)
(* The driver's last step on an invalid module: what the verifier found is *)
(* handed to ErrorHolder::print.  SpirVerifier keeps the errors as a set;  *)
(* the holder has them in a list, each as often as it was found.           *)
(***************************************************************************)
EXTENDS SpirVerifier

Holder == INSTANCE ErrorHolder

\* Each error twice, in any order of the first time it is found.
Found(order) == order \o Reverse(order)

\* Whatever order the errors are found in, every one is in the report once, in the order
\* they were found first; the numbers behind an error are those of the paragraphs that
\* explain its type, and every paragraph is cited by some error.  (ErrorHolder::print: UEL
\* and ITmap are filled in one loop, ITmap is numbered in a second and read in a third)
ReportFaithful ==
    Done =>
        \A order \in SetToSeqs(EL) :
            LET r == Holder!print(Found(order), FALSE)
            IN  /\ r.errors = order
                /\ \A k \in DOMAIN r.errors :
                      /\ ToSet(r.cites[k]) \subseteq DOMAIN r.infos
                      /\ [n \in DOMAIN r.cites[k] |-> r.infos[r.cites[k][n]]]
                            = Holder!InfoList[r.errors[k].t]
                /\ (UNION {ToSet(r.cites[k]) : k \in DOMAIN r.errors}) = DOMAIN r.infos
=============================================================================
