--------------------------- MODULE NameManglerTwice ---------------------------
(***************************************************************************)
(* Two descriptors mangled one after the other over the same types.        *)
(***************************************************************************)
EXTENDS NameMangler

VARIABLE first     \* what the first call returned, once there is one

None == [written |-> <<>>, given |-> <<>>, ver |-> 0]

InitTwice == Init /\ first = None

\* The caller keeps the first name and fills in a second descriptor.
SecondDescriptor ==
    /\ status = "MANGLE_SUCCESS" /\ first = None
    /\ first' = [written |-> stream, given |-> parameters, ver |-> spirVer]
    /\ parameters' = <<>> /\ status' = "building"
    /\ UNCHANGED <<heap, name, spirVer, todo, stream, m_substitutions, m_nextSeqID, current>>

NextTwice == (Next /\ UNCHANGED first) \/ SecondDescriptor

SpecTwice == InitTwice /\ [][NextTwice]_<<vars, first>>

(* Descriptors that operator== takes for the same prototype get the same   *)
(* mangled name: what NameMangleAPI.h:22-23 and the README say mangle      *)
(* returns ('string that represents the function's prototype').           *)
SamePrototypeSameName ==
    /\ status = "MANGLE_SUCCESS" /\ first # None /\ first.ver = spirVer
    /\ Len(first.given) = Len(parameters)
    /\ \A i \in 1..Len(parameters) : equals(heap)[first.given[i]][parameters[i]]
    => first.written = stream
===============================================================================
