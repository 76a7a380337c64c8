SPECIFICATION Spec
CONSTANTS
    v1 = v1
    v2 = v2
    o1 = o1
    o2 = o2
    o3 = o3
    c1 = c1
    c2 = c2
    c3 = c3
    Var = {v1, v2}
    Obj = {o1, o2, o3}
    Ctr = {c1, c2, c3}
    Arity = 2
    Tmp = Tmp
    NULL = NULL
SYMMETRY HeapSymmetry
INVARIANTS TypeOK CountsExact NoDangling NoLeak
PROPERTY SourceStable
