SPECIFICATION Spec
CONSTANTS
    Given <- MCGiven
    Primitives = {"int", "pipe_t"}
    QualifierSets <- MCQualifierSets
    Spaces = {"__private", "__global"}
    Lengths = {"2"}
    Structs = {"s"}
    MaxTypes = 3
    MaxParams = 3
INVARIANTS TypeOK NameDenotesPrototype RefusesExactly TestsPass
PROPERTY MangleReturns
CHECK_DEADLOCK FALSE
