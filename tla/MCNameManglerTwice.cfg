SPECIFICATION SpecTwice
CONSTANTS
    Given = {}
    Primitives = {"int"}
    QualifierSets <- MCQualifierSets
    Spaces = {"__private"}
    Lengths = {}
    Structs = {}
    MaxTypes = 3
    MaxParams = 2
INVARIANT SamePrototypeSameName
CHECK_DEADLOCK FALSE
