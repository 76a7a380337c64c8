CONSTANTS
    Modules <- MCModules
    UIntRange = 8
SPECIFICATION Spec
INVARIANTS TypeOK FlagsReadFinal VerdictIsRules KernelsMatched RepeatedNodesMarked ReportFaithful
CHECK_DEADLOCK FALSE
