CONSTANTS
    Modules <- MCModules
    UIntRange = 8
SPECIFICATION Spec
INVARIANT CastsRefused
CHECK_DEADLOCK FALSE
