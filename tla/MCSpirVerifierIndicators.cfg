CONSTANTS
    Modules <- MCModules
    UIntRange = 8
SPECIFICATION Spec
INVARIANT FeatureIndicators
CHECK_DEADLOCK FALSE
