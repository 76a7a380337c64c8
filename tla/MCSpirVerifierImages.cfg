CONSTANTS
    Modules <- MCModules
    UIntRange = 8
SPECIFICATION Spec
INVARIANT ImagesNeedFeature
CHECK_DEADLOCK FALSE
