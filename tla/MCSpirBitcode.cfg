SPECIFICATION RSpec
CONSTANTS
    Width = 10
    Inputs <- MCInputs
    Module <- MCModule
INVARIANTS TypeOK Lockstep AbbreviationsFit FileUnwraps ModuleReadBack BodiesReadBack LocationsReadBack
CHECK_DEADLOCK FALSE
