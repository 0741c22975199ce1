SPECIFICATION ArgsSpec
CONSTANTS
    ArgSizes = {1, 4, 8}
    MaxArgs = 3
    HiddenSizes = {0, 8, 24}
INVARIANTS
    CloneSeesItsArguments
    ExtraHiddenIsZero
    CopiesFit
CHECK_DEADLOCK FALSE
