SPECIFICATION Spec
CONSTANTS
    Positions <- MCPositions
    Inputs <- MCInputs
    isa <- MCIsa
    fname_hash <- MCHash
    cacheLine = 8
    MaxMessages = 2
INVARIANTS
    BankConflictsExact
    ExcessReported
    LdsFiledByLastName
CHECK_DEADLOCK FALSE
