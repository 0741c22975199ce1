SPECIFICATION Spec
CONSTANTS
    Wave = {w1, w2}
    Block <- MCBlock
    Entry = 0
    Insts <- MCInsts
    Vector = {"v_add"}
    Succ <- MCSucc
    CuOf <- MCCuOf
    WgOf <- MCWgOf
    Lanes = {1, 64}
    Paddings = {p1, p2}
    MaxVisits = 3
SYMMETRY Symmetry
CHECK_DEADLOCK FALSE
INVARIANTS
    BlockTimesExact
    StatesOfLiveWaves
    WavesOnUnits
    BranchinessInRange
    LastRecordCountsKernel
    BlocksSupport
