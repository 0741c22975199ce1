SPECIFICATION Spec
CONSTANTS
    Instruction <- MCInstructions
    Definition <- AllDefs
    Passes = {"address", "bbstart", "bbinterval"}
    InputModules <- MCModules
    ScopeTexts <- MCTexts
    ScopeFiles <- MCFiles
INVARIANTS
    ClonesFaithful
    ReportsFollowScope
    BlocksNumbered
    IntervalsBracket
