SPECIFICATION SourcesSpec
CONSTANTS
    Root = Root
    d1 = d1
    d2 = d2
    old = old
    new = new
    top = top
    SubDir = {d1, d2}
    CodeObject = {old, new, top}
    HomeOf <- MCHomeOf
    StartFiles = {old}
    WatchFails = TRUE
    AddFileThrows = TRUE
    MaxBuilds = 2
    Paths <- MCPaths
    Elf <- MCElf
    needed <- MCNeeded
    Loaded <- MCLoaded
    Patterns <- MCPatterns
CHECK_DEADLOCK FALSE
INVARIANTS
    NewestInSightKnown
    WatcherInv
    FilterRespected
    BadFilterIgnored
PROPERTIES
    WatchedIsLearnt
    WatcherJoins
