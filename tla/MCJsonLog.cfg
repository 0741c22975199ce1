SPECIFICATION Spec
CONSTANTS
    page_size = 2
    UINT64_MAX = 7
    Agents = {"gpu", "fine"}
    Pools <- MCPools
    Messages <- MCMessages
    CommandLines <- MCCommandLines
    MaxEvents = 4
    Fresh = {TRUE, FALSE}
INVARIANTS
    FiguresExact
    FaultNeedsPool
    ArrayIfFirst
    EveryReportOnce
CHECK_DEADLOCK FALSE
