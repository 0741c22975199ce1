SPECIFICATION Spec
CONSTANTS
    page_size = 2
    UINT64_MAX = 7
    Agents = {"gpu"}
    Pools <- MCPools
    Messages = {}
    CommandLines <- MCCommandLines
    MaxEvents = 2
    Fresh = {TRUE}
INVARIANT FinalizedIsArray
CHECK_DEADLOCK FALSE
