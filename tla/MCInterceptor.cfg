SPECIFICATION FairSpec
CONSTANTS
    Queues = {q1, q2}
    d1 = d1
    d2 = d2
    b1 = b1
    Dispatches <- MCDispatches
    Others <- MCOthers
    Signalled <- MCSignalled
    Batches <- MCBatches
    SIGPOOL_INCREMENT = 1
    DrainLimit = 1
    run_instrumented_ = TRUE
    MayThrow = TRUE
INVARIANTS
    OneOwner
    DeviceOwnsItsResources
    NoPendingSignalMissing
    NothingLeftBehind
    SystemInv
PROPERTIES
    TransparentQueue
    EveryDispatchRetired
    ShutdownCompletes
