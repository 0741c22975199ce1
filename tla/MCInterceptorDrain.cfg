SPECIFICATION Spec
CONSTANTS
    Queues = {q1}
    d1 = d1
    d2 = d2
    b1 = b1
    Dispatches <- MCDispatches
    Others <- MCOthers
    Signalled <- MCSignalled
    Batches <- MCBatchesOne
    SIGPOOL_INCREMENT = 1
    DrainLimit = 1
    run_instrumented_ = TRUE
    MayThrow = FALSE
INVARIANT DrainedAtExit
