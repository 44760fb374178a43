CONSTANTS
    get1 = get1
    listen1 = listen1
    listen2 = listen2
    rtoken = rtoken
    stop1 = stop1
    stop2 = stop2
    Ops = {get1}
    Listens = {listen1, listen2, rtoken}
    Unset = {rtoken}
    Shutdowns = {stop1, stop2}
    Casts <- MCCasts
    MaxRuns = 2
SPECIFICATION FairSpec
INVARIANTS TypeOK OngoingExact CalledOnce CancelNeverBlocks
PROPERTIES ShutdownDrained CancelsOwnListener ShutdownAnswered OpAnswered
CHECK_DEADLOCK FALSE
