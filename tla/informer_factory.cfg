SPECIFICATION FairSpec
CONSTANTS
    Types = {dashboard, folder}
    Threads = {main, other}
    Channels = {stop1, stop2}
    None = None
    Calls = 4
CHECK_DEADLOCK FALSE
INVARIANTS
    TypeOK
    OneInformer
    NothingRunsAfterShutdown
    ReadyMeansSynced
PROPERTIES
    ShutdownReturns
    WaitReturns
