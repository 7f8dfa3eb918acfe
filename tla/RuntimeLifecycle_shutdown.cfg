SPECIFICATION FairSpec
CONSTANTS
    N = 2
    NeedsCore = {2}
    Secure = TRUE
INVARIANTS
    ResourcesOutliveWorkers
    CleanStop
    InitializedMeansStarted
PROPERTIES
    ShutdownEnds
    SignalledWorkersEnd
