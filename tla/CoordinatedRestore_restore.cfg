SPECIFICATION FairSpec
CONSTANTS
    Live = Live
    Archives = {a1, a2}
    Fallible = {"stop", "start", "begin", "manifest", "commit", "rollback", "copy", "journal", "sync", "unlink"}
    Profiles = {"secure", "permissive"}
    MaxFaults = 4
INVARIANTS
    Atomicity
    RollbackLosesNoCapture
PROPERTIES
    ImplementsAtomicRestore
    EveryRestoreResolves
