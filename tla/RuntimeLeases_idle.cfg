SPECIFICATION FairLeasesSpec
CONSTANTS
    Sessions = {s1, s2}
    Commands = {"local", "embedding"}
    Ttl = 1
    Grace = 2
    DefaultGrace = 1
    AlwaysOn = FALSE
    Fallible = {"kill", "popen", "start", "crash", "reaper", "probe", "timeout"}
    MaxFaults = 1
INVARIANTS
    ProcessesKnown
    GraceIsGiven
PROPERTIES
    IdleRuntimeStops
