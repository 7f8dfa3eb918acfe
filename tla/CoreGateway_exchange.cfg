SPECIFICATION FairSpec
CONSTANTS
    Callers = {c1}
    Probers = {d}
    Operations = {"ingest_raw_round", "fail_execution_task"}
    Nobody = Nobody
    Required = {"network"}
    Strict = TRUE
    Signed = TRUE
    Hosts <- MCHosts
    MaxCalls = 3
    Fallible = {"slow", "hang", "crash", "popen", "oversize", "garbage", "foreign", "malformed"}
    MaxFaults = 2
CHECK_DEADLOCK FALSE
INVARIANTS
    CoreIsKnown
    VerdictIsCores
PROPERTIES
    EveryCallReturns
