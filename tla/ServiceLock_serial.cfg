SPECIFICATION FairLockSpec
CONSTANTS
    Pids = {p1, p2, p3}
    Nil = Nil
    Overlap = FALSE
    Writable = TRUE
INVARIANTS
    Ownership
PROPERTIES
    AcquireEnds
