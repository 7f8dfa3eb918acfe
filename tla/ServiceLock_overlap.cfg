SPECIFICATION LockSpec
CONSTANTS
    Pids = {p1, p2, p3}
    Nil = Nil
    Overlap = TRUE
    Writable = TRUE
SYMMETRY Symmetry
INVARIANT SingleOwner
