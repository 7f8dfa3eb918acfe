SPECIFICATION Spec
CONSTANTS
    g = g
    x = x
    e = e
    f = f
    Tasks = {g, x, e, f}
    Structured = {g, x}
    Alien = {x}
    Poison = {}
    SpaceOf <- MCSpaceOf
    Spaces <- MCSpaces
    Broken = {"broken"}
    Limit = 2
    Lease = 2
    ExecTime = 1
    MaxTries = 2
    Fallible = {"unsent", "lost", "reject", "refuse", "kill"}
    MaxFaults = 1
CHECK_DEADLOCK FALSE
INVARIANTS
    OneRetry
