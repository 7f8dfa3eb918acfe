SPECIFICATION FairSpec
CONSTANTS
    Rounds = {r1}
    Bodies = {b1, b2}
    Workers = {w1, w2}
    Replayers = {p1, p2}
    Nil = Nil
    MaxAttempts = 2
    LeaseSeconds = 2
    RetryDelay = 1
    RetentionSeconds = 3
    PurgeLimit = 1
    MaxAge = 1
    MaxFaults = 2
INVARIANTS
    TypeOK
    DeliveredIntact
    SettledForAReason
    DeliveryMatchesCommand
PROPERTIES
    ImplementsDurableDelivery
    EveryCommandSettles
