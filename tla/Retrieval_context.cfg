SPECIFICATION Spec
CONSTANTS
    Requests = {r1, r2}
    Items = {1, 2, 3}
    Facet <- MCFacet
    Size <- MCSize
    Pools <- MCPools
    Scores = {1, 2}
    Modes = {"off", "api", "local"}
    Embedders = {"runtime", "plain", "none"}
    Limit = 2
    MinK = 1
    Budget = 7
    Heading = 1
    MaxChanges = 1
CHECK_DEADLOCK FALSE
INVARIANTS
    OwnOrder
    WellPacked
    ResponseStands
PROPERTIES
    EveryRequestAnswered
