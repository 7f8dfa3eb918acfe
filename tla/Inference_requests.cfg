SPECIFICATION Spec
CONSTANTS
    p1 = p1
    p2 = p2
    Gens = {g1}
    Probers = {b1, b2}
    Embedders = {e1}
    Configs = {p1, p2}
    Preference <- MCPreference
    Chained = {p1}
    Retries = 1
    Tasks <- MCTasks
    EmbedTasks <- MCEmbedTasks
    Overrides = {"none", "strict"}
    Legacy = {{"json_schema", "prompt_only"}}
    Models = {m1, m2}
    Batches = {{"a", "b"}}
    CacheKeys = {"a"}
    MaxCalls = 3
    MaxChanges = 1
SYMMETRY Symmetry
CHECK_DEADLOCK FALSE
INVARIANTS
    StrictOnlyVerified
    RequestsAsAsked
    VectorsOfTheirTexts
PROPERTIES
    VerificationKept
