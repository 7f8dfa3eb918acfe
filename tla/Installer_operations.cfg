SPECIFICATION Spec
CONSTANTS
    Versions = {"v1", "v2"}
    Schema <- MCSchema
    Reformed = {"v2"}
    Found = {"v1"}
    Setups <- MCSetups
    Gens = {g1, g2}
    Agents = {"agent"}
    Choices <- MCChoices
    Operations = {"install", "update", "configure", "import", "connect", "disconnect", "enable", "repair", "uninstall"}
    MaxOps = 2
    MaxFaults = 1
    MaxRounds = 1
CHECK_DEADLOCK FALSE
SYMMETRY MCSymmetry
VIEW MCView
INVARIANTS
    ReleaseFits
    FailureRestores
    UpdateIsReady
    UserFileComesBack
PROPERTIES
    UpdateLosesNoRound
