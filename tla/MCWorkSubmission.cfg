SPECIFICATION Spec
CONSTANTS
    Members = 2
    Entries = 2
    Bytes = {"x", "y"}
    BaseTree <- Committed
    WorkTrees <- Working
    MaxEdits = 2
    MaxGitCalls = 1
INVARIANTS
    EndsAllOrNothing
    LeftoversNeverCollide
    OneMoment
PROPERTIES
    OnlyRacedEditsLost
CHECK_DEADLOCK FALSE
