SPECIFICATION Spec
CONSTANTS
    Members = 2
    Entries = 2
    Bytes = {"x", "y"}
    BaseTree <- Committed
    WorkTrees <- Moved
    MaxEdits = 0
    MaxGitCalls = 0
PROPERTIES
    HonestWorkAccepted
CHECK_DEADLOCK FALSE
