SPECIFICATION FairSpec
CONSTANTS
    Subjects = {s1, s2, s3}
    Maximum = 2
    MaxDecisions = 1
    MaxFailures = 1
    MaxMinors = 1
    None = None
INVARIANTS
    AdvanceIsReviewed
    AcceptedIsAnswered
    RoundsNeverInflated
    LoopIsBounded
PROPERTIES
    EveryRoundDecided
CHECK_DEADLOCK FALSE
