SPECIFICATION Spec
CONSTANTS
  s1 = s1
  s2 = s2
  Subjects = {s1, s2}
  None = None
  Rounds = 2
  Results <- TwoDesigns
  Conclusions <- EachItsOwn
  PlannedRounds <- OneRoundOrOpen
  MaxAttempt = 2
  MaxResets = 1
  MaxReanchors = 1
CHECK_DEADLOCK FALSE
INVARIANTS
  UpstreamAuthorized
  OpenGateIsCurrent
  UnreadableOnlyUnderRevision
  BoundFits
PROPERTIES
  AuthorityNeedsReview
  HumanRevisionAnswered
  ImplementsPhaseLedger
