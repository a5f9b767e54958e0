SPECIFICATION FairSpec
CONSTANTS
  s1 = s1
  s2 = s2
  Subjects = {s1}
  Kinds = {"approval", "waiver", "exhausted", "override", "adoption", "drift"}
  MaxGates = 2
  MaxRevision = 6
  MaxMoves = 2
  MaxCrashes = 1
CHECK_DEADLOCK FALSE
INVARIANTS
  AuthorityIsArchived
  OpenIsAnswerable
  EffectOnce
PROPERTIES
  ArchivedIsSettled
