SPECIFICATION FairSpec
CONSTANTS
  c1 = c1
  c2 = c2
  s1 = s1
  s2 = s2
  person = person
  Clients = {c1,c2}
  Servers = {s1,s2}
  Placements <- TogetherOrApart
  Starts = {"working","reviewed","emptied","triaged"}
  MaxRevision = 4
  MaxCrashes = 1
  MaxEdits = 2
  LocalOps = {person}
  None = None
CHECK_DEADLOCK FALSE
INVARIANTS
  RetryResumes
  OfferedIsLegal
PROPERTIES
  EffectsStayTogether
  EveryApplyAnswered
