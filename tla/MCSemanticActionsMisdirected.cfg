SPECIFICATION Spec
CONSTANTS
  c1 = c1
  c2 = c2
  s1 = s1
  s2 = s2
  person = person
  Clients = {c1,c2}
  Servers = {s1,s2}
  Placements <- OnlyApart
  Starts = {"triaged"}
  MaxRevision = 5
  MaxCrashes = 0
  MaxEdits = 2
  LocalOps = {}
  None = None
CHECK_DEADLOCK FALSE
INVARIANTS
  DecisionBindsItsGate
