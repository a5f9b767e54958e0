SPECIFICATION FairSpec
CONSTANTS
  p1 = p1
  p2 = p2
  c1 = c1
  c2 = c2
  general = general
  test = test
  judge = judge
  effort = effort
  x1 = x1
  x2 = x2
  h1 = h1
  Processes = {p1}
  Calls = {c1,c2}
  Reviewers = {general}
  Judges = {judge}
  Selectors = {effort}
  Panel <- JudgeThenEffort
  Contexts = {x1}
  Auths = {h1}
  Faults = {}
  MaxDispatches = 2
  MaxSubjects = 2
  MaxCalls = 2
  MaxUpsets = 1
  None = None
CHECK_DEADLOCK FALSE
INVARIANTS
  BudgetHolds
  EvidenceIsCurrent
  ChildrenHaveWorkspace
PROPERTIES
  EveryReviewAnswered
