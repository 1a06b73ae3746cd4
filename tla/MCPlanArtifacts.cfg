SPECIFICATION PlanSpec
CONSTANTS
  c1 = c1
  c2 = c2
  n1 = n1
  n2 = n2
  n3 = n3
  Revisions = {c1, c2}
  Notes = {n1, n2, n3}
  Used = {"pending_review", "executing", "completed"}
  Rounds = {1, 2}
  MaxVersion = 3
  MaxSteps = 7
SYMMETRY MCSymmetry
INVARIANTS VersionsMoveTogether
PROPERTIES VersionsAreKept
CHECK_DEADLOCK FALSE
