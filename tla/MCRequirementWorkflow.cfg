SPECIFICATION Spec
CONSTANTS
  None = None
  Requirements = {r1, r2}
  Messages = {m1, m2, m3}
  MaxPlans = 2
  MaxRestarts = 1
SYMMETRY Symmetry
INVARIANTS OneHand ConfirmedPlanIsDeveloped
PROPERTIES AcceptedIsTested DecisionIsFinal
CHECK_DEADLOCK FALSE
