SPECIFICATION FairSpec
CONSTANTS
  definition = definition
  None = None
  Definitions = {definition}
  Instances = {i1, i2}
  Attempts = {a1, a2, a3}
  DefinitionOf <- MCDefinitionOf
  NumSteps = 2
INVARIANTS MutualExclusion StepsRunOnce SignalAnsweredOnce FactsFollowState
PROPERTIES VerdictIsFinal StartedAttemptSettles
CHECK_DEADLOCK FALSE
