SPECIFICATION Spec
CONSTANTS
  definition = definition
  None = None
  Definitions = {definition}
  Instances = {i1, i2}
  Attempts = {a1, a2, a3}
  DefinitionOf <- MCDefinitionOf
  NumSteps = 2
PROPERTY BlockedOnlyByLiveWork
CHECK_DEADLOCK FALSE
