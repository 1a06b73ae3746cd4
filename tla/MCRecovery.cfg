SPECIFICATION Spec
CONSTANTS
  r1 = r1
  r2 = r2
  diag = diag
  ctrl = ctrl
  cmd = cmd
  mem = mem
  c1 = c1
  c2 = c2
  NoAction = NoAction
  NoArtifact = NoArtifact
  Actions = {ctrl, cmd}
  Calls = {c1, c2}
  Wired = {"cancel_workflow"}
  Commands = {"cancel_workflow", "resume_workflow"}
  Scopes = {"run", "conversation"}
  Failures <- MCFailures
  Memories = {mem}
  ArtifactIds = {diag}
  Recoveries = {r1, r2}
  MaxCommands = 4
  DiagOf <- MCDiagOf
  ControlOf <- MCControlOf
  MemoryOf <- MCMemoryOf
SYMMETRY MCSymmetry
INVARIANTS ActionsAreTrue MemoryIsGoverned RecoveryIsApproved
PROPERTIES VerdictStays PinnedIsKept
CHECK_DEADLOCK FALSE
