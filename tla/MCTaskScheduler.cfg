SPECIFICATION FairSpec
CONSTANTS
  None = None
  Runs = {timer, command}
  TimerRuns = {timer}
  Wired = TRUE
  Throttle = 1
  Edits = {"silent", "on-change"}
  MaxFailures = 1
  MaxClock = 1
INVARIANTS SingleFlight
PROPERTIES CountFollowsVerdict RunsKeepCommands FailureIsHeard LockIsReleased
CHECK_DEADLOCK FALSE
