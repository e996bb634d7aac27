CONSTANTS
  Identities = {"a", "b", "n"}
  Workers = {"w"}
  Callers = {}
  NoProc = NoProc
  Observations <- Drifting
  LearnedIdentities = {"n"}
  LearningEnabled = TRUE
  LearnInterval = 100
  Tolerance = 2
  NumArtifacts = 0
  MaxReadings = 2
  Pause = 4
  MaxClock = 0
  MaxFaults = 0
  MaxCalls = 0
  Reminder = 4
  Cooldown = 5
SPECIFICATION Spec
CHECK_DEADLOCK FALSE
INVARIANT PhaseBThrottled
