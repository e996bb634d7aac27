CONSTANTS
  Identities = {"a", "b"}
  Workers = {"w"}
  Callers = {}
  NoProc = NoProc
  Observations <- Sparse
  LearnedIdentities = {}
  LearningEnabled = FALSE
  LearnInterval = 0
  Tolerance = 0
  NumArtifacts = 0
  MaxReadings = 4
  Pause = 4
  MaxClock = 0
  MaxFaults = 0
  MaxCalls = 0
  Reminder = 4
  Cooldown = 5
SPECIFICATION Spec
CHECK_DEADLOCK FALSE
INVARIANT NewCriticalIsTriggered
