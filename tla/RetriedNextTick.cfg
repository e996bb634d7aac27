CONSTANTS
  Identities = {"a", "b"}
  Workers = {"w"}
  Callers = {}
  NoProc = NoProc
  Observations <- OnOff
  LearnedIdentities = {}
  LearningEnabled = FALSE
  LearnInterval = 0
  Tolerance = 0
  NumArtifacts = 0
  MaxReadings = 1
  Pause = 4
  MaxClock = 4
  MaxFaults = 0
  MaxCalls = 0
  Reminder = 4
  Cooldown = 5
  MaxAttempts = 2
  MaxCrashes = 0
SPECIFICATION FairMonitoring
CHECK_DEADLOCK FALSE
PROPERTY EventuallyDelivered
