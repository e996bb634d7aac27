CONSTANTS
  Identities = {"a", "b", "n"}
  Workers = {"w"}
  Callers = {}
  NoProc = NoProc
  Observations <- Drifting
  LearnedIdentities = {"n"}
  LearningEnabled = TRUE
  LearnInterval = 0
  Tolerance = 2
  NumArtifacts = 2
  MaxReadings = 3
  Pause = 4
  MaxClock = 8
  MaxFaults = 1
  MaxCalls = 0
  Reminder = 6
  Cooldown = 6
SPECIFICATION Spec
CHECK_DEADLOCK FALSE
INVARIANTS ViewIsLatestRun AlarmsMatchView ArtifactsMatchView
PROPERTY KeepsPromise
