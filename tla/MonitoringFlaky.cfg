CONSTANTS
  Identities = {"a", "b"}
  Workers = {"w"}
  Callers = {}
  NoProc = NoProc
  Observations <- OnOff
  LearnedIdentities = {}
  LearningEnabled = FALSE
  LearnInterval = 0
  Tolerance = 0
  NumArtifacts = 0
  MaxReadings = 4
  Pause = 4
  MaxClock = 5
  MaxFaults = 0
  MaxCalls = 0
  Reminder = 4
  Cooldown = 5
  MaxAttempts = 2
  MaxCrashes = 1
SPECIFICATION FairMonitoring
CHECK_DEADLOCK FALSE
INVARIANTS AtMostMaxAttempts ResolvedOnlyIfTold RetriedByEveryRun
PROPERTIES OutcomeIsFinal KeepsPromise EventuallyAnalysed
