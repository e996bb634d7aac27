CONSTANTS
  Identities = {"a", "b"}
  Workers = {"w"}
  Callers = {"c"}
  NoProc = NoProc
  Observations <- OnOff
  LearnedIdentities = {}
  LearningEnabled = FALSE
  LearnInterval = 0
  Tolerance = 0
  NumArtifacts = 0
  MaxReadings = 2
  Pause = 4
  MaxClock = 0
  MaxFaults = 2
  MaxCalls = 1
  Reminder = 4
  Cooldown = 5
SPECIFICATION FairSpec
CHECK_DEADLOCK FALSE
INVARIANTS TypeOK OneRunPerInput AllOrNothing
PROPERTY EventuallyAnalysed
