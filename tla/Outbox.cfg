CONSTANTS
  Dispatchers = {worker, api1, api2}
  Alerts = {alert}
  UnitOf <- OneUnit
  MaxAttempts = 2
  MaxCrashes = 1
SPECIFICATION FairSpec
CHECK_DEADLOCK FALSE
INVARIANTS TypeOK AttemptsMatchStatus SentWasEmailed SilentStaysSilent
PROPERTY RecordedIfCalled
