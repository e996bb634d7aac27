CONSTANTS
  Units = {"s", "r", "x"}
  CsvUnits = {"s", "r"}
  Gateways = {"g"}
  Feeder = "feeder"
  Profiles = {"batch", "sim", "sim-reset"}
  Backfill = 1
  MaxTick = 3
  MaxPosts = 2
  MaxCrashes = 1
  MaxLosses = 1
SPECIFICATION FairSpec
CHECK_DEADLOCK FALSE
INVARIANTS TypeOK WatermarkIsNewest RecoveredFromCsv
PROPERTY EventuallyCompleted
