SPECIFICATION InsightSpec
CONSTANTS
  Missing = Missing
  Cap = 2
  Short = 2
  MinPoints = 3
  MinRest = 1
  MinDensity = 2
  Day = 4
  Scale = 720720
  FaultPoints = 6
  FaultRepeats = 2
  FlatRun = 4
  DriftPoints = 4
  EnvelopePoints = 3
  Bins = 3
  GapHours = 2
  Unit = "unit"
  Class = "refrigeration"
  Indicator = "load"
  MaxIterations = 16
  MaxRows = 4
  Gaps = {1, 3}
  Rules <- Catalogue
  Frames <- AllFrames
  Kind <- Kinds
  SubsystemOf <- Subs
  Limits <- LimitsOf
  Loads <- LoadSets
  Window = 3
  MinNovel = 2
  MinRegimes = 3
  Regimes = 2
  Step = 2
  Season = 2
  MinHistory = 4
  Horizon = 2
  Folds = 2
  Grain = 30
  Unknown = Unknown
  Columns <- FileColumns
  Catalogued <- Catalogue3
  Infinite = Infinite
  Bad = Bad
  Spare = "spare"
  Now = 20
  ChartWindow = 12
  ChartBucket = 4
  Files <- FilesOf
  Batches <- BatchesOf
  Taught <- TaughtFrames
INVARIANTS
  TypeOK EpisodesAreRuns TimeIsConserved ProtectionReachesTheTop DegradedHasCause
  ScoreBetweenChildren RulesAreComplete FrameMatchesSource HistoryIsUnbroken
  OutlookLeadsWithTheWorst RepliesAreGrounded
CHECK_DEADLOCK FALSE
