SPECIFICATION Spec
CONSTANTS
  Missing = Missing
  Cap = 2
  Short = 2
  MinPoints = 3
  MinRest = 1
  MinDensity = 2
  Day = 4
  Scale = 720720
  FaultPoints = 6
  FaultRepeats = 2
  FlatRun = 4
  DriftPoints = 4
  EnvelopePoints = 3
  Bins = 3
  GapHours = 2
  Unit = "unit"
  Class = "refrigeration"
  Indicator = "load"
  MaxIterations = 16
  MaxRows = 4
  Gaps = {1, 3}
  Rules <- Catalogue
  Frames <- AllFrames
  Kind <- Kinds
  SubsystemOf <- Subs
  Limits <- LimitsOf
  Loads <- LoadSets
INVARIANT DiagnosisIsDiscounted
CHECK_DEADLOCK FALSE
