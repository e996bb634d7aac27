SPECIFICATION Spec
CONSTANTS
  Plant <- Plants
  Governed <- Bands
  Frames <- ThreeFrames
  Workers = {w1}
  Requests = {r1, r2}
  Authors = {alice}
  Verdicts = {confirmed, rejected}
  Asked <- AskedOf
  NoFrame = NoFrame
  ModelOrder <- LearnOrder
  MaxFaults = 1
INVARIANT OneLabelPerVerdict
CHECK_DEADLOCK FALSE
