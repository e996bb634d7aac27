SPECIFICATION Spec
CONSTANTS
  Plant <- Plants
  Governed <- Bands
  Frames <- ThreeFrames
  Workers = {w1, w2}
  Requests = {r1, r2}
  Authors = {alice}
  Verdicts = {confirmed, rejected}
  Asked <- AskedOf
  NoFrame = NoFrame
  ModelOrder <- LearnOrder
  MaxFaults = 1
INVARIANTS TypeOK ConditionsAreFolds ChainsAreClosed VerdictsAreBacked ModelsAreTraceable NoWaitCycle
SYMMETRY Symmetry
CHECK_DEADLOCK FALSE
