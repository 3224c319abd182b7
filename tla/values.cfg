SPECIFICATION Spec
CONSTANTS
  Devices = {d1}
  Workers = {w1, w2}
  Idle = idle
  TPS = 2
  Age = 2
  MaxTime = 6
  MaxRows = 2
  Faults = {"write", "crash"}
SYMMETRY Symmetry
INVARIANTS MeasurementsTypeOK CleanedStaysGone AnsweredIsStored StoredIsAnswered AcknowledgedIsAnswered
