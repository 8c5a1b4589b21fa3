SPECIFICATION LiveSpec
CONSTANTS
  Procs = {p1, p2}
  Workers = {w1}
  Nobody = Nobody
  MaxEpoch = 3
INVARIANTS HandedOverIdle ExternalInsideGate
PROPERTIES FinishedCurrent ReleaseCompletes
