SPECIFICATION Spec
CONSTANTS
  Tasks = {t1, t2, n1, n2}
  Existing = {t1, t2}
  Requests = {r1, r2}
  MaxFaults = 1
  MaxCalls = 3
  MaxBatch = 2
  None = None
CHECK_DEADLOCK FALSE
SYMMETRY Symmetry
INVARIANTS TypeOK OneSuccessor NoOccurrenceLost
PROPERTY NoFinishOverBlocker
