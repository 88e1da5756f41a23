SPECIFICATION Spec
CONSTANTS
  Rows = {r1, r2}
  Procs = {p1, p2}
  MaxTries = 3
  LossPossible = TRUE
  MaxFaults = 1
  None = None
SYMMETRY Symmetry
INVARIANTS TypeOK NoDuplicateSend DuplicatesBounded CancelledNotSent
PROPERTIES NeverEarly OutcomeStands
