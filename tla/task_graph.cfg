SPECIFICATION Spec
CONSTANTS
  Tasks = {t1, t2, t3, t4}
  Requests = {r1, r2}
  MaxCalls = 4
  MaxHops = 2
  None = None
CHECK_DEADLOCK FALSE
SYMMETRY Symmetry
INVARIANTS TypeOK NoDeadlock TwoLevels
