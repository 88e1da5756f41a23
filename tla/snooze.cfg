CONSTANTS
  Messages = {1, 2}
  Own = {}
  Callers = {p1, p2}
  Tick = tick
  Reminders = {r1, r2}
  MaxCalls = 2
  MaxEvents = 1
  MaxFaults = 1
  None = None
  p1 = p1
  p2 = p2
  tick = tick
  r1 = r1
  r2 = r2
SPECIFICATION Spec
SYMMETRY Symmetry
INVARIANTS TypeOK NothingLost OneArmed
CHECK_DEADLOCK FALSE
