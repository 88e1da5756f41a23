SPECIFICATION FairSpec
CONSTANTS
  Ids = {d1}
  Syncs = {s1}
  Callers = {p1, p2}
  MaxEdits = 3
  MaxCalls = 3
  MaxEvents = 2
  MaxFaults = 1
  None = None
INVARIANTS TypeOK ReplyKept
PROPERTIES RemovesOnlyGone MirrorConverges
CHECK_DEADLOCK FALSE
