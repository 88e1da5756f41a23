SPECIFICATION FairSpec
CONSTANTS
  Syncs = {mail, calendar}
  Owners = {o1}
  MaxGrant = 2
  MaxRow = 2
  MaxCalls = 1
  MaxFaults = 1
  None = None
  mail = mail
  calendar = calendar
  o1 = o1
INVARIANTS TypeOK NoFalseRefusal TokensOfThisConnection
PROPERTIES DeadGrantReported ReportHeals
CHECK_DEADLOCK FALSE
