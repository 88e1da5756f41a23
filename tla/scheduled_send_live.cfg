SPECIFICATION FairSpec
CONSTANTS
  Rows = {r1, r2}
  Procs = {p1, p2}
  MaxTries = 2
  LossPossible = FALSE
  MaxFaults = 1
  None = None
PROPERTIES ImplementsPromise DueRowsSettle
