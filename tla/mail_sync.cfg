SPECIFICATION FairSpec
CONSTANTS
  Messages = {m1, m2}
  Labels = {l1}
  Batch = 2
  MaxTracked = 1
  MaxHistory = 3
  MaxFaults = 2
  Expiry = TRUE
  None = None
INVARIANTS TypeOK NothingForgotten NoGhosts LabelsFollow
PROPERTY MailArrives
