SPECIFICATION Spec
CONSTANTS
  Rows = {r1, r2}
  Events = {g1, g2}
  Savers = {s1, s2}
  Sweeper = Sweeper
  MaxVersion = 2
  MaxFaults = 1
  Overlap = TRUE
  Expiry = FALSE
  None = None
PROPERTY SyncSparesUnpushedEdits
