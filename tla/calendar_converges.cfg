SPECIFICATION FairSpec
CONSTANTS
  Rows = {r1, r2, r3, r4}
  Events = {g1, g2}
  Savers = {s1}
  Sweeper = Sweeper
  MaxVersion = 2
  MaxFaults = 1
  Overlap = FALSE
  Expiry = FALSE
  None = None
PROPERTIES Converges PendingDrains
