SPECIFICATION RunnerFairSpec
CONSTANTS
  Accounts = {a1, a2, a3}
  Batches = {b1, b2}
  Requests = {r1}
  Concurrency = 2
  Hung = {a1}
  NoAccount = NoAccount
INVARIANTS RunnerTypeOK OneSyncPerAccount
PROPERTY NobodyStarves
