SPECIFICATION FairSpec
CONSTANTS
  MaxRequests = 3
  Threads = 3
  CPUs = 2
  Backends <- BothBackends
  Statements = 2
  PoolMax = 2
  MaxOutages = 1
INVARIANTS
  TypeOK
  OnlyAKillCutsRequests
PROPERTIES
  FailuresHaveCauses
  SignalEndsProcess
