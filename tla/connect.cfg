SPECIFICATION FairSpec
CONSTANTS
  MaxAddrs = 5
  None = None
INVARIANTS
  FailureLeavesLateSocketOnly
  RefusedMeansAllTried
PROPERTIES
  ConnectTcpSettles
CHECK_DEADLOCK FALSE
