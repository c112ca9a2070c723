CONSTANTS
  REQ_DWORDS = 3
  RSP_DWORDS = 11
  HostDword <- MCHostDword
  KernelOps <- MCKernelOps
  MaxOps = 3
  MaxCrashes = 2
  MaxStops = 1
  MaxConns = 3
  KillServerAt <- MCKillServerAt
SPECIFICATION RelaySpec
INVARIANT ReplyMatchesRequest
PROPERTIES
  ImplementsAccess
  AccessReturns
  LostServerNoticed
CHECK_DEADLOCK FALSE
