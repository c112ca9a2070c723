CONSTANTS
  REQ_DWORDS = 4
  RSP_DWORDS = 12
  HostDword <- MCHostDword
  Base = 400
  SpdmRequests <- MCSpdmRequests
  NextInDword3 = TRUE
  MaxAborts = 0
  MaxRestarts = 1
  RestartAt <- Running
SPECIFICATION HostSpec
INVARIANT CapBaseIsBase
