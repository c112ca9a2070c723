CONSTANTS
  REQ_DWORDS = 4
  RSP_DWORDS = 12
  HostDword <- MCHostDword
  Base = 400
  SpdmRequests <- MCSpdmRequests
  NextInDword3 = FALSE
  MaxAborts = 0
  MaxRestarts = 0
  RestartAt <- MCRestartAt
SPECIFICATION HostSpec
INVARIANT WalkReportsAllProtocols
