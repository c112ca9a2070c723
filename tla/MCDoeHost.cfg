CONSTANTS
  REQ_DWORDS = 4
  RSP_DWORDS = 12
  HostDword <- MCHostDword
  Base = 400
  SpdmRequests <- MCSpdmRequests
  NextInDword3 = TRUE
  MaxAborts = 2
  MaxRestarts = 2
  RestartAt <- MCRestartAt
SPECIFICATION HostSpec
INVARIANTS
  ResponseAnswersRequest
  WalkReportsAllProtocols
  CapBaseIsBase
PROPERTY ExchangesComplete
