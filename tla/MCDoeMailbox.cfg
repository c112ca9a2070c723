CONSTANTS
  REQ_DWORDS = 3
  RSP_DWORDS = 12
  HostDword <- MCHostDword
SPECIFICATION Spec
INVARIANTS
  TypeOK
  StatusMatchesResponse
  LengthHeaderMatches
PROPERTY ImplementsMailbox
