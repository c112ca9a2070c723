CONSTANTS
  Size = 5
  Capacity = 4
  MaxMsgs = 4
SPECIFICATION Spec
PROPERTIES
  ImplementsChannel
  SentIsTaken
  SendReturns
  EndNoticed
CHECK_DEADLOCK FALSE
