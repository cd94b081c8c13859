SPECIFICATION FairSpec
CONSTANTS
  Envelope = {e1, e2, e3}
  NoEnvelope = NoEnvelope
  PageSize = 1
  MaxDown = 2
INVARIANTS
  ReplayTypeOK
  CursorCovers
  CaughtUp
PROPERTIES
  LinkBringsReceipts
CHECK_DEADLOCK FALSE
