SPECIFICATION FairSpec
CONSTANTS
  Request = {r1, r2}
  Delivery = {d1, d2}
  NoRef = NoRef
  AutoReceipt = {TRUE, FALSE}
  MayCancel = TRUE
  MayBreak = TRUE
  MayRefuse = TRUE
INVARIANTS
  ClientTypeOK
  NoWaiterAfterDisconnect
  ReceiptAfterHandlers
PROPERTIES
  AnsweredOrDeaf
CHECK_DEADLOCK FALSE
