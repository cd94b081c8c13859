SPECIFICATION FairSpec
CONSTANTS
  Tool = {t1, t2}
  Delivery = {m1}
  Notice = {n1}
  Limits <- Taken
  MaxMail = 1
  MaxCall = 3
  MaxClient = 2
  MaxSocket = 2
  MaxBreak = 1
  MaxCancel = 1
INVARIANTS
  McpTypeOK
  OneConnection
  ConfirmedIsHandedOut
PROPERTIES
  CallsEnd
CHECK_DEADLOCK FALSE
