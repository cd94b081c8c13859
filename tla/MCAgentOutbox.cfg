SPECIFICATION Spec
CONSTANTS
  Envelope = {e1, e2}
  Task = {t1, t2}
  Client = {c1, c2}
  NoEnvelope = NoEnvelope
  NoClient = NoClient
  SerialCallers = TRUE
  MaxTransmit = 2
  MaxCrash = 1
SYMMETRY Symmetry
INVARIANTS
  OutboxTypeOK
  WriteAhead
  SettledIsAccepted
  AckForOwnEnvelope
  DeliveredIsStored
  OneReceiptEvent
  NoWaiterOnClosedClient
PROPERTIES
  AckedNotResent
