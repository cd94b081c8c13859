SPECIFICATION Spec
CONSTANTS
  Envelope = {e1}
  Task = {t1}
  Client = {c1, c2}
  NoEnvelope = NoEnvelope
  NoClient = NoClient
  SerialCallers = TRUE
  MaxTransmit = 2
  MaxCrash = 1
SYMMETRY Symmetry
PROPERTY
  SettledNotResentAfterRestart
