SPECIFICATION InboundSpec
CONSTANTS
  Envelope = {e1, e2, e3}
  Decryptable = {e1, e2}
  NoEnvelope = NoEnvelope
  MaxFrames = 2
  MaxLife = 4
INVARIANTS
  InboundTypeOK
  ConfirmedIsDurable
  EventHasInbox
  OneMessageEvent
CHECK_DEADLOCK FALSE
