SPECIFICATION Spec
CONSTANTS
  Envelope = {e1, e2}
  NoEnvelope = NoEnvelope
  PageSize = 1
  MaxDown = 0
INVARIANTS
  CoveredAtRest
CHECK_DEADLOCK FALSE
