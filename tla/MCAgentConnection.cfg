SPECIFICATION FairSpec
CONSTANTS
  s1 = s1
  Sender = {s1}
  MaxClient = 4
  MaxMishap = 2
INVARIANTS
  ConnTypeOK
  NothingLeftOpen
PROPERTIES
  LossIsRepaired
  CloseEnds
CHECK_DEADLOCK FALSE
