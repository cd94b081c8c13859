SPECIFICATION FairSpec
CONSTANTS
  s1 = s1
  Sender = {s1}
  MaxClient = 4
  MaxMishap = 1
PROPERTIES
  AgentReconnects
CHECK_DEADLOCK FALSE
