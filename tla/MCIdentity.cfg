SPECIFICATION Spec
CONSTANTS
  Capability <- Capabilities
  DefaultCaps <- Defaulted
  Task = {t1, t2}
  Key = {k0, k1, k2}
  EnvKey = k0
  EnvCaps <- FromEnv
  Request <- Requests
  MaxCall = 3
  MaxCrash = 1
SYMMETRY Symmetry
CONSTRAINT AtStake
INVARIANTS
  IdTypeOK
  SettledMatchesCore
PROPERTIES
  KeyIsKept
  DeclaredIsKept
CHECK_DEADLOCK FALSE
