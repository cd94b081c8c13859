SPECIFICATION Spec
CONSTANTS
  p1 = p1
  p2 = p2
  Sidecar = {p1, p2}
  LocalClient = {c1}
  CliChoice <- Cli
  EnvChoice <- Env
  FileChoice <- File
  Generated <- Fresh
  Route <- Routes
  StartRoute = "started"
  MaxStart = 3
  MaxSend = 1
INVARIANTS
  GatewayTypeOK
  ClientIsServed
PROPERTIES
  ChangesAreAuthorised
CHECK_DEADLOCK FALSE
