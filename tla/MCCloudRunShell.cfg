CONSTANTS
  c1 = c1
  NoConn = NoConn
  Conn <- MCConn
  Workers = 2
  PipeCap = 1
  MaxSigterm = 2
SPECIFICATION Spec
INVARIANTS
  TeardownOnce
  NoSilentClose
  GraceRespected
  ExitWaitsForTeardown
  ActiveLockSafe
PROPERTIES
  ShutdownIsFinal
  ImplementsGateway
  ShutdownCompletes
  TeardownCompletes
\* The Shell exits, or waits for a SIGTERM that never comes.
CHECK_DEADLOCK FALSE
