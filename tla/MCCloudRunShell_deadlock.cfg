CONSTANTS
  c1 = c1
  NoConn = NoConn
  Conn <- MCConn
  Workers = 2
  PipeCap = 1
  MaxSigterm = 1
SPECIFICATION Spec
PROPERTIES
  SigtermActedUpon
\* The Shell exits, or waits for a SIGTERM that never comes.
CHECK_DEADLOCK FALSE
