CONSTANTS
  c1 = c1
  c2 = c2
  NoConn = NoConn
  Conn <- MCConn
  Workers = 2
  PipeCap = 1
SPECIFICATION MCSpec
INVARIANTS
  NoStrayChild
PROPERTIES
  ImplementsSlot
  NoStuckReservation
  DisconnectTornDown
  StopCompletes
\* Every client may have left for good, or the server may have stopped.
CHECK_DEADLOCK FALSE
