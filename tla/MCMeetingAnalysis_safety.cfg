SPECIFICATION Spec
CONSTANTS
  a1 = a1
  a2 = a2
  a3 = a3
  Analyst = {a1, a2}
  LogMax = 3
  Length = {0, 1, 2}
  MaxChars = 2
  MaxLines = 4
  MaxClears = 1
SYMMETRY Threads
INVARIANTS
  NothingSkippedUntilLost
PROPERTY ReportedOnce
\* The bounds are used up and every thread is idle.
CHECK_DEADLOCK FALSE
