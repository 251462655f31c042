SPECIFICATION Spec
CONSTANTS
  a1 = a1
  a2 = a2
  a3 = a3
  Analyst = {a1}
  LogMax = 2
  Length = {1}
  MaxChars = 2
  MaxLines = 5
  MaxClears = 0
INVARIANTS
  NothingSkipped
CHECK_DEADLOCK FALSE
