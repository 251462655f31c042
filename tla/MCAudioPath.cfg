SPECIFICATION PathSpec
CONSTANTS
  keyboard = keyboard
  control = control
  Operator = {keyboard, control}
  QueueMax = 2
  PreBlocks = 2
  MinBlocks = 2
  MaxBlocks = 4
  SilenceBlocks = 1
  MaxCaptured = 6
  Ceiling = 4
  MaxSegments = 6
  MaxClears = 1
INVARIANT SpeechInOrder
PROPERTIES
  LostForAReason
  UtteranceFinalized
\* The capture may end in the middle of silence.
CHECK_DEADLOCK FALSE
