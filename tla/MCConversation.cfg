SPECIFICATION ConvSpec
CONSTANTS
  keyboard = keyboard
  control = control
  Producer = {keyboard, control}
  ManualFlush = TRUE
  QueueMax = 2
  MaxChunks = 3
  AgentMode = TRUE
  Speaks = TRUE
  MaxPresses = 1
INVARIANTS
  FlagSpentOnAnalysis
  NoTalkOver
  StatusCatchesUp
PROPERTIES
  LatestTaken
  DroppedForNewer
\* Every chunk has been made and worked through.
CHECK_DEADLOCK FALSE
