SPECIFICATION ClientSpec
CONSTANTS
  worker = worker
  keyboard = keyboard
  Loudness = {100}
  BaselineBlocks = 1
  WindowBlocks = 1
  MaxAttempts = 1
  FallbackGate = 70000
  MaxRecalibrations = 0
  Emitter = {worker, keyboard}
  EventQueueMax = 2
  MaxReconnects = 1
  ControlQueueMax = 1
  MaxInputs = 2
  MaxCuts = 0
INVARIANTS
  StampsInOrder
CHECK_DEADLOCK FALSE
