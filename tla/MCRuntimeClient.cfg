SPECIFICATION ClientSpec
CONSTANTS
  worker = worker
  keyboard = keyboard
  Loudness = {100, 1500, 5000}
  BaselineBlocks = 2
  WindowBlocks = 2
  MaxAttempts = 2
  FallbackGate = 70000
  MaxRecalibrations = 1
  Emitter = {worker, keyboard}
  EventQueueMax = 1
  MaxReconnects = 1
  ControlQueueMax = 1
  MaxInputs = 3
  MaxCuts = 1
INVARIANTS
  GateAboveRoom
  RecordingAgrees
  EventsInOrder
  VerdictsWarranted
PROPERTIES
  RejectedOnlyByForsaken
  ClientEnds
\* The client has ended and the gate has been measured as often as it will be.
CHECK_DEADLOCK FALSE
