SPECIFICATION Spec
CONSTANTS
  audio = audio
  worker = worker
  Thread <- TwoThreads
  Stopper = {audio}
  MaxSignals = 3
  MaxPrints = 3
PROPERTIES
  StopsUnlessSelfBlocked
\* The process ends, or blocks on its own lock.
CHECK_DEADLOCK FALSE
