SPECIFICATION Spec
CONSTANTS
  Callers = {main}
  NSlots = 1
  MaxPid = 2
  MaxBoots = 1
  MaxGuest = 0
  Handles = {1, 2, 3}
  NoHandle = 0
  NoCaller = NoCaller
  Recycle <- LowestFirst
INVARIANTS WorkerServesWhileRunning
CHECK_DEADLOCK FALSE
