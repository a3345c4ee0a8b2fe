SPECIFICATION FairSpec
CONSTANTS
  Callers = {main}
  NSlots = 2
  MaxPid = 2
  MaxBoots = 2
  MaxGuest = 1
  Handles = {1, 2, 3, 4, 5, 6, 7}
  NoHandle = 0
  NoCaller = NoCaller
  Recycle <- LowestFirst
INVARIANTS TypeOK RunningOwnsHandles NoHandleLeak LockUsable
PROPERTIES KeepsPromise WorkersDrain
CHECK_DEADLOCK FALSE
