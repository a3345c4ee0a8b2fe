SPECIFICATION FairSpec
CONSTANTS
  Callers = {a, b}
  NSlots = 2
  MaxPid = 2
  MaxBoots = 1
  MaxGuest = 0
  Handles = {1, 2, 3}
  NoHandle = 0
  NoCaller = NoCaller
  Recycle <- LowestFirst
INVARIANTS PidsDistinct KernelLockMatchesCode
PROPERTIES CreateReturns
CHECK_DEADLOCK FALSE
