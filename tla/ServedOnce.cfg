SPECIFICATION Spec
CONSTANTS
  Protocols = {"kernel"}
  Size <- Cells
  Capacity = 7
  MaxSent = 1
INVARIANTS ServedOnce
CHECK_DEADLOCK FALSE
