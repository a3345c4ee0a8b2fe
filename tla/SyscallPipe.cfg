SPECIFICATION FairSpec
CONSTANTS
  Protocols = {"kernel"}
  Size <- Cells
  Capacity = 7
  MaxSent = 5
INVARIANTS TypeOK ServesWholeMessages RoomToReply OnePlace
PROPERTIES ServedInTheEnd
CHECK_DEADLOCK FALSE
