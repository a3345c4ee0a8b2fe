SPECIFICATION Spec
CONSTANTS
  Threads = {a, b}
  Creators = {a}
  NEntries = 2
  FirstHandle = 1
  HandleLimit = 16
  MaxObjects = 5
  Values = {1, 2, 3}
INVARIANTS TypeOK ActsOnItsObject HeldHandleValid NoObjectForgotten LostOnlyWhenFull
PROPERTIES NeverReissued
