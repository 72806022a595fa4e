SPECIFICATION WaitSpec
CONSTANTS
  RecentCap = 2
  TextCap = 7
  MaxEvents = 3
  MaxRows = 3
  MaxQueue = 2
  MaxSearches = 3
  MaxFaults = 1
INVARIANTS
  NothingMissed
  OwnLinesMasked
CHECK_DEADLOCK FALSE
