CONSTANTS
  Procs = {p1, p2}
  KeyOrder <- MCKeyOrder
  ConfigOf <- MCConfigOf
  Specs = {local, other}
  None = None
  MaxCommands = 3
  MaxEvents = 4
  MaxEdits = 1
  MaxFaults = 1
  MaxCrashes = 1
  LateFaults = {"config", "state", "create"}
INIT Init
NEXT Next
INVARIANTS NothingLost CommandsTruthful
PROPERTY InterruptedStops
CHECK_DEADLOCK FALSE
SYMMETRY Symmetry
