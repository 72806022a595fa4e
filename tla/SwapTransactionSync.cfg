CONSTANTS
  Procs = {p1}
  KeyOrder <- MCKeyOrder
  ConfigOf <- MCConfigOf
  Specs = {local, other}
  None = None
  MaxCommands = 2
  MaxEvents = 4
  MaxEdits = 0
  MaxFaults = 1
  MaxCrashes = 0
  LateFaults = {"config", "state", "create", "remove"}
INIT Init
NEXT Next
INVARIANT OriginalKept
CHECK_DEADLOCK FALSE
SYMMETRY Symmetry
