SPECIFICATION BlockingSpec
CONSTANTS
  Cmd = {c1, c2}
  NoCmd = NoCmd
  Timed = {}
  Closer = {k1}
  Faults = {}
PROPERTIES
  LaunchStallsNothing
