SPECIFICATION Spec
CONSTANTS
  Callers = {c1, c2}
  Closers = {k1}
  Main = main
  NoOne = NoOne
  MaxFaults = 1
  MaxEvents = 3
INVARIANTS
  CallsHonest
  NobodyStranded
  ShutdownTruthful
SYMMETRY Symmetric
