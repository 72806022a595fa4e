SPECIFICATION Spec
CONSTANTS
  None = None
  Parts = {"processes", "faults", "runtime", "failing"}
  Child = {b1, b2}
  Single = "b"
  Faults = {"read", "signal", "wait", "sigchld", "wake", "spawn"}
  Observed = "c1"
  Plain = "c2"
  MayDrop = {"c2"}
  Failures = {"engine", "subscribe", "publish", "observe", "queue", "children", "close"}
  Closer = {k1, k2}
INVARIANTS
  NoChildStranded
  WorkAccounted CloseTruthful
PROPERTY AnswersHonest
SYMMETRY Symmetric
