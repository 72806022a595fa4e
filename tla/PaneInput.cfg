SPECIFICATION InputSpec
CONSTANTS
  Calls = {c1, c2}
  Panes = {p1, p2}
  First = p1
  None = None
  MaxEvents = 2
  MaxOps = 2
INVARIANTS
  RunHoldsPane
  DispatchTruthful
CHECK_DEADLOCK FALSE
SYMMETRY CallSymmetry
CONSTRAINT OneLongBatch
