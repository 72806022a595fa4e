SPECIFICATION WorkersSpec
CONSTANTS
  Cmd = {a1, a2, a3}
  NoCmd = NoCmd
  Worker = {w1, w2}
  Closer = {k1, k2}
  OperationLimit = 2
INVARIANTS
  TurnsKept AllSettled
  RequestsKept NobodyStuck
SYMMETRY Symmetric
