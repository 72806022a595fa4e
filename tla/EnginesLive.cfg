SPECIFICATION FairSpec
CONSTANTS
  None = None
  Parts = {"faults", "failing"}
  Child = {}
  Single = "b"
  Faults = {}
  Observed = "c1"
  Plain = "c2"
  MayDrop = {"c2"}
  Failures = {"engine", "subscribe", "queue", "close"}
  Closer = {"k"}
PROPERTIES
  AllAnswered
  CloseReturns
