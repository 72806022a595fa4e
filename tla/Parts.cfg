SPECIFICATION Spec
CONSTANTS
  None = None
  ToolRequests <- MCToolCalls
  Selections <- MCSelections
  Names <- MCNames
  MaxOthers = 1
  MaxFaults = 1
  Callers = {c1, c2}
INVARIANTS
  ReachesItsDaemon HandlesHonest RunSettled AsTmuxSaid ToolsDoAsAsked
  SummaryTruthful ReportTruthful TerminalAndFiles ProbeSettles
PROPERTY OthersUntouched
SYMMETRY Symmetric
CHECK_DEADLOCK FALSE
