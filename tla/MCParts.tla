------------------------------ MODULE MCParts -------------------------------
(***************************************************************************)
(* The parts that share no state with one another, checked together: the   *)
(* way to a daemon, entity handles, the synchronous runner, the control    *)
(* parser, workspace loads and invocations, MCP tool calls and the probe   *)
(* of a server.  A behaviour belongs to one part, chosen at the start; the *)
(* variables of ToolCalls and two more hold the state of whichever part it *)
(* is.                                                                     *)
(***************************************************************************)
EXTENDS MCInputs

CONSTANTS Callers

VARIABLES part, fourth, fifth

state == <<tmux, call, selection, fourth, fifth>>

BE == INSTANCE Backend WITH
  world <- tmux, handle <- selection, exec <- fourth, used <- fifth,
  Kinds <- {"plain", "startable", "executor", "control"},
  Supported <- {"3.3a", "3.5"}, TooOld <- {"3.2"}, Executable <- "3.5",
  MaxDaemons <- 3, MaxEvents <- 4

EN == INSTANCE Entities WITH
  server <- selection, events <- fourth, faults <- fifth,
  Sessions <- MCSessions, Windows <- MCWindows, Panes <- MCPanes, Buffers <- MCBuffers,
  InitialWorlds <- MCWorlds, MaxEvents <- 2, MaxFaults <- 1

CP == INSTANCE ControlParser WITH
  said <- tmux, wire <- call, parser <- selection, events <- fourth,
  Retained <- 3, LineBytes <- 8, MaxMessages <- 2

RP == INSTANCE RunProcess WITH
  req <- tmux, world <- call, run <- selection,
  CaptureLimit <- 1, MaxBytes <- 2, MaxFaults <- 1

WC == INSTANCE WorkspaceCommand WITH
  request <- tmux, world <- call, cmd <- selection, Requests <- MCCommandLines, MaxFaults <- 3

WL == INSTANCE WorkspaceLoad WITH
  load <- call, Plans <- MCPlans, Inherited <- MCInherited,
  MaxFaults <- 2, MaxOthers <- 1

PF == INSTANCE Preflight WITH
  server <- tmux, probe <- call, Scripts <- MCScripts, OutputLimit <- 4

Init ==
  \/ part = "backend" /\ BE!Init
  \/ part = "entities" /\ EN!EntitiesInit
  \/ part = "parser" /\ CP!ParserInit /\ fifth = None
  \/ part = "runner" /\ RP!RunProcessInit /\ fourth = None /\ fifth = None
  \/ part = "tools" /\ ToolInit /\ fourth = None /\ fifth = None
  \/ part = "command" /\ WC!CommandInit /\ fourth = None /\ fifth = None
  \/ part = "load" /\ WL!LoadInit /\ selection = None /\ fourth = None /\ fifth = None
  \/ part = "probe" /\ PF!PreflightInit /\ selection = None /\ fourth = None /\ fifth = None

Next ==
  /\ part' = part
  /\ \/ part = "backend" /\ BE!Next
     \/ part = "entities" /\ EN!EntitiesNext
     \/ part = "parser" /\ CP!ParserNext /\ UNCHANGED fifth
     \/ part = "runner" /\ RP!RunProcessNext /\ UNCHANGED <<fourth, fifth>>
     \/ part = "tools" /\ ToolNext /\ UNCHANGED <<fourth, fifth>>
     \/ part = "command" /\ WC!CommandNext /\ UNCHANGED <<fourth, fifth>>
     \/ part = "load" /\ WL!LoadNext /\ UNCHANGED <<selection, fourth, fifth>>
     \/ part = "probe" /\ PF!PreflightNext /\ UNCHANGED <<selection, fourth, fifth>>

Spec == Init /\ [][Next]_<<part, state>>

Symmetric == Permutations(Callers)

-----------------------------------------------------------------------------
(* A command reaches the daemon it was meant and checked for, once, and is *)
(* reported as what became of it (Backend, the version check, the fence,   *)
(* the pinned socket and the startup lock).                                *)
ReachesItsDaemon == part = "backend" => BE!ReachesItsDaemon

(* A method acts on the object its handle stands for, answers for it, and  *)
(* is truthful about what may be asked again, unless it selects and then   *)
(* reports (Entities, the targets and break_out of entities.cpp).          *)
HandlesHonest == part = "entities" => EN!HandlesHonest

(* However run_process ends, the child, its group and its output are       *)
(* accounted for (RunProcess, cleanup_group and drain).                    *)
RunSettled == part = "runner" => RP!RunSettled

(* What the parser returns is what tmux said (ControlParser, feed and      *)
(* finish).                                                                *)
AsTmuxSaid == part = "parser" => CP!AsTmuxSaid

(* A tool call does what was asked and what it may do (ToolCalls, the      *)
(* registry and the handlers).                                             *)
ToolsDoAsAsked == part = "tools" => CallsAsAsked

(* The summary of a load is the truth (WorkspaceLoad, execute_impl).       *)
SummaryTruthful == part = "load" => WL!SummaryTruthful

(* No step of a load removes a session that it did not create or a window  *)
(* of one, or changes one other than the session it appends to             *)
(* (WorkspaceLoad, build_windows).                                         *)
OthersUntouched == [][part = "load" => WL!LeavesOthers]_<<part, state>>

(* An invocation's records and exit status say what its operation came to  *)
(* (WorkspaceCommand, run and fail).                                       *)
ReportTruthful == part = "command" => WC!ReportTruthful

(* The terminal is this process's again whatever became of the child, and *)
(* without --force nobody's file is replaced (WorkspaceCommand, Terminal   *)
(* and save_or_return).                                                    *)
TerminalAndFiles == part = "command" => WC!TerminalAndFiles

(* The probe gives a good server its due and leaves nothing behind         *)
(* (Preflight, preflight_spec).                                            *)
ProbeSettles == part = "probe" => PF!ProbeSettles
=============================================================================
