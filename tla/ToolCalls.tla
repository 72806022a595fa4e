----------------------------- MODULE ToolCalls -----------------------------
(***************************************************************************)
(* The MCP server's tool registry and the tools that look something up and *)
(* then read or change it.  A tool is its declared authority and a program *)
(* of steps: find the object the arguments name, check an argument, change *)
(* the object, read.  Other clients rename and remove objects between the  *)
(* steps.  The tools that type into panes and that wait for text are       *)
(* declared here; their handlers have modules of their own (PaneInput,     *)
(* WaitForText).                                                           *)
(***************************************************************************)
EXTENDS Naturals, Sequences, FiniteSets, SequencesExt, TLC

CONSTANTS
  None,
  ToolRequests, \* the calls a client makes: [tool, session, ops, stop]
  Selections,   \* what the environment selects: [toolsets, include, exclude]
  Names,        \* session names: some a prefix of another
  MaxOthers,    \* how many steps other clients take
  MaxFaults     \* how many tmux commands fail

VARIABLES tmux, call, selection

vars == <<tmux, call, selection>>

-----------------------------------------------------------------------------
(* The tools the server declares: for each one its toolset, what it        *)
(* reaches, what it does and discloses, the tools it may run on a caller's *)
(* behalf, and its handler as a program of steps.                          *)

(***************************************************************************)
(* The steps of handlers.  Sessions are found by exact name or id, windows *)
(* and panes by id.                                                        *)
(***************************************************************************)
FindSession == [does |-> "find", kind |-> "session"]
FindWindow == [does |-> "find", kind |-> "window"]
FindPane == [does |-> "find", kind |-> "pane"]
Check == [does |-> "check", kind |-> "none"]
Change == [does |-> "change", kind |-> "found"]
Delete == [does |-> "remove", kind |-> "found"]
ChangeServer == [does |-> "change", kind |-> "server"]
Read == [does |-> "read", kind |-> "found"]
ReadServer == [does |-> "read", kind |-> "server"]
EachPane == [does |-> "each", kind |-> "server"]

(* An optional target that tmux is left to resolve, the server without it. *)
AimAtTarget == [does |-> "aim", kind |-> "session"]

(* A handler that is modelled elsewhere. *)
Elsewhere == [does |-> "elsewhere", kind |-> "server"]

Tool(toolset, reach, effects, outputs, steps) ==
  [toolset |-> toolset, reach |-> reach, effects |-> effects, outputs |-> outputs,
   secrets |-> outputs \cap {"terminal", "environment"} # {},
   untrusted |-> outputs \cap {"terminal", "configured"} # {},
   nested |-> {}, amplifies |-> FALSE, steps |-> steps]

InspectMetadata(steps) == Tool("inspect", "none", {"observe"}, {"metadata"}, steps)
InspectTerminal(steps) == Tool("inspect", "none", {"observe"}, {"metadata", "terminal"}, steps)
InspectConfigured(outputs, steps) == Tool("inspect", "none", {"observe"}, outputs, steps)
Manage(steps) == Tool("manage", "none", {"observe", "change"}, {"metadata"}, steps)
ManageState(steps) == Tool("manage", "none", {"change"}, {"metadata"}, steps)
Configured(effects, steps) == Tool("execute", "process", effects, {"metadata"}, steps)
Teardown(steps) == Tool("teardown", "none", {"observe", "delete"}, {"metadata"}, steps)

list_sessions == InspectMetadata(<<ReadServer>>)
list_windows == InspectMetadata(<<FindSession, Read>>)
list_panes == InspectMetadata(<<ReadServer>>)
get_server_info == InspectMetadata(<<ReadServer, ReadServer>>)
get_session_info == InspectMetadata(<<FindSession>>)
get_window_info == InspectMetadata(<<FindWindow>>)
get_pane_info == InspectMetadata(<<FindPane>>)
capture_pane == InspectTerminal(<<FindPane, Read>>)
capture_since == InspectTerminal(<<FindPane, Read>>)
snapshot_pane == InspectTerminal(<<FindPane, Read>>)
search_panes == InspectTerminal(<<Check, ReadServer, EachPane>>)
find_pane_by_position == InspectMetadata(<<ReadServer, Check>>)
get_tmux_variables ==
  InspectConfigured({"metadata", "configured"}, <<Check, ReadServer, FindPane, Read>>)
show_option == InspectConfigured({"metadata", "configured"}, <<AimAtTarget, Check>>)
show_environment == InspectConfigured({"environment"}, <<AimAtTarget>>)
show_hooks == InspectConfigured({"configured"}, <<AimAtTarget>>)
wait_for_text == InspectTerminal(<<Elsewhere>>)

rename_session == Manage(<<FindSession, Change>>)
rename_window == Manage(<<FindWindow, Change>>)
select_window == Manage(<<FindWindow, Change>>)
select_pane == Manage(<<FindPane, Change>>)
select_layout == Manage(<<Check, FindWindow, Change>>)
resize_window == Manage(<<FindWindow, Change>>)

resize_pane == Manage(<<FindPane, Check, Change, Change>>)
move_window == Manage(<<FindWindow, Change>>)
swap_pane == Manage(<<FindPane, FindPane, Change>>)
set_pane_title == Manage(<<FindPane, Change>>)
wait_for_channel == ManageState(<<ReadServer>>)
signal_channel == ManageState(<<ChangeServer>>)
set_mouse_enabled == ManageState(<<ChangeServer>>)
set_history_limit == ManageState(<<FindSession, Change>>)

create_session == Configured({"observe", "change"}, <<ChangeServer>>)
create_window == Configured({"observe", "change"}, <<FindSession, Change>>)
split_window == Configured({"observe", "change"}, <<FindPane, Check, Change>>)
respawn_pane == Configured({"observe", "change", "delete"}, <<FindPane, Change>>)
set_synchronize_panes ==
  [Tool("execute", "none", {"change"}, {"metadata"}, <<FindWindow, Change>>) EXCEPT
    !.amplifies = TRUE]

PaneTool(reach, outputs) ==
  [Tool("execute", reach, {"observe", "change"}, outputs, <<Elsewhere>>) EXCEPT
    !.untrusted = TRUE]

run_shell_command == PaneTool("pane_command", {"metadata", "terminal"})
send_keys == PaneTool("pane_input", {"metadata"})
send_keys_batch == PaneTool("pane_input", {"metadata"})
paste_text == PaneTool("pane_input", {"metadata"})

clear_pane_scrollback ==
  Tool("teardown", "none", {"delete"}, {"metadata"}, <<FindPane, Change>>)
kill_pane == Teardown(<<FindPane, Delete>>)
kill_window == Teardown(<<FindWindow, Delete>>)
kill_session == Teardown(<<FindSession, Delete>>)

ReadTools ==
  [list_sessions |-> list_sessions, list_windows |-> list_windows, list_panes |-> list_panes,
   get_server_info |-> get_server_info, get_session_info |-> get_session_info,
   get_window_info |-> get_window_info, get_pane_info |-> get_pane_info,
   capture_pane |-> capture_pane, capture_since |-> capture_since,
   snapshot_pane |-> snapshot_pane, search_panes |-> search_panes,
   find_pane_by_position |-> find_pane_by_position,
   get_tmux_variables |-> get_tmux_variables, show_option |-> show_option,
   show_environment |-> show_environment, show_hooks |-> show_hooks]

read_batch_tools == DOMAIN ReadTools

call_read_tools_batch ==
  [Tool("inspect", "none", {"observe"}, {"metadata", "terminal", "environment", "configured"},
        <<>>) EXCEPT !.nested = read_batch_tools]

Definitions ==
  ReadTools @@
  [call_read_tools_batch |-> call_read_tools_batch, wait_for_text |-> wait_for_text,
   run_shell_command |-> run_shell_command, send_keys |-> send_keys,
   send_keys_batch |-> send_keys_batch, paste_text |-> paste_text,
   rename_session |-> rename_session, rename_window |-> rename_window,
   select_window |-> select_window, select_pane |-> select_pane,
   select_layout |-> select_layout, resize_window |-> resize_window,
   resize_pane |-> resize_pane, move_window |-> move_window, swap_pane |-> swap_pane,
   set_pane_title |-> set_pane_title, wait_for_channel |-> wait_for_channel,
   signal_channel |-> signal_channel, set_mouse_enabled |-> set_mouse_enabled,
   set_history_limit |-> set_history_limit, create_session |-> create_session,
   create_window |-> create_window, split_window |-> split_window,
   respawn_pane |-> respawn_pane, set_synchronize_panes |-> set_synchronize_panes,
   clear_pane_scrollback |-> clear_pane_scrollback, kill_pane |-> kill_pane,
   kill_window |-> kill_window, kill_session |-> kill_session]

(***************************************************************************)
(* validate_definition: what a toolset may declare.                        *)
(***************************************************************************)
ValidDefinition(name) ==
  LET tool == Definitions[name]
      owed == CASE tool.toolset = "inspect" -> "observe"
                [] tool.toolset = "teardown" -> "delete"
                [] OTHER -> "change"
  IN /\ owed \in tool.effects
     /\ ~(tool.toolset = "manage" /\ "delete" \in tool.effects)
     /\ tool.reach # "none" => "change" \in tool.effects
     /\ tool.toolset \in {"inspect", "teardown"} => tool.reach = "none"
     /\ tool.reach \in {"pane_input", "pane_command"} => tool.toolset = "execute"
     /\ tool.outputs # {}
     /\ "terminal" \in tool.outputs => tool.secrets /\ tool.untrusted
     /\ "environment" \in tool.outputs => tool.secrets
     /\ "configured" \in tool.outputs => tool.untrusted
     /\ tool.amplifies <=> name = "set_synchronize_panes"
     /\ (name = "call_read_tools_batch") <=> (Cardinality(tool.nested) = 16)
     /\ name \notin tool.nested
     /\ tool.nested \subseteq {nested \in read_batch_tools : ReadTools[nested].toolset = "inspect"}

-----------------------------------------------------------------------------

(***************************************************************************)
(* parse_tool_selection and ToolRegistry::create: what is visible, what    *)
(* only the batch may reach, and the authority the batch then declares.    *)
(* Unset, LIBTMUX_TOOLSETS selects teardown only for an embedder that says *)
(* so, which the server does not.  A name nobody knows ends the server.    *)
(***************************************************************************)
Toolsets == {"inspect", "manage", "execute", "teardown"}

ParseToolSelection(chosen, teardown_enabled_by_default) ==
  LET toolsets == CASE chosen.toolsets # None -> chosen.toolsets
                    [] OTHER -> IF teardown_enabled_by_default THEN Toolsets
                                ELSE Toolsets \ {"teardown"}
      known == /\ toolsets \subseteq Toolsets
               /\ chosen.include \cup chosen.exclude \subseteq DOMAIN Definitions
  IN  IF known THEN [chosen EXCEPT !.toolsets = toolsets] ELSE None

Selected(name) ==
  /\ Definitions[name].toolset \in selection.toolsets \/ name \in selection.include
  /\ name \notin selection.exclude

Visible == {name \in DOMAIN Definitions : Selected(name)}

NestedTools == read_batch_tools \ selection.exclude

Hidden == IF "call_read_tools_batch" \in Visible THEN NestedTools \ Visible ELSE {}

BatchOutputs == UNION {Definitions[name].outputs : name \in NestedTools}

Declared(name) ==
  IF name = "call_read_tools_batch" THEN BatchOutputs ELSE Definitions[name].outputs

(* find_nested: only what the calling tool declares, visible or hidden. *)
FindNested(caller, name) ==
  /\ Definitions[caller].nested # {}
  /\ name \in NestedTools
  /\ name \in Visible \cup Hidden

(***************************************************************************)
(* tmux: sessions by name, a window and a pane.  A call changes objects;   *)
(* `changed` remembers which.                                              *)
(***************************************************************************)
Objects == DOMAIN tmux.sessions \cup tmux.others
Present(id) == id = "server" \/ id \in Objects

Ready ==
  [pc |-> "idle", request |-> None, running |-> None, step |-> 1, found |-> None, op |-> 0,
   results |-> <<>>, ran |-> {}, used |-> {}, changed |-> {}, exact |-> {}, answer |-> None,
   asked |-> None, faults |-> 0, others |-> 0]

(* configured_tools(false); the call remembers what the operator asked for. *)
ToolInit ==
  /\ \E chosen \in Selections : /\ selection = ParseToolSelection(chosen, FALSE)
                              /\ call = [Ready EXCEPT !.asked = chosen]
  /\ {name \in DOMAIN Definitions : ~ValidDefinition(name)} = {}
  /\ tmux \in {[sessions |-> names, others |-> {"window", "pane"}] :
                 names \in {n \in [{"s1", "s2"} -> Names] : n["s1"] # n["s2"]}}

Carriers(name) == {id \in DOMAIN tmux.sessions : tmux.sessions[id] = name}

(* The call answers; what it held on the way is gone. *)
Answer(c, answer) ==
  [c EXCEPT !.pc = "idle", !.answer = answer, !.running = None, !.step = 1, !.found = None,
            !.op = 0]

(***************************************************************************)
(* ToolRegistry::call and call_definition: the tool must be visible, the   *)
(* arguments must fit its schema, and the call must not be cancelled yet.  *)
(***************************************************************************)
Begin(request) ==
  [Ready EXCEPT !.pc = "run", !.request = request, !.running = request.tool,
                !.exact = Carriers(request.session), !.asked = call.asked]

Call ==
  /\ selection # None
  /\ call.pc = "idle"
  /\ call.request = None
  /\ \E request \in ToolRequests :
       \/ /\ request.tool \notin Visible
          /\ call' = Answer(Begin(request), "unknown")
       \/ /\ request.tool \in Visible
          /\ \E refusal \in {"invalid", "cancelled"} : call' = Answer(Begin(request), refusal)
       \/ /\ request.tool \in Visible
          /\ call' = [Begin(request) EXCEPT
               !.pc = IF request.tool = "call_read_tools_batch" THEN "batch" ELSE "run",
               !.ran = {request.tool} \ {"call_read_tools_batch"}]
  /\ UNCHANGED <<tmux, selection>>

(***************************************************************************)
(* The batch runs its operations one after the other under its own call.   *)
(***************************************************************************)
Stops(c, ok) == ~ok /\ c.request.stop

Recorded(c, ok) ==
  LET d == [c EXCEPT !.results = Append(@, ok), !.running = None, !.step = 1, !.found = None]
  IN IF Stops(c, ok) \/ c.op = Len(c.request.ops)
     THEN Answer(d, "ok") ELSE [d EXCEPT !.pc = "batch"]

BatchNext ==
  /\ call.pc = "batch"
  /\ LET op == call.op + 1
         tool == call.request.ops[op]
         c == [call EXCEPT !.op = op]
     IN call' = IF FindNested("call_read_tools_batch", tool)
                THEN [c EXCEPT !.pc = "run", !.running = tool, !.ran = @ \cup {tool}]
                ELSE Recorded(c, FALSE)
  /\ UNCHANGED <<tmux, selection>>

(***************************************************************************)
(* One step of the running handler.                                        *)
(***************************************************************************)
Ends(c, ok, answer) == IF c.op > 0 THEN Recorded(c, ok) ELSE Answer(c, answer)

Now == Definitions[call.running].steps[call.step]

Proceed(c) ==
  IF c.step = Len(Definitions[c.running].steps)
  THEN Ends(c, TRUE, "ok") ELSE [c EXCEPT !.step = @ + 1]

(* tmux takes the name itself, or else the only name that begins with it. *)
TmuxResolves(name) ==
  LET longer == {id \in DOMAIN tmux.sessions : IsPrefix(name, tmux.sessions[id])}
  IN  IF Carriers(name) # {} \/ Cardinality(longer) > 1 THEN Carriers(name) ELSE longer

(* Mutant: resolve_session leaves it to tmux. *)
MutResolve(name) == TmuxResolves(name)

(* resolve_session compares names exactly. *)
Resolve(name) == Carriers(name)

Found(kind) ==
  IF kind = "session" THEN Resolve(call.request.session) ELSE {kind} \cap tmux.others

StepFind ==
  /\ call.pc = "run"
  /\ Now.does = "find"
  /\ \/ \E id \in Found(Now.kind) :
          call' = Proceed([call EXCEPT !.found = id, !.used = @ \cup {id}])
     \/ /\ Found(Now.kind) = {}
        /\ call' = Ends(call, FALSE, "failed")
     \/ /\ call.faults < MaxFaults
        /\ call' = [Ends(call, FALSE, "failed") EXCEPT !.faults = @ + 1]
  /\ UNCHANGED <<tmux, selection>>

(* The target, where one is given, goes to tmux as it is. *)
Aimed == IF call.request.session = None THEN {"server"} ELSE TmuxResolves(call.request.session)

StepAim ==
  /\ call.pc = "run"
  /\ Now.does = "aim"
  /\ \/ Aimed # {} /\ call' = Proceed(call)
     \/ Aimed = {} /\ call' = Ends(call, FALSE, "failed")
     \/ /\ call.faults < MaxFaults
        /\ call' = [Ends(call, FALSE, "failed") EXCEPT !.faults = @ + 1]
  /\ UNCHANGED <<tmux, selection>>

StepElsewhere ==
  /\ call.pc = "run"
  /\ Now.does = "elsewhere"
  /\ \E answer \in {"ok", "failed", "invalid"} : call' = Ends(call, answer = "ok", answer)
  /\ UNCHANGED <<tmux, selection>>

StepCheck ==
  /\ call.pc = "run"
  /\ Now.does = "check"
  /\ \/ call' = Proceed(call)
     \/ call' = Ends(call, FALSE, "invalid")
  /\ UNCHANGED <<tmux, selection>>

Target == IF Now.kind = "found" THEN call.found ELSE "server"

(***************************************************************************)
(* A command on an object that is gone fails; one that fails for another   *)
(* reason may or may not have been applied.                                *)
(***************************************************************************)
StepChange ==
  /\ call.pc = "run"
  /\ Now.does \in {"change", "remove"}
  /\ \/ /\ Present(Target)
        /\ call' = Proceed([call EXCEPT !.changed = @ \cup {Target}])
        /\ tmux' = IF Now.does = "change" THEN tmux
                   ELSE [sessions |-> [id \in DOMAIN tmux.sessions \ {Target} |->
                                         tmux.sessions[id]],
                         others |-> tmux.others \ {Target}]
     \/ /\ Present(Target)
        /\ call.faults < MaxFaults
        /\ \E did \in BOOLEAN :
             call' = [Ends([call EXCEPT !.changed = IF did THEN @ \cup {Target} ELSE @],
                           FALSE, "failed") EXCEPT !.faults = @ + 1]
        /\ UNCHANGED tmux
     \/ /\ ~Present(Target)
        /\ call' = Ends(call, FALSE, "failed")
        /\ UNCHANGED tmux
  /\ UNCHANGED selection

(* search_panes also looks for a cancellation before each pane. *)
StepRead ==
  /\ call.pc = "run"
  /\ Now.does \in {"read", "each"}
  /\ \/ /\ Present(Target)
        /\ call' = Proceed(call)
     \/ /\ ~Present(Target) \/ call.faults < MaxFaults
        /\ call' = [Ends(call, FALSE, "failed") EXCEPT
             !.faults = IF Present(Target) THEN @ + 1 ELSE @]
     \/ /\ Now.does = "each"
        /\ call' = Ends(call, FALSE, "cancelled")
  /\ UNCHANGED <<tmux, selection>>

(***************************************************************************)
(* Other clients rename sessions and remove objects.                       *)
(***************************************************************************)
OthersAct ==
  /\ call.pc # "idle"
  /\ call.others < MaxOthers
  /\ \/ \E id \in DOMAIN tmux.sessions, name \in Names :
          /\ Carriers(name) = {}
          /\ tmux' = [tmux EXCEPT !.sessions[id] = name]
     \/ \E id \in DOMAIN tmux.sessions :
          tmux' = [tmux EXCEPT !.sessions = [o \in DOMAIN @ \ {id} |-> @[o]]]
     \/ \E id \in tmux.others : tmux' = [tmux EXCEPT !.others = @ \ {id}]
  /\ call' = [call EXCEPT
       !.others = @ + 1,
       !.exact = @ \cup {id \in DOMAIN tmux'.sessions :
                           tmux'.sessions[id] = call.request.session}]
  /\ UNCHANGED selection

ToolNext ==
  \/ Call \/ BatchNext \/ StepFind \/ StepAim \/ StepElsewhere \/ StepCheck \/ StepChange
  \/ StepRead \/ OthersAct

ToolSpec == ToolInit /\ [][ToolNext]_vars

-----------------------------------------------------------------------------
(***************************************************************************)
(* A tool that looks a session up by name reports or changes only one that *)
(* carried exactly that name at some moment of the call, never one whose   *)
(* name merely begins with it (resolve_session).  show_option,             *)
(* show_environment and show_hooks look nothing up: tmux has their target. *)
(***************************************************************************)
ActsOnNamed ==
  (call.used \cup call.changed) \cap {"s1", "s2"} \subseteq call.exact

(***************************************************************************)
(* A call that answers that the caller was wrong (caller_error: an unknown *)
(* tool, an invalid argument) or that it was cancelled has changed         *)
(* nothing.  Any other failure, a missing object among them, says nothing: *)
(* it may come after the first of two changes.                             *)
(***************************************************************************)
RefusedUntouched ==
  call.answer \in {"unknown", "invalid", "cancelled"} => call.changed = {}

(***************************************************************************)
(* Nothing runs that the operator left out, not even inside a batch: a     *)
(* tool that is called was named or is of a toolset that was, teardown     *)
(* never being one by default; a batch runs nothing but reading tools; and *)
(* what the running tools may disclose is declared by the tool called.     *)
(***************************************************************************)
Granted(name) ==
  \/ name \in call.asked.include
  \/ LET toolset == Definitions[name].toolset
     IN  IF call.asked.toolsets = None THEN toolset # "teardown"
         ELSE toolset \in call.asked.toolsets

WithinSelection ==
  \A name \in call.ran :
    /\ name \notin call.asked.exclude
    /\ Granted(call.request.tool)
    /\ name # call.request.tool => Definitions[name].toolset = "inspect"
    /\ Definitions[name].outputs \subseteq Declared(call.request.tool)

(***************************************************************************)
(* A tool call does what was asked and what it may do: it acts on objects  *)
(* the arguments name, leaves everything alone when it refuses, and stays  *)
(* within the operator's selection.                                        *)
(***************************************************************************)
CallsAsAsked == ActsOnNamed /\ RefusedUntouched /\ WithinSelection

=============================================================================
