----------------------------- MODULE PaneInput -----------------------------
(***************************************************************************)
(* The tools of the MCP server that type into panes (apps/mcp/src:         *)
(* pane_input.cpp, pane_echo.cpp, and run_shell_command, send_keys,        *)
(* send_keys_batch and paste_text of tool_catalog.cpp).  A call looks at   *)
(* the panes it would reach, reserves them, looks again, writes the echo   *)
(* ledger, dispatches, and gives the panes back; a run that outlives its   *)
(* answer keeps its pane until somebody can prove that it ended.  The      *)
(* panes of one window, their daemon and the people using them are         *)
(* modelled beside the calls.                                              *)
(***************************************************************************)
EXTENDS Naturals, Sequences

CONSTANTS
  Calls,       \* tool calls running at the same time
  Panes,       \* panes of the window
  First,       \* the pane every daemon starts with
  None,
  MaxEvents,   \* things that happen outside this process
  MaxOps       \* operations of one send_keys_batch

VARIABLES
  world,       \* the daemon and its panes
  registry,    \* Registry::active and next_token
  ledger,      \* Ledger::by_pane: what each call typed, in order
  call         \* the tool calls

inputVars == <<world, registry, ledger, call>>

(* send_keys is a batch of one operation. *)
Tools == {"run_shell_command", "send_keys_batch", "paste_text"}

Requests == [tool : Tools, pane : Panes]

Fresh == [p \in Panes |-> IF p = First THEN "alive" ELSE "unborn"]

Asked(request) ==
  [tool |-> request.tool, pane |-> request.pane, pc |-> "preflight", pre |-> None, token |-> 0,
   held |-> {}, proven |-> {}, prev |-> None, final |-> None, buffer |-> "none",
   failed |-> FALSE, ops |-> 0]

InputInit ==
  /\ world = [gen |-> 1, status |-> Fresh, sync |-> FALSE, held |-> {},
              busy |-> [p \in Panes |-> 0], marked |-> {}, reached |-> {}, strayed |-> {},
              unsent |-> {}, pruned |-> {}, events |-> 0, buffers |-> {}]
  /\ registry = [active |-> {}, next |-> 0]
  /\ ledger = [k \in {} |-> <<>>]
  /\ \E asked \in [Calls -> Requests] : call = [c \in Calls |-> Asked(asked[c])]

-----------------------------------------------------------------------------
(* The daemon and the people (external). *)

Alive == {p \in Panes : world.status[p] = "alive"}
Listed == {p \in Panes : world.status[p] \in {"alive", "dead"}}

Happens(w) ==
  /\ world.events < MaxEvents
  /\ world' = [w EXCEPT !.events = @ + 1]
  /\ UNCHANGED <<registry, ledger, call>>

PaneCreated == \E p \in Panes : world.status[p] = "unborn" /\ Happens([world EXCEPT !.status[p] = "alive"])

PaneEnds ==
  \E p \in Listed, s \in {"dead", "gone"} :
    /\ world.status[p] # s
    /\ Happens([world EXCEPT !.status[p] = s, !.busy[p] = 0])

DaemonRestarts ==
  Happens([world EXCEPT !.gen = @ + 1, !.status = Fresh, !.busy = [p \in Panes |-> 0],
             !.marked = {}, !.sync = FALSE, !.held = {}, !.buffers = {}])

SyncToggled == Happens([world EXCEPT !.sync = ~@])

(* A person enters a mode, attends the pane, or starts another program. *)
PaneHeld == \E p \in Alive \ world.held : Happens([world EXCEPT !.held = @ \cup {p}])

(* The run's shell prints the completion marker. *)
RunEnds ==
  \E p \in Alive : /\ world.busy[p] # 0
                   /\ world' = [world EXCEPT !.marked = @ \cup {world.busy[p]}, !.busy[p] = 0]
                   /\ UNCHANGED <<registry, ledger, call>>

(* respawn_pane, or a person, ends it without one. *)
Respawned == \E p \in Alive : world.busy[p] # 0 /\ Happens([world EXCEPT !.busy[p] = 0])

-----------------------------------------------------------------------------
(* Preflight. *)

(* The panes a dispatch of the tool would reach. *)
Cohort(c) ==
  IF call[c].tool # "paste_text" /\ world.sync THEN Listed ELSE {call[c].pane}

(* parse_pane_input_snapshot: what refuses the input.  A run needs a shell *)
(* in the foreground, which there may be while another run goes on: its    *)
(* command is in a subshell.                                               *)
Refused(c) ==
  \/ ~ (call[c].pane \in Listed)
  \/ \E p \in Cohort(c) : p \notin Alive \/ p \in world.held
  \/ call[c].tool = "run_shell_command" /\ Cohort(c) # {call[c].pane}

Route(c) == [gen |-> world.gen, panes |-> Cohort(c), sync |-> world.sync, all |-> Listed]

Identities(route) == {<<route.gen, p>> : p \in route.panes}

Fails(c) == [call EXCEPT ![c].pc = "release", ![c].failed = TRUE]

(* Or a command fails, or the foreground is no shell. *)
Preflight(c) ==
  /\ call[c].pc = "preflight"
  /\ \/ call' = Fails(c)
     \/ ~Refused(c) /\ call' = [call EXCEPT ![c].pc = "reserve", ![c].pre = Route(c)]
  /\ UNCHANGED <<world, registry, ledger>>

-----------------------------------------------------------------------------
(* reserve_pane_input. *)

Holding(ids) == {e \in registry.active : e.id \in ids}

AskHolders(c) ==
  /\ call[c].pc = "reserve"
  /\ LET held == Holding(Identities(call[c].pre)) IN
       call' = IF \E e \in held : ~e.proof THEN Fails(c)
                 ELSE [call EXCEPT ![c].pc = "prove", ![c].held = held]
  /\ UNCHANGED <<world, registry, ledger>>

(* command_finished, pane_replaced, server_gone. *)
Provable(e) ==
  LET gen == e.id[1]
      p == e.id[2]
  IN  \/ world.gen = gen /\ p \in Listed /\ e.token \in world.marked
      \/ world.gen = gen /\ p \notin Alive /\ Listed # {}
      \/ world.gen # gen

(* The proofs run tmux, outside the lock; a command that fails proves      *)
(* nothing.                                                                *)
Prove(c) ==
  /\ call[c].pc = "prove"
  /\ \E proven \in SUBSET {e.token : e \in {h \in call[c].held : Provable(h)}} :
       call' = [call EXCEPT ![c].pc = "take", ![c].proven = proven, ![c].held = {}]
  /\ UNCHANGED <<world, registry, ledger>>

Kind(c) == IF call[c].tool = "run_shell_command" THEN "run" ELSE "input"

Take(c) ==
  /\ call[c].pc = "take"
  /\ LET left == {e \in registry.active : e.token \notin call[c].proven}
         ids == Identities(call[c].pre)
         token == registry.next + 1
     IN  IF \E e \in left : e.id \in ids
           THEN registry' = [registry EXCEPT !.active = left] /\ call' = Fails(c)
           ELSE /\ registry' =
                     [active |-> left \cup {[id |-> i, token |-> token, kind |-> Kind(c),
                                             proof |-> FALSE] : i \in ids},
                      next |-> token]
                /\ call' = [call EXCEPT ![c].token = token, ![c].proven = {},
                              ![c].pc = IF call[c].tool = "paste_text" THEN "stage" ELSE "note"]
  /\ UNCHANGED <<world, ledger>>

Mine(c) == {e \in registry.active : e.token = call[c].token}

Covers(c, route) == {e.id : e \in Mine(c)} = Identities(route)

-----------------------------------------------------------------------------
(* The dispatch. *)

(* paste_text puts its text into a private buffer, which may be there      *)
(* after a failure; with no text, an old tmux or no name it does not.      *)
Stage(c) ==
  /\ call[c].pc = "stage"
  /\ \/ \E failed \in BOOLEAN :
          call' = [call EXCEPT ![c].pc = "release", ![c].failed = failed] /\ UNCHANGED world
     \/ \E staged, failed \in BOOLEAN :
          /\ staged \/ failed
          /\ world' = [world EXCEPT !.buffers = IF staged THEN @ \cup {c} ELSE @]
          /\ call' = [call EXCEPT ![c].pc = IF failed THEN "cleanup" ELSE "note",
                        ![c].failed = failed, ![c].buffer = "staged"]
  /\ UNCHANGED <<registry, ledger>>

AfterRefusal(c) ==
  [call EXCEPT ![c].failed = TRUE,
               ![c].pc = IF call[c].buffer = "none" THEN "release" ELSE "cleanup"]

Known(k) == IF k \in DOMAIN ledger THEN ledger[k] ELSE <<>>

SameRoute(c, route) == [route EXCEPT !.all = {}] = [call[c].pre EXCEPT !.all = {}]

(* The second preflight, the comparison of the routes, and the records of  *)
(* every pane the dispatch is to reach.  A command may fail here, a run    *)
(* may be cancelled or find no shell in the foreground.                    *)
Note(c) ==
  /\ call[c].pc = "note"
  /\ LET route == Route(c)
         ids == Identities(route)
     IN  \/ call' = AfterRefusal(c) /\ UNCHANGED ledger
         \/ /\ ~Refused(c) /\ SameRoute(c, route) /\ Covers(c, route)
            /\ ledger' = [k \in DOMAIN ledger \cup ids |->
                            IF k \in ids THEN Append(Known(k), call[c].token) ELSE ledger[k]]
            /\ call' = [call EXCEPT ![c].pc = "dispatch", ![c].final = route,
                          ![c].prev = [k \in ids |-> Known(k)]]
  /\ UNCHANGED <<world, registry>>

(* The panes the bytes reach: the cohort as it is now, which need not be   *)
(* the one the second preflight saw.                                       *)
Reached(c) == {<<world.gen, p>> : p \in Cohort(c) \cap Alive}

(* A run goes on in the pane it was sent to.  It also runs in the panes    *)
(* that joined since, where it is neither reserved nor on record.          *)
Delivered(c) ==
  LET planned == Identities(call[c].final) IN
  [world EXCEPT
     !.reached = @ \cup {<<k, call[c].token>> : k \in Reached(c) \cap planned},
     !.strayed = @ \cup {<<k, call[c].token>> : k \in Reached(c) \ planned},
     !.busy = [p \in Panes |-> IF Kind(c) = "run" /\ p = call[c].pane /\ p \in Alive
                                 THEN call[c].token ELSE @[p]]]

Answer(c, failed) == [call EXCEPT ![c].pc = "commit", ![c].failed = failed]

MutRollback(c) == ledger

(* ~PaneEchoEdit without a commit. *)
Rollback(c) ==
  [k \in DOMAIN ledger |-> IF k \in DOMAIN call[c].prev THEN call[c].prev[k] ELSE ledger[k]]

(* Not started; started and failed, with or without effect; answered.  The *)
(* handle is pinned to its daemon (module Backend).                        *)
Dispatch(c) ==
  /\ call[c].pc = "dispatch"
  /\ \/ /\ call' = AfterRefusal(c) /\ ledger' = Rollback(c)
        /\ world' = [world EXCEPT !.unsent = @ \cup {call[c].token}]
     \/ call' = Answer(c, TRUE) /\ UNCHANGED <<world, ledger>>
     \/ /\ world.gen = call[c].final.gen
        /\ \E failed \in BOOLEAN : call' = Answer(c, failed)
        /\ world' = Delivered(c) /\ UNCHANGED ledger
  /\ UNCHANGED registry

(* prune_dead_panes, with the listing of the second preflight: records of  *)
(* other daemons and of panes that were not listed go.                     *)
Pruned(c) ==
  {k \in DOMAIN ledger : k[1] # call[c].final.gen \/ k[2] \notin call[c].final.all}

Prune(c) ==
  LET stale == {k \in Pruned(c) : k[1] = world.gen /\ k[2] \in Listed} IN
  /\ ledger' = [k \in DOMAIN ledger \ Pruned(c) |-> ledger[k]]
  /\ world' = [world EXCEPT !.pruned = @ \cup stale]

(* commit, and after an answer the pruning; a paste cleans up first. *)
Commit(c) ==
  /\ call[c].pc = "commit"
  /\ IF call[c].failed \/ call[c].buffer = "staged" THEN UNCHANGED <<world, ledger>> ELSE Prune(c)
  /\ call' = [call EXCEPT ![c].pc = CASE Kind(c) = "run" -> IF call[c].failed THEN "retain" ELSE "running"
                                      [] Kind(c) # "run" ->
                                           IF call[c].buffer = "staged" THEN "cleanup" ELSE "release"]
  /\ UNCHANGED registry

(* remove_private_paste_buffer deletes and then looks. *)
Cleanup(c) ==
  /\ call[c].pc = "cleanup"
  /\ \E deleted, seen \in BOOLEAN :
       LET left == IF deleted THEN world.buffers \ {c} ELSE world.buffers
           removed == seen /\ c \notin left
       IN  /\ world' = [world EXCEPT !.buffers = left]
           /\ call' = [call EXCEPT ![c].pc = IF removed /\ ~call[c].failed THEN "prune" ELSE "release",
                         ![c].buffer = IF removed THEN "removed" ELSE "reported"]
  /\ UNCHANGED <<registry, ledger>>

PruneAfterPaste(c) ==
  /\ call[c].pc = "prune"
  /\ Prune(c)
  /\ call' = [call EXCEPT ![c].pc = "release"]
  /\ UNCHANGED registry

-----------------------------------------------------------------------------
(* The end of a run, and of a call. *)

Release(c) == [registry EXCEPT !.active = @ \ Mine(c)]

(* The capture shows the marker. *)
RunCompletes(c) ==
  /\ call[c].pc = "running" /\ call[c].token \in world.marked
  /\ call[c].pre.gen = world.gen /\ call[c].pane \in Listed
  /\ call' = [call EXCEPT ![c].pc = "release"]
  /\ UNCHANGED <<world, registry, ledger>>

(* The timeout, a cancellation, or a capture that failed. *)
RunAbandoned(c) ==
  /\ call[c].pc = "running"
  /\ call' = [call EXCEPT ![c].pc = "retain", ![c].failed = TRUE]
  /\ UNCHANGED <<world, registry, ledger>>

MutRetain(c) ==
  /\ call[c].pc = "retain"
  /\ registry' = Release(c)
  /\ call' = [call EXCEPT ![c].pc = "watched"]
  /\ UNCHANGED <<world, ledger>>

(* retain_run_until_proven_complete: the reservation stays, with its proof. *)
Retain(c) ==
  /\ call[c].pc = "retain"
  /\ registry' = [registry EXCEPT !.active =
                    {IF e \in Mine(c) THEN [e EXCEPT !.proof = TRUE] ELSE e : e \in @}]
  /\ call' = [call EXCEPT ![c].pc = "watched"]
  /\ UNCHANGED <<world, ledger>>

(* The call's locals go. *)
Over(c) ==
  [call EXCEPT ![c] = [@ EXCEPT !.pc = "done", !.pre = None, !.prev = None, !.final = None]]

(* A watcher proves the end and releases, or all of them give up. *)
WatcherProves(c) ==
  /\ call[c].pc = "watched"
  /\ \E p \in call[c].pre.panes : Provable([id |-> <<call[c].pre.gen, p>>, token |-> call[c].token])
  /\ registry' = Release(c)
  /\ call' = Over(c)
  /\ UNCHANGED <<world, ledger>>

WatchersGiveUp(c) ==
  /\ call[c].pc = "watched"
  /\ call' = Over(c)
  /\ UNCHANGED <<world, registry, ledger>>

(* ~PaneInputLease; send_keys_batch goes on with its next operation unless *)
(* this was the last, or it failed and onError says stop.                  *)
Leave(c) ==
  /\ call[c].pc = "release"
  /\ registry' = Release(c)
  /\ \/ call' = Over(c)
     \/ /\ call[c].tool = "send_keys_batch" /\ call[c].ops + 1 < MaxOps
        /\ call' = [call EXCEPT ![c] = [@ EXCEPT !.pc = "preflight", !.pre = None, !.token = 0,
                      !.prev = None, !.final = None, !.failed = FALSE, !.ops = @ + 1]]
  /\ UNCHANGED <<world, ledger>>

(* The panes are followed while a call runs. *)
Outside ==
  /\ \E c \in Calls : call[c].pc # "done"
  /\ \/ PaneCreated \/ PaneEnds \/ DaemonRestarts \/ SyncToggled \/ PaneHeld
     \/ RunEnds \/ Respawned

CallStep(c) ==
  \/ Preflight(c) \/ AskHolders(c) \/ Prove(c) \/ Take(c) \/ Stage(c) \/ Note(c)
  \/ Dispatch(c) \/ Commit(c) \/ Cleanup(c) \/ PruneAfterPaste(c) \/ RunCompletes(c) \/ RunAbandoned(c)
  \/ Retain(c) \/ WatcherProves(c) \/ WatchersGiveUp(c) \/ Leave(c)

InputNext == Outside \/ \E c \in Calls : CallStep(c)

InputSpec == InputInit /\ [][InputNext]_inputVars

-----------------------------------------------------------------------------
(***************************************************************************)
(* As long as a command this process started runs in the pane it was sent  *)
(* to, that pane is reserved for it, whatever became of the call that      *)
(* started it, and no other tool call is given the pane.  The copies in    *)
(* panes that synchronize-panes added after the second preflight           *)
(* (world.strayed) hold nothing: docs/mcp-server.md:63, the check and the  *)
(* dispatch are not atomic.                                                *)
(***************************************************************************)
RunHoldsPane ==
  \A p \in Panes : world.busy[p] # 0 =>
    {e.token : e \in Holding({<<world.gen, p>>})} = {world.busy[p]}

(* The tokens on a pane's record. *)
OnRecord(k) == {Known(k)[i] : i \in DOMAIN Known(k)}

(* The tokens of the dispatches that reached a pane as planned and that    *)
(* its record does not hold.                                               *)
Lost(k) == {r[2] : r \in {q \in world.reached : q[1] = k}} \ OnRecord(k)

(***************************************************************************)
(* Every dispatch that reached a pane its second preflight named is in the *)
(* pane's record, and none that was rolled back is: no call's rollback or  *)
(* pruning takes another call's record with it, except a pruning whose     *)
(* listing is older than the pane.  A pane that joined the cohort after    *)
(* the second preflight has the bytes and no record (world.strayed).       *)
(***************************************************************************)
EchoTruthful ==
  /\ \A p \in Listed : LET k == <<world.gen, p>> IN k \notin world.pruned => Lost(k) = {}
  /\ \A k \in DOMAIN ledger : OnRecord(k) \cap world.unsent = {}

(* paste_text leaves its private buffer behind only if it says so. *)
BufferRemoved ==
  \A c \in Calls : call[c].pc \in {"release", "done"} /\ c \in world.buffers =>
    call[c].buffer = "reported"

(* What was typed is on record, and nothing is left in tmux unsaid. *)
DispatchTruthful == EchoTruthful /\ BufferRemoved

(* No pane is locked by a command that has already ended: whoever wants it *)
(* next can prove that.                                                    *)
NotLockedByTheEnded ==
  \A e \in registry.active :
    /\ e.proof /\ <<e.id, e.token>> \in world.reached
    /\ (e.id[1] = world.gen => world.busy[e.id[2]] # e.token)
    => Provable(e)
=============================================================================
