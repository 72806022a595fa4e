--------------------------- MODULE PaneInputRuns ----------------------------
(***************************************************************************)
(* A command that a tool started in a pane keeps the pane's reservation,   *)
(* proved of module PaneInput: the inductive invariant, the steps that     *)
(* leave the registry and the runs as they are, and the steps that change  *)
(* the registry or start a run.                                            *)
(***************************************************************************)
EXTENDS PaneInput, TLAPS

CallFields == {"tool", "pane", "pc", "pre", "token", "held", "proven", "prev", "final", "buffer",
               "failed", "ops"}

WorldFields == {"gen", "status", "sync", "held", "busy", "marked", "reached", "strayed", "unsent",
                "pruned", "events", "buffers"}

(* The fields, as the updates need them. *)
Shaped ==
  /\ DOMAIN call = Calls /\ \A c \in Calls : DOMAIN call[c] = CallFields
  /\ DOMAIN world = WorldFields /\ DOMAIN world.busy = Panes /\ DOMAIN world.status = Panes
  /\ DOMAIN registry = {"active", "next"}
  /\ \A e \in registry.active : DOMAIN e = {"id", "token", "kind", "proof"}

(* Tokens are numbers that were given out, one to a call at a time. *)
Given(t) == t \in Nat /\ 0 < t /\ t <= registry.next

TokenInv ==
  /\ registry.next \in Nat
  /\ \A c \in Calls : call[c].token = 0 \/ Given(call[c].token)
  /\ \A c, d \in Calls : call[c].token = call[d].token /\ call[c].token # 0 => c = d
  /\ \A e \in registry.active : Given(e.token)
  /\ \A p \in Panes : world.busy[p] = 0 \/ Given(world.busy[p])
  /\ \A t \in world.marked : Given(t)

(* The call that had the token dispatches no more. *)
Spent(t) == \A d \in Calls : call[d].token = t => call[d].pc \in {"watched", "done"}

RunsNowhere(t) == \A p \in Panes : world.busy[p] # t

RunsOnlyAt(t, id) == \A p \in Panes : world.busy[p] = t => id = <<world.gen, p>>

(* A run is in a pane that is alive, is not marked as ended, and its pane  *)
(* is reserved for it.                                                     *)
RunInv ==
  /\ \A p \in Panes : p \notin Alive => world.busy[p] = 0
  /\ \A p \in Panes : world.busy[p] \notin world.marked
  /\ \A p \in Panes : world.busy[p] # 0 =>
       \E e \in registry.active : e.id = <<world.gen, p>> /\ e.token = world.busy[p]

(* A pane has one holder, which gives a proof only after its dispatch. *)
HolderInv ==
  /\ \A e, f \in registry.active : e.id = f.id => e.token = f.token
  /\ \A e \in registry.active : e.proof => Spent(e.token)
  /\ \A e \in registry.active : RunsOnlyAt(e.token, e.id)

Runs(c) == call[c].tool = "run_shell_command"

(* Where a call is and what is so there. *)
CallOk(c) ==
  /\ call[c].pc \in {"running", "retain", "watched"} => Runs(c)
  /\ call[c].token # 0 /\ ~(Runs(c) /\ call[c].pc \in {"commit", "running", "retain", "watched", "done"})
       => RunsNowhere(call[c].token)
  /\ call[c].pc \in {"stage", "note", "dispatch"} =>
       call[c].token # 0 /\ call[c].token \notin world.marked
  /\ Runs(c) /\ call[c].pc \notin {"preflight", "cleanup", "prune", "release", "done"} =>
       call[c].pre.panes = {call[c].pane}
  /\ Runs(c) /\ call[c].pc = "dispatch" =>
       /\ call[c].final.gen = call[c].pre.gen
       /\ \E e \in registry.active : e.token = call[c].token
       /\ \A e \in registry.active : e.token = call[c].token => e.id = <<call[c].pre.gen, call[c].pane>>
  /\ Runs(c) /\ call[c].pc \in {"commit", "running", "retain", "watched"} /\ call[c].token # 0 =>
       RunsOnlyAt(call[c].token, <<call[c].pre.gen, call[c].pane>>)
  /\ call[c].pc = "prove" => \A h \in call[c].held :
       Given(h.token) /\ Spent(h.token) /\ RunsOnlyAt(h.token, h.id)
  /\ call[c].pc = "take" => \A t \in call[c].proven :
       Given(t) /\ Spent(t) /\ RunsNowhere(t)

InputInv == Shaped /\ TokenInv /\ RunInv /\ HolderInv /\ \A c \in Calls : CallOk(c)
-----------------------------------------------------------------------------
LEMMA InputStarts == InputInit => InputInv
<1>. SUFFICES ASSUME InputInit PROVE InputInv
  OBVIOUS
<1>1. PICK asked \in [Calls -> Requests] : call = [c \in Calls |-> Asked(asked[c])]
  BY DEF InputInit
<1>2. /\ DOMAIN call = Calls
      /\ \A c \in Calls : DOMAIN call[c] = CallFields /\ call[c].pc = "preflight" /\ call[c].token = 0
  BY <1>1 DEF Asked, CallFields
<1>3. /\ DOMAIN world = WorldFields /\ DOMAIN world.busy = Panes /\ DOMAIN world.status = Panes
      /\ \A p \in Panes : world.busy[p] = 0
      /\ world.marked = {}
  BY DEF InputInit, WorldFields, Fresh
<1>4. DOMAIN registry = {"active", "next"} /\ registry.active = {} /\ registry.next = 0
  BY DEF InputInit
<1>5. Shaped
  BY <1>2, <1>3, <1>4 DEF Shaped
<1>6. TokenInv
  BY <1>2, <1>3, <1>4 DEF TokenInv
<1>7. RunInv /\ HolderInv
  BY <1>3, <1>4 DEF RunInv, HolderInv
<1>8. ASSUME NEW c \in Calls PROVE CallOk(c)
  BY <1>2 DEF CallOk
<1>. QED
  BY <1>5, <1>6, <1>7, <1>8 DEF InputInv

(* What happens in tmux: runs end, panes come and go, the daemon restarts. *)
LEMMA WorldKeeps ==
  ASSUME InputInv, UNCHANGED <<registry, call>>,
         DOMAIN world' = WorldFields, DOMAIN world'.busy = Panes, DOMAIN world'.status = Panes,
         \A p \in Panes : world'.busy[p] = world.busy[p] \/ world'.busy[p] = 0,
         world'.gen = world.gen \/ \A p \in Panes : world'.busy[p] = 0,
         \A p \in Panes : p \notin Alive' => world'.busy[p] = 0,
         \A p \in Panes : world'.busy[p] \notin world'.marked,
         \A t \in world'.marked : t \in world.marked \/ \E p \in Panes : t = world.busy[p] /\ t # 0
  PROVE  InputInv'
<1>. USE DEF InputInv
<1>1. Shaped'
  BY DEF Shaped
<1>2. TokenInv'
  BY DEF TokenInv, Given
<1>3. RunInv'
  BY DEF RunInv
<1>4. \A t : t # 0 => (RunsNowhere(t) => RunsNowhere(t)') /\ \A id : RunsOnlyAt(t, id) => RunsOnlyAt(t, id)'
  BY DEF RunsNowhere, RunsOnlyAt
<1>5. \A t : (Spent(t)' <=> Spent(t)) /\ (Given(t)' <=> Given(t))
  BY DEF Spent, Given
<1>6. \A t : Given(t) => t # 0
  BY DEF Given
<1>7. HolderInv'
  BY <1>4, <1>5, <1>6, Zenon DEF HolderInv, TokenInv
<1>8. ASSUME NEW c \in Calls PROVE CallOk(c)'
  <2>1. CallOk(c)
    OBVIOUS
  <2>2. call[c].pc \in {"stage", "note", "dispatch"} => call[c].token \notin world'.marked
    BY <2>1 DEF CallOk, RunsNowhere
  <2>3. /\ call[c].pc = "prove" => \A h \in call[c].held :
             Given(h.token)' /\ Spent(h.token)' /\ RunsOnlyAt(h.token, h.id)'
        /\ call[c].pc = "take" => \A t \in call[c].proven : Given(t)' /\ Spent(t)' /\ RunsNowhere(t)'
    BY <2>1, <1>4, <1>5, <1>6, ZenonT(30) DEF CallOk
  <2>. HIDE DEF InputInv
  <2>. QED
    BY <2>1, <2>2, <2>3, <1>4, <1>5, ZenonT(30) DEF CallOk, Runs
<1>. QED
  BY <1>1, <1>2, <1>3, <1>7, <1>8

LEMMA OutsideKeeps ==
  ASSUME InputInv, Outside
  PROVE  InputInv'
<1>. USE DEF InputInv
<1>1. /\ DOMAIN world = WorldFields /\ DOMAIN world.busy = Panes /\ DOMAIN world.status = Panes
      /\ \A p \in Panes : p \notin Alive => world.busy[p] = 0
      /\ \A p \in Panes : world.busy[p] \notin world.marked
      /\ 0 \notin world.marked
  BY DEF Shaped, RunInv, TokenInv, Given
<1>2. UNCHANGED <<registry, call>>
  BY Zenon DEF Outside, PaneCreated, PaneEnds, DaemonRestarts, SyncToggled, PaneHeld, Happens, RunEnds,
         Respawned
<1>3. CASE PaneCreated
  <2>1. PICK p \in Panes : world.status[p] = "unborn" /\ Happens([world EXCEPT !.status[p] = "alive"])
    BY <1>3, Zenon DEF PaneCreated
  <2>2. /\ DOMAIN world' = WorldFields /\ DOMAIN world'.status = Panes
        /\ world'.busy = world.busy /\ world'.gen = world.gen /\ world'.marked = world.marked
        /\ world'.status[p] = "alive" /\ \A q \in Panes : q # p => world'.status[q] = world.status[q]
    BY <1>1, <2>1 DEF Happens, WorldFields
  <2>. QED
    BY <1>1, <1>2, <2>2, WorldKeeps DEF Alive
<1>4. CASE PaneEnds
  <2>1. PICK p \in Listed, t \in {"dead", "gone"} :
          Happens([world EXCEPT !.status[p] = t, !.busy[p] = 0])
    BY <1>4, Zenon DEF PaneEnds
  <2>2. /\ p \in Panes /\ DOMAIN world' = WorldFields
        /\ DOMAIN world'.status = Panes /\ DOMAIN world'.busy = Panes
        /\ world'.gen = world.gen /\ world'.marked = world.marked
        /\ world'.busy[p] = 0 /\ \A q \in Panes : q # p => world'.busy[q] = world.busy[q]
        /\ \A q \in Panes : q # p => world'.status[q] = world.status[q]
    BY <1>1, <2>1 DEF Happens, WorldFields, Listed
  <2>. QED
    BY <1>1, <1>2, <2>2, WorldKeeps DEF Alive
<1>5. CASE DaemonRestarts
  <2>1. /\ DOMAIN world' = WorldFields /\ DOMAIN world'.status = Panes /\ DOMAIN world'.busy = Panes
        /\ world'.marked = {} /\ \A q \in Panes : world'.busy[q] = 0
    BY <1>1, <1>5 DEF DaemonRestarts, Happens, WorldFields, Fresh
  <2>. QED
    BY <1>1, <1>2, <2>1, WorldKeeps
<1>6. CASE SyncToggled \/ PaneHeld
  <2>1. /\ DOMAIN world' = WorldFields /\ world'.status = world.status /\ world'.busy = world.busy
        /\ world'.gen = world.gen /\ world'.marked = world.marked
    BY <1>1, <1>6, Zenon DEF SyncToggled, PaneHeld, Happens, WorldFields
  <2>. QED
    BY <1>1, <1>2, <2>1, WorldKeeps DEF Alive
<1>7. CASE RunEnds
  <2>1. PICK p \in Alive :
          /\ world.busy[p] # 0
          /\ world' = [world EXCEPT !.marked = @ \cup {world.busy[p]}, !.busy[p] = 0]
    BY <1>7, Zenon DEF RunEnds
  <2>2. /\ p \in Panes /\ DOMAIN world' = WorldFields
        /\ world'.status = world.status /\ DOMAIN world'.busy = Panes
        /\ world'.gen = world.gen /\ world'.marked = world.marked \cup {world.busy[p]}
        /\ world'.busy[p] = 0 /\ \A q \in Panes : q # p => world'.busy[q] = world.busy[q]
    BY <1>1, <2>1 DEF WorldFields, Alive
  <2>3. ASSUME NEW q \in Panes, world.busy[q] = world.busy[p] PROVE q = p
    BY <2>1, <2>2, <2>3 DEF RunInv, HolderInv, RunsOnlyAt
  <2>. QED
    BY <1>1, <1>2, <2>1, <2>2, <2>3, WorldKeeps DEF Alive
<1>8. CASE Respawned
  <2>1. PICK p \in Alive : Happens([world EXCEPT !.busy[p] = 0])
    BY <1>8, Zenon DEF Respawned
  <2>2. /\ p \in Panes /\ DOMAIN world' = WorldFields
        /\ world'.status = world.status /\ DOMAIN world'.busy = Panes
        /\ world'.gen = world.gen /\ world'.marked = world.marked
        /\ world'.busy[p] = 0 /\ \A q \in Panes : q # p => world'.busy[q] = world.busy[q]
    BY <1>1, <2>1 DEF Happens, WorldFields, Alive
  <2>. QED
    BY <1>1, <1>2, <2>2, WorldKeeps DEF Alive
<1>. QED
  BY <1>3, <1>4, <1>5, <1>6, <1>7, <1>8 DEF Outside

(* A call goes on without touching the registry or what runs in a pane. *)
SameRuns ==
  /\ DOMAIN world' = WorldFields
  /\ world'.gen = world.gen /\ world'.status = world.status
  /\ world'.marked = world.marked /\ DOMAIN world'.busy = DOMAIN world.busy
  /\ \A p \in Panes : world'.busy[p] = world.busy[p]

Onward(c) ==
  /\ DOMAIN call' = Calls /\ DOMAIN call'[c] = CallFields
  /\ \A d \in Calls : d # c => call'[d] = call[d]
  /\ call'[c].tool = call[c].tool /\ call'[c].pane = call[c].pane
  /\ call[c].pc = "done" => call'[c].pc = "done"
  /\ call[c].pc = "watched" => call'[c].pc \in {"watched", "done"}

LEMMA OnwardKeeps ==
  ASSUME InputInv, NEW c \in Calls, Onward(c), SameRuns, UNCHANGED registry,
         call'[c].token = call[c].token, CallOk(c)'
  PROVE  InputInv'
<1>. USE DEF InputInv, SameRuns, Onward
<1>1. Shaped'
  BY DEF Shaped
<1>2. TokenInv'
  BY DEF TokenInv, Given
<1>3. RunInv'
  <2>1. Alive' = Alive
    BY DEF Alive
  <2>. QED
    BY <2>1, ZenonT(30) DEF RunInv
<1>4. \A t : /\ RunsNowhere(t)' <=> RunsNowhere(t)
             /\ \A id : RunsOnlyAt(t, id)' <=> RunsOnlyAt(t, id)
             /\ Given(t)' <=> Given(t)
  BY DEF RunsNowhere, RunsOnlyAt, Given
<1>5. \A t : Spent(t) => Spent(t)'
  BY DEF Spent
<1>6. HolderInv'
  BY <1>4, <1>5 DEF HolderInv
<1>7. ASSUME NEW d \in Calls, d # c PROVE CallOk(d)'
  <2>1. CallOk(d) /\ call'[d] = call[d] /\ registry' = registry /\ world'.marked = world.marked
    BY <1>7
  <2>. HIDE DEF InputInv, SameRuns, Onward
  <2>2. \A h \in call[d].held : Given(h.token) /\ Spent(h.token) /\ RunsOnlyAt(h.token, h.id)
          => Given(h.token)' /\ Spent(h.token)' /\ RunsOnlyAt(h.token, h.id)'
    BY <1>4, <1>5
  <2>. QED
    BY <2>1, <2>2, <1>4, <1>5 DEF CallOk, Runs
<1>. QED
  BY <1>1, <1>2, <1>3, <1>6, <1>7

LEMMA NotRunning ==
  ASSUME InputInv, NEW c \in Calls,
         ~(Runs(c) /\ call[c].pc \in {"commit", "running", "retain", "watched", "done"})
  PROVE  call[c].token = 0 \/ RunsNowhere(call[c].token)
BY Zenon DEF InputInv, CallOk

(* A call that is about to end, with nothing running under its token. *)
LEMMA EndingKeeps ==
  ASSUME InputInv, NEW c \in Calls, Onward(c), SameRuns, UNCHANGED registry,
         call'[c].token = call[c].token, call'[c].pc \in {"release", "cleanup", "prune"},
         call[c].token = 0 \/ RunsNowhere(call[c].token)
  PROVE  InputInv'
<1>1. CallOk(c)'
  BY DEF CallOk, RunsNowhere, SameRuns
<1>. QED
  BY <1>1, OnwardKeeps

LEMMA CallShape ==
  ASSUME InputInv
  PROVE  /\ DOMAIN call = Calls /\ \A c \in Calls : DOMAIN call[c] = CallFields
         /\ DOMAIN world = WorldFields /\ \A c \in Calls : CallOk(c)
BY DEF InputInv, Shaped

LEMMA PreflightKeeps ==
  ASSUME InputInv, NEW c \in Calls, Preflight(c)
  PROVE  InputInv'
<1>1. SameRuns /\ UNCHANGED registry /\ call[c].pc = "preflight"
  BY CallShape DEF Preflight, SameRuns
<1>2. call[c].token = 0 \/ RunsNowhere(call[c].token)
  BY <1>1, NotRunning
<1>3. CASE call' = Fails(c)
  <2>1. Onward(c) /\ call'[c].pc = "release" /\ call'[c].token = call[c].token
    BY <1>1, <1>3, CallShape DEF Fails, Onward, CallFields
  <2>. QED
    BY <1>1, <1>2, <2>1, EndingKeeps
<1>4. CASE ~Refused(c) /\ call' = [call EXCEPT ![c].pc = "reserve", ![c].pre = Route(c)]
  <2>1. /\ Onward(c) /\ call'[c].pc = "reserve" /\ call'[c].token = call[c].token
        /\ call'[c].pre = Route(c)
    BY <1>1, <1>4, CallShape DEF Onward, CallFields
  <2>2. Runs(c) => Cohort(c) = {call[c].pane}
    BY <1>4 DEF Refused, Runs
  <2>3. Runs(c) => call'[c].pre.panes = {call'[c].pane}
    BY <2>1, <2>2 DEF Route, Onward
  <2>4. CallOk(c)'
    BY <1>1, <1>2, <2>1, <2>3 DEF CallOk, Runs, Onward, RunsNowhere, SameRuns
  <2>. QED
    BY <1>1, <2>1, <2>4, OnwardKeeps
<1>. QED
  BY <1>3, <1>4, Zenon DEF Preflight

(* reserve_pane_input asks only holders that have a proof, which no longer *)
(* dispatch.                                                               *)
LEMMA AskHoldersKeeps ==
  ASSUME InputInv, NEW c \in Calls, AskHolders(c)
  PROVE  InputInv'
<1>. DEFINE held == Holding(Identities(call[c].pre))
<1>1. SameRuns /\ UNCHANGED registry /\ call[c].pc = "reserve"
  BY CallShape DEF AskHolders, SameRuns
<1>2. call[c].token = 0 \/ RunsNowhere(call[c].token)
  BY <1>1, NotRunning
<1>3. CASE \E e \in held : ~e.proof
  <2>1. Onward(c) /\ call'[c].pc = "release" /\ call'[c].token = call[c].token
    BY <1>1, <1>3, CallShape DEF AskHolders, Fails, Onward, CallFields
  <2>. QED
    BY <1>1, <1>2, <2>1, EndingKeeps
<1>4. CASE ~\E e \in held : ~e.proof
  <2>1. /\ Onward(c) /\ call'[c].pc = "prove" /\ call'[c].token = call[c].token
        /\ call'[c].pre = call[c].pre /\ call'[c].held = held
    BY <1>1, <1>4, CallShape DEF AskHolders, Onward, CallFields
  <2>2. ASSUME NEW h \in held
        PROVE  Given(h.token) /\ Spent(h.token) /\ RunsOnlyAt(h.token, h.id)
    <3>1. h \in registry.active /\ h.proof
      BY <1>4 DEF Holding
    <3>. QED
      BY <3>1 DEF InputInv, TokenInv, HolderInv
  <2>. HIDE DEF held
  <2>3. ASSUME NEW h \in held
        PROVE  Given(h.token)' /\ Spent(h.token)' /\ RunsOnlyAt(h.token, h.id)'
    BY <2>1, <2>2, <1>1 DEF Given, Spent, RunsOnlyAt, Onward, SameRuns
  <2>4. CallOk(c) /\ call'[c].tool = call[c].tool /\ call'[c].pane = call[c].pane
    BY <2>1, CallShape, ZenonT(30) DEF Onward
  <2>5. CallOk(c)'
    BY <1>1, <1>2, <2>1, <2>3, <2>4 DEF CallOk, Runs, RunsNowhere, SameRuns
  <2>. QED
    BY <1>1, <2>1, <2>5, OnwardKeeps
<1>. QED
  BY <1>3, <1>4

(* What was proved of a run stays so: nothing runs under its token again. *)
LEMMA ProveKeeps ==
  ASSUME InputInv, NEW c \in Calls, Prove(c)
  PROVE  InputInv'
<1>1. SameRuns /\ UNCHANGED registry /\ call[c].pc = "prove"
  BY CallShape DEF Prove, SameRuns
<1>2. call[c].token = 0 \/ RunsNowhere(call[c].token)
  BY <1>1, NotRunning
<1>3. PICK proven \in SUBSET {e.token : e \in {h \in call[c].held : Provable(h)}} :
        call' = [call EXCEPT ![c].pc = "take", ![c].proven = proven, ![c].held = {}]
  BY Zenon DEF Prove
<1>4. /\ Onward(c) /\ call'[c].pc = "take" /\ call'[c].token = call[c].token
      /\ call'[c].pre = call[c].pre /\ call'[c].proven = proven
  BY <1>1, <1>3, CallShape DEF Onward, CallFields
<1>5. ASSUME NEW t \in proven
      PROVE  Given(t) /\ Spent(t) /\ RunsNowhere(t)
  <2>1. PICK h \in call[c].held : Provable(h) /\ t = h.token
    BY <1>3
  <2>2. Given(t) /\ Spent(t) /\ RunsOnlyAt(t, h.id)
    BY <1>1, <2>1, CallShape, Zenon DEF CallOk
  <2>3. ASSUME NEW p \in Panes, world.busy[p] = t PROVE FALSE
    <3>1. h.id[1] = world.gen /\ h.id[2] = p
      BY <2>2, <2>3 DEF RunsOnlyAt
    <3>2. t \notin world.marked /\ p \in Alive
      BY <2>2, <2>3 DEF InputInv, RunInv, Given
    <3>. QED
      BY <2>1, <3>1, <3>2 DEF Provable
  <2>. QED
    BY <2>2, <2>3 DEF RunsNowhere
<1>6. ASSUME NEW t \in proven
      PROVE  Given(t)' /\ Spent(t)' /\ RunsNowhere(t)'
  BY <1>1, <1>4, <1>5 DEF Given, Spent, RunsNowhere, Onward, SameRuns
<1>7. CallOk(c) /\ call'[c].tool = call[c].tool /\ call'[c].pane = call[c].pane
  BY <1>4, CallShape, ZenonT(30) DEF Onward
<1>8. CallOk(c)'
  BY <1>1, <1>2, <1>4, <1>6, <1>7 DEF CallOk, Runs, RunsNowhere, SameRuns
<1>. QED
  BY <1>1, <1>4, <1>8, OnwardKeeps

LEMMA StageKeeps ==
  ASSUME InputInv, NEW c \in Calls, Stage(c)
  PROVE  InputInv'
<1>1. UNCHANGED registry /\ call[c].pc = "stage"
  BY Zenon DEF Stage
<1>2. call[c].token = 0 \/ RunsNowhere(call[c].token)
  BY <1>1, NotRunning
<1>3. /\ SameRuns /\ Onward(c) /\ call'[c].token = call[c].token /\ call'[c].pre = call[c].pre
      /\ call'[c].pc \in {"release", "cleanup", "note"}
  <2>1. CASE \E failed : call' = [call EXCEPT ![c].pc = "release", ![c].failed = failed] /\ UNCHANGED world
    BY <1>1, <2>1, CallShape DEF SameRuns, Onward, CallFields
  <2>2. CASE \E failed, buffers, pc :
               /\ world' = [world EXCEPT !.buffers = buffers]
               /\ call' = [call EXCEPT ![c].pc = pc, ![c].failed = failed, ![c].buffer = "staged"]
               /\ pc \in {"cleanup", "note"}
    BY <1>1, <2>2, CallShape DEF SameRuns, Onward, CallFields, WorldFields
  <2>. QED
    BY <2>1, <2>2, Zenon DEF Stage
<1>4. CASE call'[c].pc \in {"release", "cleanup"}
  BY <1>1, <1>2, <1>3, <1>4, EndingKeeps
<1>5. CASE call'[c].pc = "note"
  <2>1. CallOk(c)'
    <3>1. CallOk(c) /\ call'[c].tool = call[c].tool /\ call'[c].pane = call[c].pane
      BY <1>3, CallShape DEF Onward
    <3>. QED
      BY <1>1, <1>2, <1>3, <1>5, <3>1 DEF CallOk, Runs, RunsNowhere, SameRuns
  <2>. QED
    BY <1>1, <1>3, <2>1, OnwardKeeps, ZenonT(30)
<1>. QED
  BY <1>3, <1>4, <1>5

(* The lease covers the pane a run is about to be typed into. *)
LEMMA NoteKeeps ==
  ASSUME InputInv, NEW c \in Calls, Note(c)
  PROVE  InputInv'
<1>. DEFINE route == Route(c)
<1>1. SameRuns /\ UNCHANGED registry /\ call[c].pc = "note"
  BY CallShape DEF Note, SameRuns
<1>2. call[c].token = 0 \/ RunsNowhere(call[c].token)
  BY <1>1, NotRunning
<1>3. CASE call' = AfterRefusal(c)
  <2>1. /\ Onward(c) /\ call'[c].pc \in {"release", "cleanup"} /\ call'[c].token = call[c].token
    BY <1>1, <1>3, CallShape DEF AfterRefusal, Onward, CallFields
  <2>. QED
    BY <1>1, <1>2, <2>1, EndingKeeps
<1>4. CASE /\ ~Refused(c) /\ SameRoute(c, route) /\ Covers(c, route)
           /\ \E prev : call' = [call EXCEPT ![c].pc = "dispatch", ![c].final = route, ![c].prev = prev]
  <2>1. /\ Onward(c) /\ call'[c].pc = "dispatch" /\ call'[c].token = call[c].token
        /\ call'[c].pre = call[c].pre /\ call'[c].final = route
    BY <1>1, <1>4, CallShape DEF Onward, CallFields
  <2>2. route.gen = world.gen /\ route.gen = call[c].pre.gen
    BY <1>4 DEF SameRoute, Route
  <2>3. ASSUME Runs(c)
        PROVE  {e.id : e \in Mine(c)} = {<<world.gen, call[c].pane>>}
    <3>1. route.panes = {call[c].pane}
      BY <1>4, <2>3 DEF Refused, Runs, Route
    <3>. QED
      BY <1>4, <2>2, <3>1 DEF Covers, Identities
  <2>4. ASSUME Runs(c)
        PROVE  /\ \E e \in registry.active : e.token = call[c].token
               /\ \A e \in registry.active : e.token = call[c].token => e.id = <<world.gen, call[c].pane>>
    BY <2>3, <2>4, Zenon DEF Mine
  <2>5. CallOk(c) /\ call'[c].tool = call[c].tool /\ call'[c].pane = call[c].pane
    BY <2>1, CallShape, ZenonT(30) DEF Onward
  <2>. HIDE DEF route
  <2>6. CallOk(c)'
    BY <1>1, <1>2, <2>1, <2>2, <2>4, <2>5 DEF CallOk, Runs, RunsNowhere, SameRuns
  <2>. QED
    BY <1>1, <2>1, <2>6, OnwardKeeps
<1>. QED
  BY <1>3, <1>4, Zenon DEF Note

LEMMA PruneSameRuns ==
  ASSUME InputInv, NEW c \in Calls, Prune(c)
  PROVE  SameRuns
BY CallShape DEF Prune, SameRuns, WorldFields

LEMMA CommitKeeps ==
  ASSUME InputInv, NEW c \in Calls, Commit(c)
  PROVE  InputInv'
<1>1. UNCHANGED registry /\ call[c].pc = "commit"
  BY DEF Commit
<1>2. SameRuns
  BY PruneSameRuns, CallShape DEF Commit, SameRuns
<1>3. /\ Onward(c) /\ call'[c].token = call[c].token /\ call'[c].pre = call[c].pre
      /\ call'[c].pc \in (IF Runs(c) THEN {"running", "retain"} ELSE {"cleanup", "release"})
  <2>1. PICK pc \in (IF Runs(c) THEN {"running", "retain"} ELSE {"cleanup", "release"}) :
          call' = [call EXCEPT ![c].pc = pc]
    <3>. DEFINE pc == CASE Kind(c) = "run" -> IF call[c].failed THEN "retain" ELSE "running"
                        [] Kind(c) # "run" ->
                             IF call[c].buffer = "staged" THEN "cleanup" ELSE "release"
    <3>1. call' = [call EXCEPT ![c].pc = pc]
      BY DEF Commit
    <3>2. pc \in (IF Runs(c) THEN {"running", "retain"} ELSE {"cleanup", "release"})
      BY DEF Kind, Runs
    <3>. QED
      BY <3>1, <3>2, Zenon
  <2>. QED
    BY <1>1, <2>1, CallShape DEF Onward, CallFields
<1>4. CASE Runs(c)
  <2>1. CallOk(c) /\ call'[c].tool = call[c].tool /\ call'[c].pane = call[c].pane
    BY <1>3, CallShape, ZenonT(30) DEF Onward
  <2>2. CallOk(c)'
    BY <1>1, <1>2, <1>3, <1>4, <2>1, ZenonT(30) DEF CallOk, Runs, RunsOnlyAt, SameRuns
  <2>. QED
    BY <1>1, <1>2, <1>3, <2>2, OnwardKeeps
<1>5. CASE ~Runs(c)
  BY <1>1, <1>2, <1>3, <1>5, NotRunning, EndingKeeps
<1>. QED
  BY <1>4, <1>5

LEMMA CleanupKeeps ==
  ASSUME InputInv, NEW c \in Calls, Cleanup(c) \/ PruneAfterPaste(c)
  PROVE  InputInv'
<1>1. UNCHANGED registry /\ call[c].pc \in {"cleanup", "prune"}
  BY DEF Cleanup, PruneAfterPaste
<1>2. SameRuns
  BY PruneSameRuns, CallShape, Zenon DEF Cleanup, PruneAfterPaste, SameRuns, WorldFields
<1>3. Onward(c) /\ call'[c].token = call[c].token /\ call'[c].pc \in {"release", "prune"}
  <2>1. CASE Cleanup(c)
    <3>1. PICK pc, buffer : /\ call' = [call EXCEPT ![c].pc = pc, ![c].buffer = buffer]
                            /\ pc = "prune" \/ pc = "release"
      BY <2>1, Zenon DEF Cleanup
    <3>. QED
      BY <1>1, <3>1, CallShape DEF Onward, CallFields
  <2>2. CASE PruneAfterPaste(c)
    BY <1>1, <2>2, CallShape DEF PruneAfterPaste, Onward, CallFields
  <2>. QED
    BY <2>1, <2>2
<1>. QED
  BY <1>1, <1>2, <1>3, NotRunning, EndingKeeps

LEMMA RunCompletesKeeps ==
  ASSUME InputInv, NEW c \in Calls, RunCompletes(c)
  PROVE  InputInv'
<1>1. SameRuns /\ UNCHANGED registry
  BY CallShape DEF RunCompletes, SameRuns
<1>2. Onward(c) /\ call'[c].token = call[c].token /\ call'[c].pc = "release"
  BY CallShape DEF RunCompletes, Onward, CallFields
<1>3. RunsNowhere(call[c].token)
  BY DEF RunCompletes, RunsNowhere, InputInv, RunInv
<1>. QED
  BY <1>1, <1>2, <1>3, EndingKeeps

(* The call gives up on its run, which goes on. *)
LEMMA GivingUpKeeps ==
  ASSUME InputInv, NEW c \in Calls, RunAbandoned(c) \/ WatchersGiveUp(c)
  PROVE  InputInv'
<1>1. SameRuns /\ UNCHANGED registry /\ call[c].pc \in {"running", "watched"}
  BY CallShape DEF RunAbandoned, WatchersGiveUp, SameRuns
<1>2. /\ Onward(c) /\ call'[c].token = call[c].token
      /\ call'[c].pc = "done" \/ (call'[c].pc = "retain" /\ call'[c].pre = call[c].pre)
  <2>1. CASE RunAbandoned(c)
    BY <2>1, CallShape DEF RunAbandoned, Onward, CallFields
  <2>2. CASE WatchersGiveUp(c)
    BY <2>2, CallShape DEF WatchersGiveUp, Over, Onward, CallFields
  <2>. QED
    BY <2>1, <2>2
<1>3. CallOk(c) /\ call'[c].tool = call[c].tool /\ call'[c].pane = call[c].pane
  BY <1>2, CallShape, ZenonT(30) DEF Onward
<1>4. CallOk(c)'
  BY <1>1, <1>2, <1>3, ZenonT(30) DEF CallOk, Runs, RunsOnlyAt, SameRuns
<1>. QED
  BY <1>1, <1>2, <1>4, OnwardKeeps
-----------------------------------------------------------------------------
(* A call that changes the registry leaves the others as they are. *)
LEMMA OthersOk ==
  ASSUME InputInv, NEW c \in Calls, SameRuns,
         \A d \in Calls : d # c => call'[d] = call[d],
         \A t : Given(t) => Given(t)' /\ (Spent(t) => Spent(t)'),
         \A d \in Calls : d # c /\ call[d].pc = "dispatch" =>
           /\ \A e \in registry.active : e.token = call[d].token =>
                \E f \in registry'.active : f.token = e.token
           /\ \A f \in registry'.active : f.token = call[d].token =>
                \E e \in registry.active : e.token = f.token /\ e.id = f.id,
         NEW d \in Calls, d # c
  PROVE  CallOk(d)'
<1>1. CallOk(d) /\ call'[d] = call[d] /\ world'.marked = world.marked
  BY CallShape DEF SameRuns
<1>2. \A t : /\ RunsNowhere(t)' <=> RunsNowhere(t)
             /\ \A id : RunsOnlyAt(t, id)' <=> RunsOnlyAt(t, id)
  BY DEF RunsNowhere, RunsOnlyAt, SameRuns
<1>3. call[d].pc = "prove" => \A h \in call[d].held :
        Given(h.token)' /\ Spent(h.token)' /\ RunsOnlyAt(h.token, h.id)'
  BY <1>1, <1>2 DEF CallOk
<1>4. call[d].pc = "take" => \A t \in call[d].proven : Given(t)' /\ Spent(t)' /\ RunsNowhere(t)'
  BY <1>1, <1>2, ZenonT(30) DEF CallOk
<1>5. Runs(d) /\ call[d].pc = "dispatch" =>
        /\ \E e \in registry'.active : e.token = call[d].token
        /\ \A e \in registry'.active : e.token = call[d].token =>
             e.id = <<call[d].pre.gen, call[d].pane>>
  BY <1>1 DEF CallOk
<1>. QED
  BY <1>1, <1>2, <1>3, <1>4, <1>5 DEF CallOk, Runs

(* ~PaneInputLease, and a watcher that has its proof: nothing runs under   *)
(* the token that is given back.                                           *)
LEMMA ReleaseKeeps ==
  ASSUME InputInv, NEW c \in Calls, Onward(c), SameRuns, registry' = Release(c),
         call[c].token = 0 \/ RunsNowhere(call[c].token),
         call'[c].token \in {0, call[c].token}, CallOk(c)'
  PROVE  InputInv'
<1>1. /\ DOMAIN registry' = {"active", "next"} /\ registry'.next = registry.next
      /\ registry'.active = {e \in registry.active : e.token # call[c].token}
  BY DEF InputInv, Shaped, Release, Mine
<1>2. \A t : Given(t)' <=> Given(t)
  BY <1>1 DEF Given
<1>3. \A t : Given(t) /\ Spent(t) => Spent(t)'
  BY DEF Spent, Onward, Given
<1>4. \A t, id : RunsOnlyAt(t, id)' <=> RunsOnlyAt(t, id)
  BY DEF RunsOnlyAt, SameRuns
<1>5. Shaped'
  BY <1>1, ZenonT(30) DEF InputInv, Shaped, Onward, SameRuns
<1>6. TokenInv'
  BY <1>1, <1>2 DEF InputInv, TokenInv, Onward, SameRuns
<1>7. RunInv'
  <2>1. /\ Alive' = Alive /\ world'.gen = world.gen /\ world'.marked = world.marked
        /\ \A p \in Panes : world'.busy[p] = world.busy[p]
    BY DEF SameRuns, Alive
  <2>2. \A p \in Panes : world.busy[p] # 0 =>
          \E e \in registry'.active : e.id = <<world.gen, p>> /\ e.token = world.busy[p]
    BY <1>1, ZenonT(30) DEF InputInv, RunInv, RunsNowhere
  <2>. QED
    BY <2>1, <2>2, ZenonT(30) DEF InputInv, RunInv
<1>8. HolderInv'
  BY <1>1, <1>3, <1>4 DEF InputInv, HolderInv, TokenInv
<1>9. ASSUME NEW d \in Calls, d # c PROVE CallOk(d)'
  <2>1. \A x \in Calls : x # c /\ call[x].pc = "dispatch" => call[x].token # call[c].token
    BY Zenon DEF InputInv, CallOk, TokenInv
  <2>2. \A x \in Calls : x # c => call'[x] = call[x]
    BY DEF Onward
  <2>3. \A t : Given(t) => Given(t)' /\ (Spent(t) => Spent(t)')
    BY <1>2, <1>3
  <2>4. \A x \in Calls : x # c /\ call[x].pc = "dispatch" =>
          /\ \A e \in registry.active : e.token = call[x].token =>
               \E f \in registry'.active : f.token = e.token
          /\ \A f \in registry'.active : f.token = call[x].token =>
               \E e \in registry.active : e.token = f.token /\ e.id = f.id
    BY <1>1, <2>1
  <2>. QED
    BY <1>9, <2>2, <2>3, <2>4, OthersOk
<1>. QED
  BY <1>5, <1>6, <1>7, <1>8, <1>9 DEF InputInv

LEMMA LeaveKeeps ==
  ASSUME InputInv, NEW c \in Calls, Leave(c)
  PROVE  InputInv'
<1>1. SameRuns /\ registry' = Release(c) /\ call[c].pc = "release"
  BY CallShape DEF Leave, SameRuns
<1>2. call[c].token = 0 \/ RunsNowhere(call[c].token)
  BY <1>1, NotRunning
<1>3. /\ Onward(c)
      /\ \/ call'[c].pc = "done" /\ call'[c].token = call[c].token
         \/ call'[c].pc = "preflight" /\ call'[c].token = 0
  <2>1. CASE call' = Over(c)
    BY <1>1, <2>1, CallShape DEF Over, Onward, CallFields
  <2>2. CASE call' = [call EXCEPT ![c] = [@ EXCEPT !.pc = "preflight", !.pre = None, !.token = 0,
                        !.prev = None, !.final = None, !.failed = FALSE, !.ops = @ + 1]]
    BY <1>1, <2>2, CallShape DEF Onward, CallFields
  <2>. QED
    BY <2>1, <2>2 DEF Leave
<1>4. CallOk(c)'
  BY <1>1, <1>2, <1>3 DEF CallOk, RunsNowhere, SameRuns
<1>. QED
  BY <1>1, <1>2, <1>3, <1>4, ReleaseKeeps

LEMMA WatcherProvesKeeps ==
  ASSUME InputInv, NEW c \in Calls, WatcherProves(c)
  PROVE  InputInv'
<1>1. SameRuns /\ registry' = Release(c) /\ call[c].pc = "watched" /\ CallOk(c)
  BY CallShape DEF WatcherProves, SameRuns
<1>2. Onward(c) /\ call'[c].pc = "done" /\ call'[c].token = call[c].token
  BY <1>1, CallShape DEF WatcherProves, Over, Onward, CallFields
<1>3. call[c].token = 0 \/ RunsNowhere(call[c].token)
  <2>. SUFFICES ASSUME call[c].token # 0, NEW q \in Panes, world.busy[q] = call[c].token
                PROVE  FALSE
    BY DEF RunsNowhere
  <2>1. call[c].pre.panes = {call[c].pane} /\ RunsOnlyAt(call[c].token, <<call[c].pre.gen, call[c].pane>>)
    BY <1>1 DEF CallOk
  <2>2. call[c].pre.gen = world.gen /\ call[c].pane = q
    BY <2>1, ZenonT(30) DEF RunsOnlyAt
  <2>3. Provable([id |-> <<world.gen, q>>, token |-> call[c].token])
    BY <2>1, <2>2 DEF WatcherProves
  <2>4. call[c].token \notin world.marked /\ q \in Alive
    BY ZenonT(30) DEF InputInv, RunInv
  <2>. QED
    BY <2>3, <2>4 DEF Provable
<1>4. CallOk(c)'
  BY <1>1, <1>2, <1>3 DEF CallOk, RunsNowhere, SameRuns
<1>. QED
  BY <1>1, <1>2, <1>3, <1>4, ReleaseKeeps

(* The reservation of a run that outlives its call gets its proof. *)
LEMMA RetainKeeps ==
  ASSUME InputInv, NEW c \in Calls, Retain(c)
  PROVE  InputInv'
<1>. DEFINE Kept(e) == IF e \in Mine(c) THEN [e EXCEPT !.proof = TRUE] ELSE e
<1>1. SameRuns /\ call[c].pc = "retain" /\ CallOk(c)
  BY CallShape DEF Retain, SameRuns
<1>2. /\ Onward(c) /\ call'[c].pc = "watched" /\ call'[c].token = call[c].token
      /\ call'[c].pre = call[c].pre
  BY <1>1, CallShape DEF Retain, Onward, CallFields
<1>3. /\ DOMAIN registry' = {"active", "next"} /\ registry'.next = registry.next
      /\ registry'.active = {Kept(e) : e \in registry.active}
  BY DEF Retain, InputInv, Shaped
<1>4. \A e \in registry.active :
        /\ DOMAIN Kept(e) = {"id", "token", "kind", "proof"}
        /\ Kept(e).id = e.id /\ Kept(e).token = e.token
        /\ e.token # call[c].token => Kept(e) = e
  BY DEF InputInv, Shaped, Mine
<1>. HIDE DEF Kept
<1>5. \A f \in registry'.active : \E e \in registry.active :
        /\ DOMAIN f = {"id", "token", "kind", "proof"} /\ f.id = e.id /\ f.token = e.token
        /\ e.token # call[c].token => f = e
  BY <1>3, <1>4
<1>6. \A e \in registry.active : \E f \in registry'.active : f.id = e.id /\ f.token = e.token
  BY <1>3, <1>4
<1>7. \A t : Given(t) => Given(t)' /\ (Spent(t) => Spent(t)')
  BY <1>2, <1>3 DEF Spent, Onward, Given
<1>8. \A t, id : RunsOnlyAt(t, id)' <=> RunsOnlyAt(t, id)
  BY <1>1 DEF RunsOnlyAt, SameRuns
<1>9. Shaped'
  BY <1>1, <1>2, <1>3, <1>5, ZenonT(30) DEF InputInv, Shaped, Onward, SameRuns
<1>10. TokenInv'
  BY <1>1, <1>2, <1>3, <1>5, <1>7 DEF InputInv, TokenInv, Onward, SameRuns
<1>11. RunInv'
  <2>1. /\ Alive' = Alive /\ world'.gen = world.gen /\ world'.marked = world.marked
        /\ \A p \in Panes : world'.busy[p] = world.busy[p]
    BY <1>1 DEF SameRuns, Alive
  <2>2. \A p \in Panes : world.busy[p] # 0 =>
          \E e \in registry'.active : e.id = <<world.gen, p>> /\ e.token = world.busy[p]
    BY <1>6, SMTT(30), ZenonT(20), SMTT(60) DEF InputInv, RunInv
  <2>. QED
    BY <2>1, <2>2, ZenonT(30) DEF InputInv, RunInv
<1>12. \A t : t = call[c].token /\ Given(t) => Spent(t)'
  BY <1>2 DEF InputInv, TokenInv, Spent, Onward, Given
<1>13. HolderInv'
  <2>1. \A e, f \in registry'.active : e.id = f.id => e.token = f.token
    BY <1>5 DEF InputInv, HolderInv
  <2>2. \A e \in registry'.active : RunsOnlyAt(e.token, e.id)'
    BY <1>5, <1>8 DEF InputInv, HolderInv
  <2>3. ASSUME NEW f \in registry'.active, f.proof PROVE Spent(f.token)'
    <3>1. PICK e \in registry.active : f.token = e.token /\ (e.token # call[c].token => f = e)
      BY <1>5
    <3>2. Given(e.token)
      BY DEF InputInv, TokenInv
    <3>3. CASE e.token = call[c].token
      BY <1>12, <3>1, <3>2, <3>3, ZenonT(30)
    <3>4. CASE e.token # call[c].token
      BY <1>7, <2>3, <3>1, <3>2, <3>4 DEF InputInv, HolderInv
    <3>. QED
      BY <3>3, <3>4
  <2>. QED
    BY <2>1, <2>2, <2>3 DEF HolderInv
<1>14. ASSUME NEW d \in Calls, d # c PROVE CallOk(d)'
  <2>1. \A x \in Calls : x # c => call'[x] = call[x]
    BY <1>2 DEF Onward
  <2>2. \A x \in Calls : x # c /\ call[x].pc = "dispatch" =>
          /\ \A e \in registry.active : e.token = call[x].token =>
               \E f \in registry'.active : f.token = e.token
          /\ \A f \in registry'.active : f.token = call[x].token =>
               \E e \in registry.active : e.token = f.token /\ e.id = f.id
    BY <1>5, <1>6, ZenonT(30)
  <2>. QED
    BY <1>1, <1>7, <1>14, <2>1, <2>2, OthersOk
<1>15. CallOk(c)'
  <2>1. call'[c].tool = call[c].tool /\ call'[c].pane = call[c].pane
    BY <1>2 DEF Onward
  <2>. QED
    BY <1>1, <1>2, <1>8, <2>1 DEF CallOk, Runs
<1>. QED
  BY <1>9, <1>10, <1>11, <1>13, <1>14, <1>15 DEF InputInv

(* reserve_pane_input takes the panes under a new token, or only drops the *)
(* reservations that were proved to have ended.                            *)
LEMMA TakeKeeps ==
  ASSUME InputInv, NEW c \in Calls, Take(c)
  PROVE  InputInv'
<1>. DEFINE left == {e \in registry.active : e.token \notin call[c].proven}
            ids == Identities(call[c].pre)
            token == registry.next + 1
            taken == {[id |-> i, token |-> token, kind |-> Kind(c), proof |-> FALSE] : i \in ids}
<1>1. SameRuns /\ call[c].pc = "take" /\ CallOk(c)
  BY CallShape DEF Take, SameRuns
<1>2. \A t \in call[c].proven : Given(t) /\ Spent(t) /\ RunsNowhere(t)
  BY <1>1 DEF CallOk
<1>3. /\ token \in Nat /\ token # 0 /\ ~Given(token) /\ RunsNowhere(token)
      /\ token \notin world.marked
  BY DEF InputInv, TokenInv, Given, RunsNowhere
<1>4. \A e \in taken :
        e.token = token /\ e.id \in ids /\ ~e.proof /\ DOMAIN e = {"id", "token", "kind", "proof"}
  OBVIOUS
<1>5. \A p \in Panes : world.busy[p] # 0 =>
        \E e \in left : e.id = <<world.gen, p>> /\ e.token = world.busy[p]
  BY <1>2 DEF InputInv, RunInv, RunsNowhere
<1>6. \A x \in Calls : x # c /\ call[x].pc = "dispatch" =>
        \A e \in registry.active : e.token = call[x].token => e \in left
  BY <1>2, ZenonT(30) DEF Spent
<1>7. /\ DOMAIN registry' = {"active", "next"} /\ Onward(c) /\ call'[c].pre = call[c].pre
      /\ \/ /\ registry'.active = left /\ registry'.next = registry.next
            /\ call'[c].pc = "release" /\ call'[c].token = call[c].token
         \/ /\ registry'.active = left \cup taken /\ registry'.next = token
            /\ \A e \in left : e.id \notin ids
            /\ call'[c].pc \in {"stage", "note"} /\ call'[c].token = token
  <2>1. CASE \E e \in left : e.id \in ids
    <3>1. registry' = [registry EXCEPT !.active = left] /\ call' = Fails(c)
      BY <2>1 DEF Take
    <3>. HIDE DEF left, ids
    <3>. QED
      BY <1>1, <3>1, CallShape DEF InputInv, Shaped, Fails, Onward, CallFields
  <2>2. CASE ~\E e \in left : e.id \in ids
    <3>1. /\ registry' = [active |-> left \cup taken, next |-> token]
          /\ call' = [call EXCEPT ![c].token = token, ![c].proven = {},
                        ![c].pc = IF call[c].tool = "paste_text" THEN "stage" ELSE "note"]
      BY <2>2 DEF Take
    <3>. HIDE DEF left, ids, taken, token
    <3>. QED
      BY <1>1, <2>2, <3>1, CallShape DEF Onward, CallFields
  <2>. QED
    BY <2>1, <2>2
<1>8. \A e \in left : e \in registry.active
  OBVIOUS
<1>9. token = registry.next + 1 /\ registry.next \in Nat
  BY DEF InputInv, TokenInv
<1>. HIDE DEF left, ids, taken, token
<1>10. \A t : Given(t) => Given(t)'
  BY <1>7, <1>9 DEF Given
<1>11. \A t : Given(t) /\ Spent(t) => Spent(t)'
  BY <1>1, <1>3, <1>7 DEF Spent, Onward
<1>12. \A t : RunsNowhere(t)' <=> RunsNowhere(t)
  BY <1>1 DEF RunsNowhere, SameRuns
<1>13. \A t, id : RunsOnlyAt(t, id)' <=> RunsOnlyAt(t, id)
  BY <1>1 DEF RunsOnlyAt, SameRuns
<1>14. Shaped'
  BY <1>1, <1>4, <1>7, <1>8 DEF InputInv, Shaped, Onward, SameRuns
<1>15. TokenInv'
  <2>1. registry'.next \in Nat /\ \A e \in registry'.active : Given(e.token)'
    BY <1>3, <1>4, <1>7, <1>8, <1>9, <1>10, SMTT(30), ZenonT(20), SMTT(60) DEF InputInv, TokenInv, Given
  <2>2. /\ \A d \in Calls : call'[d].token = 0 \/ Given(call[d].token)'
        /\ \A d, x \in Calls : call'[d].token = call'[x].token /\ call'[d].token # 0 => d = x
    BY <1>3, <1>7, <1>9, <1>10, SMTT(30), ZenonT(20), SMTT(60) DEF InputInv, TokenInv, Given, Onward
  <2>3. /\ \A p \in Panes : world'.busy[p] = 0 \/ Given(world.busy[p])'
        /\ \A t \in world'.marked : Given(t)'
    BY <1>1, <1>10 DEF InputInv, TokenInv, SameRuns
  <2>. QED
    BY <2>1, <2>2, <2>3, ZenonT(30) DEF TokenInv
<1>16. RunInv'
  <2>1. \A e \in left : e \in registry'.active
    BY <1>7
  <2>2. \A p \in Panes : world.busy[p] # 0 =>
          \E e \in registry'.active : e.id = <<world.gen, p>> /\ e.token = world.busy[p]
    BY <1>5, <2>1, ZenonT(30)
  <2>. QED
    BY <1>1, <2>2, ZenonT(30) DEF InputInv, RunInv, SameRuns, Alive
<1>17. HolderInv'
  <2>1. \A e, f \in registry'.active : e.id = f.id => e.token = f.token
    BY <1>4, <1>7, <1>8 DEF InputInv, HolderInv
  <2>2. \A e \in registry'.active : e.proof => Spent(e.token)'
    BY <1>4, <1>7, <1>8, <1>11 DEF InputInv, HolderInv, TokenInv
  <2>3. \A e \in taken : RunsOnlyAt(e.token, e.id)
    BY <1>3, <1>4 DEF RunsNowhere, RunsOnlyAt
  <2>4. \A e \in registry'.active : RunsOnlyAt(e.token, e.id)'
    BY <1>7, <1>8, <1>13, <2>3 DEF InputInv, HolderInv
  <2>. QED
    BY <2>1, <2>2, <2>4, ZenonT(30) DEF HolderInv
<1>18. ASSUME NEW d \in Calls, d # c PROVE CallOk(d)'
  <2>1. \A x \in Calls : x # c => call'[x] = call[x]
    BY <1>7 DEF Onward
  <2>2. \A x \in Calls : call[x].token # token
    BY <1>3 DEF InputInv, TokenInv
  <2>3. \A x \in Calls : x # c /\ call[x].pc = "dispatch" =>
          /\ \A e \in registry.active : e.token = call[x].token =>
               \E f \in registry'.active : f.token = e.token
          /\ \A f \in registry'.active : f.token = call[x].token =>
               \E e \in registry.active : e.token = f.token /\ e.id = f.id
    BY <1>4, <1>6, <1>7, <1>8, <2>2, ZenonT(30)
  <2>. QED
    BY <1>1, <1>10, <1>11, <1>18, <2>1, <2>3, OthersOk
<1>19. CallOk(c)'
  <2>1. /\ call'[c].tool = call[c].tool /\ call'[c].pane = call[c].pane
        /\ world'.marked = world.marked
    BY <1>1, <1>7 DEF Onward, SameRuns
  <2>2. call'[c].token = 0 \/ RunsNowhere(call[c].token)'
    BY <1>1, <1>3, <1>7, NotRunning, SMTT(30), ZenonT(20), SMTT(60) DEF RunsNowhere, SameRuns
  <2>. QED
    BY <1>1, <1>3, <1>7, <2>1, <2>2, ZenonT(30) DEF CallOk, Runs
<1>. QED
  BY <1>14, <1>15, <1>16, <1>17, <1>18, <1>19 DEF InputInv

(* The command line of a run starts in the pane that is reserved for it. *)
LEMMA RunStartsKeeps ==
  ASSUME InputInv, NEW c \in Calls, call[c].pc = "dispatch", Runs(c), call[c].pane \in Alive,
         world.gen = call[c].final.gen, world' = Delivered(c), UNCHANGED registry,
         Onward(c), call'[c].pc = "commit", call'[c].token = call[c].token,
         call'[c].pre = call[c].pre
  PROVE  InputInv'
<1>0. PICK P, T : P = call[c].pane /\ T = call[c].token
  OBVIOUS
<1>1. /\ DOMAIN world' = WorldFields /\ world'.gen = world.gen /\ world'.status = world.status
      /\ world'.marked = world.marked /\ DOMAIN world'.busy = Panes
      /\ P \in Panes /\ world'.busy[P] = T
      /\ \A p \in Panes : p # P => world'.busy[p] = world.busy[p]
  BY <1>0, SMTT(30), ZenonT(20), SMTT(60) DEF Delivered, Kind, Runs, InputInv, Shaped, WorldFields, Alive
<1>2. /\ T # 0 /\ T \notin world.marked /\ RunsNowhere(T) /\ call[c].pre.panes = {P}
      /\ \E e \in registry.active : e.token = T
      /\ \A e \in registry.active : e.token = T => e.id = <<world.gen, P>>
      /\ call[c].pre.gen = world.gen
  BY <1>0, Zenon DEF InputInv, CallOk
<1>3. call'[c].tool = call[c].tool /\ call'[c].pane = P /\ call'[c].token = T /\ Given(T) /\ P \in Alive
  BY <1>0, <1>2, ZenonT(30) DEF InputInv, TokenInv, Onward
<1>4. \A t : (Given(t)' <=> Given(t)) /\ (Spent(t) => Spent(t)')
  BY DEF Given, Spent, Onward
<1>5. \A t : t # T => /\ RunsNowhere(t) => RunsNowhere(t)'
                      /\ \A id : RunsOnlyAt(t, id) => RunsOnlyAt(t, id)'
  BY <1>1 DEF RunsNowhere, RunsOnlyAt
<1>6. RunsOnlyAt(T, <<world.gen, P>>)'
  <2>1. \A p \in Panes : world'.busy[p] = T => p = P
    BY <1>1, <1>2 DEF RunsNowhere
  <2>. QED
    BY <1>1, <2>1, ZenonT(30) DEF RunsOnlyAt
<1>7. Shaped'
  BY <1>1, ZenonT(30) DEF InputInv, Shaped, Onward
<1>8. TokenInv'
  <2>1. \A d \in Calls : call'[d].token = call[d].token
    BY <1>0, <1>3, ZenonT(30) DEF Onward
  <2>2. \A p \in Panes : world'.busy[p] = 0 \/ Given(world'.busy[p])
    BY <1>1, <1>3 DEF InputInv, TokenInv
  <2>. QED
    BY <1>1, <1>4, <2>1, <2>2 DEF InputInv, TokenInv, Given
<1>9. RunInv'
  <2>1. Alive' = Alive
    BY <1>1 DEF Alive
  <2>2. \E e \in registry.active : e.id = <<world.gen, P>> /\ e.token = T
    BY <1>2, ZenonT(30)
  <2>. QED
    <3>1. \A p \in Panes : p \notin Alive' => world'.busy[p] = 0
      BY <1>1, <1>3, <2>1, ZenonT(30) DEF InputInv, RunInv
    <3>2. \A p \in Panes : world'.busy[p] \notin world'.marked
      BY <1>1, <1>2, SMTT(30), ZenonT(20), SMTT(60) DEF InputInv, RunInv
    <3>3. \A p \in Panes : world'.busy[p] # 0 =>
            \E e \in registry'.active : e.id = <<world'.gen, p>> /\ e.token = world'.busy[p]
      <4>1. \A p \in Panes : world.busy[p] # 0 =>
              \E e \in registry.active : e.id = <<world.gen, p>> /\ e.token = world.busy[p]
        BY DEF InputInv, RunInv
      <4>2. world'.gen = world.gen /\ registry' = registry /\ world'.busy[P] = T
        BY <1>1
      <4>3. \A p \in Panes : p # P => world'.busy[p] = world.busy[p]
        BY <1>1
      <4>. QED
        BY <2>2, <4>1, <4>2, <4>3
    <3>. QED
      BY <3>1, <3>2, <3>3, ZenonT(30) DEF RunInv
<1>10. HolderInv'
  <2>1. ASSUME NEW e \in registry.active PROVE RunsOnlyAt(e.token, e.id)'
    <3>1. \A p \in Panes : world'.busy[p] = T => p = P
      BY <1>1, <1>2, ZenonT(30) DEF RunsNowhere
    <3>2. CASE e.token = T
      BY <1>1, <1>2, <3>1, <3>2 DEF RunsOnlyAt
    <3>3. CASE e.token # T
      BY <1>5, <3>3, ZenonT(30) DEF InputInv, HolderInv
    <3>. QED
      BY <3>2, <3>3, ZenonT(30)
  <2>. QED
    BY <1>4, <2>1, ZenonT(30) DEF InputInv, HolderInv
<1>11. ASSUME NEW d \in Calls, d # c PROVE CallOk(d)'
  <2>1. CallOk(d) /\ call'[d] = call[d] /\ registry' = registry /\ world'.marked = world.marked
    BY <1>1, <1>11, CallShape, ZenonT(30) DEF Onward
  <2>2. call[d].token # T
    BY <1>0, <1>2, <1>11 DEF InputInv, TokenInv
  <2>3. ~Spent(T)
    BY <1>0, SMTT(30), ZenonT(20), SMTT(60) DEF Spent
  <2>4. call[d].pc = "prove" => \A h \in call[d].held :
          Given(h.token)' /\ Spent(h.token)' /\ RunsOnlyAt(h.token, h.id)'
    BY <1>4, <1>5, <2>1, <2>3, ZenonT(30) DEF CallOk
  <2>5. call[d].pc = "take" => \A t \in call[d].proven : Given(t)' /\ Spent(t)' /\ RunsNowhere(t)'
    BY <1>4, <1>5, <2>1, <2>3, ZenonT(30) DEF CallOk
  <2>6. /\ RunsNowhere(call[d].token) => RunsNowhere(call[d].token)'
        /\ \A id : RunsOnlyAt(call[d].token, id) => RunsOnlyAt(call[d].token, id)'
    <3>1. PICK u : u = call[d].token
      OBVIOUS
    <3>2. u = call'[d].token /\ u # T
      BY <2>1, <2>2, <3>1
    <3>3. /\ RunsNowhere(u) => RunsNowhere(u)'
          /\ \A id : RunsOnlyAt(u, id) => RunsOnlyAt(u, id)'
      BY <1>5, <3>2, ZenonT(30)
    <3>. QED
      BY <3>1, <3>2, <3>3 DEF RunsNowhere, RunsOnlyAt
  <2>7. RunsOnlyAt(call[d].token, <<call[d].pre.gen, call[d].pane>>) =>
          RunsOnlyAt(call[d].token, <<call[d].pre.gen, call[d].pane>>)'
    BY <1>1, <2>1, <2>2, ZenonT(30) DEF RunsOnlyAt
  <2>. QED
    BY <2>1, <2>4, <2>5, <2>6, <2>7, ZenonT(30) DEF CallOk, Runs
<1>12. CallOk(c)'
  <2>1. RunsOnlyAt(call[c].token, <<call[c].pre.gen, call[c].pane>>)'
    BY <1>0, <1>1, <1>2, <1>3, <1>6 DEF RunsOnlyAt
  <2>. QED
    BY <1>0, <1>2, <1>3, <2>1, ZenonT(30) DEF CallOk, Runs
<1>. QED
  BY <1>7, <1>8, <1>9, <1>10, <1>11, <1>12, ZenonT(30) DEF InputInv

LEMMA DispatchKeeps ==
  ASSUME InputInv, NEW c \in Calls, Dispatch(c)
  PROVE  InputInv'
<1>1. UNCHANGED registry /\ call[c].pc = "dispatch" /\ CallOk(c)
  BY CallShape, ZenonT(30) DEF Dispatch
<1>2. call[c].token # 0 /\ RunsNowhere(call[c].token)
  BY <1>1 DEF CallOk
<1>3. CASE call' = AfterRefusal(c) /\ world' = [world EXCEPT !.unsent = @ \cup {call[c].token}]
  <2>1. Onward(c) /\ call'[c].pc \in {"release", "cleanup"} /\ call'[c].token = call[c].token
    BY <1>1, <1>3, CallShape DEF AfterRefusal, Onward, CallFields
  <2>2. SameRuns
    BY <1>3, CallShape DEF SameRuns, WorldFields
  <2>. QED
    BY <1>1, <1>2, <2>1, <2>2, EndingKeeps
<1>4. CASE /\ \E failed : call' = Answer(c, failed)
           /\ UNCHANGED world \/ (world.gen = call[c].final.gen /\ world' = Delivered(c))
  <2>1. /\ Onward(c) /\ call'[c].pc = "commit" /\ call'[c].token = call[c].token
        /\ call'[c].pre = call[c].pre
    BY <1>1, <1>4, CallShape DEF Answer, Onward, CallFields
  <2>2. call'[c].tool = call[c].tool /\ call'[c].pane = call[c].pane
    BY <2>1 DEF Onward
  <2>3. ASSUME SameRuns PROVE InputInv'
    <3>1. CallOk(c)'
      BY <1>1, <1>2, <2>1, <2>2, <2>3 DEF CallOk, Runs, RunsNowhere, RunsOnlyAt, SameRuns
    <3>. QED
      BY <1>1, <2>1, <2>3, <3>1, OnwardKeeps, ZenonT(30)
  <2>4. CASE UNCHANGED world
    BY <2>3, <2>4, CallShape DEF SameRuns
  <2>5. CASE world.gen = call[c].final.gen /\ world' = Delivered(c)
    <3>1. CASE Runs(c) /\ call[c].pane \in Alive
      BY <1>1, <2>1, <2>5, <3>1, RunStartsKeeps
    <3>2. CASE ~(Runs(c) /\ call[c].pane \in Alive)
      <4>1. /\ DOMAIN world'.busy = Panes /\ DOMAIN world.busy = Panes
            /\ \A p \in Panes : world'.busy[p] = world.busy[p]
        BY <2>5, <3>2, CallShape DEF Delivered, Kind, Runs, WorldFields, InputInv, Shaped
      <4>2. SameRuns
        BY <2>5, <4>1, CallShape DEF Delivered, SameRuns, WorldFields
      <4>. QED
        BY <2>3, <4>2
    <3>. QED
      BY <3>1, <3>2
  <2>. QED
    BY <1>4, <2>4, <2>5
<1>. QED
  BY <1>3, <1>4, Zenon DEF Dispatch
-----------------------------------------------------------------------------
LEMMA InputStep == InputInv /\ [InputNext]_inputVars => InputInv'
<1>. SUFFICES ASSUME InputInv, [InputNext]_inputVars PROVE InputInv'
  OBVIOUS
<1>1. CASE Outside
  BY <1>1, OutsideKeeps
<1>2. ASSUME NEW c \in Calls, CallStep(c) PROVE InputInv'
  <2>1. CASE Preflight(c)
    BY <2>1, PreflightKeeps
  <2>2. CASE AskHolders(c)
    BY <2>2, AskHoldersKeeps
  <2>3. CASE Prove(c)
    BY <2>3, ProveKeeps
  <2>4. CASE Take(c)
    BY <2>4, TakeKeeps
  <2>5. CASE Stage(c)
    BY <2>5, StageKeeps
  <2>6. CASE Note(c)
    BY <2>6, NoteKeeps
  <2>7. CASE Dispatch(c)
    BY <2>7, DispatchKeeps
  <2>8. CASE Commit(c)
    BY <2>8, CommitKeeps
  <2>9. CASE Cleanup(c) \/ PruneAfterPaste(c)
    BY <2>9, CleanupKeeps
  <2>10. CASE RunCompletes(c)
    BY <2>10, RunCompletesKeeps
  <2>11. CASE RunAbandoned(c) \/ WatchersGiveUp(c)
    BY <2>11, GivingUpKeeps, SMTT(30), ZenonT(20), SMTT(60)
  <2>12. CASE Retain(c)
    BY <2>12, RetainKeeps
  <2>13. CASE WatcherProves(c)
    BY <2>13, WatcherProvesKeeps
  <2>14. CASE Leave(c)
    BY <2>14, LeaveKeeps
  <2>. QED
    BY <1>2, <2>1, <2>2, <2>3, <2>4, <2>5, <2>6, <2>7, <2>8, <2>9, <2>10, <2>11, <2>12, <2>13, <2>14
    DEF CallStep
<1>3. CASE UNCHANGED inputVars
  <2>1. UNCHANGED <<registry, call, world>>
    BY <1>3 DEF inputVars
  <2>. QED
    BY <2>1, WorldKeeps, ZenonT(30) DEF InputInv, Shaped, RunInv, Alive
<1>. QED
  BY <1>1, <1>2, <1>3 DEF InputNext

LEMMA InvHoldsPane == InputInv => RunHoldsPane
<1>. SUFFICES ASSUME InputInv, NEW p \in Panes, world.busy[p] # 0
              PROVE  {e.token : e \in Holding({<<world.gen, p>>})} = {world.busy[p]}
  BY ZenonT(30) DEF RunHoldsPane
<1>1. PICK e \in registry.active : e.id = <<world.gen, p>> /\ e.token = world.busy[p]
  BY SMTT(30), ZenonT(20), SMTT(60) DEF InputInv, RunInv
<1>2. \A f \in registry.active : f.id = <<world.gen, p>> => f.token = world.busy[p]
  BY <1>1 DEF InputInv, HolderInv
<1>. QED
  BY <1>1, <1>2, Zenon DEF Holding

(* As long as a command that run_shell_command started runs in the pane it *)
(* was sent to, that pane is reserved for it and for nobody else, whatever *)
(* the calls, the panes, their number and what happens in tmux meanwhile:  *)
(* a timeout, a cancelled call, watchers that give up, a second call that  *)
(* asks for the pane, a proof that was read before the lock was taken      *)
(* again, and a cohort that changes between the second preflight and the   *)
(* dispatch.                                                               *)
THEOREM RunAlwaysHoldsPane == InputSpec => []RunHoldsPane
<1>1. InputInit => InputInv
  BY InputStarts
<1>2. InputInv /\ [InputNext]_inputVars => InputInv'
  BY InputStep
<1>3. InputInv => RunHoldsPane
  BY InvHoldsPane
<1>. QED
  BY <1>1, <1>2, <1>3, PTL DEF InputSpec
=============================================================================
