--------------------------- MODULE WorkspaceLoad ---------------------------
(***************************************************************************)
(* `tmux-workspace load`: the documents of one invocation are built one    *)
(* after the other on a tmux server that other clients also use.  The load *)
(* may have to start the server (through a bootstrap session of its own),  *)
(* may append to the session it was started in, may find a session already *)
(* running, and may be told to stop by SIGINT or SIGTERM at any time.  A   *)
(* signal sent to the whole process group also kills the tmux child the    *)
(* load is waiting for.                                                    *)
(*                                                                         *)
(* A build is a program: the sequence of tmux calls build_windows makes.   *)
(* What a call reads or types is left out.  What stays is what it does to  *)
(* the session's windows and settings and to the server's options, whether *)
(* the observer is asked before it, and what its failure does.             *)
(***************************************************************************)
EXTENDS Naturals, Sequences, FiniteSets, SequencesExt, TLC

CONSTANTS
  None,
  Plans,        \* the documents: [name, windows (names, "" unnamed), script]
  Inherited,    \* the possible session tables when the command starts
  MaxFaults,    \* how many calls and sinks fail
  MaxOthers     \* how many steps other clients take

VARIABLES tmux, load

vars == <<tmux, load>>

(***************************************************************************)
(* tmux: a table of sessions, each with its name, its windows in index     *)
(* order and whether the load has set anything in it (environment, options *)
(* or the current window); `global` says the same of the server's options. *)
(* `mine`, `boot` and `left` are history: the sessions this load made, the *)
(* bootstrap session among them, and those left behind because the call    *)
(* that made them was not answered, because they were kept before the      *)
(* observer had their id, or because removing them failed.  `killed` holds *)
(* what other clients removed.                                             *)
(***************************************************************************)
Alive == DOMAIN tmux.sessions # {}
Live(id) == id \in DOMAIN tmux.sessions
Named(name) == {id \in DOMAIN tmux.sessions : tmux.sessions[id].name = name}

WithSession(name, windows) ==
  [tmux EXCEPT !.sessions = @ @@ (tmux.next :> [name |-> name, windows |-> windows, set |-> FALSE]),
               !.next = @ + 1, !.mine = @ \cup {tmux.next}]
WithoutSession(id) ==
  [tmux EXCEPT !.sessions = [other \in DOMAIN @ \ {id} |-> @[other]]]

(***************************************************************************)
(* One call to tmux: answered, or failed with or without having been       *)
(* applied, by itself or because a group-wide signal killed the child.     *)
(***************************************************************************)
Answers(target) ==
  {[ok |-> TRUE, did |-> TRUE, signal |-> load.signal, faults |-> load.faults] :
     reached \in {t \in {target} : t = None \/ Live(t)}}
  \cup {[ok |-> FALSE, did |-> did /\ (target = None \/ Live(target)), signal |-> signal,
         faults |-> load.faults + 1] :
          did \in BOOLEAN, signal \in {s \in BOOLEAN : load.signal => s}}

Answered(a) == a.faults <= MaxFaults \/ (~a.did /\ load.session # None /\ ~Live(load.session))

Charged(l, a) ==
  [l EXCEPT !.signal = a.signal,
            !.faults = IF a.faults > MaxFaults THEN MaxFaults ELSE a.faults]

(***************************************************************************)
(* The build program.  `asks` is the observer call before the step: "no",  *)
(* "waiting" (only looks for a signal) or "event" (also writes an event).  *)
(***************************************************************************)
Step(does, asks) == [does |-> does, asks |-> asks, name |-> ""]

WindowSteps(window, first, owned) ==
  <<[does |-> "new_window", asks |-> "waiting", name |-> window], Step("read", "no")>>
  \o (IF first /\ owned
      THEN <<Step("read", "no"), Step("kill_default", "no"), Step("read", "no"),
             Step("change", "no")>>
      ELSE <<>>)
  \o <<Step("change", "waiting"), Step("read", "no"), Step("change", "waiting"),
       Step("change", "no")>>

ReadySteps == <<Step("try", "waiting")>>
PauseSteps == <<Step("note", "waiting")>>

PaneSteps ==
  <<Step("note", "event"), Step("change", "no"), Step("note", "event")>>
  \o ReadySteps
  \o <<Step("change", "waiting"), Step("change", "no")>>
  \o PauseSteps
  \o <<Step("change", "no"), Step("note", "event"), Step("change", "no"),
       Step("change", "waiting"), Step("note", "event")>>

FocusSteps == <<Step("set", "waiting"), Step("note", "waiting")>>

SettingSteps(plan, owned) ==
  (IF owned THEN <<Step("read", "no")>> ELSE <<>>)
  \o (IF ~owned \/ plan.script THEN <<Step("set", "waiting")>> ELSE <<>>)
  \o <<Step("set_global", "waiting"), Step("try", "no"), Step("set", "waiting")>>

Program(plan, owned) ==
  <<Step("started", IF owned THEN "event" ELSE "waiting"), Step("note", "waiting")>>
  \o (IF plan.script THEN <<Step("script", "no")>> ELSE <<>>)
  \o SettingSteps(plan, owned)
  \o FlattenSeq([w \in 1..Len(plan.windows) |-> WindowSteps(plan.windows[w], w = 1, owned)])
  \o FlattenSeq([w \in 1..Len(plan.windows) |-> PaneSteps])
  \o FocusSteps

(***************************************************************************)
(* The load.  `session` is what is being built or appended to, `attempted` *)
(* the id the observer has recorded, `made` how many new windows answered, *)
(* `stop` why the build ended early.                                       *)
(***************************************************************************)
Idle == [pc |-> "start", inside |-> FALSE, appending |-> FALSE, interactive |-> FALSE,
         index |-> 1, session |-> None, borrowed |-> None, declined |-> None,
         attempted |-> None, made |-> 0, step |-> 1, stop |-> None, bootstrap |-> None,
         caller |-> None, results |-> <<>>, errors |-> {}, signal |-> FALSE, faults |-> 0,
         others |-> 0]

LoadInit ==
  /\ \E sessions \in Inherited :
       tmux = [sessions |-> sessions, next |-> Cardinality(DOMAIN sessions) + 1,
               global |-> FALSE, mine |-> {}, left |-> {}, boot |-> None,
               killed |-> {}, client |-> 1, moved |-> 0]
  /\ \E inside, appending, interactive \in BOOLEAN :
       /\ appending => ~interactive
       /\ inside => Alive
       /\ load = [Idle EXCEPT !.inside = inside, !.appending = appending,
                              !.interactive = interactive]

Plan == Plans[load.index]
LastInput == load.index = Len(Plans)

Error(code, retained, made) ==
  [code |-> code, input |-> load.index, retained |-> retained, made |-> made]

CleanupError == [code |-> "tmux_failed", input |-> None, retained |-> None, made |-> 0]

(***************************************************************************)
(* An exception outside a build: it is recorded and the loop is over.      *)
(***************************************************************************)
Caught(l, code, retained) ==
  [l EXCEPT !.errors = @ \cup {Error(code, retained, 0)}, !.pc = "cleanup"]

(***************************************************************************)
(* Every document is read and its layouts judged before anything changes,  *)
(* and the daemon's release is checked; any refusal ends the load.         *)
(***************************************************************************)
Prepare ==
  /\ load.pc = "start"
  /\ \/ load' = [load EXCEPT !.pc = "ask"]
     \/ load' = Caught(load, "refused", None)
  /\ UNCHANGED tmux

(***************************************************************************)
(* An interactive load asks about the last document's session when it is   *)
(* running, and what to do when it is not and the load is inside tmux.     *)
(***************************************************************************)
Ask ==
  LET running == Named(Plans[Len(Plans)].name)
  IN /\ load.pc = "ask"
     /\ \/ load' = [load EXCEPT !.pc = "resolve"]
        \/ /\ load.interactive
           /\ \E id \in running : load' = [load EXCEPT !.pc = "resolve", !.declined = id]
        \/ /\ load.interactive
           /\ running = {}
           /\ load.inside
           /\ \E append \in BOOLEAN :
                load' = [load EXCEPT !.pc = "resolve", !.interactive = FALSE,
                                     !.appending = append]
     /\ UNCHANGED tmux

(***************************************************************************)
(* append_target and current_client: the session or client the load was    *)
(* started from, verified before anything is built.  A load inside tmux    *)
(* but in no pane names no client and leaves the choice to tmux.           *)
(***************************************************************************)
AppendTargets == IF load.inside THEN DOMAIN tmux.sessions \ tmux.mine ELSE {}

NamesCaller == load.interactive /\ load.inside /\ load.declined = None

Resolve ==
  /\ load.pc = "resolve"
  /\ load.appending \/ load.declined # None \/ NamesCaller \/ Alive
  /\ \/ /\ load.appending
        /\ \E id \in AppendTargets : load' = [load EXCEPT !.pc = "input", !.borrowed = id]
     \/ /\ load.appending \/ NamesCaller
        /\ load' = Caught(load, "usage", None)
     \/ /\ ~load.appending
        /\ \E caller \in {None} \cup (IF NamesCaller THEN {tmux.client} ELSE {}) :
             load' = [load EXCEPT !.pc = "input", !.caller = caller]
  /\ UNCHANGED tmux

(***************************************************************************)
(* start_endpoint: no server answers, so tmux is started with a bootstrap  *)
(* session.  Until its identity is verified, any failure only says that    *)
(* the session may exist.                                                  *)
(***************************************************************************)
StartEndpoint ==
  /\ load.pc = "resolve"
  /\ ~load.appending /\ load.declined = None /\ ~NamesCaller /\ ~Alive
  /\ \E a \in Answers(None) :
       /\ Answered(a)
       /\ tmux' = IF a.did
                  THEN [WithSession("bootstrap", <<"sleep">>) EXCEPT !.boot = tmux.next]
                  ELSE tmux
       /\ load' = IF a.ok
                  THEN [Charged(load, a) EXCEPT !.pc = "input", !.bootstrap = tmux.next]
                  ELSE Caught(Charged(load, a), "tmux_unavailable",
                              [id |-> tmux.next, ownership |-> "unverified"])

(***************************************************************************)
(* What becomes of the next document: left alone as the user asked, found  *)
(* running and reused or refused, or built.  absent_windows compares the   *)
(* names as bags and skips unnamed windows.  `succeeded` says whether the  *)
(* code counted the result among those that succeeded.                     *)
(***************************************************************************)
Occurs(name, windows) == Cardinality({w \in DOMAIN windows : windows[w] = name})

Satisfies(id, plan) ==
  \A name \in Range(plan.windows) \ {""} :
    Occurs(name, plan.windows) <= Occurs(name, tmux.sessions[id].windows)

Result(action, id, succeeded) == [action |-> action, id |-> id, succeeded |-> succeeded]

Settled(l, action, id) ==
  [l EXCEPT !.results = Append(@, Result(action, id, TRUE)), !.session = None,
            !.attempted = None, !.made = 0, !.step = 1, !.stop = None,
            !.pc = "completed"]

Mismatched(l, code, id) ==
  [l EXCEPT !.results = Append(@, Result("reused", id, FALSE)), !.pc = "cleanup",
            !.errors = @ \cup {Error(code, None, 0)}]

(***************************************************************************)
(* The events around an input, workspace-started and workspace-completed.  *)
(* One that cannot be written is an exception: an input that was not begun *)
(* has no result, one that is finished keeps its result beside the error.  *)
(***************************************************************************)
EventFails == load' = [Caught(load, "output_closed", None) EXCEPT !.faults = @ + 1]

Announce ==
  /\ load.pc = "input"
  /\ ~load.signal
  /\ \/ load' = [load EXCEPT !.pc = "lookup"]
     \/ load.faults < MaxFaults /\ EventFails
  /\ UNCHANGED tmux

Completed ==
  /\ load.pc = "completed"
  /\ \/ load' = IF LastInput THEN [load EXCEPT !.pc = "cleanup"]
                 ELSE [load EXCEPT !.pc = "input", !.index = @ + 1]
     \/ load.faults < MaxFaults /\ EventFails
  /\ UNCHANGED tmux

LeaveDeclined ==
  /\ load.pc = "lookup"
  /\ load.declined # None /\ LastInput
  /\ load' = Settled(load, "left", load.declined)
  /\ UNCHANGED tmux

InterruptedBetween ==
  /\ load.pc = "input"
  /\ load.signal
  /\ load' = Caught(load, "interrupted", None)
  /\ UNCHANGED tmux

LookUp ==
  /\ load.pc = "lookup"
  /\ load.declined = None \/ ~LastInput
  /\ load.borrowed = None
  /\ \/ \E id \in Named(Plan.name) :
          \/ /\ Satisfies(id, Plan)
             /\ load' = Settled(load, "reused", id)
          \/ /\ ~Satisfies(id, Plan)
             /\ load' = Mismatched(load, "session_mismatch", id)
          \/ /\ load.faults < MaxFaults
             /\ load' = [Mismatched(load, "tmux_failed", id) EXCEPT !.faults = @ + 1]
     \/ /\ Named(Plan.name) = {} \/ load.faults < MaxFaults
        /\ load' = [load EXCEPT
             !.pc = "create",
             !.faults = IF Named(Plan.name) = {} THEN @ ELSE @ + 1]
  /\ UNCHANGED tmux

LookUpBorrowed ==
  /\ load.pc = "lookup"
  /\ load.borrowed # None
  /\ load' = [load EXCEPT !.pc = "build", !.session = load.borrowed]
  /\ UNCHANGED tmux

(***************************************************************************)
(* new_session.  Its failure has nothing to remove that the load knows of. *)
(***************************************************************************)
Create ==
  /\ load.pc = "create"
  /\ \/ /\ Named(Plan.name) # {}
        /\ load' = [load EXCEPT !.pc = "report"]
        /\ UNCHANGED tmux
     \/ /\ Named(Plan.name) = {}
        /\ \E a \in Answers(None) :
             /\ Answered(a)
             /\ tmux' = IF ~a.did THEN tmux
                        ELSE [WithSession(Plan.name, <<"default">>) EXCEPT
                               !.left = IF a.ok THEN @ ELSE @ \cup {<<"unanswered", tmux.next>>}]
             /\ load' = IF a.ok
                        THEN [Charged(load, a) EXCEPT !.pc = "build", !.session = tmux.next]
                        ELSE [Charged(load, a) EXCEPT !.pc = "report"]

(***************************************************************************)
(* notify: the observer looks for a signal first, then records the session *)
(* id or writes the event.  A cancellation keeps what was made; any other  *)
(* stop does not.  A signal seen by the very first call leaves the id of a *)
(* new session unrecorded.                                                 *)
(***************************************************************************)
Stopped(l, code, retain) == [l EXCEPT !.pc = "abandon", !.stop = [code |-> code, retain |-> retain]]

Now == Program(Plan, load.borrowed = None)[load.step]

ObserverStops ==
  /\ load.pc = "build"
  /\ Now.asks # "no"
  /\ \/ /\ load.signal
        /\ load' = Stopped(load, "interrupted", TRUE)
        /\ tmux' = IF Now.does = "started" /\ load.borrowed = None
                   THEN [tmux EXCEPT !.left = @ \cup {<<"unrecorded", load.session>>}] ELSE tmux
     \/ /\ ~load.signal
        /\ Now.asks = "event"
        /\ load.faults < MaxFaults
        /\ load' = [Stopped(load, "output_closed", FALSE) EXCEPT
             !.faults = @ + 1,
             !.attempted = IF Now.does = "started" THEN load.session ELSE @]
        /\ UNCHANGED tmux

Advance(l) ==
  IF l.step = Len(Program(Plan, l.borrowed = None))
  THEN Settled(l, IF l.borrowed = None THEN "created" ELSE "appended", l.session)
  ELSE [l EXCEPT !.step = @ + 1]

(***************************************************************************)
(* One step of the program whose observer had no objection, and what it    *)
(* may do to tmux.  In a borrowed session a new window goes to the index   *)
(* the document gives it or to the first free one, so possibly before the  *)
(* windows found there; in a new session the place makes no difference.    *)
(* Environment, options and focus are set in the session, global options   *)
(* for the whole server; what changes a new window alone is left out.      *)
(***************************************************************************)
Places(windows) == IF load.borrowed = None THEN {Len(windows) + 1} ELSE 1..(Len(windows) + 1)

Effect(step, id) ==
  CASE step.does = "new_window" ->
         {[tmux EXCEPT !.sessions[id].windows = InsertAt(@, place, step.name)] :
            place \in Places(tmux.sessions[id].windows)}
    [] step.does = "kill_default" ->
         {[tmux EXCEPT !.sessions[id].windows = SelectSeq(@, LAMBDA w : w # "default")]}
    [] step.does = "set" -> {[tmux EXCEPT !.sessions[id].set = TRUE]}
    [] step.does = "set_global" -> {[tmux EXCEPT !.global = TRUE]}
    [] OTHER -> {tmux}

Proceeds == load.pc = "build" /\ (Now.asks # "no" => ~load.signal)

BuildCall ==
  /\ Proceeds
  /\ Now.does \in {"new_window", "kill_default", "read", "change", "set", "set_global"}
  /\ \E a \in Answers(load.session) :
       /\ Answered(a)
       /\ tmux' \in IF a.did THEN Effect(Now, load.session) ELSE {tmux}
       /\ load' = IF a.ok
                  THEN Advance([Charged(load, a) EXCEPT
                         !.made = IF Now.does = "new_window" THEN @ + 1 ELSE @])
                  ELSE Stopped(Charged(load, a), "tmux_failed", FALSE)

BuildNote ==
  /\ Proceeds
  /\ Now.does \in {"started", "note", "try"}
  /\ load' = Advance([load EXCEPT
       !.attempted = IF Now.does = "started" THEN load.session ELSE @])
  /\ UNCHANGED tmux

(***************************************************************************)
(* before_script: any exit but zero, an output limit or a signal that      *)
(* stops its group ends the build as a failure of the script.              *)
(***************************************************************************)
BuildScript ==
  /\ load.pc = "build"
  /\ Now.does = "script"
  /\ \/ ~load.signal /\ load' = Advance(load)
     \/ load.signal /\ load' = Stopped(load, "script_failed", FALSE)
     \/ /\ ~load.signal
        /\ load.faults < MaxFaults
        /\ load' = [Stopped(load, "script_failed", FALSE) EXCEPT !.faults = @ + 1]
  /\ UNCHANGED tmux

(***************************************************************************)
(* fail: what was borrowed or is to be retained stays, and only then are   *)
(* the new windows handed on; otherwise the session is killed by its id.   *)
(***************************************************************************)
MutKeeps(l) == l.stop.retain

Keeps(l) == l.borrowed # None \/ l.stop.retain

Abandon ==
  /\ load.pc = "abandon"
  /\ \/ /\ Keeps(load)
        /\ load' = [load EXCEPT !.pc = "report"]
        /\ UNCHANGED tmux
     \/ /\ ~Keeps(load)
        /\ \E a \in Answers(load.session) :
             /\ Answered(a)
             /\ tmux' = IF a.did THEN WithoutSession(load.session)
                        ELSE [tmux EXCEPT !.left = @ \cup {<<"unremoved", load.session>>}]
             /\ load' = [Charged(load, a) EXCEPT !.pc = "report", !.made = 0]

(***************************************************************************)
(* The failed build's record.  A stop by the script or the observer gives  *)
(* the code; otherwise a signal seen by now makes it a cancellation.       *)
(***************************************************************************)
Code(l) ==
  CASE l.stop # None /\ l.stop.code # "tmux_failed" -> l.stop.code
    [] l.signal -> "interrupted"
    [] OTHER -> "tmux_failed"

Retained(l) ==
  CASE l.borrowed # None -> [id |-> l.borrowed, ownership |-> "borrowed"]
    [] l.borrowed = None /\ Code(l) = "interrupted" /\ l.attempted # None ->
         [id |-> l.attempted, ownership |-> "created"]
    [] OTHER -> None

Report ==
  /\ load.pc = "report"
  /\ load' = [load EXCEPT
       !.pc = "cleanup", !.stop = None,
       !.errors = @ \cup {Error(Code(load), Retained(load), load.made)},
       !.results = Append(@, Result(IF load.borrowed = None THEN "created" ELSE "appended",
                                    load.attempted, FALSE))]
  /\ UNCHANGED tmux

(***************************************************************************)
(* The bootstrap session goes whatever happened.  A failure to remove it   *)
(* is one more error, which names neither an input nor the session.        *)
(***************************************************************************)
MutCleanUp ==
  /\ load.pc = "cleanup"
  /\ \/ /\ load.bootstrap = None \/ load.errors # {}
        /\ load' = [load EXCEPT !.pc = "finish"]
        /\ UNCHANGED tmux
     \/ /\ load.bootstrap # None /\ load.errors = {}
        /\ tmux' = WithoutSession(load.bootstrap)
        /\ load' = [load EXCEPT !.pc = "finish", !.bootstrap = None]

CleanUp ==
  /\ load.pc = "cleanup"
  /\ \/ /\ load.bootstrap = None
        /\ load' = [load EXCEPT !.pc = "finish"]
        /\ UNCHANGED tmux
     \/ /\ load.bootstrap # None
        /\ \E a \in Answers(load.bootstrap) :
             /\ a.faults <= MaxFaults \/ ~Live(load.bootstrap)
             /\ tmux' = IF a.did THEN WithoutSession(load.bootstrap) ELSE tmux
             /\ load' = [Charged(load, a) EXCEPT
                  !.pc = "finish", !.bootstrap = None,
                  !.errors = IF a.ok THEN @ ELSE @ \cup {CleanupError}]

(***************************************************************************)
(* The terminal is handed to the last session only after a clean load; a   *)
(* client that is no longer the invoking one is not switched.              *)
(***************************************************************************)
HandOff ==
  /\ load.pc = "finish"
  /\ LET goes == load.interactive /\ load.errors = {} /\ load.declined = None
     IN /\ tmux' = IF goes /\ load.caller \in {None, tmux.client}
                   THEN [tmux EXCEPT !.moved = @ + 1] ELSE tmux
        /\ load' = [load EXCEPT !.pc = "done"]

(***************************************************************************)
(* Signals, and what the other clients of the server do meanwhile.         *)
(***************************************************************************)
Running == load.pc \notin {"start", "done"}

Interrupt ==
  /\ Running
  /\ ~load.signal
  /\ load' = [load EXCEPT !.signal = TRUE]
  /\ UNCHANGED tmux

OthersStep ==
  /\ Running
  /\ load.others < MaxOthers
  /\ load' = [load EXCEPT !.others = @ + 1]
  /\ \/ \E plan \in Range(Plans) :
          /\ Alive
          /\ Named(plan.name) = {}
          /\ tmux' = [WithSession(plan.name, <<"other">>) EXCEPT !.mine = tmux.mine]
     \/ \E id \in DOMAIN tmux.sessions :
          tmux' = [WithoutSession(id) EXCEPT !.killed = @ \cup {id}]
     \/ tmux' = [tmux EXCEPT !.client = @ + 1]

LoadStep ==
  \/ Prepare \/ Ask \/ Resolve \/ StartEndpoint \/ InterruptedBetween \/ Announce
  \/ LeaveDeclined \/ Completed \/ LookUp \/ LookUpBorrowed \/ Create \/ ObserverStops
  \/ BuildCall \/ BuildNote \/ BuildScript \/ Abandon \/ Report \/ CleanUp \/ HandOff

LoadNext == LoadStep \/ Interrupt \/ OthersStep

LoadSpec == LoadInit /\ [][LoadNext]_vars

-----------------------------------------------------------------------------
KeptAmong(old, new) == old = new \/ \E place \in DOMAIN new : RemoveAt(new, place) = old

Said(id) == \E e \in load.errors : e.retained # None /\ e.retained.id = id

(***************************************************************************)
(* "A failed build removes only the session it created": no step of the    *)
(* load removes a session that it did not create, or a window of one, and  *)
(* none changes such a session, except that an append adds windows among   *)
(* those of the borrowed session, which keep their order, and sets its     *)
(* environment, its options and its current window.  The server's options  *)
(* are no session's; a document may set them and only a build step does.   *)
(***************************************************************************)
LeavesOthers ==
  LoadStep =>
    \A id \in DOMAIN tmux.sessions \ tmux.mine :
      /\ id \in DOMAIN tmux'.sessions
      /\ IF id = load.borrowed
         THEN /\ tmux'.sessions[id].name = tmux.sessions[id].name
              /\ KeptAmong(tmux.sessions[id].windows, tmux'.sessions[id].windows)
         ELSE tmux'.sessions[id] = tmux.sessions[id]

(***************************************************************************)
(* The summary accounts for every session the load made that still exists: *)
(* it is the session of an input that succeeded, or an error names it, or  *)
(* its removal failed, and then the failed input's result has its id.  Two *)
(* kinds are left unnamed by the code: a session whose id was never known, *)
(* because new-session was not answered or a signal came before the        *)
(* observer's first call, and then the input has failed; and the bootstrap *)
(* session when it could not be removed, and then the clean-up's error     *)
(* says so without naming it.                                              *)
(***************************************************************************)
NothingLeftUnsaid ==
  load.pc = "done" =>
    \A id \in tmux.mine \cap DOMAIN tmux.sessions :
      \/ Result("created", id, TRUE) \in Range(load.results)
      \/ Said(id)
      \/ <<"unremoved", id>> \in tmux.left /\ Result("created", id, FALSE) \in Range(load.results)
      \/ /\ <<"unanswered", id>> \in tmux.left \/ <<"unrecorded", id>> \in tmux.left
         /\ Result("created", None, FALSE) \in Range(load.results)
      \/ id = tmux.boot /\ CleanupError \in load.errors

(***************************************************************************)
(* A load without errors has built what the documents describe: every      *)
(* input's session holds the windows its document names as often as it     *)
(* names them, and none has the window new-session came with.              *)
(***************************************************************************)
OkMeansBuilt ==
  load.pc = "done" /\ load.errors = {} =>
    \A i \in DOMAIN load.results :
      LET r == load.results[i]
      IN r.action # "left" /\ r.id \notin tmux.killed =>
           /\ Live(r.id)
           /\ \A name \in Range(Plans[i].windows) \ {""} :
                Occurs(name, Plans[i].windows) <= Occurs(name, tmux.sessions[r.id].windows)
           /\ r.action = "created" => "default" \notin Range(tmux.sessions[r.id].windows)

(***************************************************************************)
(* The summary is the truth: it accounts for everything that was made and  *)
(* is still there, and no error means that everything was made.            *)
(***************************************************************************)
SummaryTruthful == NothingLeftUnsaid /\ OkMeansBuilt

(***************************************************************************)
(* What the code says of a cancelled build: it keeps what it made and says *)
(* so.  A created session is named in the interrupted input's error        *)
(* exactly when it is still there.                                         *)
(***************************************************************************)
CancelledSaysSo ==
  load.pc = "done" =>
    \A e \in load.errors :
      e.code = "interrupted" =>
        \A id \in tmux.mine \ tmux.killed :
          \/ id = tmux.boot \/ <<"unanswered", id>> \in tmux.left
          \/ Result("created", id, TRUE) \in Range(load.results)
          \/ (Live(id) <=> (e.retained # None /\ e.retained.id = id))

=============================================================================
