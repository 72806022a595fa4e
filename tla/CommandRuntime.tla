--------------------------- MODULE CommandRuntime ---------------------------
(***************************************************************************)
(* The asynchronous command runtime (src/async.cpp): a ledger of capacity  *)
(* slots with three legs each, the submission transaction, the completion  *)
(* thread between the engine's raw answers and the callers' results, the   *)
(* observers a caller dispatches, and close.  The engine is what           *)
(* ProcessEngine and OperationState show of it: every operation it takes   *)
(* is published, retired and then has its hook run, and its own slot comes *)
(* back when it is retired and its answer was taken.                       *)
(***************************************************************************)
EXTENDS Naturals, Sequences, FiniteSets, SequencesExt

CONSTANTS
  Cmd, NoCmd,
  Capacity,      \* of the runtime and of its engine
  HasObserver,   \* the commands submitted through a server with an observer
  MayDrop,       \* the commands whose handle may be dropped or detached
  Failures,      \* the steps that may throw or fail, one of them in a behaviour
  Closer

VARIABLES
  submission,   \* who holds submission_mutex_
  caller,       \* where a submitting thread is
  handle,       \* its CommandOperation
  result,       \* the published result
  legs,         \* the lease: which legs have not ended
  ledger,       \* the ledger's counters and accepting_
  raw,          \* the engine's operation
  raw_answer,
  engine_held,  \* the operations that hold a slot of the engine
  engine_stop,
  subscribed,   \* the raw operations with a subscription (tasks_ keeps it)
  taken,        \* the raw answers taken by the completion thread
  tasks,
  ready,        \* completions_: the raw answers to take, in order
  completion,   \* where the completion thread is
  completion_wake, finish_completion_thread,
  observations, \* observers_: the ready records
  observing,    \* observers_ has not been finished
  dispatcher, waiter,
  closer, close_joining, terminal, report,
  admissions, entries,  \* history: the orders of admission and of entry
  failure               \* the step that failed, "none" so far

Legs == {"transport", "result", "observer"}

submitters == <<submission, caller, handle>>
engine == <<raw, raw_answer, engine_held, engine_stop, subscribed, taken, ready>>
thread == <<completion, completion_wake, finish_completion_thread, tasks>>
observers == <<observations, observing, dispatcher, waiter>>
closing == <<closer, close_joining, terminal, report>>
history == <<admissions, entries, failure>>
vars == <<submitters, result, legs, ledger, engine, thread, observers, closing, history>>

Init ==
  /\ submission = NoCmd
  /\ caller = [c \in Cmd |-> "outside"]
  /\ handle = [c \in Cmd |-> "none"]
  /\ result = [c \in Cmd |-> "none"]
  /\ legs = [c \in Cmd |-> {}]
  /\ ledger = [in_flight |-> 0, pending_results |-> 0, pending_observers |-> 0,
               accepted |-> 0, completed |-> 0, accepting |-> TRUE]
  /\ raw = [c \in Cmd |-> "none"]
  /\ raw_answer = [c \in Cmd |-> "none"]
  /\ engine_held = {} /\ engine_stop = FALSE
  /\ subscribed = {} /\ taken = {} /\ tasks = {} /\ ready = <<>>
  /\ completion = [pc |-> "wait", cmd |-> NoCmd, batch |-> 0]
  /\ completion_wake = FALSE /\ finish_completion_thread = FALSE
  /\ observations = {} /\ observing = TRUE
  /\ dispatcher = [pc |-> "outside", cmd |-> NoCmd]
  /\ waiter = "outside"
  /\ closer = [k \in Closer |-> "outside"]
  /\ close_joining = FALSE /\ terminal = FALSE
  /\ report = [pending |-> 0, safe_to_unload |-> FALSE, failure |-> FALSE]
  /\ failure = "none"
  /\ admissions = <<>> /\ entries = <<>>
-----------------------------------------------------------------------------
(* A step throws, or reports that it could not be done. *)
Fails(step) == step \in Failures /\ failure = "none" /\ failure' = step

(* The failures store_lifecycle_failure keeps for the report. *)
LifecycleFailure == failure \in {"publish", "observe", "queue", "children"}

(* RuntimeLease::finish: the last leg to end gives the slot back. *)
Finish(c, leg) ==
  /\ legs' = [legs EXCEPT ![c] = @ \ {leg}]
  /\ ledger' = [ledger EXCEPT
       !.pending_results = IF leg \in legs[c] /\ leg = "result" THEN @ - 1 ELSE @,
       !.pending_observers = IF leg \in legs[c] /\ leg = "observer" THEN @ - 1 ELSE @,
       !.in_flight = IF legs[c] = {leg} THEN @ - 1 ELSE @]

MutLocks(c) == submission' = NoCmd

(* The submission mutex is kept from the first check to the registration. *)
Locks(c) == submission' = c

Holds(c) == submission \in {c, NoCmd}

Room == ledger.in_flight < Capacity

(* submit_checked: refused, or past the last check.  A request that cannot *)
(* be run is like one that was never made.                                 *)
SubmitBegin(c) ==
  /\ caller[c] = "outside" /\ submission = NoCmd
  /\ \/ /\ ledger.accepting /\ Room
        /\ Locks(c)
        /\ caller' = [caller EXCEPT ![c] = "passed"]
     \/ /\ ~ledger.accepting \/ ~Room
        /\ caller' = [caller EXCEPT ![c] = "refused"]
        /\ UNCHANGED submission
  /\ UNCHANGED <<handle, result, legs, ledger, engine, thread, observers, closing, history>>

(* RuntimeLease::admit *)
SubmitAdmit(c) ==
  /\ caller[c] = "passed" /\ Holds(c)
  /\ caller' = [caller EXCEPT ![c] = "admitted"]
  /\ legs' = [legs EXCEPT ![c] = IF c \in HasObserver THEN Legs ELSE Legs \ {"observer"}]
  /\ ledger' = [ledger EXCEPT
       !.in_flight = @ + 1, !.pending_results = @ + 1, !.accepted = @ + 1,
       !.pending_observers = IF c \in HasObserver THEN @ + 1 ELSE @]
  /\ admissions' = Append(admissions, c)
  /\ UNCHANGED <<submission, handle, result, engine, thread, observers, closing, entries, failure>>

(***************************************************************************)
(* engine_->submit.  A full engine answers at once and holds no slot; a    *)
(* stopped one answers at once and holds its slot until the answer is      *)
(* taken; in both cases the retirement hook has run when it returns.  When *)
(* it throws, the submitting thread ends the transport leg itself and goes *)
(* on to finish_completion.                                                *)
(***************************************************************************)
Entered(c) ==
  LET full == Cardinality(engine_held) >= Capacity
  IN  /\ engine_held' = IF full THEN engine_held ELSE engine_held \cup {c}
      /\ \/ /\ full \/ engine_stop
            /\ raw' = [raw EXCEPT ![c] = "over"]
            /\ raw_answer' = [raw_answer EXCEPT
                                ![c] = IF full THEN "overloaded" ELSE "cancelled"]
            /\ Finish(c, "transport")
            /\ completion_wake' = TRUE
            /\ UNCHANGED entries
         \/ /\ ~full /\ ~engine_stop
            /\ raw' = [raw EXCEPT ![c] = "running"]
            /\ entries' = Append(entries, c)
            /\ UNCHANGED <<raw_answer, legs, ledger, completion_wake>>

SubmitEngine(c) ==
  /\ caller[c] = "admitted" /\ Holds(c)
  /\ \/ /\ Entered(c)
        /\ caller' = [caller EXCEPT ![c] = "entered"]
        /\ UNCHANGED failure
     \/ /\ Fails("engine")
        /\ Finish(c, "transport")
        /\ caller' = [caller EXCEPT ![c] = "untracked"]
        /\ UNCHANGED <<raw, raw_answer, engine_held, completion_wake, entries>>
  /\ UNCHANGED <<submission, handle, result, engine_stop, subscribed, taken, ready,
                 completion, finish_completion_thread, tasks, observers, closing,
                 admissions>>

Published(c) == raw_answer[c] # "none"

Released(c) ==
  engine_held' = IF raw[c] \in {"retired", "over"} THEN engine_held \ {c} ELSE engine_held

(***************************************************************************)
(* Subscribe, register the task, tell the completion thread, return.  When *)
(* that fails the raw operation is given up, and its answer with it.       *)
(***************************************************************************)
SubmitTrack(c) ==
  /\ caller[c] = "entered" /\ Holds(c)
  /\ \/ /\ caller' = [caller EXCEPT ![c] = "returned"]
        /\ subscribed' = subscribed \cup {c}
        /\ ready' = IF Published(c) THEN Append(ready, c) ELSE ready
        /\ tasks' = tasks \cup {c}
        /\ handle' = [handle EXCEPT ![c] = "held"]
        /\ submission' = NoCmd
        /\ completion_wake' = TRUE
        /\ UNCHANGED <<engine_held, taken, failure>>
     \/ /\ Fails("subscribe")
        /\ caller' = [caller EXCEPT ![c] = "untracked"]
        /\ taken' = taken \cup {c}
        /\ Released(c)
        /\ UNCHANGED <<subscribed, ready, tasks, handle, submission, completion_wake>>
  /\ UNCHANGED <<result, legs, ledger, raw, raw_answer, engine_stop, completion,
                 finish_completion_thread, observers, closing, admissions, entries>>

(* finish_completion, on either thread: the result, then the observation.  *)
PublishResult(c, answer) ==
  \/ result' = [result EXCEPT ![c] = answer] /\ UNCHANGED failure
  \/ Fails("publish") /\ result' = [result EXCEPT ![c] = "internal"]

QueueObservation(c) ==
  \/ /\ observations' = observations \cup ({c} \cap HasObserver)
     /\ ledger' = [ledger EXCEPT !.completed = @ + 1]
     /\ UNCHANGED failure
  \/ /\ c \in HasObserver /\ Fails("observe")
     /\ UNCHANGED <<observations, ledger>>

(* ... on the submitting thread, for a command nobody else will finish. *)
SubmitFinish(c) ==
  /\ Holds(c)
  /\ \/ /\ caller[c] = "untracked"
        /\ PublishResult(c, "internal")
        /\ caller' = [caller EXCEPT ![c] = "finishing"]
        /\ UNCHANGED <<observations, ledger, handle, submission, completion_wake>>
     \/ /\ caller[c] = "finishing"
        /\ QueueObservation(c)
        /\ caller' = [caller EXCEPT ![c] = "returned"]
        /\ handle' = [handle EXCEPT ![c] = "held"]
        /\ submission' = NoCmd
        /\ completion_wake' = TRUE
        /\ UNCHANGED result
  /\ UNCHANGED <<legs, engine, completion, finish_completion_thread, tasks, observing,
                 dispatcher, waiter, closing, admissions, entries>>
-----------------------------------------------------------------------------
(* The engine publishes an answer ... *)
EnginePublish(c) ==
  /\ raw[c] = "running"
  /\ raw' = [raw EXCEPT ![c] = "published"]
  /\ raw_answer' = [raw_answer EXCEPT ![c] = "answer"]
  /\ ready' = IF c \in subscribed THEN Append(ready, c) ELSE ready
  /\ UNCHANGED <<submitters, result, legs, ledger, engine_held, engine_stop, subscribed,
                 taken, thread, observers, closing, history>>

(* ... retires the operation ... *)
EngineRetire(c) ==
  /\ raw[c] = "published"
  /\ raw' = [raw EXCEPT ![c] = "retired"]
  /\ engine_held' = IF c \in taken THEN engine_held \ {c} ELSE engine_held
  /\ UNCHANGED <<submitters, result, legs, ledger, raw_answer, engine_stop, subscribed,
                 taken, ready, thread, observers, closing, history>>

(* ... and runs the retirement hook. *)
EngineHook(c) ==
  /\ raw[c] = "retired"
  /\ raw' = [raw EXCEPT ![c] = "over"]
  /\ Finish(c, "transport")
  /\ completion_wake' = TRUE
  /\ UNCHANGED <<submitters, result, raw_answer, engine_held, engine_stop, subscribed,
                 taken, ready, completion, finish_completion_thread, tasks, observers,
                 closing, history>>
-----------------------------------------------------------------------------
Completing(pc) == completion' = [completion EXCEPT !.pc = pc]

(* completion_loop: wait, then run the batch that is ready now. *)
CompletionWait ==
  /\ completion.pc = "wait"
  /\ completion_wake \/ finish_completion_thread
  /\ completion_wake' = FALSE
  /\ completion' = [completion EXCEPT !.pc = "run", !.batch = Len(ready)]
  /\ UNCHANGED <<submitters, result, legs, ledger, engine, finish_completion_thread, tasks,
                 observers, closing, history>>

(* Claiming the record takes the raw answer, which may free its slot. *)
CompletionTake ==
  /\ completion.pc = "run" /\ completion.batch > 0
  /\ LET c == Head(ready)
     IN  /\ completion' = [pc |-> "publish", cmd |-> c, batch |-> completion.batch - 1]
         /\ taken' = taken \cup {c}
         /\ Released(c)
  /\ ready' = Tail(ready)
  /\ UNCHANGED <<submitters, result, legs, ledger, raw, raw_answer, engine_stop,
                 subscribed, completion_wake, finish_completion_thread, tasks, observers,
                 closing, history>>

(* completions_.run_ready() throws: kept, and the thread goes round again. *)
CompletionThrows ==
  /\ completion.pc = "run" /\ Fails("queue")
  /\ completion' = [completion EXCEPT !.batch = 0]
  /\ completion_wake' = TRUE
  /\ UNCHANGED <<submitters, result, legs, ledger, engine, finish_completion_thread, tasks,
                 observers, closing, admissions, entries>>

(* finish_completion on the completion thread, and the end of the task. *)
CompletionPublish ==
  /\ completion.pc = "publish"
  /\ PublishResult(completion.cmd, raw_answer[completion.cmd])
  /\ Completing("observe")
  /\ UNCHANGED <<submitters, legs, ledger, engine, completion_wake,
                 finish_completion_thread, tasks, observers, closing, admissions, entries>>

CompletionObserve ==
  /\ completion.pc = "observe"
  /\ QueueObservation(completion.cmd)
  /\ Completing("erase")
  /\ UNCHANGED <<submitters, result, legs, engine, completion_wake,
                 finish_completion_thread, tasks, observing, dispatcher, waiter, closing,
                 admissions, entries>>

MutCompletionErase ==
  /\ completion.pc = "erase"
  /\ completion_wake' = TRUE
  /\ completion' = [completion EXCEPT !.pc = "run", !.cmd = NoCmd]
  /\ UNCHANGED <<submitters, result, legs, ledger, engine, finish_completion_thread, tasks,
                 observers, closing, history>>

CompletionErase ==
  /\ completion.pc = "erase"
  /\ tasks' = tasks \ {completion.cmd}
  /\ completion_wake' = TRUE
  /\ completion' = [completion EXCEPT !.pc = "run", !.cmd = NoCmd]
  /\ UNCHANGED <<submitters, result, legs, ledger, engine, finish_completion_thread,
                 observers, closing, history>>

MutLastOne == finish_completion_thread

LastOne == finish_completion_thread /\ tasks = {}

CompletionCheck ==
  /\ completion.pc = "run" /\ completion.batch = 0
  /\ Completing(IF LastOne THEN "exited" ELSE "wait")
  /\ UNCHANGED <<submitters, result, legs, ledger, engine, completion_wake,
                 finish_completion_thread, tasks, observers, closing, history>>
-----------------------------------------------------------------------------
(* wait(): consumes the published result and destroys the handle. *)
Wait(c) ==
  /\ handle[c] = "held" /\ result[c] # "none"
  /\ handle' = [handle EXCEPT ![c] = "waited"]
  /\ Finish(c, "result")
  /\ UNCHANGED <<submission, caller, result, engine, thread, observers, closing, history>>

(* detach() or destruction, at any time. *)
Drop(c) ==
  /\ c \in MayDrop /\ handle[c] = "held"
  /\ handle' = [handle EXCEPT ![c] = "dropped"]
  /\ Finish(c, "result")
  /\ UNCHANGED <<submission, caller, result, engine, thread, observers, closing, history>>

(* dispatch_ready and discard_ready: claim a record, end its leg, run or    *)
(* destroy the caller's code, and so on until the call returns.            *)
DispatchBegin ==
  /\ dispatcher.pc = "outside"
  /\ dispatcher' = [dispatcher EXCEPT !.pc = "inside"]
  /\ UNCHANGED <<submitters, result, legs, ledger, engine, thread, observations, observing,
                 waiter, closing, history>>

DispatchClaim(c) ==
  /\ dispatcher.pc = "inside" /\ c \in observations
  /\ dispatcher' = [pc |-> "calling", cmd |-> c]
  /\ observations' = observations \ {c}
  /\ Finish(c, "observer")
  /\ UNCHANGED <<submitters, result, engine, thread, observing, waiter, closing, history>>

DispatchReturn ==
  /\ \/ dispatcher.pc = "calling" /\ dispatcher' = [pc |-> "inside", cmd |-> NoCmd]
     \/ dispatcher.pc = "inside" /\ dispatcher' = [pc |-> "outside", cmd |-> NoCmd]
  /\ UNCHANGED <<submitters, result, legs, ledger, engine, thread, observations, observing,
                 waiter, closing, history>>

(* wait_ready: counted, then blocked while nothing is ready and not closed. *)
WaitReady ==
  /\ \/ waiter = "outside" /\ waiter' = "entered"
     \/ waiter = "entered" /\ observations = {} /\ observing /\ waiter' = "blocked"
     \/ waiter = "entered" /\ (observations # {} \/ ~observing) /\ waiter' = "outside"
  /\ UNCHANGED <<submitters, result, legs, ledger, engine, thread, observations, observing,
                 dispatcher, closing, history>>

WaitReadyEnds ==
  /\ waiter = "blocked" /\ (observations # {} \/ ~observing)
  /\ waiter' = "outside"
  /\ UNCHANGED <<submitters, result, legs, ledger, engine, thread, observations, observing,
                 dispatcher, closing, history>>
-----------------------------------------------------------------------------
(* request_stop: the ledger under the submission mutex, then the engine. *)
StopLedger ==
  /\ submission = NoCmd
  /\ ledger' = [ledger EXCEPT !.accepting = FALSE]
  /\ UNCHANGED <<submitters, result, legs, engine, thread, observers, closing, history>>

StopEngine ==
  /\ ~ledger.accepting
  /\ engine_stop' = TRUE
  /\ UNCHANGED <<submitters, result, legs, ledger, raw, raw_answer, engine_held,
                 subscribed, taken, ready, thread, observers, closing, history>>

Closing(k, pc) == closer' = [closer EXCEPT ![k] = pc]

CloseEnter(k) ==
  /\ Closing(k, IF terminal THEN "returned" ELSE IF close_joining THEN "waiting" ELSE "stop")
  /\ close_joining' = (close_joining \/ ~terminal)
  /\ UNCHANGED <<submitters, result, legs, ledger, engine, thread, observers, terminal,
                 report, history>>

CloseBegin(k) == closer[k] \in {"outside", "returned", "thrown"} /\ CloseEnter(k)

(* A thread that waited for another one's close: it is over, or it threw. *)
CloseAgain(k) == closer[k] = "waiting" /\ (terminal \/ ~close_joining) /\ CloseEnter(k)

CloseStop(k) ==
  /\ \/ /\ closer[k] = "stop" /\ submission = NoCmd
        /\ ledger' = [ledger EXCEPT !.accepting = FALSE]
        /\ Closing(k, "stopped") /\ UNCHANGED engine_stop
     \/ /\ closer[k] = "stopped"
        /\ engine_stop' = TRUE
        /\ Closing(k, "engine") /\ UNCHANGED ledger
  /\ UNCHANGED <<submitters, result, legs, raw, raw_answer, engine_held, subscribed, taken,
                 ready, thread, observers, close_joining, terminal, report, history>>

WaitersGone == waiter = "outside"

EngineClosed == \A c \in Cmd : raw[c] \in {"none", "over"}

(* engine_->close() has joined; the completion thread is told to finish.   *)
(* The engine may say that it did not reap every child.                    *)
CloseEngine(k) ==
  /\ closer[k] = "engine" /\ EngineClosed
  /\ finish_completion_thread' = TRUE /\ completion_wake' = TRUE
  /\ Closing(k, "thread")
  /\ UNCHANGED failure \/ Fails("children")
  /\ UNCHANGED <<submitters, result, legs, ledger, engine, completion, tasks, observers,
                 close_joining, terminal, report, admissions, entries>>

(* A throw lets the readiness waits go as an orderly close does; then      *)
(* close can be tried again, by this thread or by one that waits for it.   *)
CloseThrows(k) ==
  /\ \/ /\ closer[k] = "engine" /\ Fails("close")
        /\ Closing(k, "unwinding") /\ observing' = FALSE
        /\ UNCHANGED close_joining
     \/ /\ closer[k] = "unwinding" /\ WaitersGone
        /\ Closing(k, "thrown") /\ close_joining' = FALSE
        /\ UNCHANGED <<observing, failure>>
  /\ UNCHANGED <<submitters, result, legs, ledger, engine, thread, observations, dispatcher,
                 waiter, terminal, report, admissions, entries>>

(* Join it, then FinishReadinessWaits: observers_.finish() and the wait. *)
CloseJoin(k) ==
  /\ closer[k] = "thread" /\ completion.pc = "exited"
  /\ observing' = FALSE
  /\ Closing(k, "readiness")
  /\ UNCHANGED <<submitters, result, legs, ledger, engine, thread, observations, dispatcher,
                 waiter, close_joining, terminal, report, history>>

(* The counters are read first and the active calls after them. *)
CloseSnapshot(k) ==
  /\ closer[k] = "readiness" /\ WaitersGone
  /\ Closing(k, "report")
  /\ report' = [report EXCEPT !.pending = ledger.pending_results + ledger.pending_observers]
  /\ UNCHANGED <<submitters, result, legs, ledger, engine, thread, observers, close_joining,
                 terminal, history>>

Safe ==
  /\ failure # "children" /\ report.pending = 0
  /\ waiter = "outside" /\ dispatcher.pc = "outside"

CloseReport(k) ==
  /\ closer[k] = "report"
  /\ report' = [report EXCEPT !.safe_to_unload = Safe, !.failure = LifecycleFailure]
  /\ terminal' = TRUE /\ close_joining' = FALSE
  /\ Closing(k, "returned")
  /\ UNCHANGED <<submitters, result, legs, ledger, engine, thread, observers, history>>

Submission(c) ==
  SubmitAdmit(c) \/ SubmitEngine(c) \/ SubmitTrack(c) \/ SubmitFinish(c)

Engine(c) == EnginePublish(c) \/ EngineRetire(c) \/ EngineHook(c)

Completion ==
  CompletionWait \/ CompletionTake \/ CompletionPublish \/ CompletionObserve
  \/ CompletionErase \/ CompletionCheck \/ CompletionThrows

Close(k) ==
  \/ CloseStop(k) \/ CloseEngine(k) \/ CloseJoin(k) \/ CloseSnapshot(k) \/ CloseReport(k)
  \/ CloseAgain(k) \/ CloseThrows(k)

Next ==
  \/ \E c \in Cmd : SubmitBegin(c) \/ Submission(c) \/ Engine(c) \/ Wait(c) \/ Drop(c)
                    \/ DispatchClaim(c)
  \/ Completion \/ DispatchBegin \/ DispatchReturn \/ WaitReady \/ WaitReadyEnds
  \/ StopLedger \/ StopEngine
  \/ \E k \in Closer : CloseBegin(k) \/ Close(k)

Spec == Init /\ [][Next]_vars

(***************************************************************************)
(* Threads inside the runtime are scheduled, the engine ends every command *)
(* (ProcessEngine's StopAnswersAll and EndedAnswered) and a wait that can  *)
(* end does.  Nobody has to wait, drop or dispatch.                        *)
(***************************************************************************)
FairSpec ==
  /\ Spec
  /\ WF_vars(Completion) /\ WF_vars(WaitReadyEnds)
  /\ WF_vars(waiter = "entered" /\ WaitReady)
  /\ \A c \in Cmd : WF_vars(Submission(c)) /\ WF_vars(Engine(c))
  /\ \A k \in Closer : WF_vars(Close(k))
-----------------------------------------------------------------------------
Admitted(c) == caller[c] \notin {"outside", "refused", "passed"}

(***************************************************************************)
(* The ledger's counters are exactly the legs that have not ended, and the *)
(* capacity is never exceeded, though callers, the engine's reactor, the   *)
(* completion thread and dispatchers all end legs on their own.            *)
(***************************************************************************)
LedgerExact ==
  /\ ledger.in_flight = Cardinality({c \in Cmd : legs[c] # {}})
  /\ ledger.pending_results = Cardinality({c \in Cmd : "result" \in legs[c]})
  /\ ledger.pending_observers = Cardinality({c \in Cmd : "observer" \in legs[c]})
  /\ ledger.accepted = Cardinality({c \in Cmd : Admitted(c)})
  /\ ledger.in_flight <= Capacity

(***************************************************************************)
(* docs/runtime.md:128, accepted commands enter the transport in admission *)
(* order, whichever threads submit them; one the engine refuses, or throws *)
(* on, never enters.                                                       *)
(***************************************************************************)
EntryOrder == entries = SelectSeq(admissions, LAMBDA c : c \in ToSet(entries))

(***************************************************************************)
(* When close has its report, every accepted command has its result: an    *)
(* operation that outlives the runtime can still be waited on, and nothing *)
(* of the engine or the completion thread will touch the runtime again.    *)
(* async.hpp:98: every blocked wait_ready caller has left by then.  A      *)
(* command that is not counted as completed, though it has its result, is  *)
(* one whose observation was lost, and the report carries the failure.     *)
(***************************************************************************)
ClosedSettled ==
  terminal => /\ \A c \in Cmd : Admitted(c) => result[c] # "none" /\ raw[c] \in {"none", "over"}
              /\ tasks = {} /\ ready = <<>> /\ completion.pc = "exited"
              /\ ledger.completed = ledger.accepted \/ report.failure
              /\ waiter # "blocked"

(***************************************************************************)
(* async.hpp:70, safe_to_unload: no obligation is left and no caller's     *)
(* callback is running or being destroyed, at the report or ever after.    *)
(***************************************************************************)
SafeToUnload ==
  terminal /\ report.safe_to_unload =>
    dispatcher.pc # "calling" /\ \A c \in Cmd : legs[c] \subseteq {"transport"}

(***************************************************************************)
(* Accepted work stays accounted for: the ledger is exact and commands     *)
(* enter the transport in the order of admission.                          *)
(***************************************************************************)
WorkAccounted == LedgerExact /\ EntryOrder

(***************************************************************************)
(* The shutdown report is true when it is made and stays true.             *)
(***************************************************************************)
CloseTruthful == ClosedSettled /\ SafeToUnload

(***************************************************************************)
(* docs/runtime.md:98, a full capacity is an outer refusal that creates no *)
(* operation: an accepted command is never answered that the runtime is    *)
(* full.  It holds when every handle is kept until its result is there,    *)
(* and not otherwise: the slot of a dropped, unobserved command comes back *)
(* while the engine still keeps its own until the raw answer is taken.     *)
(***************************************************************************)
AcceptedNotRefused == \A c \in Cmd : raw_answer[c] # "overloaded"

(***************************************************************************)
(* A thread that calls close comes back, with the report or with what was  *)
(* thrown, unless callers enter wait_ready again and again: close waits    *)
(* until it sees none inside (async.cpp:896), and nothing in a mutex and a *)
(* condition variable gives it a turn between two of them.                 *)
(***************************************************************************)
InClose == \E k \in Closer : closer[k] \notin {"outside", "returned", "thrown"}

CloseReturns == []<>~InClose \/ []<>(waiter = "entered")
=============================================================================
