------------------------------ MODULE MCEngines ------------------------------
(***************************************************************************)
(* The process engine, without and with kernel faults, and the runtime,    *)
(* with room for all its commands, and with one slot, handles that are     *)
(* dropped and a step that fails.  A behaviour belongs to one part, chosen *)
(* at the start; a variable the part does not have is None.                *)
(***************************************************************************)
EXTENDS Naturals, TLC

CONSTANTS
  None,
  Parts,                               \* the parts a run is about
  Child,                               \* commands of the process engine
  Single, Faults,                      \* the only one where kernel calls may fail
  Observed, Plain, MayDrop, Failures,  \* of the runtime
  Closer

VARIABLES
  part, close_joining, terminal, closer, report, failure,
  pending, launching, arrived, live, stop_requested, published, reaped,
  channel_failure, gate, woken, launcher, parked, reactor, child, proc, submitting, cancelled,
  expired, answer, hooks,
  submission, caller, handle, result, legs, ledger, raw, raw_answer, engine_held,
  engine_stop, subscribed, taken, tasks, ready, completion, completion_wake,
  finish_completion_thread, observations, observing, dispatcher, waiter, admissions, entries

NoCmd == None

PE == INSTANCE ProcessEngine WITH Cmd <- Child, Timed <- {}, Closer <- {"k"}, Faults <- {}

PF == INSTANCE ProcessEngine WITH Cmd <- {Single}, Timed <- {Single}, Closer <- {"k"}

CR == INSTANCE CommandRuntime WITH
  Cmd <- {Observed, Plain}, HasObserver <- {Observed}, Capacity <- 2, MayDrop <- {},
  Failures <- {}, Closer <- {"k"}

CF == INSTANCE CommandRuntime WITH
  Cmd <- {Observed, Plain}, HasObserver <- {Observed}, Capacity <- 1

-----------------------------------------------------------------------------
ofBoth == <<close_joining, terminal, closer, report, failure>>
ofProcesses == <<pending, launching, arrived, live, stop_requested, published, reaped,
                 channel_failure, gate, woken, launcher, parked, reactor, child, proc,
                 submitting, cancelled, expired, answer, hooks>>
ofRuntime == <<submission, caller, handle, result, legs, ledger, raw, raw_answer, engine_held,
               engine_stop, subscribed, taken, tasks, ready, completion, completion_wake,
               finish_completion_thread, observations, observing, dispatcher, waiter,
               admissions, entries>>
vars == <<part, ofBoth, ofProcesses, ofRuntime>>

NoProcesses ==
  /\ pending = None /\ launching = None /\ arrived = None /\ live = None
  /\ stop_requested = None /\ published = None /\ reaped = None
  /\ channel_failure = None /\ gate = None /\ woken = None /\ launcher = None /\ parked = None
  /\ reactor = None /\ child = None /\ proc = None /\ submitting = None /\ cancelled = None
  /\ expired = None /\ answer = None /\ hooks = None
NoRuntime ==
  /\ submission = None /\ caller = None /\ handle = None /\ result = None /\ legs = None
  /\ ledger = None /\ raw = None /\ raw_answer = None /\ engine_held = None
  /\ engine_stop = None /\ subscribed = None /\ taken = None /\ tasks = None /\ ready = None
  /\ completion = None /\ completion_wake = None /\ finish_completion_thread = None
  /\ observations = None /\ observing = None /\ dispatcher = None /\ waiter = None
  /\ admissions = None /\ entries = None

Init ==
  /\ part \in Parts
  /\ \/ part = "processes" /\ PE!Init /\ NoRuntime
     \/ part = "faults" /\ PF!Init /\ NoRuntime
     \/ part = "runtime" /\ CR!Init /\ NoProcesses
     \/ part = "failing" /\ CF!Init /\ NoProcesses

Next ==
  /\ part' = part
  /\ \/ part = "processes" /\ PE!Next /\ UNCHANGED ofRuntime
     \/ part = "faults" /\ PF!Next /\ UNCHANGED ofRuntime
     \/ part = "runtime" /\ CR!Next /\ UNCHANGED ofProcesses
     \/ part = "failing" /\ CF!Next /\ UNCHANGED ofProcesses

Spec == Init /\ [][Next]_vars

(* The fairness of ProcessEngine and of CommandRuntime, each for its part. *)
processes == <<ofBoth, ofProcesses>>
runtime == <<ofBoth, ofRuntime>>

FairSpec ==
  /\ Spec
  /\ WF_processes(part = "faults" /\ PF!LaunchStep)
  /\ WF_processes(part = "faults" /\ PF!LaunchSpawn)
  /\ WF_processes(part = "faults" /\ PF!React)
  /\ WF_processes(part = "faults" /\ PF!Submit(Single))
  /\ WF_processes(part = "faults" /\ PF!TimePasses(Single))
  /\ WF_processes(part = "faults" /\ PF!CloseEnd("k"))
  /\ WF_runtime(part = "failing" /\ CF!Completion)
  /\ WF_runtime(part = "failing" /\ CF!WaitReadyEnds)
  /\ WF_runtime(part = "failing" /\ waiter = "entered" /\ CF!WaitReady)
  /\ \A c \in {Observed, Plain} :
       /\ WF_runtime(part = "failing" /\ CF!Submission(c))
       /\ WF_runtime(part = "failing" /\ CF!Engine(c))
  /\ \A k \in Closer : WF_runtime(part = "failing" /\ CF!Close(k))

Symmetric == Permutations(Child) \cup Permutations(Closer)

-----------------------------------------------------------------------------
(* No child outlives the reactor, and the reactor never sleeps over work   *)
(* that nobody will wake it for (ProcessEngine, reactor_main).             *)
NoChildStranded ==
  /\ part = "processes" => PE!NoChildStranded /\ PE!NoSleepOverWork
  /\ part = "faults" => PF!NoChildStranded

(* What is published of a command, and of a shutdown, is so, whichever     *)
(* kernel call fails; and no process is created once the channel has       *)
(* failed (ProcessEngine, publish, close and gate_launch).                 *)
AnswersHonest ==
  /\ [](part = "processes" => PE!AnswersHonest)
  /\ [](part = "faults" => PF!AnswersHonest)
  /\ [][part = "faults" => PF!SpawnsBeforeFailure]_vars

(* The ledger is exact and commands enter in the order of admission, with  *)
(* a slot refused, given back and used again, and with a step that fails   *)
(* (CommandRuntime, try_submit and the lease's legs).                      *)
WorkAccounted ==
  /\ part = "runtime" => CR!WorkAccounted
  /\ part = "failing" => CF!WorkAccounted

(* The shutdown report is true when it is made and stays true              *)
(* (CommandRuntime, close).                                                *)
CloseTruthful ==
  /\ part = "runtime" => CR!CloseTruthful
  /\ part = "failing" => CF!CloseTruthful

(* A command that is withdrawn or past its deadline is answered, though    *)
(* its process might never exit by itself (ProcessEngine); every command   *)
(* that was accepted gets its result, though a step of the runtime fails   *)
(* (CommandRuntime).                                                       *)
Unanswered ==
  \/ /\ part = "faults" /\ answer[Single] = "none"
     /\ PF!Known(Single) /\ (Single \in cancelled \/ Single \in expired)
  \/ part = "failing" /\ \E c \in {Observed, Plain} : CF!Admitted(c) /\ result[c] = "none"

AllAnswered == []<>~Unanswered

(* A thread that calls close comes back (ProcessEngine and CommandRuntime, *)
(* close); the runtime's, unless wait_ready is entered again and again.    *)
Closing ==
  \/ part = "faults" /\ closer["k"] \notin {"outside", "returned"}
  \/ part = "failing" /\ CF!InClose

CloseReturns == []<>~Closing \/ []<>(part = "failing" /\ waiter = "entered")
=============================================================================
