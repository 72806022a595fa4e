---------------------------- MODULE CommandEngine ----------------------------
(***************************************************************************)
(* The worker-pool engine (src/command_engine.cpp): commands are admitted  *)
(* against a bound, queued, taken by workers in order, and let into the    *)
(* transport one after the other in that order, though they then run side  *)
(* by side.  Each critical section of the engine's mutex is one action;    *)
(* publishing, retiring and the retirement hook happen outside it.         *)
(***************************************************************************)
EXTENDS Naturals, Sequences

CONSTANTS
  Cmd, NoCmd,       \* the commands that may be submitted
  Worker,           \* workers_
  Closer,           \* threads that call close()
  OperationLimit    \* operation_limit_

(* create refuses a pool without workers; NoCmd is no command. *)
ASSUME PoolAssumption == NoCmd \notin Cmd /\ Worker # {}

VARIABLES
  pending,          \* pending_, as the commands in it
  order,            \* PendingCommand::order
  next_order, next_entry, stop_requested, close_joining, terminal,
  in_flight,        \* in_flight_ of the channel
  at,               \* where each worker is, with its command and answer
  idle,             \* workers asleep on ready_
  queueing,         \* workers asleep on entry_ready_
  submitting,       \* commands admitted whose submit has not queued them yet
  withdrawn,        \* commands whose cancellation was requested
  answer,           \* the outcome published for a command: "none", "overloaded",
                    \* "closed", "withdrawn", "timeout", "answer", "indeterminate"
  hooks,            \* how often its retirement hook ran
  observed,         \* commands whose observer is done with the result
  closer,           \* where each closing thread is
  entered           \* history: the commands in the order they entered

queue == <<pending, order, next_order>>
results == <<answer, hooks, observed, withdrawn>>
flags == <<stop_requested, close_joining, terminal>>
vars == <<queue, next_entry, flags, in_flight, at, idle, queueing, submitting, results,
          closer, entered>>

Top == [pc |-> "top", cmd |-> NoCmd, reply |-> "none"]

Init ==
  /\ pending = <<>>
  /\ order = [c \in Cmd |-> 0]
  /\ next_order = 0 /\ next_entry = 0
  /\ stop_requested = FALSE /\ close_joining = FALSE /\ terminal = FALSE
  /\ in_flight = 0
  /\ at = [w \in Worker |-> Top]
  /\ idle = {} /\ queueing = {}
  /\ submitting = {}
  /\ withdrawn = {}
  /\ answer = [c \in Cmd |-> "none"]
  /\ hooks = [c \in Cmd |-> 0]
  /\ observed = {}
  /\ closer = [k \in Closer |-> "outside"]
  /\ entered = <<>>
-----------------------------------------------------------------------------
(* What is left asleep after notify_one and after notify_all. *)
NotifyOne(asleep) == IF asleep = {} THEN {{}} ELSE {asleep \ {w} : w \in asleep}

NotifyAll(asleep) == {}

(***************************************************************************)
(* Publication, retirement and the hook of a command that never reached a  *)
(* worker.  The slot goes back when the observer is done as well.          *)
(***************************************************************************)
Publish(c, reply) == answer' = [answer EXCEPT ![c] = reply]

RunHook(c) == hooks' = [hooks EXCEPT ![c] = @ + 1]

Released(c) == IF c \in observed THEN in_flight - 1 ELSE in_flight

Admitted(c) ==
  \/ c \in submitting
  \/ \E i \in DOMAIN pending : pending[i] = c
  \/ \E w \in Worker : at[w].cmd = c
  \/ answer[c] \notin {"none", "overloaded"}

Admit(c) ==
  /\ answer[c] = "none" /\ ~Admitted(c)
  /\ IF in_flight < OperationLimit
     THEN /\ in_flight' = in_flight + 1
          /\ submitting' = submitting \cup {c}
          /\ UNCHANGED <<answer, hooks>>
     ELSE /\ Publish(c, "overloaded")
          /\ RunHook(c)
          /\ UNCHANGED <<in_flight, submitting>>
  /\ UNCHANGED <<queue, next_entry, flags, at, idle, queueing, withdrawn, observed,
                 closer, entered>>

(* The rest of submit, under the engine's mutex. *)
Submit(c) ==
  /\ c \in submitting
  /\ submitting' = submitting \ {c}
  /\ IF stop_requested
     THEN /\ Publish(c, "closed")
          /\ RunHook(c)
          /\ in_flight' = Released(c)
          /\ UNCHANGED <<queue, idle>>
     ELSE /\ pending' = Append(pending, c)
          /\ order' = [order EXCEPT ![c] = next_order]
          /\ next_order' = next_order + 1
          /\ idle' \in NotifyOne(idle)
          /\ UNCHANGED <<answer, hooks, in_flight>>
  /\ UNCHANGED <<next_entry, flags, at, queueing, withdrawn, observed, closer, entered>>

RequestCancel(c) ==
  /\ answer[c] = "none" /\ Admitted(c) /\ c \notin withdrawn
  /\ withdrawn' = withdrawn \cup {c}
  /\ UNCHANGED <<queue, next_entry, flags, in_flight, at, idle, queueing, submitting,
                 answer, hooks, observed, closer, entered>>

(***************************************************************************)
(* The observer is done: it took the result, or was detached before.  The  *)
(* slot goes back now if the transport has retired.                        *)
(***************************************************************************)
Observe(c) ==
  /\ c \notin observed /\ Admitted(c)
  /\ observed' = observed \cup {c}
  /\ in_flight' = IF hooks[c] > 0 THEN in_flight - 1 ELSE in_flight
  /\ UNCHANGED <<queue, next_entry, flags, at, idle, queueing, submitting, answer, hooks,
                 withdrawn, closer, entered>>
-----------------------------------------------------------------------------
engine == <<queue, next_entry, flags, in_flight, submitting, results, closer, entered>>

Exited(w) == at[w].pc = "exited"

(* The wait on ready_ and the dequeue. *)
Dequeue(w) ==
  /\ at[w].pc = "top"
  /\ w \notin idle
  /\ \/ /\ pending # <<>>
        /\ at' = [at EXCEPT ![w] = [pc |-> "entry", cmd |-> Head(pending), reply |-> "none"]]
        /\ pending' = Tail(pending)
        /\ UNCHANGED idle
     \/ /\ pending = <<>> /\ stop_requested
        /\ at' = [at EXCEPT ![w].pc = "exited"]
        /\ UNCHANGED <<pending, idle>>
     \/ /\ pending = <<>> /\ ~stop_requested
        /\ idle' = idle \cup {w}
        /\ UNCHANGED <<pending, at>>
  /\ UNCHANGED <<order, next_order, next_entry, flags, in_flight, queueing, submitting,
                 results, closer, entered>>

MutMayEnter(c) == TRUE

MayEnter(c) == order[c] = next_entry

(* The wait on entry_ready_ for the command's turn, or for the stop. *)
AwaitEntry(w) ==
  /\ at[w].pc = "entry"
  /\ w \notin queueing
  /\ \/ /\ stop_requested
        /\ at' = [at EXCEPT ![w].pc = "publish", ![w].reply = "closed"]
        /\ UNCHANGED queueing
     \/ /\ ~stop_requested /\ MayEnter(at[w].cmd)
        /\ at' = [at EXCEPT ![w].pc = "decide"]
        /\ UNCHANGED queueing
     \/ /\ ~stop_requested /\ ~MayEnter(at[w].cmd)
        /\ queueing' = queueing \cup {w}
        /\ UNCHANGED at
  /\ UNCHANGED <<engine, idle>>

(* A command that was withdrawn or is too late only gives up its turn. *)
Decide(w) ==
  /\ at[w].pc = "decide"
  /\ \/ /\ at[w].cmd \in withdrawn
        /\ at' = [at EXCEPT ![w].pc = "advance", ![w].reply = "withdrawn"]
        /\ UNCHANGED entered
     \/ /\ at[w].cmd \notin withdrawn
        /\ at' = [at EXCEPT ![w].pc = "advance", ![w].reply = "timeout"]
        /\ UNCHANGED entered
     \/ /\ at[w].cmd \notin withdrawn
        /\ at' = [at EXCEPT ![w].pc = "running"]
        /\ entered' = Append(entered, at[w].cmd)
  /\ UNCHANGED <<queue, next_entry, flags, in_flight, submitting, results, closer, idle,
                 queueing>>

MutAdvanceEntry(c) == UNCHANGED <<next_entry, queueing>>

(* advance_entry: only the command whose turn it is moves the turn on. *)
AdvanceEntry(c) ==
  IF order[c] = next_entry
  THEN next_entry' = next_entry + 1 /\ queueing' = NotifyAll(queueing)
  ELSE UNCHANGED <<next_entry, queueing>>

(* The runner announces that the command is in the transport, and goes on. *)
RunnerEntered(w) ==
  /\ at[w].pc = "running"
  /\ at' = [at EXCEPT ![w].pc = "entered"]
  /\ AdvanceEntry(at[w].cmd)
  /\ UNCHANGED <<queue, flags, in_flight, submitting, results, closer, idle, entered>>

(* The runner returns an answer, or throws and leaves the prepared one. *)
RunnerReturns(w) ==
  /\ at[w].pc \in {"running", "entered"}
  /\ \E reply \in {"answer", "indeterminate"} :
       at' = [at EXCEPT ![w].reply = reply,
                        ![w].pc = IF at[w].pc = "running" THEN "advance" ELSE "publish"]
  /\ UNCHANGED <<engine, idle, queueing>>

(* EntryGuard::advance before the outcome is published. *)
Advance(w) ==
  /\ at[w].pc = "advance"
  /\ at' = [at EXCEPT ![w].pc = "publish"]
  /\ AdvanceEntry(at[w].cmd)
  /\ UNCHANGED <<queue, flags, in_flight, submitting, results, closer, idle, entered>>

WorkerPublishes(w) ==
  /\ at[w].pc = "publish"
  /\ Publish(at[w].cmd, at[w].reply)
  /\ at' = [at EXCEPT ![w].pc = "retire"]
  /\ UNCHANGED <<queue, next_entry, flags, in_flight, submitting, hooks, observed,
                 withdrawn, closer, idle, queueing, entered>>

(* source.retire(), then the hook; back to the top of the loop. *)
WorkerRetires(w) ==
  /\ at[w].pc = "retire"
  /\ RunHook(at[w].cmd)
  /\ in_flight' = Released(at[w].cmd)
  /\ at' = [at EXCEPT ![w] = Top]
  /\ UNCHANGED <<queue, next_entry, flags, submitting, answer, observed, withdrawn,
                 closer, idle, queueing, entered>>
-----------------------------------------------------------------------------
RequestStop ==
  /\ stop_requested' = TRUE
  /\ idle' = NotifyAll(idle) /\ queueing' = NotifyAll(queueing)
  /\ UNCHANGED <<queue, next_entry, close_joining, terminal, in_flight, at, submitting,
                 results, closer, entered>>

(* close: the first caller stops the engine and joins, the others wait; a  *)
(* later call finds it terminal.                                           *)
CloseBegin(k) ==
  /\ closer[k] \in {"outside", "returned"}
  /\ IF terminal THEN closer' = [closer EXCEPT ![k] = "returned"] /\ UNCHANGED flags
     ELSE IF close_joining
          THEN closer' = [closer EXCEPT ![k] = "waiting"] /\ UNCHANGED flags
          ELSE /\ closer' = [closer EXCEPT ![k] = "joining"]
               /\ stop_requested' = TRUE /\ close_joining' = TRUE
               /\ UNCHANGED terminal
  /\ LET first == ~terminal /\ ~close_joining
     IN  /\ idle' = IF first THEN NotifyAll(idle) ELSE idle
         /\ queueing' = IF first THEN NotifyAll(queueing) ELSE queueing
  /\ UNCHANGED <<queue, next_entry, in_flight, at, submitting, results, entered>>

Joined == \A w \in Worker : Exited(w)

CloseEnd(k) ==
  /\ \/ closer[k] = "joining" /\ Joined /\ terminal' = TRUE
     \/ closer[k] = "waiting" /\ terminal /\ UNCHANGED terminal
  /\ closer' = [closer EXCEPT ![k] = "returned"]
  /\ UNCHANGED <<queue, next_entry, stop_requested, close_joining, in_flight, at, idle,
                 queueing, submitting, results, entered>>

Work(w) ==
  Dequeue(w) \/ AwaitEntry(w) \/ Decide(w) \/ RunnerReturns(w) \/ Advance(w)
  \/ WorkerPublishes(w) \/ WorkerRetires(w)

Next ==
  \/ \E c \in Cmd : Admit(c) \/ Submit(c) \/ RequestCancel(c) \/ Observe(c)
  \/ \E w \in Worker : Work(w) \/ RunnerEntered(w)
  \/ RequestStop
  \/ \E k \in Closer : CloseBegin(k) \/ CloseEnd(k)

Spec == Init /\ [][Next]_vars

-----------------------------------------------------------------------------
(***************************************************************************)
(* docs/runtime.md:128, "accepted commands enter the transport in          *)
(* admission order", whichever worker holds which command; and only one is *)
(* on its way in at a time.                                                *)
(***************************************************************************)
EntryOrder ==
  /\ \A i, j \in DOMAIN entered : i < j => order[entered[i]] < order[entered[j]]
  /\ \A w, v \in Worker :
       {at[w].pc, at[v].pc} \subseteq {"decide", "running"} => w = v

(***************************************************************************)
(* A command reported as not started never reached the transport, and one  *)
(* that reached it is answered by it: the delivery status is honest.       *)
(***************************************************************************)
DeliveryHonest ==
  \A c \in Cmd : answer[c] # "none" =>
    (answer[c] \in {"answer", "indeterminate"} <=>
       \E i \in DOMAIN entered : entered[i] = c)

(***************************************************************************)
(* When close has returned, every command it could find queued or running  *)
(* has its outcome and its hook has run, for every closing thread.         *)
(***************************************************************************)
CloseSettles ==
  (\E k \in Closer : closer[k] = "returned") =>
    /\ \A w \in Worker : Exited(w)
    /\ pending = <<>>
    /\ \A c \in Cmd : Admitted(c) =>
         c \in submitting \/ (answer[c] # "none" /\ hooks[c] = 1)

(***************************************************************************)
(* Nobody is left waiting: when no thread can go on by itself (callers are *)
(* out of submit, and every worker sleeps on ready_ or entry_ready_ or has *)
(* exited), every admitted command is answered and its hook has run, and   *)
(* after a stop every worker is gone, so that close returns.               *)
(***************************************************************************)
NobodyStranded ==
  (submitting = {} /\ \A w \in Worker : w \in idle \cup queueing \/ Exited(w)) =>
    /\ \A c \in Cmd : Admitted(c) => answer[c] # "none" /\ hooks[c] = 1
    /\ stop_requested => Joined

(***************************************************************************)
(* Commands enter in turn, and what is said of each one's delivery is so.  *)
(***************************************************************************)
TurnsKept == EntryOrder /\ DeliveryHonest

(***************************************************************************)
(* Everybody is answered, whoever submits, sleeps or closes.               *)
(***************************************************************************)
AllSettled == CloseSettles /\ NobodyStranded
=============================================================================
