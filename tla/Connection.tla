----------------------------- MODULE Connection -----------------------------
(***************************************************************************)
(* A control connection (src/connection.cpp): one tmux -C client, a reader *)
(* and a waiter thread, and any number of callers that write requests to   *)
(* the client's input and wait for its reply blocks.                       *)
(*                                                                         *)
(* Main opens the connection, lends it to Callers and Closers, and         *)
(* destroys it when they are done.  Every critical section of State::mutex *)
(* is one action; write_mutex and lifecycle_mutex are held across actions. *)
(* A deadline is a choice: whatever waits for one may give up at any time. *)
(* Requests are known by their boundary number.                            *)
(***************************************************************************)
EXTENDS Naturals, Sequences, Functions

CONSTANTS
  Callers,      \* threads that call execute, once each
  Closers,      \* threads that call shutdown
  Main,         \* the thread that connects and destroys
  NoOne,        \* nobody holds the lock
  MaxFaults,    \* how often the environment misbehaves
  MaxEvents     \* calls, closings and faults together

ASSUME ConnectionAssumption ==
  /\ MaxFaults \in Nat /\ MaxEvents \in Nat
  /\ Main \notin Callers \cup Closers /\ Callers \cap Closers = {}
  /\ NoOne \notin Callers \cup Closers \cup {Main}

Threads == Callers \cup Closers \cup {Main}

VARIABLES
  s,            \* State: the flags, the descriptor and the queue of requests
  req,          \* the PendingRequest of every boundary number
  wire,         \* what was written to the client: <<request, how much of it>>
  child,        \* the client, its output pipe and its process number
  at,           \* where each thread is in execute, shutdown or the destructor
  answer,       \* what each thread's call returned
  reader, waiter,
  writing,      \* the holder of write_mutex
  closing_up,   \* the holder of lifecycle_mutex
  phase,        \* how far Main is
  used          \* faults and events spent

vars == <<s, req, wire, child, at, answer, reader, waiter, writing, closing_up, phase, used>>

(* A frame is the command line and the boundary line.  Of a part of it the client may *)
(* have the whole command line, or not.                                              *)
Part == 1
Whole == 2

NoAnswer == [kind |-> "none", delivery |-> "none", req |-> 0]

Fresh ==
  [startup_seen |-> FALSE, ready |-> FALSE, closing |-> FALSE, fatal |-> FALSE,
   saw_exit |-> FALSE, reader_done |-> FALSE, reaped |-> FALSE, shutdown_complete |-> FALSE,
   partial |-> FALSE, input |-> "open", log |-> "open", pending |-> <<>>]

NoClient ==
  [state |-> "none", greeted |-> FALSE, out |-> <<>>, served |-> <<>>, signal |-> "none"]

(* Nothing exists yet and Main connects for itself; or connect has returned, its two *)
(* requests are settled, and the connection is lent to the other threads.            *)
Connecting ==
  /\ phase = "spawn" /\ reader = "none" /\ waiter = "none"
  /\ s = Fresh /\ child = NoClient

Connected ==
  /\ phase = "lent" /\ reader = "loop" /\ waiter = "waiting"
  /\ s = [Fresh EXCEPT !.startup_seen = TRUE, !.ready = TRUE]
  /\ child = [NoClient EXCEPT !.state = "live", !.greeted = TRUE]

Init ==
  /\ Connecting \/ Connected
  /\ req = <<>> /\ wire = <<>>
  /\ at = [t \in Threads |-> [pc |-> "idle", req |-> 0, poison |-> FALSE]]
  /\ answer = [t \in Threads |-> NoAnswer]
  /\ writing = NoOne /\ closing_up = NoOne
  /\ used = [faults |-> 0, events |-> 0]
-----------------------------------------------------------------------------
Spend(faults) ==
  /\ used.events < MaxEvents /\ used.faults + faults <= MaxFaults
  /\ used' = [faults |-> used.faults + faults, events |-> used.events + 1]

Fault == Spend(1)

Go(t, pc) == at' = [at EXCEPT ![t].pc = pc]

Return(t, kind, delivery, n) ==
  /\ at' = [at EXCEPT ![t] = [pc |-> "done", req |-> 0, poison |-> FALSE]]
  /\ answer' = [answer EXCEPT ![t] = [kind |-> kind, delivery |-> delivery, req |-> n]]

(* Every request of the queue completes with an error. *)
Abandon(queue) ==
  req' = [n \in DOMAIN req |->
            IF n \in Range(queue) THEN [req[n] EXCEPT !.error = TRUE, !.complete = TRUE]
                                  ELSE req[n]]

fail_locked(state) ==
  /\ s' = [state EXCEPT !.fatal = TRUE, !.pending = <<>>, !.log = "closed"]
  /\ Abandon(state.pending)

(* kill does something to a client that runs, and to a zombie nothing.  Between *)
(* waitpid and the flag its number may be someone else's.                      *)
Stronger(old, new) == IF old = "kill" THEN old ELSE new

signal_child_locked(signal) ==
  child' = IF s.reaped \/ child.state # "live" THEN child
           ELSE [child EXCEPT !.signal = Stronger(@, signal)]
-----------------------------------------------------------------------------
(***************************************************************************)
(* The client.  It greets, answers frame after frame, and exits when its   *)
(* input ends, when it is told to, or when the daemon goes.                *)
(***************************************************************************)
Emit(event) == child' = [child EXCEPT !.out = Append(@, event)]

Event(kind) == [kind |-> kind, req |-> 0]

Lives == child.state = "live"

ClientGreets ==
  /\ Lives /\ ~child.greeted
  /\ \/ /\ child' = [child EXCEPT !.greeted = TRUE, !.out = Append(@, Event("attached"))]
        /\ UNCHANGED used
     \/ /\ child' = [child EXCEPT !.greeted = TRUE, !.out = Append(@, Event("refused"))]
        /\ Fault
  /\ UNCHANGED <<s, req, wire, at, answer, reader, waiter, writing, closing_up, phase>>

Served(i) == i \in DOMAIN child.served

(* The command runs once its line is there; a command may fail. *)
ClientReplies ==
  LET i == Len(child.served) + 1 IN
  /\ Lives /\ child.greeted
  /\ i \in DOMAIN wire /\ wire[i].amount >= Part
  /\ i > 1 => child.served[i - 1] = "whole"
  /\ \E kind \in {"end", "error"} :
       /\ child' = [child EXCEPT !.served = Append(@, "command"),
                                 !.out = Append(@, [kind |-> kind, req |-> wire[i].req])]
       /\ IF kind = "error" THEN Fault ELSE UNCHANGED used
  /\ UNCHANGED <<s, req, wire, at, answer, reader, waiter, writing, closing_up, phase>>

ClientBounds ==
  LET i == Len(child.served) IN
  /\ Lives
  /\ i > 0 /\ child.served[i] = "command" /\ wire[i].amount = Whole
  /\ child' = [child EXCEPT !.served[i] = "whole",
                            !.out = Append(@, [kind |-> "boundary", req |-> wire[i].req])]
  /\ UNCHANGED <<s, req, wire, at, answer, reader, waiter, writing, closing_up, phase, used>>

(* A block of a hook, a block whose guard cannot be read, a line that breaks the protocol. *)
ClientMisbehaves ==
  /\ Lives /\ child.greeted
  /\ \E kind \in {"hook", "badflags", "garbled"} : Emit(Event(kind))
  /\ Fault
  /\ UNCHANGED <<s, req, wire, at, answer, reader, waiter, writing, closing_up, phase>>

ClientExits ==
  /\ Lives
  /\ child' = [child EXCEPT !.state = "zombie", !.signal = "none", !.out = Append(@, Event("exit"))]
  /\ UNCHANGED <<s, req, wire, at, answer, reader, waiter, writing, closing_up, phase, used>>

ClientDies ==
  /\ Lives
  /\ \/ child.signal # "none" /\ UNCHANGED used
     \/ child.signal = "none" /\ Fault
  /\ child' = [child EXCEPT !.state = "zombie", !.signal = "none"]
  /\ UNCHANGED <<s, req, wire, at, answer, reader, waiter, writing, closing_up, phase>>
-----------------------------------------------------------------------------
(***************************************************************************)
(* The reader: accept_event for one event of the output, then the end.     *)
(***************************************************************************)
keep_reader == <<wire, at, answer, waiter, writing, closing_up, phase>>

accept_event(event) ==
  IF event.kind = "exit" THEN s' = [s EXCEPT !.saw_exit = TRUE] /\ UNCHANGED req
  ELSE IF event.kind = "badflags" THEN fail_locked(s)
  ELSE IF ~s.startup_seen
  THEN IF event.kind = "attached"
       THEN s' = [s EXCEPT !.startup_seen = TRUE, !.ready = TRUE] /\ UNCHANGED req
       ELSE fail_locked([s EXCEPT !.startup_seen = TRUE])
  ELSE IF event.kind = "hook" THEN UNCHANGED <<s, req>>
  ELSE IF s.pending = <<>>
  THEN IF s.closing \/ s.fatal THEN UNCHANGED <<s, req>> ELSE fail_locked(s)
  ELSE LET n == Head(s.pending) IN
       IF event.kind = "boundary" /\ event.req = n
       THEN /\ req' = [req EXCEPT ![n].delivery = "replied", ![n].complete = TRUE]
            /\ s' = [s EXCEPT !.pending = Tail(@)]
       ELSE /\ req' = [req EXCEPT ![n].delivery = "replied", ![n].blocks = Append(@, event)]
            /\ UNCHANGED s

ReaderAccepts ==
  /\ reader = "loop"
  /\ child.out # <<>> /\ Head(child.out).kind # "garbled"
  /\ accept_event(Head(child.out))
  /\ child' = [child EXCEPT !.out = Tail(@)]
  /\ UNCHANGED <<keep_reader, reader, used>>

(* feed refuses a chunk as a whole: the events before the bad line go with it. *)
ReaderRefusesChunk ==
  /\ reader = "loop"
  /\ \E i \in DOMAIN child.out :
       /\ child.out[i].kind = "garbled"
       /\ child' = [child EXCEPT !.out = SubSeq(@, i + 1, Len(@))]
  /\ fail_locked(s)
  /\ UNCHANGED <<keep_reader, reader, used>>

ReaderFails ==
  /\ reader = "loop"
  /\ fail_locked(s)
  /\ reader' = "finish"
  /\ Fault
  /\ UNCHANGED <<keep_reader, child>>

(* Both pipes are at their end, or the connection has failed. *)
ReaderLeaves ==
  /\ reader = "loop"
  /\ s.fatal \/ (child.out = <<>> /\ ~Lives)
  /\ reader' = "finish"
  /\ UNCHANGED <<keep_reader, s, req, child, used>>

ReaderFinishes ==
  /\ reader = "finish"
  /\ LET broken == s.fatal \/ ~s.saw_exit \/ s.pending # <<>> IN
     IF broken
     THEN fail_locked([s EXCEPT !.closing = TRUE]) /\ reader' = "close"
     ELSE UNCHANGED <<s, req>> /\ reader' = "leave"
  /\ UNCHANGED <<keep_reader, child, used>>

(* The input is closed under write_mutex, then the client is told to end. *)
ReaderCloses ==
  /\ reader = "close" /\ writing = NoOne
  /\ s' = [s EXCEPT !.input = "closed"]
  /\ signal_child_locked("term")
  /\ reader' = "leave"
  /\ UNCHANGED <<keep_reader, req, used>>

ReaderEnds ==
  /\ reader = "leave" /\ reader' = "gone"
  /\ s' = [s EXCEPT !.reader_done = TRUE, !.log = "closed"]
  /\ UNCHANGED <<keep_reader, req, child, used>>
-----------------------------------------------------------------------------
(***************************************************************************)
(* The waiter: waitid and waitpid, then the flag under the mutex.          *)
(***************************************************************************)
keep_waiter == <<wire, at, answer, reader, writing, closing_up, phase>>

WaiterReaps ==
  /\ \/ /\ waiter = "waiting" /\ child.state = "zombie" /\ waiter' = "freed"
        /\ child' = [child EXCEPT !.state = "freed"]
        /\ UNCHANGED s
     \/ /\ waiter = "freed" /\ waiter' = "gone"
        /\ s' = [s EXCEPT !.reaped = TRUE]
        /\ UNCHANGED child
  /\ UNCHANGED <<keep_waiter, req, used>>

(* waitid fails: another part of the process reaped the client, or an error *)
(* that says nothing about it.                                              *)
WaiterFails ==
  /\ waiter = "waiting"
  /\ \/ /\ child.state = "zombie"
        /\ child' = [child EXCEPT !.state = "freed"]
        /\ s' = [s EXCEPT !.reaped = TRUE]
        /\ UNCHANGED req
     \/ fail_locked(s) /\ UNCHANGED child
  /\ waiter' = "gone"
  /\ Fault
  /\ UNCHANGED keep_waiter
-----------------------------------------------------------------------------
(***************************************************************************)
(* execute.                                                                *)
(***************************************************************************)
keep_thread == <<reader, waiter, closing_up, phase, used>>

(* Refused by the command gates, not renderable, or late before it has the writer. *)
Refuse(t) ==
  /\ at[t].pc = "start"
  /\ Return(t, "error", "not_started", 0)
  /\ UNCHANGED <<keep_thread, s, req, wire, child, writing>>

Accepting == s.ready /\ ~s.closing /\ ~s.shutdown_complete /\ ~s.fatal

(* The writer is taken, by its deadline, and the request queued under the mutex. *)
Push(t) ==
  /\ at[t].pc = "start" /\ writing = NoOne
  /\ req' = Append(req, [delivery |-> "not_started", complete |-> FALSE, error |-> FALSE,
                         blocks |-> <<>>])
  /\ IF Accepting
     THEN /\ s' = [s EXCEPT !.pending = Append(@, Len(req) + 1)]
          /\ at' = [at EXCEPT ![t].pc = "check", ![t].req = Len(req) + 1]
          /\ writing' = t
          /\ UNCHANGED answer
     ELSE /\ Return(t, "error", "not_started", Len(req) + 1)
          /\ UNCHANGED <<s, writing>>
  /\ UNCHANGED <<keep_thread, wire, child>>

Amount(n) == IF \E i \in DOMAIN wire : wire[i].req = n
             THEN wire[CHOOSE i \in DOMAIN wire : wire[i].req = n].amount ELSE 0

(* One turn of write_bytes: the check under the mutex, then the write. *)
CheckOpen(t) ==
  /\ at[t].pc = "check"
  /\ Go(t, IF s.closing \/ s.fatal THEN "failed" ELSE "write")
  /\ UNCHANGED <<keep_thread, s, req, wire, child, answer, writing>>

advance_delivery(current, amount) ==
  CASE current = "replied" -> current
    [] amount = Whole -> "written"
    [] OTHER -> "indeterminate"

WriteSome(t) ==
  LET n == at[t].req IN
  /\ at[t].pc = "write" /\ Lives
  /\ \E amount \in Amount(n) + 1 .. Whole :
       /\ wire' = IF Amount(n) = 0 THEN Append(wire, [req |-> n, amount |-> amount])
                  ELSE [wire EXCEPT ![Len(wire)] = [req |-> n, amount |-> amount]]
       /\ s' = [s EXCEPT !.partial = amount # Whole]
       /\ req' = [req EXCEPT ![n].delivery = advance_delivery(@, amount)]
       /\ IF amount = Whole
          THEN Go(t, "wait") /\ writing' = NoOne
          ELSE Go(t, "check") /\ UNCHANGED writing
  /\ UNCHANGED <<keep_thread, child, answer>>

(* The deadline passes, or the pipe is broken. *)
WriteFails(t) ==
  /\ at[t].pc = "write"
  /\ Go(t, "failed")
  /\ UNCHANGED <<keep_thread, s, req, wire, child, answer, writing>>

PoisonUnlessClosing(t) ==
  /\ at[t].pc = "failed"
  /\ IF s.closing THEN UNCHANGED <<s, req>> ELSE fail_locked([s EXCEPT !.closing = TRUE])
  /\ at' = [at EXCEPT ![t].pc = "wait", ![t].poison = ~s.closing]
  /\ writing' = NoOne
  /\ UNCHANGED <<keep_thread, wire, child, answer>>

Completed(t) == req[at[t].req].complete

(* What this writer achieved is the delivery it reports. *)
ReturnResult(t) ==
  LET n == at[t].req IN
  Return(t, IF req[n].error THEN "error" ELSE "ok", req[n].delivery, n)

MutGiveUp(t) ==
  /\ s' = [s EXCEPT !.pending = SelectSeq(@, LAMBDA n : n # at[t].req)]
  /\ Abandon(<<at[t].req>>)

(* A late reply would be taken for that of the next request, so the connection goes with it. *)
GiveUp(t) == fail_locked([s EXCEPT !.closing = TRUE])

Await(t) ==
  /\ at[t].pc = "wait"
  /\ \/ /\ Completed(t)
        /\ IF at[t].poison THEN Go(t, "poison") /\ UNCHANGED answer ELSE ReturnResult(t)
        /\ UNCHANGED <<s, req>>
     \/ /\ ~Completed(t)
        /\ GiveUp(t)
        /\ Go(t, "poison")
        /\ UNCHANGED answer
  /\ UNCHANGED <<keep_thread, wire, child, writing>>

Poison(t) ==
  /\ at[t].pc = "poison" /\ writing = NoOne
  /\ s' = [s EXCEPT !.input = "closed"]
  /\ signal_child_locked("term")
  /\ ReturnResult(t)
  /\ UNCHANGED <<keep_thread, req, wire, writing>>
-----------------------------------------------------------------------------
(***************************************************************************)
(* shutdown.                                                               *)
(***************************************************************************)
keep_shutdown == <<reader, waiter, phase, used>>

EndShutdown(t, kind) ==
  /\ Return(t, kind, "none", 0)
  /\ closing_up' = NoOne

ShutdownResult == IF s.fatal \/ ~s.saw_exit THEN "failed" ELSE "ended"

(* lifecycle_mutex is taken by the deadline or not at all. *)
BeginShutdown(t) ==
  /\ at[t].pc = "shutdown"
  /\ \/ /\ closing_up = NoOne /\ s.shutdown_complete
        /\ Return(t, ShutdownResult, "none", 0)
        /\ UNCHANGED <<s, req, closing_up>>
     \/ /\ closing_up = NoOne /\ ~s.shutdown_complete
        /\ closing_up' = t
        /\ s' = [s EXCEPT !.closing = TRUE, !.pending = <<>>]
        /\ Abandon(s.pending)
        /\ Go(t, "detach")
        /\ UNCHANGED answer
     \/ /\ Return(t, "late", "none", 0)
        /\ UNCHANGED <<s, req, closing_up>>
  /\ UNCHANGED <<keep_shutdown, wire, child, writing>>

(* An empty line tells the client to detach; it would complete a partial frame. *)
MayDetach == s.input = "open" /\ ~s.partial

Detach(t) ==
  /\ at[t].pc = "detach"
  /\ \/ /\ writing = NoOne
        /\ s' = [s EXCEPT !.input = "closed"]
        /\ \/ MayDetach /\ Lives /\ wire' = Append(wire, [req |-> 0, amount |-> Whole])
           \/ UNCHANGED wire
        /\ Go(t, "grace")
        /\ UNCHANGED <<answer, closing_up>>
     \/ EndShutdown(t, "late") /\ UNCHANGED <<s, wire>>
  /\ UNCHANGED <<keep_shutdown, req, child, writing>>

(* The graceful wait and the one after SIGTERM end in a signal either way. *)
Terminate(t) ==
  /\ \/ at[t].pc = "grace" /\ signal_child_locked("term") /\ Go(t, "terminate")
     \/ at[t].pc = "terminate" /\ signal_child_locked("kill") /\ Go(t, "kill")
  /\ UNCHANGED <<keep_shutdown, s, req, wire, answer, writing, closing_up>>

Ended == s.reader_done /\ s.reaped

MutFinishShutdown(t) ==
  /\ at[t].pc = "kill"
  /\ IF Ended THEN Go(t, "join") /\ UNCHANGED <<answer, closing_up>>
              ELSE EndShutdown(t, ShutdownResult)
  /\ UNCHANGED <<keep_shutdown, s, req, wire, child, writing>>

FinishShutdown(t) ==
  /\ at[t].pc = "kill"
  /\ IF Ended THEN Go(t, "join") /\ UNCHANGED <<answer, closing_up>>
              ELSE EndShutdown(t, "late")
  /\ UNCHANGED <<keep_shutdown, s, req, wire, child, writing>>

CompleteShutdown(t) ==
  /\ at[t].pc = "join"
  /\ reader = "gone" /\ waiter = "gone"
  /\ s' = [s EXCEPT !.shutdown_complete = TRUE]
  /\ EndShutdown(t, ShutdownResult)
  /\ UNCHANGED <<keep_shutdown, req, wire, child, writing>>
-----------------------------------------------------------------------------
(***************************************************************************)
(* Main: connect, the loan, and the destructor.                            *)
(***************************************************************************)
keep_main == <<req, wire, writing, closing_up>>

(* The options, the daemon's release or the spawn refuse the connection. *)
RefuseConnection ==
  /\ phase = "spawn"
  /\ phase' = "gone"
  /\ s' = [s EXCEPT !.log = "closed"]
  /\ UNCHANGED <<keep_main, child, at, answer, reader, waiter, used>>

(* The client is spawned; its two threads start, or the second one does not, or *)
(* neither does.                                                                *)
Spawn ==
  /\ phase = "spawn"
  /\ child' = [child EXCEPT !.state = "live"]
  /\ \/ /\ phase' = "await" /\ reader' = "loop" /\ waiter' = "waiting"
        /\ UNCHANGED <<at, used>>
     \/ /\ phase' = "destroy" /\ waiter' \in {"waiting", "none"}
        /\ Fault
        /\ Go(Main, "kill_child")
        /\ UNCHANGED reader
  /\ UNCHANGED <<keep_main, s, answer>>

StartExecute == at' = [at EXCEPT ![Main] = [pc |-> "start", req |-> 0, poison |-> FALSE]]

StartShutdown == at' = [at EXCEPT ![Main] = [pc |-> "shutdown", req |-> 0, poison |-> FALSE]]

(* Ready, failed, or late.  A daemon that was not there to be asked is not fenced. *)
Await_startup ==
  /\ phase = "await"
  /\ \/ s.ready /\ phase' \in {"fence", "layout"} /\ StartExecute
     \/ ~s.ready /\ phase' = "abandon" /\ StartShutdown
  /\ UNCHANGED <<keep_main, s, child, answer, reader, waiter, used>>

(* The fence and the layout request must each come back without an error block. *)
Accepted ==
  LET a == answer[Main] IN
  a.kind = "ok" /\ (req[a.req].blocks # <<>> => req[a.req].blocks[1].kind # "error")

Settle ==
  /\ phase \in {"fence", "layout"} /\ at[Main].pc = "done"
  /\ \/ ~Accepted /\ phase' = "abandon" /\ StartShutdown
     \/ Accepted /\ phase = "fence" /\ phase' = "layout" /\ StartExecute
     \/ Accepted /\ phase = "layout" /\ phase' = "open" /\ UNCHANGED at
  /\ UNCHANGED <<keep_main, s, child, answer, reader, waiter, used>>

Call(t) ==
  /\ phase = "lent" /\ at[t].pc = "idle"
  /\ Go(t, "start")
  /\ Spend(0)
  /\ UNCHANGED <<keep_main, s, child, answer, reader, waiter, phase>>

Close(t) ==
  /\ phase = "lent" /\ at[t].pc \in {"idle", "done"}
  /\ Spend(0)
  /\ Go(t, "shutdown")
  /\ UNCHANGED <<keep_main, s, child, answer, reader, waiter, phase>>

AllBack == \A t \in Callers \cup Closers : at[t].pc \in {"idle", "done"}

(* The destructor's own shutdown. *)
Destruct ==
  /\ \/ phase \in {"open", "lent"} /\ AllBack
     \/ phase = "abandon" /\ at[Main].pc = "done"
  /\ phase' = "destruct"
  /\ StartShutdown
  /\ UNCHANGED <<keep_main, s, child, answer, reader, waiter, used>>

MutLastSignal == signal_child_locked("term")

LastSignal == signal_child_locked("kill")

(* ~State: the kill comes first, because a blocked writer holds the mutex of the input. *)
KillChild ==
  /\ \/ phase = "destruct" /\ at[Main].pc = "done"
     \/ phase = "destroy" /\ at[Main].pc = "kill_child"
  /\ phase' = "destroy"
  /\ LastSignal
  /\ s' = [s EXCEPT !.input = "closed"]
  /\ Go(Main, "join_threads")
  /\ UNCHANGED <<keep_main, answer, reader, waiter, used>>

(* The threads that exist are joined; without a waiter the client is reaped here. *)
JoinThreads ==
  /\ phase = "destroy" /\ at[Main].pc = "join_threads"
  /\ reader \in {"gone", "none"}
  /\ \/ waiter = "gone" /\ UNCHANGED child /\ s' = [s EXCEPT !.log = "closed"]
     \/ /\ waiter = "none" /\ child.state = "zombie"
        /\ child' = [child EXCEPT !.state = "freed"]
        /\ s' = [s EXCEPT !.log = "closed", !.reaped = TRUE]
  /\ Go(Main, "done")
  /\ phase' = "gone"
  /\ UNCHANGED <<keep_main, answer, reader, waiter, used>>
-----------------------------------------------------------------------------
Reader ==
  ReaderAccepts \/ ReaderRefusesChunk \/ ReaderFails \/ ReaderLeaves \/ ReaderFinishes
  \/ ReaderCloses \/ ReaderEnds

Waiter == WaiterReaps \/ WaiterFails

Execute(t) ==
  \/ Refuse(t) \/ Push(t) \/ CheckOpen(t) \/ WriteSome(t) \/ WriteFails(t)
  \/ PoisonUnlessClosing(t) \/ Await(t) \/ Poison(t)

Shutdown(t) ==
  \/ BeginShutdown(t) \/ Detach(t) \/ Terminate(t) \/ FinishShutdown(t)
  \/ CompleteShutdown(t)

Client == ClientGreets \/ ClientReplies \/ ClientBounds \/ ClientMisbehaves \/ ClientExits \/ ClientDies

Library ==
  \/ RefuseConnection \/ Spawn \/ Await_startup \/ Settle \/ Destruct \/ KillChild \/ JoinThreads
  \/ \E t \in Callers : Call(t)
  \/ \E t \in Closers : Close(t)
  \/ \E t \in Callers \cup {Main} : Execute(t)
  \/ \E t \in Closers \cup {Main} : Shutdown(t)
  \/ Reader \/ Waiter

Gone == phase = "gone"

Next == Library \/ Client \/ (Gone /\ UNCHANGED vars)

Spec == Init /\ [][Next]_vars
-----------------------------------------------------------------------------
(***************************************************************************)
(* A request that comes back without an error brings the reply of its own  *)
(* command and of no other, however late replies, time-outs, shutdowns and *)
(* failures of other requests fell (the matching of accept_event).         *)
(***************************************************************************)
AnswersOwn ==
  \A t \in Callers \cup {Main} :
    LET a == answer[t] IN
    a.kind = "ok" =>
      /\ Len(req[a.req].blocks) = 1
      /\ req[a.req].blocks[1].req = a.req

(***************************************************************************)
(* A failed request reports what became of its bytes: not started means    *)
(* that none was or will be written, written that all were, indeterminate  *)
(* that some were, replied that the client had begun to answer it.         *)
(***************************************************************************)
DeliveryHonest ==
  \A t \in Callers \cup {Main} :
    LET a == answer[t] IN
    a.kind = "error" =>
      CASE a.delivery = "not_started" -> Amount(a.req) = 0 \/ a.req = 0
        [] a.delivery = "indeterminate" -> Amount(a.req) \in 1 .. Whole - 1
        [] a.delivery = "written" -> Amount(a.req) = Whole
        [] a.delivery = "replied" -> \E i \in DOMAIN wire : wire[i].req = a.req /\ Served(i)
        [] OTHER -> FALSE

(***************************************************************************)
(* Nothing is written behind a frame that was cut short, neither the next  *)
(* request nor the empty line of shutdown: the client would take the two   *)
(* for one command (partial_command_frame and the closing flag).           *)
(***************************************************************************)
FramesWhole == \A i \in 1 .. Len(wire) - 1 : wire[i].amount = Whole

(***************************************************************************)
(* The descriptor of the input is used only while it is open: whoever is   *)
(* past the check of write_bytes finds it so, because everyone who closes  *)
(* it has announced it under the mutex and then waited for the writer.     *)
(***************************************************************************)
WritesToOpenInput ==
  /\ \A t \in Callers \cup {Main} : at[t].pc \in {"check", "write"} => s.input = "open"
  /\ s.input = "closed" => s.closing \/ phase = "destroy" \/ Gone

(***************************************************************************)
(* A call gets its own reply or the truth about what was written, and      *)
(* nobody writes where nothing may be written.                             *)
(***************************************************************************)
CallsHonest == AnswersOwn /\ DeliveryHonest /\ FramesWhole /\ WritesToOpenInput

(***************************************************************************)
(* When neither the library nor a killed client can go on, the connection  *)
(* is destroyed, its threads are gone, the client is reaped unless the     *)
(* waiter's waitid failed, its log is closed and every call has returned:  *)
(* no interleaving of failures, time-outs and closures leaves a join or a  *)
(* lock behind.                                                            *)
(***************************************************************************)
Idle == ~ENABLED Library /\ ~(Lives /\ child.signal = "kill")

NobodyStranded ==
  Idle => /\ Gone /\ AllBack
          /\ s.log = "closed" /\ writing = NoOne /\ closing_up = NoOne
          /\ reader \in {"gone", "none"} /\ waiter \in {"gone", "none"}
          /\ child.state \in {"none", "freed"} \/ (waiter = "gone" /\ ~s.reaped)

(***************************************************************************)
(* A shutdown that reports success has ended everything: the client said   *)
(* %exit and was reaped, both threads are gone and no request is open.     *)
(***************************************************************************)
ShutdownTruthful ==
  \A t \in Closers \cup {Main} :
    answer[t].kind = "ended" =>
      /\ s.saw_exit /\ child.state = "freed" /\ reader = "gone" /\ waiter = "gone"
      /\ s.pending = <<>>
=============================================================================
