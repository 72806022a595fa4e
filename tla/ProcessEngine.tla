---------------------------- MODULE ProcessEngine ----------------------------
(***************************************************************************)
(* The process engine (src/process_engine.cpp) and the children it owns    *)
(* (src/posix_child.cpp): a launch lane that only creates processes, a     *)
(* reactor that drains, signals, reaps and publishes, and the channel the  *)
(* two share with callers (its failure, its wake pipe, its launch gate).   *)
(* Each critical section is one action.  A reactor turn handles one child  *)
(* per action; what the kernel answers in it is chosen freely, within the  *)
(* faults the instance allows.  The admission count is OperationState's    *)
(* subject: here a submission may always be told the engine is full.       *)
(***************************************************************************)
EXTENDS Naturals, Sequences, FiniteSets

CONSTANTS
  Cmd, NoCmd,
  Timed,        \* the commands whose request carries a timeout
  Closer,       \* threads that call close()
  Faults        \* which kernel calls may fail in this instance

VARIABLES
  pending, launching, arrived, live,
  stop_requested, failure, close_joining, terminal,
  published, reaped, report,
  channel_failure,  \* failure_ of the channel
  gate,             \* the launch lane holds the channel's mutex
  woken,            \* the wake pipe is readable
  launcher,         \* where the launch lane is
  parked,           \* it sleeps on launch_ready_
  reactor,          \* where the reactor is
  child,            \* the EngineLive of a launched command
  proc,             \* the operating system's view of its process
  submitting, cancelled, expired, answer, hooks,
  closer

queues == <<pending, launching, arrived, live>>
flags == <<stop_requested, failure, close_joining, terminal>>
counts == <<published, reaped, report>>
pipe == <<channel_failure, gate, woken>>
lane == <<launcher, parked>>
callers == <<submitting, cancelled, expired, closer>>
outcomes == <<answer, hooks>>
vars == <<queues, flags, counts, pipe, lane, reactor, child, proc, callers, outcomes>>

NewChild == [status |-> "running", output |-> "open", failure |-> FALSE, killed |-> FALSE,
             withdrawn |-> FALSE, abandoned |-> FALSE, terminate |-> "no", drain |-> "no",
             seen |-> FALSE]  \* history: the reactor has given it a turn

(* Where a thread is, with the flags it has read for as long as it uses them. *)
LaneAt(pc, c) == [pc |-> pc, cmd |-> c, stopping |-> FALSE, failed |-> FALSE]
ReactorAt(pc) == [pc |-> pc, stopping |-> FALSE, failed |-> FALSE, todo |-> {}]

Init ==
  /\ pending = <<>> /\ launching = 0 /\ arrived = {} /\ live = {}
  /\ stop_requested = FALSE /\ failure = FALSE
  /\ close_joining = FALSE /\ terminal = FALSE
  /\ published = 0 /\ reaped = 0 /\ report = "none"
  /\ channel_failure = FALSE /\ gate = FALSE /\ woken = FALSE
  /\ launcher = LaneAt("top", NoCmd) /\ parked = FALSE
  /\ reactor = ReactorAt("top")
  /\ child = [c \in Cmd |-> NewChild]
  /\ proc = [c \in Cmd |-> "none"]
  /\ submitting = {} /\ cancelled = {} /\ expired = {}
  /\ answer = [c \in Cmd |-> "none"]
  /\ hooks = [c \in Cmd |-> 0]
  /\ closer = [k \in Closer |-> "outside"]
-----------------------------------------------------------------------------
(* publish, then retire_transport with its hook. *)
Settle(c, verdict) ==
  /\ answer' = [answer EXCEPT ![c] = verdict]
  /\ hooks' = [hooks EXCEPT ![c] = @ + 1]

(* EngineChannel::wake: a byte in the pipe, or, under the mutex, a failure. *)
Wake ==
  \/ woken' = TRUE /\ UNCHANGED channel_failure
  \/ "wake" \in Faults /\ ~gate /\ channel_failure' = TRUE /\ UNCHANGED woken

(* fail(): the first failure is kept, and wakes the lane and the reactor. *)
Fail ==
  /\ failure' = TRUE
  /\ parked' = (parked /\ failure)
  /\ IF failure THEN UNCHANGED <<woken, channel_failure>> ELSE Wake

(* The engine takes over the channel's failure, if there is one. *)
TakeOver == IF channel_failure THEN Fail ELSE UNCHANGED <<failure, parked, woken, channel_failure>>

Known(c) ==
  \/ c \in submitting \cup arrived \cup live
  \/ \E i \in DOMAIN pending : pending[i] = c
  \/ launcher.cmd = c

(***************************************************************************)
(* submit: the channel's answer.  A failed channel fails the engine.       *)
(***************************************************************************)
Admit(c) ==
  /\ answer[c] = "none" /\ ~Known(c) /\ ~gate
  /\ \/ /\ channel_failure
        /\ Fail
        /\ Settle(c, "failed_before")
        /\ UNCHANGED submitting
     \/ /\ ~channel_failure
        /\ submitting' = submitting \cup {c}
        /\ UNCHANGED <<failure, parked, woken, channel_failure, outcomes>>
     \/ /\ ~channel_failure
        /\ Settle(c, "overloaded")
        /\ UNCHANGED <<submitting, failure, parked, woken, channel_failure>>
  /\ UNCHANGED <<queues, stop_requested, close_joining, terminal, counts, gate, launcher,
                 reactor, child, proc, cancelled, expired, closer>>

Accepting == ~stop_requested /\ ~failure

Submit(c) ==
  /\ c \in submitting
  /\ submitting' = submitting \ {c}
  /\ IF Accepting
     THEN /\ pending' = Append(pending, c)
          /\ parked' = FALSE
          /\ UNCHANGED outcomes
     ELSE /\ Settle(c, IF failure THEN "failed_before" ELSE "closed_before")
          /\ UNCHANGED <<pending, parked>>
  /\ UNCHANGED <<launching, arrived, live, flags, counts, pipe, launcher, reactor, child,
                 proc, cancelled, expired, closer>>

RequestCancel(c) ==
  /\ Known(c) /\ answer[c] = "none" /\ c \notin cancelled
  /\ cancelled' = cancelled \cup {c}
  /\ Wake
  /\ UNCHANGED <<queues, flags, counts, gate, lane, reactor, child, proc, submitting,
                 expired, closer, outcomes>>

(* Time: a command's deadline, the grace after SIGTERM, the final drain. *)
DeadlinePasses(c) ==
  /\ c \in Timed \ expired /\ Known(c)
  /\ expired' = expired \cup {c}
  /\ UNCHANGED <<queues, flags, counts, pipe, lane, reactor, child, proc, submitting,
                 cancelled, closer, outcomes>>

TimePasses(c) ==
  /\ c \in live
  /\ \/ child[c].terminate = "grace" /\ child' = [child EXCEPT ![c].terminate = "over"]
     \/ child[c].drain = "pending" /\ child' = [child EXCEPT ![c].drain = "over"]
  /\ UNCHANGED <<queues, flags, counts, pipe, lane, reactor, proc, callers, outcomes>>

ProcessExits(c) ==
  /\ proc[c] = "running"
  /\ proc' = [proc EXCEPT ![c] = "zombie"]
  /\ UNCHANGED <<queues, flags, counts, pipe, lane, reactor, child, callers, outcomes>>
-----------------------------------------------------------------------------
Lane(pc) == launcher' = LaneAt(pc, launcher.cmd)

(* launch_loop: sleep, leave, or take the first request. *)
LaunchDequeue ==
  /\ launcher.pc = "top" /\ ~parked
  /\ \/ /\ pending # <<>>
        /\ launcher' = [pc |-> "decide", cmd |-> Head(pending),
                        stopping |-> stop_requested, failed |-> failure]
        /\ pending' = Tail(pending)
        /\ launching' = launching + 1
        /\ UNCHANGED parked
     \/ /\ pending = <<>> /\ (stop_requested \/ failure)
        /\ Lane("exited")
        /\ UNCHANGED <<pending, launching, parked>>
     \/ /\ pending = <<>> /\ ~stop_requested /\ ~failure
        /\ parked' = TRUE
        /\ UNCHANGED <<pending, launching, launcher>>
  /\ UNCHANGED <<arrived, live, flags, counts, pipe, reactor, child, proc, callers,
                 outcomes>>

(* launch_one up to its gate: what must not start is answered here. *)
LaunchDecide ==
  /\ launcher.pc = "decide"
  /\ LET c == launcher.cmd
         withdrawn == c \in cancelled
     IN  \/ /\ launcher.failed
            /\ Settle(c, "failed_before") /\ Lane("leave")
         \/ /\ ~launcher.failed /\ (withdrawn \/ launcher.stopping)
            /\ Settle(c, IF withdrawn THEN "withdrawn_before" ELSE "closed_before")
            /\ Lane("leave")
         \/ /\ ~launcher.failed /\ ~withdrawn /\ ~launcher.stopping /\ c \in expired
            /\ Settle(c, "timeout_before") /\ Lane("leave")
         \/ /\ ~launcher.failed /\ ~withdrawn /\ ~launcher.stopping /\ c \notin expired
            /\ Lane("gate") /\ UNCHANGED outcomes
  /\ UNCHANGED <<queues, flags, counts, pipe, parked, reactor, child, proc, callers>>

MutLaunchGate ==
  /\ launcher.pc = "gate"
  /\ gate' = TRUE
  /\ Lane("spawn")
  /\ UNCHANGED <<queues, flags, counts, channel_failure, woken, parked, reactor, child,
                 proc, callers, outcomes>>

(* gate_launch takes the channel's mutex and keeps it over the spawn. *)
LaunchGate ==
  /\ launcher.pc = "gate"
  /\ \/ /\ channel_failure
        /\ Settle(launcher.cmd, "failed_before") /\ Lane("leave")
        /\ UNCHANGED gate
     \/ /\ ~channel_failure
        /\ gate' = TRUE
        /\ Lane("spawn")
        /\ UNCHANGED outcomes
  /\ UNCHANGED <<queues, flags, counts, channel_failure, woken, parked, reactor, child,
                 proc, callers>>

LaunchSpawn ==
  /\ launcher.pc = "spawn"
  /\ gate' = FALSE
  /\ \/ /\ proc' = [proc EXCEPT ![launcher.cmd] = "running"]
        /\ Lane("handover")
        /\ UNCHANGED outcomes
     \/ /\ "spawn" \in Faults
        /\ Settle(launcher.cmd, "spawn_failed") /\ Lane("leave")
        /\ UNCHANGED proc
  /\ UNCHANGED <<queues, flags, counts, channel_failure, woken, parked, reactor, child,
                 callers>>

(* A descriptor that failed to close around the spawn goes along. *)
LaunchHandover ==
  /\ launcher.pc = "handover"
  /\ arrived' = arrived \cup {launcher.cmd}
  /\ \E broken \in {FALSE, "spawn" \in Faults} :
       child' = [child EXCEPT ![launcher.cmd] = [NewChild EXCEPT !.failure = broken]]
  /\ launcher' = LaneAt("leave", NoCmd)
  /\ UNCHANGED <<pending, launching, live, flags, counts, pipe, parked, reactor, proc,
                 callers, outcomes>>

LaunchLeave ==
  /\ launcher.pc = "leave"
  /\ launching' = launching - 1
  /\ launcher' = LaneAt("wake", NoCmd)
  /\ UNCHANGED <<pending, arrived, live, flags, counts, pipe, parked, reactor, child,
                 proc, callers, outcomes>>

LaunchWake ==
  /\ launcher.pc = "wake"
  /\ Wake
  /\ Lane("report")
  /\ UNCHANGED <<queues, flags, counts, gate, parked, reactor, child, proc, callers,
                 outcomes>>

LaunchReport ==
  /\ launcher.pc = "report"
  /\ TakeOver
  /\ launcher' = LaneAt("top", NoCmd)
  /\ UNCHANGED <<queues, stop_requested, close_joining, terminal, counts, gate, reactor,
                 child, proc, callers, outcomes>>
-----------------------------------------------------------------------------
MutNothingLeft == live \cup arrived = {} /\ pending = <<>>

NothingLeft == live \cup arrived = {} /\ pending = <<>> /\ launching = 0

(***************************************************************************)
(* The head of a reactor turn: the channel's failure becomes the engine's, *)
(* arrivals are taken over, and the reactor leaves only when nothing is    *)
(* queued, being launched or alive.                                        *)
(***************************************************************************)
ReactorTop ==
  /\ reactor.pc = "top" /\ ~gate
  /\ TakeOver
  /\ live' = live \cup arrived /\ arrived' = {}
  /\ reactor' = IF (stop_requested \/ failure') /\ NothingLeft
                THEN ReactorAt("exited")
                ELSE [pc |-> "poll", stopping |-> stop_requested, failed |-> failure',
                      todo |-> {}]
  /\ UNCHANGED <<pending, launching, stop_requested, close_joining, terminal, counts, gate,
                 launcher, child, proc, callers, outcomes>>

(* EngineChannel::drain empties the pipe, or fails the channel as poll may. *)
DrainPipe(broken) ==
  /\ channel_failure' = (channel_failure \/ broken)
  /\ woken' \in IF channel_failure' /\ ~failure THEN BOOLEAN ELSE {broken /\ woken}

(* poll returns, by an event or its timeout; a failure met is taken over. *)
ReactorPoll ==
  /\ reactor.pc = "poll" /\ ~gate
  /\ \E broken \in {FALSE, "wake" \in Faults} : DrainPipe(broken)
  /\ failure' = (failure \/ channel_failure')
  /\ parked' = (parked /\ (failure \/ ~channel_failure'))
  /\ reactor' = [reactor EXCEPT !.pc = IF live = {} THEN "publish" ELSE "turn",
                                !.failed = failure', !.todo = live]
  /\ UNCHANGED <<queues, stop_requested, close_joining, terminal, counts, gate, launcher,
                 child, proc, callers, outcomes>>

May(fault, result) == IF fault \in Faults THEN {result} ELSE {}

Running(l) == l.status = "running"

(***************************************************************************)
(* The steps of one child's turn.  Each maps the child to what it may be   *)
(* afterwards, one outcome for everything the kernel may answer.           *)
(***************************************************************************)
Then(S, Step(_)) == UNION {Step(l) : l \in S}

(* drain_once on the output: end of file, nothing yet, or an error. *)
Drained(l) ==
  {l} \cup IF l.output = "closed" THEN {}
           ELSE {[l EXCEPT !.output = "closed", !.failure = @ \/ broken] :
                   broken \in {FALSE} \cup May("read", TRUE)}

(* What waitpid may answer about a process that is gone, or was just killed. *)
Gone == {"exited"} \cup May("sigchld", "lost") \cup May("wait", "error")

(* update_status and, with what a blocking wait answers, wait_for_exit. *)
Waited(l, results) ==
  IF ~Running(l) THEN {l}
  ELSE {IF r = "running" THEN l
        ELSE [l EXCEPT !.status = IF r = "error" THEN "running"
                                  ELSE IF r = "lost" THEN "unknowable" ELSE "exited",
                       !.failure = @ \/ r # "exited"] : r \in results}

Polled(l, c) ==
  Waited(l, IF proc[c] = "zombie" THEN Gone ELSE {"running"} \cup May("wait", "error"))

Sent == {TRUE} \cup May("signal", FALSE)

(* SIGTERM, once, with the reason the child is being ended for. *)
Terminated(l, c) ==
  LET late == c \in expired
      unwanted == c \in cancelled
  IN  IF /\ Running(l) /\ ~l.failure /\ l.terminate = "no"
         /\ late \/ unwanted \/ reactor.stopping
      THEN {[l EXCEPT !.terminate = IF sent THEN "grace" ELSE "over",
                      !.failure = ~sent,
                      !.withdrawn = unwanted /\ ~late,
                      !.abandoned = reactor.stopping /\ ~unwanted /\ ~late] : sent \in Sent}
      ELSE {l}

MutKilled(l) == {l}

(* SIGKILL after the grace, and for a child that failed. *)
Killed(l) ==
  LET InTime(x) == IF Running(x) /\ ~x.failure /\ x.terminate = "over" /\ ~x.killed
                   THEN {[x EXCEPT !.killed = sent, !.failure = ~sent] : sent \in Sent} ELSE {x}
      Failed(x) == IF Running(x) /\ x.failure /\ ~x.killed
                   THEN {[x EXCEPT !.killed = sent] : sent \in Sent} ELSE {x}
  IN  Then(InTime(l), Failed)

(* The blocking wait for a child that was killed. *)
Reaped(l) == IF l.killed THEN Waited(l, Gone) ELSE {l}

(* After the exit the output has a last while to end by itself. *)
Closed(l) ==
  IF Running(l) THEN l
  ELSE IF l.drain = "no" THEN [l EXCEPT !.drain = "pending"]
  ELSE IF l.drain = "over" THEN [l EXCEPT !.output = "closed"] ELSE l

(* One child's part of the turn, in the order of the loop's body. *)
Turned(c) ==
  LET start == [child[c] EXCEPT !.failure = @ \/ reactor.failed, !.seen = TRUE]
      Poll(l) == Polled(l, c)
      Terminate(l) == Terminated(l, c)
      ended == Then(Then(Then(Drained(start), Poll), Terminate), Killed)
  IN  {Closed(l) : l \in Then(ended, Reaped)}

Turn(c) ==
  /\ reactor.pc = "turn" /\ c \in reactor.todo
  /\ \E l \in Turned(c) : child' = [child EXCEPT ![c] = l]
  /\ proc' = [proc EXCEPT ![c] = IF Running(child'[c]) THEN @ ELSE "gone"]
  /\ reactor' = IF reactor.todo = {c} THEN ReactorAt("publish")
                ELSE [reactor EXCEPT !.todo = @ \ {c}]
  /\ UNCHANGED <<queues, flags, counts, pipe, lane, callers, outcomes>>

(* Exit and the end of output are separate facts, and both are needed. *)
Complete(l) == l.status # "running" /\ l.output = "closed"

Verdict(l) ==
  CASE l.failure -> "failure"
    [] ~l.failure /\ l.status = "unknowable" -> "lost"
    [] ~l.failure /\ l.status = "exited" /\ l.abandoned -> "closed"
    [] ~l.failure /\ l.status = "exited" /\ l.withdrawn -> "withdrawn"
    [] ~l.failure /\ l.status = "exited" /\ ~l.abandoned /\ ~l.withdrawn ->
         IF l.terminate # "no" THEN "timeout" ELSE "reply"

Erased(c) == live \ {c}

Collected(l) == l.status = "exited"

(* The erasing pass publishes one complete child after the other. *)
ReactorPublish ==
  /\ reactor.pc = "publish"
  /\ \/ \E c \in live :
          /\ Complete(child[c])
          /\ Settle(c, Verdict(child[c]))
          /\ live' = Erased(c)
          /\ published' = published + 1
          /\ reaped' = IF Collected(child[c]) THEN reaped + 1 ELSE reaped
          /\ UNCHANGED reactor
     \/ /\ \A c \in live : ~Complete(child[c])
        /\ reactor' = ReactorAt("top")
        /\ UNCHANGED <<live, published, reaped, outcomes>>
  /\ UNCHANGED <<pending, launching, arrived, flags, report, pipe, lane, child, proc,
                 callers>>
-----------------------------------------------------------------------------
RequestStop ==
  /\ stop_requested' = TRUE
  /\ parked' = FALSE
  /\ Wake
  /\ UNCHANGED <<queues, failure, close_joining, terminal, counts, gate, launcher,
                 reactor, child, proc, callers, outcomes>>

CloseBegin(k) ==
  /\ closer[k] \in {"outside", "returned"}
  /\ LET first == ~terminal /\ ~close_joining
     IN  /\ closer' = [closer EXCEPT ![k] = IF terminal THEN "returned"
                                            ELSE IF first THEN "joining" ELSE "waiting"]
         /\ stop_requested' = (stop_requested \/ first)
         /\ close_joining' = (close_joining \/ first)
         /\ parked' = (parked /\ ~first)
         /\ IF first THEN Wake ELSE UNCHANGED <<woken, channel_failure>>
  /\ UNCHANGED <<queues, failure, terminal, counts, gate, launcher, reactor, child, proc,
                 submitting, cancelled, expired, outcomes>>

Joined == launcher.pc = "exited" /\ reactor.pc = "exited"

CloseEnd(k) ==
  /\ \/ /\ closer[k] = "joining" /\ Joined
        /\ terminal' = TRUE
        /\ report' = IF published = reaped THEN "complete" ELSE "incomplete"
     \/ closer[k] = "waiting" /\ terminal /\ UNCHANGED <<terminal, report>>
  /\ closer' = [closer EXCEPT ![k] = "returned"]
  /\ UNCHANGED <<queues, stop_requested, failure, close_joining, published, reaped, pipe,
                 lane, reactor, child, proc, submitting, cancelled, expired, outcomes>>

LaunchStep ==
  LaunchDequeue \/ LaunchDecide \/ LaunchGate \/ LaunchHandover \/ LaunchLeave
  \/ LaunchWake \/ LaunchReport

Launch == LaunchStep \/ LaunchSpawn

React == ReactorTop \/ ReactorPoll \/ ReactorPublish \/ \E c \in Cmd : Turn(c)

Next ==
  \/ Launch \/ React \/ RequestStop
  \/ \E c \in Cmd : \/ Admit(c) \/ Submit(c) \/ RequestCancel(c) \/ DeadlinePasses(c)
                    \/ TimePasses(c) \/ ProcessExits(c)
  \/ \E k \in Closer : CloseBegin(k) \/ CloseEnd(k)

Spec == Init /\ [][Next]_vars

(***************************************************************************)
(* The two threads and the callers inside the engine are scheduled, and    *)
(* time passes.  A process need not exit by itself.  In BlockingSpec the   *)
(* platform call that creates a process may never return.                  *)
(***************************************************************************)
BlockingSpec ==
  /\ Spec
  /\ WF_vars(LaunchStep) /\ WF_vars(React)
  /\ \A c \in Cmd : WF_vars(Submit(c)) /\ WF_vars(TimePasses(c))
  /\ \A k \in Closer : WF_vars(CloseEnd(k))

FairSpec == BlockingSpec /\ WF_vars(LaunchSpawn)
-----------------------------------------------------------------------------
NotStarted == {"failed_before", "overloaded", "closed_before", "withdrawn_before",
               "timeout_before", "spawn_failed"}
Started == {"failure", "lost", "closed", "withdrawn", "timeout", "reply"}

(***************************************************************************)
(* process_engine.hpp:194: the gap between the queues must not be read as  *)
(* "nothing left".  When the reactor is gone no process is left running or *)
(* unreaped, and nothing that was queued is unanswered.                    *)
(***************************************************************************)
NoChildStranded ==
  reactor.pc = "exited" =>
    \A c \in Cmd :
      /\ proc[c] \in {"none", "gone"}
      /\ c \in submitting \/ ~Known(c)

(***************************************************************************)
(* A command is reported as not started only if no process was created for *)
(* it, which is what lets a caller retry it.                               *)
(***************************************************************************)
DeliveryHonest ==
  \A c \in Cmd : answer[c] # "none" =>
    (answer[c] \in NotStarted <=> proc[c] = "none")

(***************************************************************************)
(* process_engine.hpp:10: a submission completes when the child has exited *)
(* and its output has ended; an answer about a started command is never    *)
(* given before both.  A plain reply also means nobody asked for its end   *)
(* before it was seen to exit.                                             *)
(***************************************************************************)
CompletesOnce ==
  \A c \in Cmd : answer[c] \in Started =>
    /\ proc[c] = "gone" /\ child[c].output = "closed"
    /\ answer[c] = "reply" => child[c].terminate = "no" /\ ~child[c].killed
    /\ answer[c] = "withdrawn" => c \in cancelled
    /\ answer[c] = "closed" => stop_requested

(***************************************************************************)
(* process_engine.hpp:96, "Once launch has crossed this gate, its          *)
(* posix_spawn happens before a later fatal state can publish": no process *)
(* is created after the channel has failed.                                *)
(***************************************************************************)
SpawnsBeforeFailure ==
  \A c \in Cmd : proc[c] = "none" /\ proc'[c] = "running" => ~channel_failure

AsleepUnowed ==
  /\ reactor.pc = "poll" /\ ~woken /\ ~channel_failure
  /\ launcher.pc \notin {"leave", "wake"}

EndDecided(c) == child[c].terminate # "no" \/ child[c].failure \/ ~Running(child[c])

(***************************************************************************)
(* The reactor sleeps in poll with nothing in the pipe, and nobody about   *)
(* to wake it, only if it has acted on every stop, failure, arrival and on *)
(* every cancellation of a child that has had a turn.                      *)
(***************************************************************************)
NoSleepOverWork ==
  AsleepUnowed =>
    /\ stop_requested => reactor.stopping
    /\ failure => reactor.failed
    /\ arrived = {}
    /\ \A c \in live \cap cancelled : child[c].seen => EndDecided(c)

(***************************************************************************)
(* The shutdown report says "complete" exactly when the exit status of     *)
(* every child that was launched has been collected.                       *)
(***************************************************************************)
ReportHonest ==
  report # "none" =>
    (report = "complete" <=>
       \A c \in Cmd : proc[c] # "none" => child[c].status = "exited")

(***************************************************************************)
(* What is published is so: of a command's delivery and end, and of what a *)
(* shutdown collected.                                                     *)
(***************************************************************************)
AnswersHonest == DeliveryHonest /\ CompletesOnce /\ ReportHonest

(***************************************************************************)
(* process_engine.hpp:5, "A launch lane does process creation only, so a   *)
(* platform call that blocks cannot stall anything already running": a     *)
(* command that is running and withdrawn is answered even if the creation  *)
(* of another process never returns.  It does not hold: the lane keeps the *)
(* channel's mutex over the call and every reactor turn takes it.          *)
(***************************************************************************)
LaunchStallsNothing ==
  \A c \in Cmd : (c \in live /\ c \in cancelled) ~> (answer[c] # "none")

(* Every thread that calls close comes back. *)
CloseReturns ==
  \A k \in Closer : (closer[k] # "outside") ~> (closer[k] = "returned")
=============================================================================
