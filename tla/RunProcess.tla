----------------------------- MODULE RunProcess -----------------------------
(***************************************************************************)
(* The synchronous process runner (src/process.cpp over                    *)
(* src/posix_child.cpp): run_process launches a child in a process group   *)
(* of its own, reads both of its pipes, publishes the bytes to an          *)
(* observer, and ends the group when the run is cancelled, times out or    *)
(* goes wrong.  The child, its descendants and the kernel are modelled     *)
(* beside it: every system call of the cleanup may fail on its own.        *)
(***************************************************************************)
EXTENDS Naturals

CONSTANTS
  CaptureLimit,   \* bytes kept of each stream
  MaxBytes,       \* bytes the child writes in all
  MaxFaults       \* system calls that fail in one run

StreamSet == {"stdout", "stderr"}

VARIABLES
  req,            \* the ProcessRequest and the DescendantPolicy
  world,          \* the child, a descendant that holds its pipes, the kernel
  run             \* run_process: locals, and the PosixChild it owns

runProcessVars == <<req, world, run>>

Requests ==
  [terminate : BOOLEAN, failOnLimit : BOOLEAN, observed : BOOLEAN]

NoRun ==
  [pc |-> "start", status |-> "none",
   open |-> [s \in StreamSet |-> TRUE], kept |-> [s \in StreamSet |-> 0],
   emitted |-> [s \in StreamSet |-> 0], truncated |-> FALSE, finished |-> FALSE,
   ret |-> "none", error |-> "none", fault |-> FALSE,
   result |-> "none"]

NewWorld ==
  [leader |-> "none", death |-> "none", heir |-> "none", ignored |-> FALSE,
   unread |-> [s \in StreamSet |-> 0], lost |-> [s \in StreamSet |-> 0],
   written |-> 0, faults |-> 0, refused |-> FALSE, strays |-> 0]

RunProcessInit ==
  /\ req \in Requests
  /\ \E i \in BOOLEAN : world = [NewWorld EXCEPT !.ignored = i]
  /\ run = NoRun

-----------------------------------------------------------------------------
(* The child and the kernel. *)

GroupAlive == world.leader = "alive" \/ world.heir = "alive"

(* A dead leader is a zombie until it is waited for, unless SIGCHLD is     *)
(* ignored: then the kernel reaps it.                                      *)
Died(w, how) ==
  [w EXCEPT !.leader = IF w.ignored THEN "gone" ELSE "zombie", !.death = how]

ChildWrites ==
  /\ GroupAlive /\ world.written < MaxBytes
  /\ \E s \in StreamSet :
       world' = [world EXCEPT !.written = @ + 1,
                 !.unread[s] = IF run.open[s] THEN @ + 1 ELSE @,
                 !.lost[s] = IF run.open[s] THEN @ ELSE @ + 1]
  /\ UNCHANGED <<req, run>>

ChildForks ==
  /\ world.leader = "alive" /\ world.heir = "none"
  /\ world' = [world EXCEPT !.heir = "alive"]
  /\ UNCHANGED <<req, run>>

ChildExits ==
  /\ world.leader = "alive"
  /\ world' = Died(world, "own")
  /\ UNCHANGED <<req, run>>

HeirExits ==
  /\ world.heir = "alive"
  /\ world' = [world EXCEPT !.heir = "gone"]
  /\ UNCHANGED <<req, run>>

(* A group keeps its id while it has a member, a zombie included. *)
GroupExists == world.leader \in {"alive", "zombie"} \/ world.heir = "alive"

(* kill(-pid) that finds a group: the child's own, where SIGTERM may be    *)
(* ignored, or, that being gone, another one that was given the id since.  *)
Signalled(signal, heeds) ==
  IF ~GroupExists THEN [world EXCEPT !.strays = 1]
    ELSE LET w == IF world.leader = "alive" /\ (signal = "kill" \/ "leader" \in heeds)
                    THEN Died(world, signal) ELSE world
         IN  [w EXCEPT !.heir = IF @ = "alive" /\ (signal = "kill" \/ "heir" \in heeds)
                                  THEN "gone" ELSE @]

Faulty(w) == [w EXCEPT !.faults = @ + 1]

-----------------------------------------------------------------------------
(* PosixChild. *)

OutputClosed(r) == \A s \in StreamSet : ~r.open[s]

(* close_stream: an end closed before its end of file loses the rest. *)
ClosedOutput(r) ==
  [r EXCEPT !.truncated = @ \/ ~OutputClosed(r), !.open = [s \in StreamSet |-> FALSE]]

Capped(n) == IF n > CaptureLimit THEN CaptureLimit ELSE n

(* drain: reads n of the stream's bytes, and its end of file if it gets    *)
(* there before its boundary and no writer is left.                        *)
Drained(r, s, n, eof) ==
  IF ~r.open[s] THEN r
    ELSE [r EXCEPT !.kept[s] = Capped(@ + n), !.open[s] = ~eof,
                   !.truncated = @ \/ r.kept[s] + n > CaptureLimit]

AtEof(w, s, n) == n = w.unread[s] /\ w.leader # "alive" /\ w.heir # "alive"

(* One stream read in part or to its end; o.failed stops the rest. *)
ReadsOf(s, o) ==
  {[run |-> Drained(o.run, s, n, eof), world |-> [o.world EXCEPT !.unread[s] = @ - n],
    failed |-> FALSE] :
     <<n, eof>> \in {p \in (0..o.world.unread[s]) \X BOOLEAN :
                       /\ o.run.open[s] \/ p = <<0, FALSE>>
                       /\ p[2] => AtEof(o.world, s, p[1])}}

(* A failed read closes its stream, what it held is lost. *)
BrokenReadsOf(s, o) ==
  {[run |-> [o.run EXCEPT !.open[s] = FALSE, !.truncated = TRUE],
    world |-> Faulty(o.world), failed |-> TRUE] :
     x \in {t \in {s} : o.run.open[t] /\ o.world.faults < MaxFaults}}

Drains(s, o) == IF o.failed THEN {o} ELSE ReadsOf(s, o) \cup BrokenReadsOf(s, o)

(* What poll_and_drain may leave: stdout, then stderr, unless poll fails. *)
PollAndDrain(r, w) ==
  UNION {Drains("stderr", o) :
           o \in Drains("stdout", [run |-> r, world |-> w, failed |-> FALSE])}
  \cup {o \in {[run |-> r, world |-> Faulty(w), failed |-> TRUE]} : w.faults < MaxFaults}

(* waitpid and waitid with WNOHANG.  reap: the status is collected.  A     *)
(* child the kernel reaped is ECHILD; other failures leave it owned.       *)
Seen(w, reap) ==
  CASE w.leader = "alive" ->
         [status |-> run.status, world |-> w, exited |-> FALSE, failed |-> FALSE]
    [] w.leader = "zombie" ->
         [status |-> IF reap THEN "exited" ELSE run.status, exited |-> TRUE, failed |-> FALSE,
          world |-> IF reap THEN [w EXCEPT !.leader = "reaped"] ELSE w]
    [] OTHER ->
         [status |-> "unknowable", world |-> w, exited |-> FALSE, failed |-> TRUE]

Waited(w, reap) ==
  {Seen(w, reap)} \cup
  {o \in {[status |-> run.status, world |-> Faulty(w), exited |-> FALSE, failed |-> TRUE]} :
     w.faults < MaxFaults}

-----------------------------------------------------------------------------
(* run_process. *)

Returned(r, kind) == [r EXCEPT !.pc = "returned", !.result = kind]

(* Begins cleanup_group; ret says who called it. *)
Cleanup(r, allowTerm, ret, error) ==
  [r EXCEPT !.pc = IF allowTerm THEN "term" ELSE "kill", !.ret = ret,
            !.error = error, !.fault = FALSE]

Abandon(r, error, allowTerm) == Cleanup(r, allowTerm, "abandon", error)

(* Cancelled, out of time or failed to spawn: nothing was started. *)
Refuse ==
  /\ run.pc = "start"
  /\ run' = Returned(run, "not_started")
  /\ UNCHANGED <<req, world>>

Launch ==
  /\ run.pc = "start"
  /\ run' = [run EXCEPT !.pc = "started", !.status = "running"]
  /\ world' = [world EXCEPT !.leader = "alive"]
  /\ UNCHANGED req

(* on_started, the deadline and the teardown of the spawn attributes. *)
Started ==
  /\ run.pc = "started"
  /\ run' \in {Abandon(run, "pre_exec", TRUE), Abandon(run, "timeout", TRUE),
               Abandon(run, "pipe", FALSE), [run EXCEPT !.pc = "loop"]}
  /\ UNCHANGED <<req, world>>

Cancelled ==
  /\ run.pc = "loop"
  /\ run' = Abandon(run, "cancelled", TRUE)
  /\ UNCHANGED <<req, world>>

OverLimit == req.failOnLimit /\ run.truncated

OutputLimit ==
  /\ run.pc = "loop" /\ OverLimit
  /\ run' = Abandon(run, "output_limit", TRUE)
  /\ UNCHANGED <<req, world>>

(* The leader stays unreaped under terminate, which keeps its group's id.  *)
Observe ==
  /\ run.pc = "loop" /\ ~OverLimit
  /\ \E o \in (IF run.status = "running" THEN Waited(world, ~req.terminate)
                 ELSE {[status |-> run.status, world |-> world, exited |-> TRUE,
                        failed |-> FALSE]}) :
       LET r == [run EXCEPT !.status = o.status, !.finished = o.exited]
       IN  /\ world' = o.world
           /\ run' \in
                IF o.failed THEN {Abandon(r, "pipe", FALSE)}
                ELSE IF ~o.exited
                  THEN {Abandon(r, "timeout", TRUE), [r EXCEPT !.pc = "poll"]}
                ELSE IF OutputClosed(r) THEN {[r EXCEPT !.pc = "finish"]}
                ELSE {[r EXCEPT !.pc = "finish"], [r EXCEPT !.pc = "poll"]}
  /\ UNCHANGED req

Finish ==
  /\ run.pc = "finish"
  /\ run' = IF req.terminate THEN Cleanup(run, TRUE, "finish", "none")
              ELSE Returned(ClosedOutput(run), "reply")
  /\ UNCHANGED <<req, world>>

Poll ==
  /\ run.pc = "poll"
  /\ \E o \in PollAndDrain(run, world) :
       /\ world' = o.world
       /\ run' = IF o.failed THEN Abandon(o.run, "pipe", FALSE)
                   ELSE [o.run EXCEPT !.pc = "publish"]
  /\ UNCHANGED req

(* publish, and what follows it in the caller. *)
AfterPublish(r) ==
  CASE r.ret = "none" -> [r EXCEPT !.pc = "loop"]
    [] r.ret = "finish" -> Returned(r, "reply")
    [] r.ret = "abandon" ->
         Returned(r, IF r.error = "timeout" /\ r.fault THEN "pipe" ELSE r.error)

Publish ==
  /\ run.pc = "publish"
  /\ run' = AfterPublish([run EXCEPT !.emitted = IF req.observed THEN run.kept ELSE @])
  /\ UNCHANGED <<req, world>>

(* The observer throws on a stream: the group is ended and it is rethrown. *)
PublishThrows ==
  /\ run.pc = "publish" /\ req.observed
  /\ \E s \in StreamSet :
       /\ run.kept[s] > run.emitted[s]
       /\ run' = Cleanup([run EXCEPT !.emitted["stdout"] =
                            IF s = "stderr" THEN run.kept["stdout"] ELSE @],
                         TRUE, "throw", "none")
  /\ UNCHANGED <<req, world>>

-----------------------------------------------------------------------------
(* cleanup_group. *)

Retain(r, failed) == [r EXCEPT !.fault = @ \/ failed]

Signals == [term |-> "settle", kill |-> "reap"]

(* Mutant: a reaped child's group id is signalled again. *)
MutMaySignal == TRUE

MaySignal == run.status = "running"

(* escalate, and signal_group: only a child still owned has a group. *)
Escalate ==
  /\ run.pc \in {"term", "kill"}
  /\ run' = [run EXCEPT !.pc = Signals[run.pc]]
  /\ IF MaySignal
       THEN \E heeds \in SUBSET {"leader", "heir"} : world' = Signalled(run.pc, heeds)
       ELSE UNCHANGED world
  /\ UNCHANGED req

(* kill fails: a fault of the kernel's, or no group has the id (ESRCH). *)
Refused ==
  IF GroupExists
    THEN {w \in {[Faulty(world) EXCEPT !.refused = @ \/ run.pc = "kill"]} :
            world.faults < MaxFaults}
    ELSE {world}

(* Not a fault of the run when the leader is seen to have exited already. *)
EscalateRefused ==
  /\ run.pc \in {"term", "kill"} /\ MaySignal
  /\ \E w \in Refused :
       \E o \in (IF req.terminate THEN Waited(w, FALSE)
                  ELSE {[status |-> run.status, world |-> w, exited |-> FALSE]}) :
         /\ world' = o.world
         /\ run' = Retain([run EXCEPT !.pc = Signals[run.pc], !.status = o.status], ~o.exited)
  /\ UNCHANGED req

GraceOver ==
  /\ run.pc = "settle"
  /\ run' = [run EXCEPT !.pc = "kill"]
  /\ UNCHANGED <<req, world>>

(* settle: one turn of the loop that waits for the group to end by itself. *)
Settle ==
  /\ run.pc = "settle" /\ run.status = "running"
  /\ \E o \in Waited(world, ~req.terminate) :
       LET r == Retain([run EXCEPT !.status = o.status], o.failed)
           out == IF req.terminate THEN o.failed \/ (o.exited /\ OutputClosed(r))
                    ELSE o.status # "running"
       IN  IF out THEN run' = [r EXCEPT !.pc = "kill"] /\ world' = o.world
             ELSE \E p \in PollAndDrain(r, o.world) :
                    /\ world' = p.world
                    /\ run' = IF p.failed THEN ClosedOutput(Retain(p.run, TRUE)) ELSE p.run
  /\ UNCHANGED req

(* wait_for_exit blocks until the child has ended, or the wait fails. *)
Reap ==
  /\ run.pc = "reap"
  /\ IF run.status # "running"
       THEN run' = [run EXCEPT !.pc = "drain"] /\ UNCHANGED world
       ELSE \E o \in Waited(world, TRUE) :
              /\ o.exited \/ o.failed
              /\ run' = Retain([run EXCEPT !.status = o.status], o.failed)
              /\ world' = o.world
  /\ UNCHANGED req

PostExitDrain ==
  /\ run.pc = "drain" /\ ~OutputClosed(run)
  /\ \E o \in PollAndDrain(run, world) :
       /\ world' = o.world
       /\ run' = IF o.failed THEN [Retain(o.run, TRUE) EXCEPT !.pc = "close"] ELSE o.run
  /\ UNCHANGED req

(* The drain is over: close_output, and back to the caller. *)
Cleaned ==
  /\ run.pc \in {"drain", "close"}
  /\ LET r == ClosedOutput(run)
     IN  run' = CASE r.ret = "throw" -> Returned(r, "thrown")
                  [] r.ret = "finish" /\ r.fault -> Abandon(r, "pipe", FALSE)
                  [] OTHER -> [r EXCEPT !.pc = "publish"]
  /\ UNCHANGED <<req, world>>

RunProcessNext ==
  \/ ChildWrites \/ ChildForks \/ ChildExits \/ HeirExits
  \/ Refuse \/ Launch \/ Started \/ Cancelled \/ OutputLimit \/ Observe \/ Finish
  \/ Poll \/ Publish \/ PublishThrows
  \/ Escalate \/ EscalateRefused \/ GraceOver \/ Settle \/ Reap \/ PostExitDrain \/ Cleaned

RunProcessSpec == RunProcessInit /\ [][RunProcessNext]_runProcessVars

-----------------------------------------------------------------------------
Over == run.pc = "returned" /\ run.result # "not_started"

(* Whatever fails on the way, run_process returns only once its child was  *)
(* waited for (the assertion in ~PosixChild), a reply reports an end the   *)
(* child came to by itself, and, as long as the kernel leaves the reaping  *)
(* to the runner, no signal goes to an id that may have been given to      *)
(* another group and the descendants it was to terminate are gone unless   *)
(* SIGKILL was refused.  Where SIGCHLD is ignored neither of the two       *)
(* holds: the kernel frees the id before the runner learns of the end.     *)
ChildSettled ==
  /\ Over => /\ run.status \in {"exited", "unknowable"}
             /\ world.leader \in {"reaped", "gone"}
             /\ (req.terminate /\ ~world.ignored /\ ~world.refused) => world.heir # "alive"
             /\ run.result = "reply" => world.death = "own"
  /\ ~world.ignored => world.strays = 0

(* The observer has been given exactly the bytes the result carries, and a *)
(* result that does not say truncated carries every byte the child wrote.  *)
OutputAccounted ==
  Over => /\ (req.observed /\ run.result # "thrown") => run.emitted = run.kept
          /\ ~run.truncated =>
               /\ run.kept["stdout"] + run.kept["stderr"] = world.written
               /\ ~GroupAlive

(* The child and its output are both accounted for when run_process ends. *)
RunSettled == ChildSettled /\ OutputAccounted
=============================================================================
