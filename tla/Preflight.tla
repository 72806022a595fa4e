----------------------------- MODULE Preflight -----------------------------
(***************************************************************************)
(* preflight_spec: before a server is written into a client's settings it  *)
(* is started, sent three frames, and watched until it has answered them,  *)
(* ended, written too much or run out of time.  The server writes, ends    *)
(* and leaves helpers behind in its own time.                              *)
(***************************************************************************)
EXTENDS Naturals, Sequences, FiniteSets, SequencesExt

CONSTANTS
  None,
  Scripts,      \* what a server may write: sequences of [line, part]
  OutputLimit   \* how many writes the probe accepts

VARIABLES server, probe

vars == <<server, probe>>

(***************************************************************************)
(* A write is a whole line, the first half of one, the rest of one, or a   *)
(* line without its newline.                                               *)
(***************************************************************************)
Chunk(line, part) == [line |-> line, part |-> part]

LineAt(bytes, i, terminal) ==
  CASE bytes[i].part = "whole" -> bytes[i].line
    [] bytes[i].part = "rest" -> bytes[i].line
    [] bytes[i].part = "half" -> IF terminal /\ i = Len(bytes) THEN "garbage" ELSE None
    [] bytes[i].part = "bare" -> IF terminal THEN bytes[i].line ELSE None

LinesOf(bytes, terminal) ==
  SelectSeq([i \in DOMAIN bytes |-> LineAt(bytes, i, terminal)], LAMBDA line : line # None)

Count(lines, kinds) == Cardinality({i \in DOMAIN lines : lines[i] \in kinds})

(***************************************************************************)
(* validate_protocol: rejected, accepted, or nothing to say yet.  `init`   *)
(* and `tools` are good answers to the two requests; `wrong` answers       *)
(* initialize with another version or name, `partial` lists too few tools, *)
(* `note` is a message without one of the two ids.                         *)
(***************************************************************************)
ValidateProtocol(bytes, terminal) ==
  LET lines == LinesOf(bytes, terminal)
      unanswered == IF terminal THEN "rejected" ELSE "pending"
  IN CASE Count(lines, {"garbage"}) > 0 -> "rejected"
       [] Count(lines, {"garbage"}) = 0 ->
            IF \/ Count(lines, {"init", "wrong"}) > 1
               \/ Count(lines, {"tools", "partial"}) > 1
               \/ Count(lines, {"wrong"}) > 0
              THEN "rejected"
            ELSE IF Count(lines, {"init"}) = 0 THEN unanswered
            ELSE IF Count(lines, {"partial"}) > 0 THEN "rejected"
            ELSE IF Count(lines, {"tools"}) = 0 THEN unanswered
            ELSE "accepted"

(***************************************************************************)
(* The server: a process group of the child and perhaps a helper, a script *)
(* and how far it has come, the pipe and what is in it.                    *)
(***************************************************************************)
Idle == [pc |-> "launch", bytes |-> <<>>, open |-> FALSE, reaped |-> FALSE, accepted |-> FALSE,
         stable |-> FALSE, late |-> FALSE, failed |-> FALSE, verdict |-> None]

PreflightInit ==
  /\ \E script \in Scripts, helper \in BOOLEAN :
       server = [script |-> script, wrote |-> 0, pipe |-> <<>>, group |-> {},
                 helper |-> helper, status |-> None]
  /\ probe = Idle

(***************************************************************************)
(* Pipes and fork: either failing closes what was opened and nothing runs. *)
(* The frames fit the pipe; a server that has already gone is not an       *)
(* error.  Any other failure kills the group and waits for the child.      *)
(***************************************************************************)
Unlaunched ==
  /\ probe' = [probe EXCEPT !.pc = "done", !.verdict = "unlaunched", !.failed = TRUE]
  /\ UNCHANGED server

Launched ==
  /\ probe' = [probe EXCEPT !.pc = "write", !.open = TRUE]
  /\ server' = [server EXCEPT
       !.group = {"child"} \cup (IF server.helper THEN {"helper"} ELSE {})]

Launch == probe.pc = "launch" /\ (Unlaunched \/ Launched)

Killed == [server EXCEPT !.group = {}, !.status = IF @ = None THEN "signal" ELSE @]

GiveUp ==
  /\ probe' = [probe EXCEPT !.pc = "done", !.verdict = "failed", !.reaped = TRUE,
                            !.open = FALSE, !.failed = TRUE]
  /\ server' = Killed

WriteRequest ==
  /\ probe.pc = "write"
  /\ \/ probe' = [probe EXCEPT !.pc = "reap"] /\ UNCHANGED server
     \/ GiveUp

(***************************************************************************)
(* stop: the whole group is killed, also when the child itself has been    *)
(* reaped, and the child is waited for.                                    *)
(***************************************************************************)
Stop(p, verdict) ==
  /\ probe' = [p EXCEPT !.pc = "done", !.reaped = TRUE, !.open = FALSE, !.verdict = verdict]
  /\ server' = Killed

(***************************************************************************)
(* One turn of the loop.  The child is asked for first: what it wrote      *)
(* before it ended is then in the pipe when the pipe is drained.           *)
(***************************************************************************)
Reap ==
  /\ probe.pc = "reap"
  /\ \/ /\ probe' = [probe EXCEPT !.pc = "drain",
                                  !.reaped = @ \/ server.status # None]
        /\ UNCHANGED server
     \/ /\ ~probe.reaped
        /\ Stop([probe EXCEPT !.failed = TRUE], "failed")

Taken == probe.bytes \o server.pipe

Drain ==
  /\ probe.pc = "drain"
  /\ \/ /\ Len(Taken) <= OutputLimit
        /\ probe' = [probe EXCEPT !.pc = "judge", !.bytes = Taken]
        /\ server' = [server EXCEPT !.pipe = <<>>]
     \/ /\ Len(Taken) > OutputLimit
        /\ Stop(probe, "too much")
     \/ Stop([probe EXCEPT !.failed = TRUE], "failed")

MutReap ==
  /\ probe.pc = "reap"
  /\ probe' = [probe EXCEPT !.pc = "drained", !.bytes = Taken]
  /\ server' = [server EXCEPT !.pipe = <<>>]

MutDrain ==
  /\ probe.pc \in {"drain", "drained"}
  /\ probe' = [probe EXCEPT !.pc = "judge", !.reaped = @ \/ server.status # None]
  /\ UNCHANGED server

MutLoop == MutReap \/ MutDrain

Loop == Reap \/ Drain

(***************************************************************************)
(* The verdict.  Accepted answers are given a moment to turn out to be     *)
(* more than one; the child's end or the deadline cuts the moment short.   *)
(***************************************************************************)
Judge ==
  LET outcome == ValidateProtocol(probe.bytes, probe.reaped)
  IN /\ probe.pc = "judge"
     /\ \/ /\ probe.reaped
           /\ server.status # "zero"
           /\ Stop(probe, "rejected")
        \/ /\ probe.reaped => server.status = "zero"
           /\ outcome = "rejected"
           /\ Stop(probe, "rejected")
        \/ /\ probe.reaped => server.status = "zero"
           /\ outcome = "accepted"
           /\ probe.reaped \/ probe.stable \/ probe.late
           /\ Stop(probe, "accepted")
        \/ /\ ~probe.reaped
           /\ outcome = "pending"
           /\ probe.late
           /\ Stop(probe, "no response")
        \/ /\ ~probe.reaped
           /\ outcome \in {"pending", "accepted"}
           /\ ~probe.late
           /\ outcome = "accepted" => ~probe.stable
           /\ probe' = [probe EXCEPT !.pc = "reap", !.accepted = @ \/ outcome = "accepted"]
           /\ UNCHANGED server

(***************************************************************************)
(* Time, and the server's own steps.                                       *)
(***************************************************************************)
Passes ==
  /\ probe.pc \in {"reap", "drain", "judge"}
  /\ \/ probe.accepted /\ ~probe.stable /\ probe' = [probe EXCEPT !.stable = TRUE]
     \/ ~probe.late /\ probe' = [probe EXCEPT !.late = TRUE]
  /\ UNCHANGED server

ServerWrites ==
  /\ server.group # {}
  /\ server.wrote < Len(server.script)
  /\ server' = [server EXCEPT !.wrote = @ + 1, !.pipe = Append(@, server.script[server.wrote + 1])]
  /\ UNCHANGED probe

ServerEnds ==
  /\ "child" \in server.group
  /\ \E status \in {"zero", "nonzero"} :
       server' = [server EXCEPT !.group = @ \ {"child"}, !.status = status]
  /\ UNCHANGED probe

HelperEnds ==
  /\ "helper" \in server.group
  /\ server' = [server EXCEPT !.group = @ \ {"helper"}]
  /\ UNCHANGED probe

PreflightNext ==
  Launch \/ WriteRequest \/ Loop \/ Judge \/ Passes \/ ServerWrites \/ ServerEnds \/ HelperEnds

PreflightSpec == PreflightInit /\ [][PreflightNext]_vars

-----------------------------------------------------------------------------
(* A server that answers both requests once and correctly. *)
Good(script) == ValidateProtocol(script, TRUE) = "accepted"

(***************************************************************************)
(* A server that wrote its two correct answers is not turned away because  *)
(* of when the probe looked: unless it ended badly, time ran out or the    *)
(* probe itself failed, it is accepted, also when it ends between two of   *)
(* the probe's looks (the order of waitpid and drain in preflight_spec).   *)
(* A helper may write after the child has ended; such servers are left     *)
(* out.                                                                    *)
(***************************************************************************)
GoodServerAccepted ==
  (/\ probe.pc = "done"
   /\ Good(server.script)
   /\ server.wrote = Len(server.script)
   /\ server.status \in {"zero", "signal"}
   /\ ~server.helper /\ ~probe.late /\ ~probe.failed)
     => probe.verdict = "accepted"

(***************************************************************************)
(* However the probe ends, the child has been waited for, no process of    *)
(* its group still runs and the pipes are closed (stop and the error       *)
(* paths of preflight_spec).                                               *)
(***************************************************************************)
NothingLeftRunning ==
  probe.pc = "done" =>
    /\ server.group = {}
    /\ ~probe.open
    /\ probe.verdict # "unlaunched" => probe.reaped

(***************************************************************************)
(* The probe gives a good server its due and leaves nothing behind.        *)
(***************************************************************************)
ProbeSettles == GoodServerAccepted /\ NothingLeftRunning

=============================================================================
