-------------------------- MODULE WorkspaceCommand --------------------------
(***************************************************************************)
(* One invocation of tmux-workspace: run() parses and validates, carries   *)
(* out the operation, reports it and chooses the exit status.  The editor, *)
(* tmuxp and an attaching tmux run as children that may be given the       *)
(* terminal; freeze, convert and import save a file.  Readers of stdout    *)
(* and stderr go away, SIGINT or SIGTERM arrives, another process creates  *)
(* the destination, and calls fail, between any two steps.  Where the      *)
(* handlers are in place a signal is noted, elsewhere it ends the process  *)
(* on the spot.  What a load does is WorkspaceLoad; here it returns a      *)
(* status, or throws, after its events.                                    *)
(***************************************************************************)
EXTENDS Naturals, Sequences, FiniteSets, SequencesExt

CONSTANTS
  None,
  Requests,    \* records [command, mode, saves, force, terminal, logged, level]
  MaxFaults    \* how many calls may fail, readers leave or signals arrive

VARIABLES request, world, cmd

vars == <<request, world, cmd>>

MaxOutputs == 1    \* chunks of a child's output while it runs
ChildCodes == {0, 3}
KilledCode == 137
SignalCode == 130

Machine == request.mode \in {"json", "ndjson"}
ProcessCommand == request.command \in {"load", "edit", "shell"}

(***************************************************************************)
(* The world: what stdout's reader has received, the two streams, the log  *)
(* file, the terminal's foreground group and settings, the destination,    *)
(* what others put there, the temporary file beside it, the signal seen by *)
(* the handler, and whether the system refused to undo something.          *)
(***************************************************************************)
WorldAtStart(destination) ==
  [records |-> <<>>, outOpen |-> TRUE, outBad |-> FALSE, errOpen |-> TRUE, errBad |-> FALSE,
   log |-> "none", foreground |-> "self", settings |-> "own", destination |-> destination,
   theirs |-> destination, temporary |-> None, signal |-> FALSE, refused |-> FALSE,
   faults |-> 0]

Started ==
  [pc |-> "parse", after |-> None, thrown |-> None, code |-> 0, result |-> None,
   child |-> None, held |-> FALSE, outputs |-> 0, warned |-> FALSE, handoff |-> None,
   buffered |-> FALSE, exit |-> None]

CommandInit ==
  /\ request \in Requests
  /\ \E destination \in {None, "old"} : world = WorldAtStart(destination)
  /\ cmd = Started

(***************************************************************************)
(* Writing.  A stream whose reader has gone turns bad at the first write   *)
(* it flushes and stays bad.  stderr has no buffer.                        *)
(***************************************************************************)
Flushed(w, record) ==
  IF w.outOpen /\ ~w.outBad THEN [w EXCEPT !.records = Append(@, record)]
  ELSE [w EXCEPT !.outBad = TRUE]

ToErrors(w) == [w EXCEPT !.errBad = @ \/ ~w.errOpen]

(***************************************************************************)
(* DiagnosticLog: what --log-level lets through is written; a log file     *)
(* that fails once is closed, and said so once, at that level too.         *)
(***************************************************************************)
Rank == [debug |-> 0, info |-> 1, warning |-> 2, error |-> 3, critical |-> 4]
Enabled(severity) == Rank[severity] >= Rank[request.level]

Severity(name) ==
  IF name = "script-output" THEN "debug"
  ELSE IF name = "failed" THEN "error"
  ELSE IF name = "warning" THEN "warning" ELSE "info"

Logged(w, severity) ==
  IF w.log = "open" /\ Enabled(severity) THEN {w, [w EXCEPT !.log = "failed"]} ELSE {w}

ReportFailure(w) ==
  IF w.log = "failed" /\ Enabled("warning") THEN ToErrors([w EXCEPT !.log = "reported"])
  ELSE w

(* ~DiagnosticLog: closing may fail as well. *)
LogClosed(w) ==
  {ReportFailure(v) : v \in
     IF w.log = "open" THEN {[w EXCEPT !.log = how] : how \in {"closed", "failed"}} ELSE {w}}

(***************************************************************************)
(* emit: log, then the progress panel of a human load, the output a human  *)
(* shell copies from its child, or the record of a stream.  What does not  *)
(* get out is the output_closed failure, except on the panel.              *)
(***************************************************************************)
Copies(name) == request.mode = "human" /\ request.command = "shell" /\ name = "script-output"
Panel(w) == IF request.mode = "human" /\ request.command = "load" THEN {w, ToErrors(w)} ELSE {w}

Emitted(w, name) ==
  IF request.mode = "ndjson" THEN {Flushed(w, name)}
  ELSE IF Copies(name) THEN {Flushed(w, name), ToErrors(w)}
  ELSE Panel(w)

OutputClosed(w, name) ==
  \/ request.mode = "ndjson" /\ w.outBad
  \/ Copies(name) /\ (w.outBad \/ w.errBad)

-----------------------------------------------------------------------------
At(pc) == [cmd EXCEPT !.pc = pc]
Fault == world.faults < MaxFaults
Charged(w) == [w EXCEPT !.faults = @ + 1]
Thrown(code) == [cmd EXCEPT !.pc = "fail", !.thrown = code]

(* Something a step calls fails: the failure leaves run()'s try block. *)
Fails(codes) ==
  Fault /\ world' = Charged(world) /\ \E code \in codes : cmd' = Thrown(code)

Emit(start, name, next, closed) ==
  \E w \in Logged(start, Severity(name)) : \E v \in Emitted(w, name) :
    /\ world' = v
    /\ cmd' = IF OutputClosed(v, name) THEN closed ELSE next

(***************************************************************************)
(* Before the operation.  Completions, the command tree, help and versions *)
(* are written and are all there is; arguments may not parse; validate()   *)
(* refuses some, among them a load that would attach without a terminal.   *)
(***************************************************************************)
Informed ==
  \E w \in {world, Flushed(world, "text")} :
    /\ world' = w
    /\ cmd' = [cmd EXCEPT !.pc = "done", !.exit = IF w.outBad THEN 1 ELSE 0]

Unparsed == cmd' = [cmd EXCEPT !.pc = "done", !.exit = 2] /\ world' = ToErrors(world)

Refused ==
  /\ \/ cmd' = Thrown(2)
     \/ request.command = "load" /\ request.terminal /\ cmd' = Thrown(1)
  /\ UNCHANGED world

Parse ==
  /\ cmd.pc = "parse"
  /\ \/ cmd' = At("configure") /\ UNCHANGED world
     \/ Informed
     \/ Unparsed
     \/ Refused

Configure ==
  /\ cmd.pc = "configure"
  /\ \/ /\ world' = [world EXCEPT !.log = IF request.logged THEN "open" ELSE "none"]
        /\ cmd' = At(request.command)
     \/ request.logged /\ Fails({1})

(***************************************************************************)
(* The operations.  An operation that returns leaves a result: its status  *)
(* and its exit code.                                                      *)
(***************************************************************************)
Returned(code) ==
  [cmd EXCEPT !.pc = "say", !.code = code, !.result = IF code = 0 THEN "ok" ELSE "error"]

(* ls, search, debug-info: read and answer. *)
List ==
  /\ cmd.pc = "ls"
  /\ \/ cmd' = Returned(0) /\ UNCHANGED world
     \/ Fails({1})

(* load: the documents are read, then what they ask for in vain is warned  *)
(* of, and `started`.                                                      *)
Load ==
  /\ cmd.pc = "load"
  /\ \/ ~cmd.warned /\ Fails({1, 2})
     \/ ~cmd.warned /\ Emit(world, "warning", [cmd EXCEPT !.warned = TRUE], Thrown(1))
     \/ Emit(world, "started", At("loading"), Thrown(1))

(* A human load may ask a question first.  From here on a failure, also    *)
(* one to emit, is part of the result.                                     *)
Prompted(w) ==
  IF request.mode = "human" /\ request.terminal THEN {w, Flushed(w, "prompt")} ELSE {w}

Loading ==
  /\ cmd.pc = "loading"
  /\ \/ Fault /\ world' = Charged(world) /\ \E code \in {1, 2} : cmd' = Returned(code)
     \/ \E w \in Prompted(world) : Emit(w, "workspace-started", At("loaded"), Returned(1))

(* The summary; an attached load also prepares to hand the terminal over. *)
Loaded ==
  /\ cmd.pc = "loaded"
  /\ world' \in Panel(world)
  /\ \/ \E handoff \in {None} \cup (IF request.terminal THEN {"attach", "switch"} ELSE {}) :
          cmd' = [Returned(0) EXCEPT !.handoff = handoff]
     \/ request.terminal /\ cmd' = Thrown(1)
     \/ cmd' = Returned(1)
     \/ world.signal /\ cmd' = Returned(SignalCode)

(***************************************************************************)
(* run_child returns how the child exited, or throws a Failure that holds  *)
(* what the child wrote (captured), or one that holds nothing (silent).    *)
(***************************************************************************)
Exited(code) == [how |-> "exited", code |-> code]
Captured == [how |-> "captured", code |-> 1]
Silent(code) == [how |-> "silent", code |-> code]

RunChild(after) == [cmd EXCEPT !.pc = "terminal", !.after = after]

(***************************************************************************)
(* edit: the editor's command line, `started`, the child; a failure to run *)
(* it is a `failed` record and then thrown on.                             *)
(***************************************************************************)
Edit ==
  /\ cmd.pc = "edit"
  /\ \/ Emit(world, "started", RunChild("edited"), Thrown(1))
     \/ Fails({1, 2})

Edited ==
  /\ cmd.pc = "edited"
  /\ \/ cmd.child.how = "exited" /\ cmd' = Returned(cmd.child.code) /\ UNCHANGED world
     \/ cmd.child.how # "exited" /\ Emit(world, "failed", Thrown(cmd.child.code), Thrown(1))

(***************************************************************************)
(* shell: the daemon's release, tmuxp's version (a child without the       *)
(* terminal), `started`, and the child.  A failure that holds the child's  *)
(* output is part of the result.  Of one that holds none the result cannot *)
(* be made: reading the missing output throws, and its own code is lost.   *)
(***************************************************************************)
Shell ==
  /\ cmd.pc = "shell"
  /\ \/ Fails({1, 2, KilledCode})
     \/ world.signal /\ cmd' = Thrown(SignalCode) /\ UNCHANGED world
     \/ Emit(world, "started", RunChild("shelled"), Thrown(1))

Shelled ==
  /\ cmd.pc = "shelled"
  /\ cmd' = IF cmd.child.how = "silent" THEN Thrown(1) ELSE Returned(cmd.child.code)
  /\ UNCHANGED world

(***************************************************************************)
(* run_child.  The outermost handlers forget an earlier signal.  The       *)
(* terminal is opened and must be in this process's hands; the editor does *)
(* without when there is none.  It is handed to the child once that runs,  *)
(* and taken back whatever happens.                                        *)
(***************************************************************************)
Required == request.terminal /\ request.command # "edit"
Unwatched(w) == IF request.command = "shell" THEN w ELSE [w EXCEPT !.signal = FALSE]

Terminal ==
  /\ cmd.pc = "terminal"
  /\ \/ /\ cmd' = [cmd EXCEPT !.pc = "spawn", !.held = request.terminal]
        /\ world' = Unwatched(world)
     \/ /\ request.terminal /\ ~Required /\ Fault
        /\ cmd' = At("spawn")
        /\ world' = Unwatched(Charged(world))
     \/ /\ Fault
        /\ \E code \in {1} \cup (IF request.terminal THEN {2} ELSE {}) :
             cmd' = [cmd EXCEPT !.pc = cmd.after, !.child = Silent(code)]
        /\ world' = Charged(world)

Ended(how) == [cmd EXCEPT !.pc = "ended", !.child = how]

(* A signal already seen cancels; the child starts and the terminal is its *)
(* own; or the start or the handoff fails.                                 *)
Spawn ==
  /\ cmd.pc = "spawn"
  /\ \/ world.signal /\ cmd' = Ended(Exited(SignalCode)) /\ UNCHANGED world
     \/ /\ ~world.signal
        /\ cmd' = At("child")
        /\ world' = [world EXCEPT !.foreground = IF cmd.held THEN "child" ELSE @]
     \/ /\ ~world.signal /\ Fault
        /\ cmd' = Ended(Captured)
        /\ \E group \in {"self"} \cup (IF cmd.held THEN {"child"} ELSE {}) :
             world' = [Charged(world) EXCEPT !.foreground = group]

ChildSettings ==
  /\ cmd.pc = "child"
  /\ world.foreground = "child"
  /\ world.settings = "own"
  /\ world' = [world EXCEPT !.settings = "changed"]
  /\ UNCHANGED cmd

(* Output of a shell's child is emitted as it arrives; a failure to emit   *)
(* ends the child and is the failure of run_child.                         *)
Captures == request.command = "shell" /\ ~cmd.held
Broke == [cmd EXCEPT !.pc = "reclaim", !.child = Silent(1)]

ChildWrites ==
  /\ cmd.pc = "child"
  /\ Captures /\ cmd.outputs < MaxOutputs
  /\ Emit(world, "script-output", [cmd EXCEPT !.outputs = @ + 1], Broke)

(* The child exits, is cancelled by a signal this process caught, writes   *)
(* more than the limit, or is lost.  Its group is gone; a BSD then names   *)
(* no foreground group at all.                                             *)
ChildEnds ==
  /\ cmd.pc = "child"
  /\ \/ \E code \in ChildCodes : cmd' = Ended(Exited(code))
     \/ world.signal /\ cmd' = Ended(Exited(SignalCode))
     \/ cmd' = Ended(Captured)
  /\ \/ UNCHANGED world
     \/ cmd.held /\ world' = [world EXCEPT !.foreground = "none"]

(* What was left of the output, half a character included, is emitted      *)
(* before the outcome is looked at.                                        *)
Leftover ==
  /\ cmd.pc = "ended"
  /\ \/ cmd' = At("reclaim") /\ UNCHANGED world
     \/ Captures /\ Emit(world, "script-output", At("reclaim"), Broke)

(***************************************************************************)
(* ~Terminal: the handoff is undone unless this process holds the          *)
(* terminal.  The system may refuse the group, or only the settings.       *)
(***************************************************************************)
TakenBack(w) ==
  {[w EXCEPT !.foreground = "self", !.settings = "own"]}
    \cup (IF Fault THEN {[Charged(w) EXCEPT !.refused = TRUE],
                         [Charged(w) EXCEPT !.refused = TRUE, !.foreground = "self"]}
          ELSE {})

MutReclaim ==
  /\ cmd.pc = "reclaim"
  /\ cmd' = [cmd EXCEPT !.pc = cmd.after, !.held = FALSE]
  /\ world' \in IF cmd.held /\ world.foreground = "child" THEN TakenBack(world) ELSE {world}

Reclaim ==
  /\ cmd.pc = "reclaim"
  /\ cmd' = [cmd EXCEPT !.pc = cmd.after, !.held = FALSE]
  /\ world' \in IF cmd.held /\ world.foreground # "self" THEN TakenBack(world) ELSE {world}

-----------------------------------------------------------------------------
(***************************************************************************)
(* freeze, convert and import make a document; a convert or an import that *)
(* was told neither --yes nor a destination only shows it to a human.      *)
(***************************************************************************)
Capture ==
  /\ cmd.pc \in {"freeze", "convert"}
  /\ \/ Fails({1, 2})
     \/ /\ cmd' = IF cmd.pc = "convert" /\ ~Machine /\ ~request.saves THEN Returned(0)
                  ELSE At("save")
        /\ UNCHANGED world

(***************************************************************************)
(* save_or_return: a machine mode with no destination gets the document    *)
(* itself.  A temporary file is written, and renamed over the destination, *)
(* or linked to it and removed.                                            *)
(***************************************************************************)
SaveOrReturn ==
  /\ cmd.pc = "save"
  /\ \/ ~request.saves /\ Machine /\ cmd' = Returned(0) /\ UNCHANGED world
     \/ ~request.saves /\ ~Machine /\ cmd' = Thrown(2) /\ UNCHANGED world
     \/ /\ request.saves /\ ~request.force /\ world.destination # None
        /\ cmd' = Thrown(1)
        /\ UNCHANGED world
     \/ /\ request.saves
        /\ request.force \/ world.destination = None
        /\ \/ cmd' = At("write") /\ world' = [world EXCEPT !.temporary = "part"]
           \/ Fails({1, 2})

(* The catch around the write: the temporary file goes, if it can, and the *)
(* failure stays.                                                          *)
Discarded(w) ==
  {[w EXCEPT !.temporary = None]}
    \cup (IF w.faults < MaxFaults THEN {[Charged(w) EXCEPT !.refused = TRUE]} ELSE {})

WriteTemporary ==
  /\ cmd.pc = "write"
  /\ \/ cmd' = At("publish") /\ world' = [world EXCEPT !.temporary = "document"]
     \/ Fault /\ cmd' = Thrown(1) /\ world' \in Discarded(Charged(world))

Replaces == request.force

Publish ==
  /\ cmd.pc = "publish"
  /\ \/ /\ Replaces
        /\ cmd' = Returned(0)
        /\ world' = [world EXCEPT !.destination = world.temporary, !.temporary = None]
     \/ /\ ~Replaces /\ world.destination = None
        /\ cmd' = At("unlink")
        /\ world' = [world EXCEPT !.destination = world.temporary]
     \/ /\ ~Replaces /\ world.destination # None
        /\ cmd' = Thrown(1)
        /\ world' \in Discarded(world)
     \/ /\ Fault
        /\ cmd' = Thrown(1)
        /\ world' \in Discarded(Charged(world))

(* Removing the other name may fail: the document is in place, and the     *)
(* failure is thrown all the same.                                         *)
Unlink ==
  /\ cmd.pc = "unlink"
  /\ \/ cmd' = Returned(0) /\ world' = [world EXCEPT !.temporary = None]
     \/ Fault /\ cmd' = Thrown(1) /\ world' \in Discarded(Charged(world))

-----------------------------------------------------------------------------
(***************************************************************************)
(* What run() says of a result on stderr: the warnings a stream has not    *)
(* carried, that a capture returned as JSON is lossy, what the editor      *)
(* wrote there, and the errors of a load or a shell, each logged first.  A *)
(* shell whose child failed by itself has none.                            *)
(***************************************************************************)
HasErrors ==
  \/ request.command = "load" /\ cmd.result = "error"
  \/ request.command = "shell" /\ cmd.child.how = "captured"

Warns ==
  /\ request.mode # "ndjson" /\ Enabled("warning")
  /\ cmd.warned \/ (request.command = "freeze" /\ Machine /\ ~request.saves)

Say ==
  /\ cmd.pc = "say"
  /\ cmd' = At(IF request.mode # "ndjson" THEN "print"
               ELSE IF request.command = "ls" THEN "rows" ELSE "last")
  /\ \E w \in IF HasErrors THEN Logged(world, "error") ELSE {world} :
       \/ world' = IF HasErrors \/ Warns THEN ToErrors(w) ELSE w
       \/ request.command = "edit" /\ ~Machine /\ world' = ToErrors(w)

(* Then the rows and the last record of a stream, or one printed result. *)
Rows == cmd.pc = "rows" /\ Emit(world, "workspace", At("last"), Thrown(1))

MutSayLast ==
  /\ cmd.pc = "last"
  /\ Emit(world, "completed", At("leave"), Thrown(1))

SayLast ==
  /\ cmd.pc = "last"
  /\ Emit(world, IF cmd.result = "ok" THEN "completed" ELSE "failed", At("leave"), Thrown(1))

(* A printed result may stay in the buffer: only load looks whether it     *)
(* left.  A human shell has nothing to print.                              *)
Prints ==
  /\ cmd.pc = "print"
  /\ \E w \in IF ProcessCommand
                THEN Logged(world, Severity(IF cmd.result = "ok" THEN "completed" ELSE "failed"))
                ELSE {world} :
       \/ cmd' = At("leave") /\ world' = w /\ request.command = "shell" /\ ~Machine
       \/ /\ request.command # "shell" \/ Machine
          /\ \/ cmd' = [At("leave") EXCEPT !.buffered = TRUE] /\ world' = w
             \/ cmd' = At("leave") /\ world' = Flushed(w, "result")

(***************************************************************************)
(* load flushes and looks at both streams before it hands the terminal     *)
(* over: tmux is told to switch a client, or attaches as a child.          *)
(***************************************************************************)
Leave ==
  /\ cmd.pc = "leave"
  /\ request.command = "load"
  /\ LET w == IF cmd.buffered THEN Flushed(world, "result") ELSE world IN
       IF w.outBad \/ w.errBad
         THEN world' = w /\ cmd' = Thrown(1)
         ELSE /\ world' = ReportFailure(w)
              /\ cmd' = At(IF cmd.handoff = None THEN "exit" ELSE "handoff")

HandOff ==
  /\ cmd.pc = "handoff"
  /\ \/ cmd.handoff = "attach" /\ cmd' = RunChild("attached") /\ UNCHANGED world
     \/ cmd.handoff = "switch" /\ cmd' = At("exit") /\ UNCHANGED world
     \/ cmd.handoff = "switch" /\ Fails({1})

Attached ==
  /\ cmd.pc = "attached"
  /\ cmd' = IF cmd.child = Exited(0) THEN At("exit") ELSE Thrown(cmd.child.code)
  /\ UNCHANGED world

(* The exit status is chosen, and then the log is closed. *)
ExitStatus ==
  IF ProcessCommand /\ ~world.outBad /\ ~world.errBad THEN cmd.code
  ELSE IF ~world.outBad /\ ~(ProcessCommand /\ cmd.result # "ok") THEN 0
  ELSE 1

Exit ==
  /\ cmd.pc = "exit" \/ (cmd.pc = "leave" /\ request.command # "load")
  /\ cmd' = [cmd EXCEPT !.pc = "done", !.exit = ExitStatus]
  /\ world' \in LogClosed(world)

(* fail: an operation that had already failed keeps its own status. *)
StatusOf ==
  IF request.command \in {"load", "shell"} /\ cmd.result # None /\ cmd.code # 0
    THEN cmd.code ELSE cmd.thrown

Fail ==
  /\ cmd.pc = "fail"
  /\ cmd' = [cmd EXCEPT !.pc = "done", !.exit = StatusOf]
  /\ \E w \in Logged(world, "error") : world' \in LogClosed(ToErrors(w))

-----------------------------------------------------------------------------
(* The handlers are in place while a load or a shell, or a child, runs. *)
Guarded ==
  \/ request.command \in {"load", "shell"}
     /\ cmd.pc \in {"load", "loading", "loaded", "shell", "shelled"}
  \/ request.command = "shell" /\ cmd.pc = "terminal"
  \/ cmd.pc \in {"spawn", "child", "ended", "reclaim"}

Running == cmd.pc \notin {"done", "killed"}

Interrupt ==
  /\ Guarded /\ ~world.signal /\ Fault
  /\ world' = [Charged(world) EXCEPT !.signal = TRUE]
  /\ UNCHANGED <<request, cmd>>

Killed ==
  /\ Running /\ ~Guarded /\ Fault
  /\ world' = Charged(world)
  /\ cmd' = At("killed")
  /\ UNCHANGED request

ReaderLeaves ==
  /\ Fault /\ Running
  /\ \/ world.outOpen /\ world' = [Charged(world) EXCEPT !.outOpen = FALSE]
     \/ world.errOpen /\ world' = [Charged(world) EXCEPT !.errOpen = FALSE]
  /\ UNCHANGED <<request, cmd>>

OtherCreates ==
  /\ request.saves /\ Running
  /\ world.destination = None
  /\ world' = [world EXCEPT !.destination = "other", !.theirs = "other"]
  /\ UNCHANGED <<request, cmd>>

CommandStep ==
  \/ Parse \/ Configure \/ List \/ Load \/ Loading \/ Loaded
  \/ Edit \/ Edited \/ Shell \/ Shelled
  \/ Terminal \/ Spawn \/ ChildSettings \/ ChildWrites \/ ChildEnds \/ Leftover \/ Reclaim
  \/ Capture \/ SaveOrReturn \/ WriteTemporary \/ Publish \/ Unlink
  \/ Say \/ Rows \/ SayLast \/ Prints \/ Leave \/ HandOff \/ Attached \/ Exit \/ Fail

CommandNext ==
  \/ CommandStep /\ UNCHANGED request
  \/ Interrupt \/ Killed \/ ReaderLeaves \/ OtherCreates

CommandSpec == CommandInit /\ [][CommandNext]_vars

-----------------------------------------------------------------------------
Over == cmd.pc = "done"
Endings == {"completed", "failed"}

(***************************************************************************)
(* What a stream of records says of the operation agrees with what it came *)
(* to (emit, and run's last record): an ending is the last record, an      *)
(* operation that returned has the ending of its result unless the reader  *)
(* has gone, and one that threw has no `completed` and no status 0.  The   *)
(* stream of one that threw, but for edit, has no ending at all: fail      *)
(* writes to stderr only.                                                  *)
(***************************************************************************)
EndingOf(result) == IF result = "ok" THEN "completed" ELSE "failed"

StreamTruthful ==
  request.mode = "ndjson" =>
    /\ \A i \in DOMAIN world.records :
         world.records[i] \in Endings => i = Len(world.records)
    /\ Over /\ cmd.result # None /\ ~world.outBad =>
         Contains(world.records, EndingOf(cmd.result))
    /\ Over /\ cmd.thrown # None /\ cmd.result = None =>
         cmd.exit # 0 /\ ~Contains(world.records, "completed")

(***************************************************************************)
(* What the manual and a comment in run say of every stream, and is not so *)
(* of an operation that threw: it ends with one of the two records.        *)
(***************************************************************************)
StreamEnds ==
  Over /\ request.mode = "ndjson" /\ ~world.outBad /\ (cmd.result # None \/ cmd.thrown # None)
    => \E i \in DOMAIN world.records : world.records[i] \in Endings

(***************************************************************************)
(* A load or a shell that failed ends the program with its own status,     *)
(* also when reporting it failed as well (fail and run's last lines).  The *)
(* status becomes 1, never 0, where a stream is found bad without a        *)
(* failure thrown: a shell never looks at stderr, nor at the result it     *)
(* prints as JSON, and a load may find stderr gone by reporting a broken   *)
(* log file.  It becomes 1 as well where a shell's child failed before it  *)
(* had any output, as the result cannot be made.                           *)
(***************************************************************************)
StreamLost ==
  \/ request.command = "shell" /\ (world.errBad \/ (world.outBad /\ request.mode = "json"))
  \/ request.command = "load" /\ world.errBad /\ world.log = "reported"

StatusKept ==
  Over /\ request.command \in {"load", "shell"} =>
    /\ cmd.result # None /\ cmd.code # 0 =>
         cmd.exit = cmd.code \/ (cmd.exit = 1 /\ StreamLost)
    /\ request.command = "shell" /\ cmd.child # None /\ cmd.child.how # "exited" =>
         cmd.exit = cmd.child.code \/ (cmd.exit = 1 /\ (cmd.child.how = "silent" \/ StreamLost))

(***************************************************************************)
(* However the child ended, the terminal is this process's again, with its *)
(* own settings, before anything is reported (Terminal's destructor),      *)
(* unless the system refuses that.  This holds of a process killed by a    *)
(* signal too: run_child has its handlers in place before it gives the     *)
(* terminal away and until it has it back.                                 *)
(***************************************************************************)
TerminalReturned ==
  cmd.pc \notin {"terminal", "spawn", "child", "ended", "reclaim"}
    => world.refused \/ (world.foreground = "self" /\ world.settings = "own")

(***************************************************************************)
(* What an invocation tells its caller, by records and by exit status, is  *)
(* what its operation came to.                                             *)
(***************************************************************************)
ReportTruthful == StreamTruthful /\ StatusKept

(***************************************************************************)
(* Without --force a destination someone else made is never replaced, also *)
(* when it appears after save_or_return looked; a save that succeeded left *)
(* the whole document there, and no invocation leaves half of one, also    *)
(* when a signal kills it, for which a save has no handler.  One that is   *)
(* not killed leaves no temporary file unless the system refuses to remove *)
(* it.                                                                     *)
(***************************************************************************)
SavesSafely ==
  /\ world.theirs # None /\ ~request.force => world.destination = world.theirs
  /\ world.destination # "part"
  /\ request.saves /\ cmd.result = "ok" => world.destination = "document"
  /\ Over => world.temporary = None \/ world.refused

(***************************************************************************)
(* What an invocation borrows or writes ends up as it should: the terminal *)
(* with this process, a file nobody else made.                             *)
(***************************************************************************)
TerminalAndFiles == TerminalReturned /\ SavesSafely
=============================================================================
