------------------------------ MODULE Backend ------------------------------
(***************************************************************************)
(* How a Server's commands reach a tmux daemon (src/backend.cpp,           *)
(* src/server.cpp, src/socket_identity.cpp, src/support_versions.cpp).     *)
(*                                                                         *)
(* A SubprocessBackend pins the inode of the selected socket under a       *)
(* private alias, asks the daemon for its release, remembers the answer,   *)
(* and fences every later command with it.  A startable one may start the  *)
(* daemon that is missing, under startup_mutex.  An ExecutorBackend does   *)
(* the same checks over a caller's transport; with BackendKind::control    *)
(* that transport is a pool of control connections that falls back to a    *)
(* SubprocessBackend of its own.                                           *)
(*                                                                         *)
(* The world outside: a daemon binds a fresh inode, so an inode number is  *)
(* the daemon's incarnation; it may die, and another may take its path.    *)
(***************************************************************************)
EXTENDS Naturals, Sequences, FiniteSets

CONSTANTS
  Callers,      \* threads that share the handle
  None,         \* nobody, nothing
  Kinds,        \* which handles are opened: see HandleKinds
  Supported,    \* releases at or above the floor
  TooOld,       \* releases below it
  Executable,   \* the release of the tmux executable
  MaxDaemons,   \* incarnations of the daemon
  MaxEvents     \* calls, and changes of the world, together

HandleKinds == {"plain", "startable", "executor", "control"}

Releases == Supported \cup TooOld

VARIABLES
  world,        \* what the socket paths name and which daemons live
  handle,       \* SubprocessBackend: endpoint, version cache, startup lock
  exec,         \* ExecutorBackend: checked_, fence_token_, the pool's connections
  call,         \* where each caller is, and what became of its command
  used

vars == <<world, handle, exec, call, used>>

(* list-sessions, an operation on an entity read earlier, new-session, kill-server,  *)
(* -V, a client flag, and a command this release must not be sent.                   *)
Commands == {"query", "touch", "start", "kill", "version", "flag", "gated"}

Returned == [kind |-> "none", delivery |-> "none"]

NoCall ==
  [pc |-> "idle", command |-> "none", quiet |-> FALSE, inner |-> FALSE, entity |-> 0,
   checked |-> None, conn |-> "none", nostart |-> FALSE, first |-> FALSE,
   fence |-> None, out |-> "none", ran |-> <<>>, seen |-> 0, result |-> Returned]

NoDaemons ==
  [path |-> 0, alias |-> 0, next |-> 1, live |-> {}, release |-> [i \in 1..MaxDaemons |-> None]]

Init ==
  /\ world = NoDaemons
  /\ \E k \in Kinds :
       handle = [kind |-> k, opened |-> FALSE, startable |-> k = "startable",
                 missing |-> FALSE, conn |-> "alias", cache |-> None, lock |-> None,
                 held |-> {}]
  /\ exec = [checked |-> FALSE, declared |-> FALSE, token |-> None, pool |-> 0]
  /\ call = [c \in Callers |-> NoCall]
  /\ used = 0

Live(i) == i \in world.live

Started(v) ==
  [world EXCEPT !.next = @ + 1, !.live = @ \cup {world.next}, !.release[world.next] = v]

Stopped(i, left) ==
  [world EXCEPT !.live = @ \ {i}, !.path = IF @ = i /\ ~left THEN 0 ELSE @]

(* The inode a -S or -L selector names. *)
Endpoint(conn) == IF conn = "selector" THEN world.path ELSE world.alias

Sub == handle.kind \in {"plain", "startable"}
-----------------------------------------------------------------------------
(* The world (external): another process starts a daemon where none answers, or a    *)
(* daemon dies, leaving its socket file or not.                                      *)
DaemonStarts(v) ==
  /\ ~Live(world.path) /\ world.next <= MaxDaemons /\ used < MaxEvents
  /\ used' = used + 1
  /\ world' = [Started(v) EXCEPT !.path = world.next]
  /\ UNCHANGED <<handle, exec, call>>

DaemonDies(i, left) ==
  /\ Live(i) /\ used < MaxEvents
  /\ used' = used + 1
  /\ world' = Stopped(i, left)
  /\ UNCHANGED <<handle, exec, call>>

(* Somebody removes a live daemon's socket file, as when its directory is cleaned.   *)
PathRemoved ==
  /\ Live(world.path) /\ used < MaxEvents
  /\ used' = used + 1
  /\ world' = [world EXCEPT !.path = 0]
  /\ UNCHANGED <<handle, exec, call>>
-----------------------------------------------------------------------------
(* bind_socket_endpoint: a hard link to the inode the path names now.  A plain handle *)
(* that finds none keeps an alias that names nothing; a startable one keeps the       *)
(* caller's selector until it has started a server.                                   *)
Bound(h, w) ==
  [h EXCEPT !.opened = TRUE, !.missing = w.path = 0,
            !.conn = IF w.path = 0 /\ h.startable THEN "selector" ELSE "alias"]

Open ==
  /\ ~handle.opened /\ Sub
  /\ handle' = Bound(handle, world)
  /\ world' = [world EXCEPT !.alias = world.path]
  /\ UNCHANGED <<exec, call, used>>

(* Server::over: nothing is bound; the executor's daemon is whoever holds the path. *)
Over ==
  /\ ~handle.opened /\ handle.kind = "executor"
  /\ handle' = [handle EXCEPT !.opened = TRUE]
  /\ UNCHANGED <<world, exec, call, used>>

(* Server::over_control, its two halves: the pool connects to the daemon of the       *)
(* handle it is called on, whose release, when it can be read, is declared; then the  *)
(* launching handle binds the selected path.                                          *)
ConnectPool(declared) ==
  /\ ~handle.opened /\ handle.kind = "control" /\ exec.pool = 0
  /\ Live(world.path) /\ world.release[world.path] \in Supported
  /\ exec' = [exec EXCEPT !.pool = world.path, !.declared = declared]
  /\ UNCHANGED <<world, handle, call, used>>

BindLaunching ==
  /\ ~handle.opened /\ handle.kind = "control" /\ exec.pool # 0
  /\ handle' = Bound(handle, world)
  /\ world' = [world EXCEPT !.alias = world.path]
  /\ UNCHANGED <<exec, call, used>>
-----------------------------------------------------------------------------
(* Every way a backend call ends.  A launch made for the control pool answers the     *)
(* executor's caller and is not reported; an unobserved one is not reported either.   *)
ReturnedTo(c, record, kind, delivery) ==
  [call EXCEPT ![c] =
     [record EXCEPT !.result = [kind |-> kind, delivery |-> delivery],
                    !.pc = IF record.inner THEN "heard" ELSE "idle",
                    !.seen = IF record.inner \/ record.quiet THEN @ ELSE @ + 1]]

Released(h, c) == [h EXCEPT !.lock = IF @ = c THEN None ELSE @]

(* report_failure / observe(failure): refused before anything was dispatched, or not. *)
Fail(c, kind, delivery) ==
  /\ call' = ReturnedTo(c, call[c], kind, delivery)
  /\ handle' = Released(handle, c)

(* observe(nullptr): a query's answer is an entity of the daemon that gave it. *)
Succeed(c, h) ==
  /\ call' = ReturnedTo(c, call[c], "ok", "replied")
  /\ handle' = Released([h EXCEPT !.held =
       IF call[c].command = "query" THEN @ \cup {call[c].ran[i] : i \in 1..Len(call[c].ran)} ELSE @], c)

Goto(c, pc) == call' = [call EXCEPT ![c].pc = pc]

Fresh(c, command, pc) ==
  \E e \in (IF command = "touch" THEN handle.held ELSE {0}) :
    call' = [call EXCEPT ![c] = [NoCall EXCEPT !.pc = pc, !.command = command, !.entity = e]]

MayCall(c) == handle.opened /\ call[c].pc = "idle" /\ used < MaxEvents

(* SubprocessBackend::run_scoped: while the socket is missing, one caller at a time. *)
RunScoped(c, command) ==
  /\ MayCall(c) /\ Sub
  /\ Fresh(c, command, IF handle.missing THEN "startup" ELSE "gate")
  /\ used' = used + 1
  /\ UNCHANGED <<world, handle, exec>>

TakeStartupLock(c) ==
  /\ call[c].pc = "startup" /\ handle.lock = None
  /\ handle' = [handle EXCEPT !.lock = c]
  /\ Goto(c, "gate")
  /\ UNCHANGED <<world, exec, used>>

(* SubprocessBackend::run_unobserved, for the asynchronous engines: no startup. *)
RunUnobserved(c, command) ==
  /\ MayCall(c) /\ Sub
  /\ LET refused == handle.missing /\ command # "version"
     IN  \E e \in (IF command = "touch" THEN handle.held ELSE {0}) :
           call' = [call EXCEPT ![c] =
             [NoCall EXCEPT !.command = command, !.quiet = TRUE, !.entity = e,
                            !.pc = IF refused THEN "idle" ELSE "gate",
                            !.result = IF refused THEN [kind |-> "missing", delivery |-> "not_started"]
                                                  ELSE @]]
  /\ used' = used + 1
  /\ UNCHANGED <<world, handle, exec>>

(* SubprocessBackend::version and check_release: the cache, or a probe that feeds it. *)
AskRelease(c) ==
  /\ MayCall(c) /\ Sub
  /\ call' = [call EXCEPT ![c] =
       [NoCall EXCEPT !.command = "ask", !.quiet = TRUE,
                      !.pc = IF handle.cache # None THEN "idle" ELSE "probe"]]
  /\ used' = used + 1
  /\ UNCHANGED <<world, handle, exec>>
-----------------------------------------------------------------------------
(* run_scoped after the lock, and check_command: what is refused before the daemon    *)
(* is asked, what the cache answers, and what must be probed.                         *)
StartsServer(c) == call[c].command = "start"

PublishesEndpoint(c) == handle.missing /\ handle.startable /\ StartsServer(c) /\ ~call[c].quiet

Gate(c) ==
  LET command == call[c].command
  IN  /\ call[c].pc = "gate"
      /\ \/ /\ handle.missing /\ command # "version" /\ ~PublishesEndpoint(c)
            /\ Fail(c, "missing", "not_started")
         \/ /\ ~handle.missing \/ command = "version" \/ PublishesEndpoint(c)
            /\ \/ /\ command = "flag"
                  /\ Fail(c, "validation", "not_started")
               \/ /\ command # "flag"
                  /\ call' = [call EXCEPT ![c].pc = IF command = "version" \/ handle.cache # None
                                                    THEN "assemble" ELSE "probe",
                                          ![c].checked = IF command = "version" THEN None
                                                         ELSE handle.cache,
                                          ![c].first = PublishesEndpoint(c)]
                  /\ UNCHANGED handle
      /\ UNCHANGED <<world, exec, used>>

(* query_endpoint, read_report and require_supported: the daemon behind the          *)
(* connection, or the executable when none answers.  The probe itself may fail: not   *)
(* spawned, timed out, or an answer without a version.                                *)
Probe(c) ==
  LET at == Endpoint(handle.conn)
  IN  /\ call[c].pc = "probe"
      /\ \/ /\ Live(at) /\ world.release[at] \in Supported
            /\ call' = [call EXCEPT ![c].checked = [live |-> TRUE, release |-> world.release[at]],
                                    ![c].pc = "remember"]
            /\ UNCHANGED handle
         \/ /\ Live(at) /\ world.release[at] \in TooOld
            /\ Fail(c, "unsupported", "not_started")
         \/ /\ ~Live(at)
            /\ call' = [call EXCEPT ![c].checked = [live |-> FALSE, release |-> Executable],
                                    ![c].pc = "assemble"]
            /\ UNCHANGED handle
         \/ Fail(c, "refused", "not_started")
      /\ UNCHANGED <<world, exec, used>>

(* check_version's second critical section. *)
Remember(c) ==
  /\ call[c].pc = "remember"
  /\ handle' = [handle EXCEPT !.cache = call[c].checked]
  /\ Goto(c, "assemble")
  /\ UNCHANGED <<world, exec, used>>

(* refuse_literal and assemble_request: nothing to do for a daemon already gone;      *)
(* otherwise build_request.  Only a startable handle that found none lets tmux start  *)
(* one, and only a live daemon's release is fenced.                                   *)
MutNoStart(record, h) == record.checked # None /\ record.checked.live

NoStart(record, h) == record.checked # None /\ (record.checked.live \/ ~h.startable)

Assemble(c) ==
  LET record == call[c]
  IN  /\ record.pc = "assemble"
      /\ \/ /\ record.command = "gated"
            /\ Fail(c, "unsupported", "not_started")
         \/ /\ record.command = "ask" \/ (record.command = "kill" /\ ~record.checked.live)
            /\ Succeed(c, handle)
         \/ /\ record.command \notin {"gated", "ask"} /\ (record.command = "kill" => record.checked.live)
            /\ call' = [call EXCEPT ![c] =
                 [record EXCEPT !.conn = handle.conn, !.nostart = NoStart(record, handle),
                                !.pc = "run"]]
            /\ UNCHANGED handle
      /\ UNCHANGED <<world, exec, used>>
-----------------------------------------------------------------------------
(* What a daemon does with a command (external): the fence first, then the command.  *)
Fenced(i, token) == token # None /\ world.release[i] # token

ClientEnds == {"ok", "refused", "truncated", "timeout"}

Executed(i, command) == IF command = "kill" THEN Stopped(i, FALSE) ELSE world

(* run_process on the tmux client: not spawned; timed out, which tells nothing; or    *)
(* answered.  Without -N, new-session starts a daemon at the path it was given, and   *)
(* the client may still time out, be refused or say too much.                         *)
Launch(c) ==
  LET record == call[c]
      at     == Endpoint(record.conn)
      token  == IF record.checked # None /\ record.checked.live THEN record.checked.release ELSE None
      Out(w, ran, out) ==
        /\ world' = w
        /\ call' = [call EXCEPT ![c].ran = ran, ![c].out = out, ![c].pc = "interpret"]
  IN  /\ record.pc = "run"
      /\ \/ /\ record.command = "version"
            /\ Out(world, record.ran, "ok")
         \/ Out(world, record.ran, "unspawned")
         \/ /\ record.command # "version" /\ Live(at)
            /\ \/ Fenced(at, token) /\ Out(world, record.ran, "fenced")
               \/ Out(world, record.ran, "timeout")
               \/ /\ ~Fenced(at, token) /\ Fenced(at, record.fence)
                  /\ Out(world, record.ran, "outer fence")
               \/ /\ ~Fenced(at, token) /\ ~Fenced(at, record.fence)
                  /\ \E out \in ClientEnds :
                       Out(Executed(at, record.command), Append(record.ran, at), out)
         \/ /\ record.command # "version" /\ ~Live(at)
            /\ \/ (record.nostart \/ ~StartsServer(c)) /\ Out(world, record.ran, "absent")
               \/ /\ ~record.nostart /\ StartsServer(c) /\ world.next <= MaxDaemons
                  /\ \E out \in ClientEnds :
                       Out(IF record.conn = "selector"
                           THEN [Started(Executable) EXCEPT !.path = world.next]
                           ELSE [Started(Executable) EXCEPT !.alias = world.next],
                           Append(record.ran, world.next), out)
               \/ /\ ~record.nostart /\ StartsServer(c) /\ record.conn = "selector"
                  /\ Out(world, record.ran, "unbound")
      /\ UNCHANGED <<handle, exec, used>>

(* interpret_reply.  A fence that fired and an endpoint that is gone forget the       *)
(* version; stopping a server already stopped is no failure.  A first start has its   *)
(* endpoint published before anybody hears of it.                                     *)
Interpret(c) ==
  LET record == call[c]
      forget == [handle EXCEPT !.cache = None]
      FailWith(h, kind, delivery) ==
        /\ call' = ReturnedTo(c, record, kind, delivery)
        /\ handle' = Released(h, c)
  IN  /\ record.pc = "interpret"
      /\ \/ record.out = "fenced" /\ FailWith(forget, "unsupported", "not_started")
         \/ record.out = "absent" /\ record.command = "kill" /\ Succeed(c, forget)
         \/ record.out = "absent" /\ record.command # "kill" /\ FailWith(forget, "refused", "replied")
         \/ record.out = "unspawned" /\ FailWith(handle, "spawn", "not_started")
         \/ record.out = "timeout" /\ FailWith(handle, "timeout", "indeterminate")
         \/ record.out = "outer fence" /\ FailWith(handle, "refused", "replied")
         \/ record.out \in {"refused", "truncated"} /\ FailWith(handle, record.out, "replied")
         \/ /\ record.out \in {"ok", "unbound"} /\ ~record.first
            /\ Succeed(c, handle)
         \/ /\ record.out \in {"ok", "unbound"} /\ record.first
            /\ Goto(c, "publish") /\ UNCHANGED handle
      /\ UNCHANGED <<world, exec, used>>

(* publish_started_endpoint: bind what the selector names now, the flag last.  The    *)
(* alias may be impossible to make.                                                   *)
PublishEndpoint(c) ==
  /\ call[c].pc = "publish"
  /\ \/ /\ world.path # 0
        /\ world' = [world EXCEPT !.alias = world.path]
        /\ Succeed(c, [handle EXCEPT !.missing = FALSE, !.conn = "alias"])
     \/ /\ world.path = 0
        /\ Fail(c, "missing", "replied")
        /\ UNCHANGED world
     \/ Fail(c, "pipe", "replied") /\ UNCHANGED world
  /\ UNCHANGED <<exec, used>>
-----------------------------------------------------------------------------
(* ExecutorBackend::run: validation, then check_version, which keeps its mutex over   *)
(* the probe, whose failure is handed on as it is.  A declared release is not fenced. *)
ExecutorRun(c, command) ==
  /\ MayCall(c) /\ ~Sub
  /\ Fresh(c, command, "check")
  /\ used' = used + 1
  /\ UNCHANGED <<world, handle, exec>>

CheckVersion(c) ==
  LET command == call[c].command
      daemon  == IF handle.kind = "control" THEN world.alias ELSE world.path
  IN  /\ call[c].pc = "check"
      /\ \/ /\ command = "flag"
            /\ Fail(c, "validation", "not_started") /\ UNCHANGED exec
         \/ /\ command = "version"
            /\ Goto(c, "token") /\ UNCHANGED <<handle, exec>>
         \/ /\ command \notin {"flag", "version"}
            /\ \/ exec.checked /\ Goto(c, "known") /\ UNCHANGED <<handle, exec>>
               \/ /\ ~exec.checked /\ exec.declared
                  /\ exec' = [exec EXCEPT !.checked = TRUE]
                  /\ Goto(c, "known") /\ UNCHANGED handle
               \/ /\ ~exec.checked /\ ~exec.declared
                  /\ \/ /\ Live(daemon) /\ world.release[daemon] \in Supported
                        /\ exec' = [exec EXCEPT !.checked = TRUE, !.token = world.release[daemon]]
                        /\ Goto(c, "known") /\ UNCHANGED handle
                     \/ /\ Live(daemon) /\ world.release[daemon] \in TooOld
                        /\ Fail(c, "unsupported", "not_started") /\ UNCHANGED exec
                     \/ /\ \E delivery \in {"not_started", "indeterminate", "replied"} :
                             Fail(c, "refused", delivery)
                        /\ UNCHANGED exec
      /\ UNCHANGED <<world, used>>

(* refuse_literal, against checked_version_. *)
KnownVersion(c) ==
  /\ call[c].pc = "known"
  /\ IF call[c].command = "gated"
     THEN Fail(c, "unsupported", "not_started")
     ELSE Goto(c, "token") /\ UNCHANGED handle
  /\ UNCHANGED <<world, exec, used>>

(* The fence's token, read under a lock of its own. *)
ReadToken(c) ==
  /\ call[c].pc = "token"
  /\ call' = [call EXCEPT ![c].fence = exec.token,
                          ![c].pc = IF handle.kind = "control" THEN "route" ELSE "send"]
  /\ UNCHANGED <<world, handle, exec, used>>

(* A caller's executor (external): whatever daemon it is pointed at. *)
ExecutorSends(c) ==
  LET record == call[c]
      at     == world.path
      Out(w, ran, kind, delivery, out) ==
        /\ world' = w
        /\ call' = [call EXCEPT ![c] = [record EXCEPT !.ran = ran, !.out = out, !.pc = "heard",
                                          !.result = [kind |-> kind, delivery |-> delivery]]]
  IN  /\ record.pc = "send"
      /\ \/ /\ Live(at) /\ Fenced(at, record.fence)
            /\ Out(world, <<>>, "refused", "replied", "outer fence")
         \/ /\ Live(at) /\ ~Fenced(at, record.fence) /\ record.command # "version"
            /\ \E kind \in {"ok", "refused"} :
                 Out(Executed(at, record.command), Append(record.ran, at), kind, "replied", "none")
         \/ /\ ~Live(at) \/ record.command = "version"
            /\ Out(world, <<>>, "refused", "not_started", "none")
      /\ UNCHANGED <<handle, exec, used>>

(* ControlExecutor::run.  A fence, and a command whose block is not its whole answer,  *)
(* is launched; another goes to a connection of the pool.                              *)
AnsweredInBlock(record) == record.command \in {"query", "touch"} /\ record.fence = None

Launched(c) == call' = [call EXCEPT ![c].inner = TRUE, ![c].pc = IF handle.missing THEN "startup" ELSE "gate"]

FallsBack(delivery) == delivery = "not_started"

(* Connection::execute (external here): the request was not started, or may have been. *)
ControlRun(c) ==
  LET record == call[c]
      Answer(ran, kind, delivery) ==
        call' = [call EXCEPT ![c] = [record EXCEPT !.ran = ran, !.pc = "heard",
                                       !.result = [kind |-> kind, delivery |-> delivery]]]
      Lost(ran, delivery) ==
        IF FallsBack(delivery)
        THEN call' = [call EXCEPT ![c] = [record EXCEPT !.ran = ran, !.inner = TRUE,
                                            !.pc = IF handle.missing THEN "startup" ELSE "gate"]]
        ELSE Answer(ran, "pipe", delivery)
  IN  /\ record.pc = "route"
      /\ \/ ~AnsweredInBlock(record) /\ Launched(c)
         \/ /\ AnsweredInBlock(record)
            /\ \/ Lost(<<>>, "not_started")
               \/ Lost(<<>>, "indeterminate")
               \/ /\ Live(exec.pool)
                  /\ \/ Lost(<<exec.pool>>, "indeterminate")
                     \/ \E kind \in {"ok", "refused", "truncated"} :
                          Answer(<<exec.pool>>, kind, "replied")
      /\ UNCHANGED <<world, handle, exec, used>>

(* ExecutorBackend::run after the executor answered: a fence that fired forgets what   *)
(* was checked; anything else is observed and handed on.                               *)
Heard(c) ==
  LET record == call[c]
      Told(result) == call' = [call EXCEPT ![c] = [record EXCEPT !.pc = "idle", !.seen = @ + 1,
                                                      !.result = result]]
  IN  /\ record.pc = "heard"
      /\ \/ /\ record.out = "outer fence"
            /\ exec' = [exec EXCEPT !.checked = FALSE, !.token = None]
            /\ Told([kind |-> "unsupported", delivery |-> "not_started"])
            /\ UNCHANGED handle
         \/ /\ record.out # "outer fence"
            /\ Told(record.result)
            /\ handle' = [handle EXCEPT !.held =
                 IF record.command = "query" /\ record.result.kind = "ok"
                 THEN @ \cup {record.ran[i] : i \in 1..Len(record.ran)} ELSE @]
            /\ UNCHANGED exec
      /\ UNCHANGED <<world, used>>
-----------------------------------------------------------------------------
Outside ==
  \/ \E v \in Releases : DaemonStarts(v)
  \/ \E i \in 1..MaxDaemons, left \in BOOLEAN : DaemonDies(i, left)
  \/ PathRemoved

Opening == Open \/ Over \/ (\E declared \in BOOLEAN : ConnectPool(declared)) \/ BindLaunching

Step(c) ==
  \/ \E command \in Commands :
       RunScoped(c, command) \/ RunUnobserved(c, command) \/ ExecutorRun(c, command)
  \/ AskRelease(c) \/ TakeStartupLock(c) \/ Gate(c) \/ Probe(c) \/ Remember(c) \/ Assemble(c)
  \/ Launch(c) \/ Interpret(c) \/ PublishEndpoint(c)
  \/ CheckVersion(c) \/ KnownVersion(c) \/ ReadToken(c) \/ ExecutorSends(c)
  \/ ControlRun(c) \/ Heard(c)

Next == Outside \/ Opening \/ (\E c \in Callers : Step(c))

Spec == Init /\ [][Next]_vars
-----------------------------------------------------------------------------
(* A command is carried out at most once, however many routes were tried for it; one  *)
(* reported as not started was carried out nowhere, and an answer is some daemon's    *)
(* (ControlExecutor::run falls back to a launch only when nothing reached tmux).      *)
DeliveryHonest ==
  \A c \in Callers :
    /\ Len(call[c].ran) <= 1
    /\ call[c].pc = "idle" =>
         /\ call[c].result.delivery = "not_started" => call[c].ran = <<>>
         /\ call[c].result.kind = "ok" /\ call[c].command \in {"query", "touch"} => call[c].ran # <<>>

(* A launched command runs only on a daemon of the release that was checked for it;   *)
(* one whose check found no daemon runs only through a handle that may start one      *)
(* (build_request's fence and -N, the cache forgotten by interpret_reply).            *)
CheckedReached ==
  \A c \in Callers :
    Sub /\ call[c].ran # <<>> =>
      IF call[c].checked.live
      THEN world.release[call[c].ran[1]] = call[c].checked.release
      ELSE handle.startable

(* A handle that may not start a server never follows a replacement: all its commands *)
(* run on the daemon whose socket it pinned (bind_socket_endpoint's alias).           *)
StaysPinned ==
  handle.kind = "plain" =>
    Cardinality(handle.held \cup {call[c].ran[1] : c \in {d \in Callers : call[d].ran # <<>>}}) <= 1

(* While the socket is missing one caller at a time starts a server, and nobody sends *)
(* a command by the unpinned selector once an endpoint is published (startup_mutex_   *)
(* and the second look at socket_missing_).                                           *)
FirstStartAlone ==
  \A c \in Callers :
    /\ Sub /\ call[c].conn = "selector" /\ call[c].command # "version"
    /\ call[c].pc \in {"run", "interpret", "publish"}
    => handle.lock = c /\ handle.missing

(* The observer hears of every command exactly once, whichever layers it went         *)
(* through, and never of an unobserved one.                                           *)
ReportedOnce ==
  \A c \in Callers :
    call[c].pc = "idle" /\ call[c].command # "none" => call[c].seen = IF call[c].quiet THEN 0 ELSE 1

(* A command reaches the daemon it was meant and checked for, once, and is reported   *)
(* as what became of it.                                                              *)
ReachesItsDaemon ==
  DeliveryHonest /\ CheckedReached /\ StaysPinned /\ FirstStartAlone /\ ReportedOnce

(* An operation on an entity runs on the daemon the entity was read from, or not at   *)
(* all ("a handle kept across a restart does not become a handle to the               *)
(* replacement", include/libtmux/entities.hpp:330).                                   *)
NeverFollows ==
  \A c \in Callers :
    call[c].command = "touch" /\ call[c].ran # <<>> => call[c].ran[1] = call[c].entity

(* No command runs on a daemon below the floor ("a daemon replaced behind the         *)
(* executor fails the command list unrun instead of inheriting this version check",   *)
(* src/server.cpp:284).                                                               *)
ReachesSupported ==
  \A c \in Callers : call[c].ran # <<>> => world.release[call[c].ran[1]] \in Supported
=============================================================================
