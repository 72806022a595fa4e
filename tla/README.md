# Verification of libtmux-cxx

TLA+ models of the parts of libtmux-cxx that keep state, the TLC runs that check
them on small instances, and TLAPS proofs that hold for instances of any size.
Every definition is a translation of code under `src/`; `PROJECT.json` maps each
of them to the lines it stands for. Paths below are relative to `src/`.

    cd tla
    tlc -config NotificationStream.cfg NotificationStream   # one run
    tlc -config Parts.cfg MCParts                           # eight parts at once
    tlapm NotificationStreamProofs.tla                      # the proofs of a module

## 1. The system

libtmux-cxx drives tmux from C++. There are two ways in:

* **One process per command.** `SubprocessBackend` builds a request and either
  `run_process` runs it on the caller's thread, or a `CommandRuntime` accepts it
  and answers later through an operation handle or a callback.
* **One control client.** `Connection` keeps a `tmux -C` process, writes
  commands to it and reads reply blocks and notifications back.

Above these sit the typed entities (`Server`, `Session`, `Window`, `Pane`),
`wait_for_text`, an MCP server (`apps/mcp`), a workspace loader
(`apps/workspace`) and a configuration tool (`tools/mcp`).

### Inventory

| Part | State it keeps | Operations that change it | Module |
|---|---|---|---|
| Notification log `src/notification_stream.cpp` | retained entries, next sequence, closed, cursors with position, drop count and self-pipe | push, close, subscribe, unsubscribe, take, wait | `NotificationStream` |
| Completion queue `src/completion_queue.cpp` | records by token, intrusive ready list, ready count, finished, closed, dispatch claim, wake pipe | register, enqueue, detach, run_one, run_ready, discard_ready, wait_ready, finish, close | `CompletionQueue`, `ReadyQueue` |
| Operation state `src/operation_state.hpp` | outcome, observer, transport phase, relay flags, admission hook | publish, retire, request_cancel, wait, subscribe, detach, take | `OperationState` |
| Command engine `src/command_engine.cpp` | pending queue, admission order, entry turn, slots, stop/terminal flags | submit, worker loop, request_stop, close | `CommandEngine` |
| Process engine `src/process_engine.cpp` and its child `src/posix_child.cpp` | pending, launching, arrived, live children, channel (slots, wake pipe, failure) | submit, launch lane, reactor turn, request_stop, close | `ProcessEngine` |
| Command runtime `src/async.cpp` | ledger with three legs per command, tasks, observers, readiness waits | try_submit, completion thread, dispatch, wait_ready, request_stop, close | `CommandRuntime` |
| Control connection `src/connection.cpp` | pending requests, fatal error, child and thread flags, who writes and who closes | execute, reader, waiter, shutdown, destructor | `Connection` |
| Control parser `src/control.cpp` | unfinished line, open block, failure | feed, finish | `ControlParser` |
| Process runner `src/process.cpp` | one child, its group and its pipes | start, poll, escalate, reap, drain, clean up | `RunProcess` |
| Backend `src/backend.cpp`, executor `src/server.cpp` | published endpoint, version cache, start-up lock, fence token | run, check the version, start a daemon, fall back | `Backend` |
| Entities `src/entities.cpp`, `src/server.cpp` | the ids a handle was listed with; the server's objects live in tmux | every method, by target, effect, read-back and report | `Entities` |
| Text waits `src/wait.cpp`, `apps/mcp/src/{wait_for_text,pane_echo}.cpp` | deadline, last screen, control client, echo ledger | capture, connect, watch, judge, note input, expire | `WaitForText`, `PaneEcho` |
| Pane input `apps/mcp/src/pane_input.cpp`, `tool_catalog.cpp` | reservations by pane, retained runs, ledger, paste buffers | preflight, reserve, dispatch, roll back, retain, prove, prune | `PaneInput` |
| MCP tools `apps/mcp/src/{tool_model,tool_catalog}.cpp` | definitions, selection, one call's progress | select, call, batch, each tool's steps | `ToolCalls` |
| MCP stdio server `apps/mcp/src/{stdio_server,dispatcher,batch_response,protocol}.cpp` | session, reserved and remembered ids, job queue, batches | read a line, route, work, cancel, finish | `McpDispatcher` |
| Workspace loader `apps/workspace/src/services.cpp` and the builder it uses | the input at hand, the session made or borrowed, errors | look up, create, build, abandon, clean up, report | `WorkspaceLoad` |
| Workspace command `apps/workspace/src/{cli,process}.cpp` | output streams, log, terminal, child, temporary file | parse, run, hand over the terminal, save, report, exit | `WorkspaceCommand` |
| Swap tool `tools/mcp/{transaction,storage}.cpp` | journal, backups, configuration files, lock | use, revert, roll back, crash | `SwapTransaction` |
| Server probe `tools/mcp/preflight.cpp` | child, its group, its answers | launch, write, drain, wait, stop, judge | `Preflight` |

### How the parts interact

`CommandRuntime` admits a command in its ledger and submits it to
`ProcessEngine`; a raw `Operation` connects the two. The engine publishes and
retires the operation's source (`OperationState`), which runs the retirement
hook of the runtime and enqueues a token in the runtime's completion queue. The
completion thread takes the raw result, publishes the caller's operation, and
queues the observer's callback in the caller's own `CompletionQueue`. Each
module models one of these parts with the neighbours reduced to the calls they
make: `OperationState` uses the queue as `ReadyQueue` specifies it, and
`CompletionQueue` implements `ReadyQueue`; `CommandRuntime` contains the
engine's publication, retirement and hook, which `ProcessEngine` shows to
happen. `Connection` owns one `NotificationStream` and feeds what it reads to a
`ControlParser`. `Backend` uses a connection or a launch as something that
answers, fails before it started or fails afterwards, which is what
`Connection`'s `CallsHonest` and `RunProcess`'s `RunSettled` establish; `Entities`
uses `Backend` in the same way. `WaitForText` is composed with `PaneEcho`, the
ledger that `PaneInput` writes. `McpDispatcher` decides when a tool call runs,
`ToolCalls` what it may do.

### What is hard here

* locks are dropped between two steps of one operation (publish, then enqueue;
  admit, then submit; settle, then deliver), so another thread runs in between;
* one outcome can be fixed by an answer, a deadline, a withdrawal, a stop or a
  failure, and must be fixed once and told truthfully;
* an admission slot is returned by whichever of three parties ends last;
* descriptors and condition variables must agree with the state behind them,
  or somebody sleeps for ever;
* close runs concurrently with everything else and must leave nothing behind;
* tmux is shared: between two commands its daemon may be replaced, a session
  renamed, a window moved, a pane closed or respawned by somebody else;
* files, terminals and panes outlive the process, so a failure half-way must
  leave them as they were or say what it left.

`PROJECT.json` lists these as hazards at the lines where they bite, with the
properties that cover them.

## 2. How the instances are put together

A component module has its state, its actions and its properties, and constants
for the sizes. The `MC` modules give the constants values. Some of them check
several components in one run: a variable `part` names the component a behaviour
belongs to, chosen at the start, and the variables of the others stay `None` or
where they start. The components of such a run share no state, so nothing is
gained by interleaving them, and every behaviour of each one is explored exactly
as if it were alone; a property of the run says `part = ... => ` the component's
own property. `MCQueues`, `MCWorkers` and `MCEngines` join components of one kind,
`MCParts` the eight whose state fits into a few records; `MCInputs` has the
documents, command lines, scripts and names that they are given.

Symmetry is used in runs of safety properties only, and only over sets whose
members no definition tells apart. Threads, commands, ids and cursors are model
values. Operators called `Mut...` (and `BareWindowTarget`) are deliberately wrong
versions of the definition after them; each property is known to fail when one of
them replaces it, so none holds vacuously.

| Run | Components | Distinct states |
|---|---|---|
| `notification_stream` | `NotificationStream` | 237,398 |
| `queues` | `OperationState`, `CompletionQueue` against `ReadyQueue` | 247,388 |
| `workers` | `CommandEngine`, `McpDispatcher` | 745,969 |
| `engines` | `ProcessEngine` twice, `CommandRuntime` | 1,646,404 |
| `engines_live` | `ProcessEngine`, `CommandRuntime`, with fairness | 254,809 |
| `connection` | `Connection` | 1,771,175 |
| `swap_transaction` | `SwapTransaction` | 1,932,438 |
| `wait_for_text` | `WaitForText` with `PaneEcho` | 9,746,873 |
| `pane_input` | `PaneInput` | 5,836,677 |
| `parts` | `Backend`, `Entities`, `RunProcess`, `ControlParser`, `ToolCalls`, `WorkspaceLoad`, `WorkspaceCommand`, `Preflight` | 2,726,912 |
| `process_engine_blocking` | `ProcessEngine`, launches that may block (section 6) | violation |
| `swap_sync` | `SwapTransaction`, a removal that fails late (section 6) | violation |

Deadlock is checked wherever the system must not stop: the engines, queues,
dispatcher and connection have a closing action or an explicit stuttering end. The
runs with `CHECK_DEADLOCK FALSE` are about one call, one command or one build, which
is over when it is over.

## 3. The modules and what the runs show

### NotificationStream (run `notification_stream`)

`entries`, `next_sequence`, `closed` and `cursor` are the class's fields; a body
is its size. `waiting` and `parked` are the threads inside `wait`. `first`,
`seen` and `lost` are history: where a watch started, what it was given, what
the bounds evicted. `MaxPush` bounds the notifications.

Two watches, two threads, two entries, three bytes, bodies of 1, 2 and 4 bytes,
three pushes: enough to evict by either bound, to let a watch fall behind and
catch up, and to let a body of four bytes fail to fit while others are held.

* `DropsExact`: the reported drop count is exactly what can no longer be given;
* `BoundsKept`: the log keeps both bounds, `bytes` is the size of what it holds,
  and nothing else loses an entry: no watch loses one to another's take or end;
* `DescriptorAgrees`: the self-pipe is readable exactly when `wait` would not
  block;
* `WaitersServed`: no thread in `wait` misses a push or the close, stated as `[]<>` of
  there being no such thread.

### CompletionQueue, ReadyQueue and OperationState (run `queues`)

`ReadyQueue` is what the queue promises: a FIFO of tokens, each of which is
registered, becomes ready and leaves at most once. `CompletionQueue` has the
intrusive list with its neighbours, generations, the wake pipe, the dispatch
claim and the condition variable. Two threads and three tokens, so that a record
is unlinked as head, middle, tail and only element.

* `IsReadyQueue`: the refinement (`INSTANCE ReadyQueue WITH ...`), with the list
  read from head to tail as the FIFO; besides, the list links exactly the enqueued
  records both ways, and a poller and a waiter never disagree;
* `BatchExact`: a `run_ready` runs exactly what was ready when it began and is
  still there;
* `WaitersLeave`: nobody blocked in `run_one` or `wait_ready` sleeps through
  work, finish or close.

One operation of `OperationState` has a transport side (publish, retire), an owner
(wait, drop, subscribe in its four steps, unsubscribe), a dispatcher (claim,
take), and the queue's discard and close. Every lock release is a step boundary.
Two operations and one slot, so that one can be refused while the other ends in
any way.

* `OperationSound`: a slot is given back once, by whichever side ends last
  (`SlotsExact`); a claimed record always finds what `take_callback` asserts
  (`TakeAsserts`); delivered or detached, never both (`OneEnding`);
* `OutcomeFinal`: the first outcome stands and no withdrawal is accepted after it;
* `SlotComesBack`: a retired operation with a chosen observer frees its slot.

### CommandEngine and McpDispatcher (run `workers`)

The engine's workers dequeue in admission order and enter the transport in that
order, one at a time; a runner announces that it entered, or never does. Three
commands, two workers, two closers, two slots, so that both workers queue for the
entry, a third command waits or is refused, and one closer joins while the other
waits.

* `TurnsKept`: commands enter in admission order, one at a time, and an answer
  that says "not started" never entered, and the other way round;
* `AllSettled`: a returned close left nothing unsettled, and whenever no thread can
  go on by itself, every command is answered and, after a stop, every worker is
  gone. Every step of a thread brings its command or its exit closer, so this is
  the safety form of "everybody is answered and close returns", and can be checked
  with three commands.

In `McpDispatcher` a request is numbered by arrival; the number also identifies its
ticket's cancellation flag. The reader and the workers share `Send`, `Release` and
`Deliver`, as they share `Writer`, `release` and `BatchResponse`. `session` is
the era and the legacy state. Three ids, two slots, two workers, three requests
(`MaxRequests`) of which two may come in a batch (`MaxBatches` is 1) after
`initialize`, in both eras, with cancellations and the end of input at any moment.
A third request meets a full dispatcher.

* `RequestsKept`: an id is held until its reply is written, nobody is answered
  twice, and a legacy id is never reserved again (`IdsReserved`); a drained shutdown
  has answered everybody, and at exit only cancelled requests are unanswered
  (`OwedAnswered`); members that share an id never run, and a batch is written
  once, complete, by one of three threads (`DuplicatesNeverRun`, `BatchWhole`);
* `NobodyStuck`: no worker sleeps while the workers awake are too few for the
  queue, and a finish that joins always has a worker that can move until all are
  gone, although a tool may run until it is cancelled.

The branch of `submit` that reports a lost reservation is part of `Accepts` and
is never taken: the only thread that could release the id in between is the
reader itself.

### ProcessEngine and CommandRuntime (runs `engines`, `engines_live`)

`launcher` and `reactor` are the engine's two threads, with a program counter and
the values they read under a lock and use after it. `gate` is the channel's mutex
held across the spawn. The kernel is nondeterministic: reads, waits and signals
answer in any way they can, and with `Faults` may fail. `Timed` is the set of
commands with a deadline. `woken` is the wake pipe. The run has the engine twice:
two commands without faults, needed for the launch lane to hold one while the
reactor owns another; and one command with a deadline and every fault, as those
concern one command at a time. A turn of the reactor is one step: each part of a
child's turn (drain, poll, escalate, reap, close) maps the child to everything it may
be afterwards, one outcome for each answer of the kernel.

* `NoChildStranded`: the reactor never leaves while a process exists or is being
  made, and no poll sleeps over a stop, an arrival or a withdrawal it was told of;
* `AnswersHonest`: "not started" means that there was no process; an answer needs
  the exit and the end of output, comes once and names the reason the command
  ended for; close claims complete exactly if every child was reaped; and nothing
  is created after the channel has failed.

In `CommandRuntime`, `legs` is what keeps a slot: the engine's transport, the
observer's delivery and the caller's handle. `ledger` holds the counters the close
report is made from. One command has an observer and one has none. The run has the
runtime twice: with a slot for each command, and with one slot for both, where a
command is refused for want of room and where the slot of a dropped handle comes back
and is used again. There two threads close, and one step of the behaviour may fail
(`Failures`): the engine's submit throws, the subscription is not registered, the
result cannot be published, the observation cannot be queued, the completion queue
throws, the engine did not reap every child, or close throws and is tried again. The
code turns each of these into an outcome of its own; most come from a failed
allocation or from a fault-injection point of the test build.

* `WorkAccounted`: the counters are exactly the open legs, the capacity is kept, and
  admission order is engine order;
* `CloseTruthful`: a report means that every accepted command has its result,
  nothing is queued and no waiter is blocked, it carries the failure when a command
  is not counted as completed, and it says safe to unload only when no callback runs
  or can run.

`engines_live` has one slot and one closer, the runtime's failures that could leave a
command without a result or a close without an end, and no kernel faults: a SIGKILL or
a `waitpid` that fails for ever keeps the child owned for ever.

* `AllAnswered`: a withdrawal or a deadline gets an answer although the process
  ignores SIGTERM, and a command the runtime accepted gets its result;
* `CloseReturns`: a thread that calls close of either comes back; the runtime's
  unless callers enter `wait_ready` again and again.

Both are stated as `[]<>` of the state in which nothing is owed. Once owed, an answer
or a return stays owed until it is given, so this says as much as a leads-to.

### Connection (run `connection`)

`s` has the fields of the connection's state, `req` the requests, `wire` what was
written of each frame, `inbox` what the client wrote and the reader has not
accepted, `at` where each thread is; `writing` and `closing_up` are the two
mutexes. The client answers, is silent, breaks the protocol, exits or dies when it
likes. Two callers, one closer, the owner who connects and destroys, three events
of the client and one fault, so that a late reply, a cut frame and a shutdown meet.

* `CallsHonest`: a reply is the command's own; a failed request says truthfully
  what became of its bytes; nothing is written behind a cut frame; the input is
  written to only while it is open;
* `NobodyStranded`: when nobody can go on, everything is destroyed, closed and
  returned, and the client is reaped unless `waitid` failed: no join and no lock is
  left behind;
* `ShutdownTruthful`: a shutdown that reports success has seen `%exit`, reaped the
  client and ended both threads.

### SwapTransaction (run `swap_transaction`)

Files are records of their identity and their bytes; bytes are the servers
configured and a revision that every outside edit raises. A process plans, takes
the lock, validates, and then saves, binds and writes one file per step; any of
these may fail, and the process may die between any two. The order of a plan and the
newest layer of a file are stated as relations (`Orders`, `Newest`) and not computed,
so that a proof can use them. Three entries in two
files, one of which has two layers; three commands of two processes, one edit, one
fault and one crash, together at most four such events. `LateFaults` names the calls
that may also fail after they took effect: writing a configuration, writing the record
and creating a backup, but not removing one, as `OriginalKept` does not survive that
(section 6, run `swap_sync`).

* `NothingLost`: no rollback, revert or second swap overwrites what somebody else
  wrote (`EditsSurvive`), and replaced bytes are in a backup until they are back in
  the file (`OriginalKept`);
* `CommandsTruthful`: in a settled state every swapped entry has a usable record, and
  the file is what the newest record says unless somebody edited it since;
* `InterruptedStops`: what a dead or failed process left pending is continued,
  overwritten or built upon by nobody else.

The exception of `NothingLost` is an edit that comes after the last look at what it
changes and before the rename: a rewrite in place after the bytes were compared
(`validate_apply_world`), or any change after the identity was (`fstatat`, then
`renameat`, in `atomic_write`). `raced` marks it.

### WaitForText and PaneEcho (run `wait_for_text`)

The pane is its rows, of words, blanks and a prompt; the wait is `wait_for_text` of the
library with the predicate of the MCP tool, which masks what the server itself
typed. `PaneEcho` is the ledger: a line being edited, recent lines, their expiry.
Three outside events, three rows, two queued notifications, three searches, one
fault, two remembered lines of seven pieces, a prompt that ends in a word and one that
does not. A pane is followed until the ledger lapses.

* `NothingMissed`: a wait that sleeps has the screen as it is, whatever was printed
  between its capture, its connection and its first notification;
* `OwnLinesMasked`: a match is something the pane produced. `world.lapses` names what
  the masking does not answer for: a line that expired, was pushed out of the ledger's
  bounds or grew after it was shown; a line that contains another; and an echo that is
  not a whole occurrence on the screen, because a word abuts it. A prompt that ends in
  a letter or a digit does that (`capture.hpp:89-100`; section 6).

### PaneInput (run `pane_input`)

Two calls of `run_shell_command`, `send_keys_batch` and `paste_text` over two panes
of one window; panes appear, end, are respawned and synchronised, and the daemon
restarts (two such events, two operations of a batch).

* `RunHoldsPane`: while a command that a tool started runs in the pane it was sent to,
  the pane is reserved for it and for nobody else, whatever became of the call;
* `DispatchTruthful`: what reached a pane that the second preflight named is on its
  record and what was rolled back is not; a private paste buffer left behind is
  reported.

The check and the dispatch are not atomic, as `docs/mcp-server.md:63` says: a pane that
joins the synchronised cohort between the second preflight and the dispatch gets the
bytes too. A dispatch reaches the cohort as it is at that moment, and `world.strayed`
keeps what went beyond the plan. There a command runs with no reservation, and typed
text has no echo record; both properties are about the panes that were planned.

### The parts of MCParts (run `parts`)

| Part | Instance | Property |
|---|---|---|
| `Backend` | two callers on a plain, a startable, an executor and a control handle; three daemons of three releases, four calls and changes | `ReachesItsDaemon`: a command runs at most once; a command sent by a launched client runs on a daemon of the release that was checked for it (the executor checks once per handle, and a startable handle may start another daemon: section 6); a plain handle never follows a replacement; one caller at a time starts a server; the observer hears of each command once |
| `Entities` | two sessions, three windows (one linked twice), four panes; two changes by other clients, one fault, every method and every input | `HandlesHonest`: a method acts on its own object only (`break_out` also on the window and the session its pane was listed in), answers for that object, says "not started" only if nothing changed (the methods that select and then report left out: section 6), and a window broken out under a name has it |
| `RunProcess` | one child with a helper that may outlive it, two bytes against a capture limit of one, one failing call | `RunSettled`: the child was waited for, its group is gone if asked, no signal to a reused id (the last two where SIGCHLD is not ignored: section 6), and what the result carries is what the observer saw and the child wrote |
| `ControlParser` | two messages of tmux in any split of their bytes; three retained words, lines of eight; names that look like ids | `AsTmuxSaid`: what comes out is what tmux said, in order, once, complete (a name that looks like an id is misread: section 6); refused exactly when tmux broke the protocol or died within a message |
| `ToolCalls` | the forty-five tools of the catalogue (the five whose handlers are `PaneInput` and `WaitForText` by their declaration only), batches of two, eighteen selections, two of them with a name nobody knows; one session name begins with another; one change by others, one fault | `CallsAsAsked`: only exactly named sessions are reported or changed (`show_option`, `show_environment` and `show_hooks` leave their target to tmux), a call refused as the caller's error changed nothing, and nothing the operator did not grant runs or discloses |
| `WorkspaceLoad` | two documents, five servers to begin with, two faults, one change by others, a signal at any time | `OthersUntouched`: no step removes a session or a window the load did not make, or changes such a session, but for the one it appends to, which gets new windows anywhere among its own, environment, options and another current window (global options belong to the server and are set for everybody); `SummaryTruthful`: the summary accounts for every session the load left (section 6 has the two it cannot name), and no error means all was built |
| `WorkspaceCommand` | each command in each output mode, with and without a log and its levels, three faults, a child that does as it likes with the terminal | `ReportTruthful`: the stream of an operation that returned ends with the record of its result, one that threw has no `completed` and no status 0, and a failed load or shell ends with its own status, or with 1 in the cases section 6 lists; `TerminalAndFiles`: the terminal is returned, also when a signal kills the process, and nobody's file is replaced without `--force` or left half written |
| `Preflight` | eight servers to try, good and bad, with and without a helper | `ProbeSettles`: good answers are accepted whenever the probe looked, and nothing is left running |

`ToolCalls` has one definition per tool: its authority, what it may disclose and the
steps its handler takes (find, check, change, read). The four tools that type into a
pane and the one that waits for text appear with their authority only; what they do
is `PaneInput` and `WaitForText`.

## 4. Fairness

Fairness is assumed of threads the program keeps running and of nothing the
outside decides.

* Threads inside a call are scheduled: weak fairness of each thread's own steps.
  Waiting on a condition variable is modelled by membership in the set of
  sleepers, so a missing notification is not repaired by fairness.
* User callbacks return (`CompletionQueue`).
* `ProcessEngine` assumes that SIGKILL ends a process, that the clock moves and
  that `posix_spawn` returns. It does not assume that a process exits on its own,
  that it honours SIGTERM or that its output ends. `BlockingSpec` drops the
  assumption on `posix_spawn`.
* `CommandRuntime` assumes weak fairness of its threads and that the engine ends
  every command, which `ProcessEngine` shows. `close` waits until it sees no readiness
  waiter inside; the code notifies it each time there is none, but a caller that keeps
  entering `wait_ready` can win that race any number of times, so `CloseReturns` makes
  the exception a part of what it says.
* `CommandEngine`, `McpDispatcher` and `Connection` state their progress as
  invariants (`AllSettled`, `NobodyStuck`, `NobodyStranded`) and need no fairness.

Nobody is ever assumed to call: submit, cancel, wait, dispatch, stop and close
have no fairness of their own.

## 5. What is proved

TLC checks instances; the theorems hold for every value of the constants that the
assumptions of the modules allow.

### NotificationStreamProofs

For any watches and threads, body sizes and bounds (`BoundsAssumption`: the bounds
and sizes are naturals, `NoCursor` is not a cursor):

| Theorem | Statement |
|---|---|
| `TypeCorrect` | `Spec => []TypeOK` |
| `CountStaysBounded` | `Spec => []CountBounded` |
| `OnlyBoundsEverLose` | `Spec => []OnlyBoundsLose` |
| `DescriptorsAgree` | `Spec => []DescriptorAgrees` |
| `DropsAreExact` | `Spec => []DropsExact` |

All follow from `Inductive`: `IInv` holds initially and every step keeps it.
`IInv` adds to the types what makes the others inductive. `GapsLost` says that a
sequence number missing behind the oldest retained entry was evicted by the
bounds: pruning removes a prefix, so a hole can only be an eviction, and without
this a take could not be shown to count exactly what was lost. `CursorInv` ties
each live watch's position, drop count and pipe to the log and to its history.
`WaitInv` says a waiting thread's watch is alive, so that closing or destroying
others does not disturb it. The proof has one lemma per operation over lemmas
about minima, finite logs and pruning.

### OperationStateProofs

For any operations and any natural `OperationLimit` (`LimitAssumption`):

| Theorem | Statement |
|---|---|
| `SlotsAlwaysExact` | `Spec => []SlotsExact` |
| `TakeAssertsHold` | `Spec => []TakeAsserts` |
| `EndsOnce` | `Spec => []OneEnding` |
| `OperationsStaySound` | `Spec => []OperationSound`, the three together |
| `OutcomeStaysFinal` | `Spec => OutcomeFinal` |

The invariant `IInv` is, per operation, three relations and, over all, one count.
`OwnerInv`: what the handle's owner has selected is what the state observes, so a
handle still held has no record and nothing to detach. `RecordInv`: the state
observes a callback exactly when the relay says so, and a record in the queue or
claimed belongs to such a state; this is what `take_callback` asserts, and it is
not inductive without the clauses on dropped and spent records. `EndInv`: an
outcome is always known to the relay, and a released operation has both ended for
its observer and retired. The count is that `in_flight` is the number of
`Holders`: `Submit` adds one, `ReleaseAdmission` removes one, and the hook that
decides the release (`ReleaseHookCharge`) moves the charge without ending it.

### CommandEngineTurns, CommandEngineSettles

For any commands, closing threads and limit and any pool that is not empty
(`PoolAssumption`; `create` refuses an empty one):

| Theorem | Statement |
|---|---|
| `TurnsAlwaysKept` | `Spec => []TurnsKept` |
| `AllAlwaysSettled` | `Spec => []AllSettled` |

Neither property is inductive, as both speak of answers and sleepers and not of how
they came about. `CommandEngineTurns` has the invariants, the lemmas that say what each
action does to its worker, and the proof that `TurnsInv` is kept; `CommandEngineSettles`
shows that `SettleInv` is, given `TurnsInv`.

`TurnsInv` follows a command. It is at one place at a time: about to be queued,
queued, with one worker, or answered (`StageInv`). Numbers are given out in rising
order, so they tell commands apart and rise along the queue (`OrderInv`,
`SequenceInv`). `next_entry` is at most every number that is still queued or waiting
to enter, and is the number of whoever is deciding, running before it announced
itself, or about to pass the turn on (`TurnInv`): so two workers that both are on
their way in have the same number and are one. What has entered has had its turn
(`EnterInv`), hence whoever enters next has a higher number than all of them. A
worker knows whether its command entered, and the answer it publishes says so
(`AnswerInv`).

`SettleInv` has what keeps the others from being forgotten. The hook has run exactly
if the command is answered and no worker holds it (`HookInv`). A sleeper on
`entry_ready_` does not have the turn, after a stop nobody sleeps, and not all
workers sleep over a queue that is not empty (`SleepInv`). Before a stop every number
between `next_entry` and `next_order` is in the queue or with a worker
(`AwaitedInv`): this is the fact that makes the two notifications of `AdvanceEntry`
and `Submit` enough, for when somebody waits for its turn, somebody else has it and
is awake (`SomebodyHasTheTurn`). A worker that left, left an empty queue after a
stop, and the joins come last (`CloseInv`).

### PaneInputRuns, PaneInputEcho

For any calls, panes, number of events and operations of a batch, with no assumption
on the constants:

| Theorem | Statement |
|---|---|
| `RunAlwaysHoldsPane` | `InputSpec => []RunHoldsPane` |
| `DispatchAlwaysTruthful` | `InputSpec => []DispatchTruthful` |

That the pane of a run is reserved is lost in three ways: the run's reservation is
dropped, another call's is added beside it, or the run starts somewhere that is not
reserved. `InputInv` has what excludes each. Tokens are given out once, so a token
names one call (`TokenInv`). A reservation is dropped by the call itself, under whose
token nothing runs at that point (`CallOk`), or by another call that was shown a proof
of the end. The proofs are read outside the lock and the answer is used later, in
`Take`: between the two the invariant needs that a holder that offers a proof has
dispatched (`Spent`), so that a run seen to have ended cannot begin again under the
same token, and that a run is only ever in the pane its reservation names
(`RunsOnlyAt`), so that the end of that pane or of its daemon is the end of the run. A
pane has one holder (`HolderInv`). And when a run is typed, the second preflight has
compared the lease with the one pane the run is sent to, on the daemon that the handle
is pinned to (`CallOk` at `"dispatch"`). Each action has its lemma; those that touch
neither the registry nor the runs share `OnwardKeeps`. The copies of a run in panes that
were synchronised after that preflight are outside the statement (section 3).

`PaneInputEcho` adds `EchoInv`, which follows what a call typed to the echo record of the
panes it planned to reach. The record is written before the dispatch, and what makes it still right at the
dispatch is the reservation: between the two nobody else writes to the record of a pane
that the call holds, so the record is what the call found with its own token at the end
(`AwaitsDispatch`). Hence a rollback, which puts back what was found, removes this
call's entry and nobody else's. A token is on a record only after its call has written
it, is on none once it was rolled back, and is new, so that no earlier entry can be
taken for it (`RecordedOk`). A record that is missing was pruned, which is noted, or is
of a pane that is gone (`Gone`). `BufferOk` follows the private paste buffer from its
staging to its removal or to the report that it stayed.

### ConnectionProofs

For any callers, closers, faults and events of the client:

| Theorem | Statement |
|---|---|
| `ShutdownAlwaysTruthful` | `Spec => []ShutdownTruthful` |
| `AlwaysWritesToOpenInput` | `Spec => []WritesToOpenInput`, a part of `CallsHonest` |

Success is reported by whoever joins last, long after `%exit` was seen, the client
reaped and the threads ended, each by somebody else. `Inv` has why nothing of that is
undone: `StateInv` says that a closed input was announced by `closing`, that the waiter
leaves a client unfreed only behind a failure, and that a completed shutdown has joined
both threads; `ThreadOk` says where each thread may be in each phase of the owner, that a
thread between the check and the write has the writers' mutex and an open input, and
that an answer of success was given when all had ended. `Grows` collects what no step
takes back (`closing`, `%exit`, the freed client, the ended threads), so that an action
has to be shown to respect it once.

### SwapProofs

For any processes, clients, files and servers and any number of commands, edits, faults
and crashes (`NobodyAssumption`: `None` is not a process; `KeysAssumption`: the recovery
keys are finitely many):

| Theorem | Statement |
|---|---|
| `InterruptedAlwaysStops` | `Spec => InterruptedStops` |

`OwnerInv` says whose the pending record is. Only the holder of the lock is past
planning; a plan was made on a record without a transaction, which authentication
demands; and once its process has begun, the snapshot it validates against carries its
own transaction. So a publication by a process that did not begin the pending
transaction would need a state equal to its snapshot and a snapshot without that
transaction. What a dead process left behind has no owner, and no plan is made on it.

### Only model-checked

* Liveness, as fairness is out of the prover's reach: `WaitersServed`,
  `SlotComesBack`, `WaitersLeave`, `AllAnswered`, `CloseReturns`; and `NobodyStranded`
  of `Connection`, which contains `ENABLED`.
* `BoundsKept`: its two parts on counts and losses are theorems; that `bytes` is the
  sum over the retained bodies needs an induction over a set.
* `IsReadyQueue`: its mapping walks the linked list, by recursion over the records.
* `CallsHonest`: that the input is written to only while it is open is a theorem; that a
  reply is the command's own compares the sequence of the frames on the wire with what
  the client served, which needs an induction over both.
* `NothingLost` and `CommandsTruthful` of `SwapTransaction`. `OriginalKept` does not hold
  for every set of late faults (section 6, `swap_sync`), so no theorem over all constants
  can state it.
* The properties of the other modules. Those of `ControlParser`, `PaneEcho` and
  `WaitForText` are about sequences that folds compute, so they need an induction over
  the input; the rest, among them `RequestsKept` and `NobodyStuck` of `McpDispatcher`,
  the engines' and those of `MCParts`, have no proof yet.

## 6. Findings

Disagreements between the repository's own words and what the code does, each
with a run that finds a shortest example:

1. `process_engine_blocking`: the channel's mutex is held across `posix_spawn`
   and the reactor takes it every turn; `src/process_engine.hpp:5` says a call
   that blocks "cannot stall anything already running".
2. `swap_sync`: a revert removes a backup by unlinking it and syncing its directory
   (`tools/mcp/storage.cpp:514`). If the sync fails, the backup is gone, but
   `apply_revert` has not listed it as removed (`tools/mcp/transaction.cpp:1452`): the
   rollback does not recreate it and writes the swapped bytes over the restored ones.
   The bytes from before the swap are then nowhere. `tools/mcp/README.md:132` says that
   a rollback in doubt "leaves checksummed pending state and backups in place", and the
   test at `tools/mcp/test_mcp_swap.cpp:1573` expects all backups after a failed
   removal, which it makes fail before the unlink.

Others met while modelling. The models follow the code; where a property is named,
its module defines it, no run checks it, and TLC finds it violated on the instance of
the module's run (`NeverFollows`: with a startable handle only and six events;
`AcceptedNotRefused`: with one slot and a command that may be dropped):

* when an unobserved operation is dropped, its slot in the ledger is free before the one
  in the engine (`src/async.cpp:625`), so a command can be accepted and then answered
  overloaded, while `docs/runtime.md:98` says full capacity is refused before admission
  (`AcceptedNotRefused` of `CommandRuntime`);
* `src/server.cpp:290` reads the fence token after it may have been cleared, so a
  command can reach a replacement that was not checked, while the comment at
  `src/server.cpp:284` says such a list fails unrun (`ReachesSupported` of `Backend`);
* a startable handle may start a new server for an entity of the old one
  (`src/backend.cpp:601`), while `include/libtmux/entities.hpp:330` says a handle
  "does not become a handle to the replacement" (`NeverFollows`);
* `break_out` with a name renames the window the pane was listed in
  (`src/entities.cpp:1402`) though the pane may have been moved
  (`BreaksOwnPane` of `Entities`, `include/libtmux/entities.hpp:852`);
* the `select_*` methods report `not_started` when their second command, the
  report, was not started (`src/entities.cpp:294`), after the first one took effect
  (`SelectRetryIsSafe`);
* in a process that ignores SIGCHLD the kernel frees the id of a dead child at once,
  and `signal_group` (`src/posix_child.cpp:580`) sends SIGTERM or SIGKILL to that id
  until a wait has answered ECHILD; descendants whose group is then given up keep
  running (`RunSettled` says nothing of the id and the group in such a process);
* a window or session name that begins with `$`, `@` or `%` is taken for an id: of
  `%window-renamed @1 @home` the window is `@home` and the text empty
  (`src/control.cpp:456`), while `tests/control_parser_test.cpp:471` has the text whole
  (`NamesKept` of `ControlParser`); and the text of a subscription holds the ids as
  well (`src/control.cpp:448`), while `include/libtmux/notification.hpp:79` says it is
  the name and the value;
* a text wait asks for `pause_after` and does not look for `%pause`
  (`src/wait.cpp:388`), while `docs/design/pane-output-streaming.md:58` says whoever
  sets it must (`PauseNoticed` of `WaitForText`);
* masking one sent line can break up another that contains it
  (`include/libtmux/capture.hpp:153`), while line 122 says every whole occurrence of
  every entry is masked (`NotOwnText`); and an echo directly after a word byte, as
  after a prompt that ends in one, is no whole occurrence and counts as output
  (lines 89-100), while the same comment says an echo "cannot be credited to the pane"
  (`OwnLinesMasked` leaves it out as `"abutting"`);
* a pane whose command was ended by a respawn stays reserved, as nothing proves that
  end, while `apps/mcp/src/tool_catalog.cpp:1077` says it is never locked by a command
  that has already ended (`NotLockedByTheEnded` of `PaneInput`);
* a failed swap of the second scope of a file is rolled back by writing the file anew,
  and the record of the first keeps the identity of the old one, so that neither can be
  swapped or reverted any more (`tools/mcp/transaction.cpp:796`), while `tools/mcp/README.md:113`
  says both scopes can coexist and be unwound (`RecoveryUsable` of `SwapTransaction`);
* an `--ndjson` operation that throws (a document that cannot be read, a shell without
  its runtime, a destination that exists) writes an error to stderr and ends its stream
  without a last record, perhaps empty (`apps/workspace/src/cli.cpp:421`), while
  `docs/workspace-cli.md:181` and `cli.cpp:598` say every stream ends with `completed`
  or `failed` (`StreamEnds` of `WorkspaceCommand`; `StreamTruthful` asks it of
  operations that returned);
* a shell whose child fails before it has any output, as without a terminal (status 2),
  exits with 1: the result reads fields of the missing output and that throws
  (`apps/workspace/src/services.cpp:1487`). And a load whose log file broke reports
  that on stderr after it has looked at the streams; when stderr is gone its status
  becomes 1 (`cli.cpp:622`, `:626`), while `cli.cpp:162` says the diagnostic "cannot
  replace the operation's status". `StatusKept` lists both, and that the status is
  never 0;
* a signal during a freeze, a convert or an import has its default action, and the
  process dies with its temporary file beside the destination, which nothing removes
  (`SavesSafely` speaks of the temporary file of processes that were not killed);
* a bootstrap session that cannot be removed is reported by an error of the stage
  `cleanup` that names no session (`services.cpp:2022`), and a new session whose removal
  failed is in its input's result as any failed one is; that its removal failed is in
  the message only when neither the script nor the observer has stopped the build
  (`NothingLeftUnsaid` of `WorkspaceLoad`);
* a build that is cancelled before its session has been observed keeps the session
  without naming it (`apps/workspace/src/services.cpp:1788`), while
  `docs/workspace-cli.md:115` says it is named (`CancelledSaysSo` of `WorkspaceLoad`);
* a notification larger than the byte bound is counted as dropped, arms the
  descriptor and wakes `wait` with nothing to take, while
  `include/libtmux/control.hpp:303` says the descriptor is readable "exactly when
  a take would return something" (`DescriptorAgrees` compares it with `wait`);
* a withdrawal during the launch can wait for one poll of up to 500 ms, while
  `src/process_engine.cpp:62` says it reaches the reactor "without waiting for
  the next turn" (`NoChildStranded` speaks of children that have had a turn);
* work outstanding at the end of input is drained for 500 ms before any is
  cancelled, as the comment at `apps/mcp/src/dispatcher.cpp:95` says, while
  `docs/mcp-server.md:173` says end-of-input "cancels all outstanding work";
* the id of a ping answered before `initialize` is accepted again afterwards,
  while `docs/mcp-server.md:156` says legacy ids "are never reusable within one
  process" (`IdsReserved` speaks of ids reserved in the legacy session).

## 7. What is left out

Inside the modelled parts: allocation failures other than those that the code
turns into an outcome; the bytes of commands and replies; exact times (a deadline
is an event that may come); the fault-injection seams of test builds, except for the
failures of the runtime that they stand for; the Windows variants. `Preflight` counts
what the probed server writes to stdout; too much on stderr, which has a limit of the
same size, ends a probe in the same way and is not modelled. Progress notifications, oversized lines and malformed JSON of
the MCP server change no state that the properties mention. Sequence numbers and
counters are 64 bits wide in the code and do not wrap in any run of the program,
so they are naturals here.

Not modelled as parts: conversions of text without retained state (layouts,
snapshots, formats, filters, configuration documents), constant tables (versions,
capabilities, clients), output (progress, completion), straight-line system calls
around a spawn, the Windows runner, whose calls fail in other ways than the POSIX
ones and would need a module of their own, and the programs and scripts that are not
part of the library or its tools. `PROJECT.json` lists each with its reason.
