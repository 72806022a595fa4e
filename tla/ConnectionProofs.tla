--------------------------- MODULE ConnectionProofs ---------------------------
(***************************************************************************)
(* What holds of a control connection for any callers, closers, faults and *)
(* events: a shutdown that reports success has ended everything, and the   *)
(* input is written to only while it is open.                              *)
(***************************************************************************)
EXTENDS Connection, TLAPS

StateFields ==
  {"startup_seen", "ready", "closing", "fatal", "saw_exit", "reader_done", "reaped",
   "shutdown_complete", "partial", "input", "log", "pending"}

ClientFields == {"state", "greeted", "out", "served", "signal"}

Executing == {"start", "check", "write", "failed", "wait", "poison"}
ShuttingDown == {"shutdown", "detach", "grace", "terminate", "kill", "join"}
Resting == {"idle", "done"}
Writing == {"check", "write", "failed"}

(* The fields, as the updates need them. *)
Shaped ==
  /\ DOMAIN s = StateFields /\ DOMAIN child = ClientFields
  /\ DOMAIN at = Threads /\ \A t \in Threads : DOMAIN at[t] = {"pc", "req", "poison"}
  /\ DOMAIN answer = Threads

(* Whoever closes the input has announced it; the waiter leaves a live     *)
(* client only behind a failure; a completed shutdown has joined both.     *)
StateInv ==
  /\ s.closing => s.pending = <<>>
  /\ reader = "close" => s.closing
  /\ s.input # "open" => s.closing \/ phase \in {"destroy", "gone"}
  /\ waiter = "freed" => child.state = "freed"
  /\ waiter = "gone" /\ ~s.fatal => child.state = "freed"
  /\ phase = "spawn" => reader = "none" /\ waiter = "none" /\ child.state = "none"
  /\ s.shutdown_complete => s.closing /\ reader = "gone" /\ waiter = "gone"

(* Main executes to connect, and shuts down to abandon and to destruct. *)
MainAt(pc) ==
  /\ phase \in {"spawn", "await", "open", "lent", "gone"} => pc \in Resting
  /\ phase \in {"fence", "layout"} => pc \in Executing \cup {"done"}
  /\ phase \in {"abandon", "destruct"} => pc \in ShuttingDown \cup {"done"}
  /\ phase = "destroy" => pc \in {"kill_child", "join_threads"}
  /\ phase \in {"spawn", "await", "open", "lent", "gone", "fence", "layout", "abandon",
                "destruct", "destroy"}

AllEnded ==
  s.saw_exit /\ s.closing /\ child.state = "freed" /\ reader = "gone" /\ waiter = "gone"

ThreadOk(t) ==
  /\ t = Main => MainAt(at[t].pc)
  /\ t \in Callers => at[t].pc \in Executing \cup Resting
  /\ t \in Closers => at[t].pc \in ShuttingDown \cup Resting
  /\ t # Main /\ phase # "lent" => at[t].pc \in Resting
  /\ at[t].pc \in Writing => writing = t
  /\ at[t].pc \in {"check", "write"} => s.input = "open"
  /\ at[t].pc \in (ShuttingDown \ {"shutdown"}) \cup {"poison"} => s.closing
  /\ at[t].poison => s.closing
  /\ answer[t].kind = "ended" => AllEnded

Inv == Shaped /\ StateInv /\ \A t \in Threads : ThreadOk(t)
-----------------------------------------------------------------------------
LEMMA Starts == Init => Inv
<1>. SUFFICES ASSUME Init PROVE Inv
  OBVIOUS
<1>1. /\ DOMAIN s = StateFields /\ DOMAIN child = ClientFields
      /\ ~s.closing /\ s.pending = <<>> /\ s.input = "open" /\ ~s.shutdown_complete
      /\ phase \in {"spawn", "lent"} /\ reader \in {"none", "loop"} /\ waiter \in {"none", "waiting"}
      /\ phase = "spawn" => reader = "none" /\ waiter = "none" /\ child.state = "none"
  <2>1. CASE Connecting
    <3>1. s = Fresh /\ child = NoClient /\ phase = "spawn" /\ reader = "none" /\ waiter = "none"
      BY <2>1 DEF Connecting
    <3>2. DOMAIN Fresh = StateFields /\ DOMAIN NoClient = ClientFields
      BY DEF Fresh, NoClient, StateFields, ClientFields
    <3>3. ~Fresh.closing /\ Fresh.pending = <<>> /\ Fresh.input = "open" /\ ~Fresh.shutdown_complete
      BY DEF Fresh
    <3>4. NoClient.state = "none"
      BY DEF NoClient
    <3>. QED
      BY <3>1, <3>2, <3>3, <3>4
  <2>2. CASE Connected
    <3>1. phase = "lent" /\ reader = "loop" /\ waiter = "waiting"
      BY <2>2 DEF Connected
    <3>2. s = [Fresh EXCEPT !.startup_seen = TRUE, !.ready = TRUE]
      BY <2>2 DEF Connected
    <3>3. child = [NoClient EXCEPT !.state = "live", !.greeted = TRUE]
      BY <2>2 DEF Connected
    <3>4. DOMAIN s = StateFields
      BY <3>2 DEF Fresh, StateFields
    <3>5. DOMAIN child = ClientFields
      BY <3>3 DEF NoClient, ClientFields
    <3>6. ~s.closing /\ s.pending = <<>> /\ s.input = "open" /\ ~s.shutdown_complete
      BY <3>2 DEF Fresh
    <3>. QED
      BY <3>1, <3>4, <3>5, <3>6
  <2>. QED
    BY <2>1, <2>2 DEF Init
<1>2. /\ DOMAIN at = Threads /\ DOMAIN answer = Threads
      /\ \A t \in Threads : /\ DOMAIN at[t] = {"pc", "req", "poison"} /\ at[t].pc = "idle"
                            /\ ~at[t].poison /\ answer[t].kind = "none"
  BY DEF Init, NoAnswer
<1>3. StateInv
  BY <1>1 DEF StateInv
<1>4. ASSUME NEW t \in Threads PROVE ThreadOk(t)
  BY <1>1, <1>2 DEF ThreadOk, MainAt, Resting, Executing, ShuttingDown, Writing
<1>. QED
  BY <1>1, <1>2, <1>3, <1>4 DEF Inv, Shaped

(* What never goes back. *)
Grows ==
  /\ DOMAIN s' = StateFields /\ DOMAIN child' = ClientFields
  /\ s.closing => s'.closing
  /\ s.fatal => s'.fatal
  /\ s.saw_exit => s'.saw_exit
  /\ child.state = "freed" => child'.state = "freed"
  /\ reader = "gone" => reader' = "gone"
  /\ waiter = "gone" => waiter' = "gone"

LEMMA EndedStays ==
  ASSUME Grows, AllEnded
  PROVE  AllEnded'
BY DEF Grows, AllEnded

LEMMA NobodyWrites ==
  ASSUME Inv, writing = NoOne
  PROVE  \A t \in Threads : at[t].pc \notin Writing
BY ConnectionAssumption DEF Inv, ThreadOk, Threads

(* A step of the client, the reader or the waiter. *)
LEMMA OutsideKeeps ==
  ASSUME Inv, UNCHANGED <<at, answer, writing, phase>>, Grows, StateInv',
         s'.input = s.input \/ \A t \in Threads : at[t].pc \notin Writing
  PROVE  Inv'
<1>1. Shaped'
  BY DEF Inv, Shaped, Grows
<1>2. ASSUME NEW t \in Threads PROVE ThreadOk(t)'
  <2>1. ThreadOk(t)
    BY DEF Inv
  <2>2. AllEnded => AllEnded'
    BY EndedStays
  <2>3. s.closing => s'.closing
    BY DEF Grows
  <2>4. at[t].pc \in {"check", "write"} => s'.input = "open"
    BY <2>1 DEF ThreadOk, Writing
  <2>. QED
    BY <2>1, <2>2, <2>3, <2>4 DEF ThreadOk, MainAt
<1>. QED
  BY <1>1, <1>2 DEF Inv

(* A step of a thread. *)
ThreadMoves(t) ==
  /\ DOMAIN at' = Threads /\ DOMAIN at'[t] = {"pc", "req", "poison"} /\ DOMAIN answer' = Threads
  /\ \A u \in Threads : u # t => at'[u] = at[u] /\ answer'[u] = answer[u]
  /\ writing' = writing \/ writing \in {NoOne, t}
  /\ phase' = phase \/ (t = Main /\ phase' # "lent" /\ AllBack)

LEMMA ThreadKeeps ==
  ASSUME Inv, NEW t \in Threads, ThreadMoves(t), Grows, StateInv', ThreadOk(t)',
         s'.input = s.input \/ \A u \in Threads : u # t => at[u].pc \notin Writing
  PROVE  Inv'
<1>1. Shaped'
  BY DEF Inv, Shaped, Grows, ThreadMoves
<1>2. ASSUME NEW u \in Threads, u # t PROVE ThreadOk(u)'
  <2>1. ThreadOk(u) /\ at'[u] = at[u] /\ answer'[u] = answer[u]
    BY <1>2 DEF Inv, ThreadMoves
  <2>2. AllEnded => AllEnded'
    BY EndedStays
  <2>3. s.closing => s'.closing
    BY DEF Grows
  <2>4. at[u].pc \in {"check", "write"} => s'.input = "open"
    BY <1>2, <2>1 DEF ThreadOk, Writing
  <2>5. at[u].pc \in Writing => writing' = u
    BY <1>2, <2>1, ConnectionAssumption DEF ThreadOk, ThreadMoves, Threads
  <2>6. u # Main /\ phase' # "lent" => at[u].pc \in Resting
    BY <2>1 DEF ThreadOk, ThreadMoves, AllBack, Threads, Resting
  <2>7. u = Main => MainAt(at[u].pc)'
    BY <1>2, <2>1 DEF ThreadOk, ThreadMoves, MainAt
  <2>. QED
    BY <2>1, <2>2, <2>3, <2>4, <2>5, <2>6, <2>7 DEF ThreadOk
<1>. QED
  BY <1>1, <1>2 DEF Inv
-----------------------------------------------------------------------------
(* The two connections of a step with the state: what fail_locked and a    *)
(* signal do, and what keeps StateInv.                                     *)
LEMMA FailSays ==
  ASSUME NEW state, DOMAIN state = StateFields, fail_locked(state)
  PROVE  /\ DOMAIN s' = StateFields /\ s'.fatal /\ s'.pending = <<>>
         /\ s'.closing = state.closing /\ s'.saw_exit = state.saw_exit
         /\ s'.input = state.input /\ s'.shutdown_complete = state.shutdown_complete
         /\ s'.partial = state.partial
BY DEF fail_locked, StateFields

LEMMA SignalSays ==
  ASSUME DOMAIN child = ClientFields, NEW signal, signal_child_locked(signal)
  PROVE  DOMAIN child' = ClientFields /\ child'.state = child.state
BY DEF signal_child_locked, ClientFields

LEMMA StateKeeps ==
  ASSUME StateInv, Grows, UNCHANGED <<reader, waiter, phase>>, child'.state = child.state,
         s'.closing => s'.pending = <<>>,
         s'.input = s.input \/ s'.closing,
         s'.shutdown_complete => s.shutdown_complete
  PROVE  StateInv'
BY DEF StateInv, Grows

MovesTo(t, pc) ==
  /\ DOMAIN at' = Threads /\ DOMAIN at'[t] = {"pc", "req", "poison"}
  /\ \A u \in Threads : u # t => at'[u] = at[u]
  /\ at'[t].pc = pc /\ (at'[t].poison => at[t].poison)

Answers(t, kind) ==
  /\ DOMAIN answer' = Threads
  /\ \A u \in Threads : u # t => answer'[u] = answer[u]
  /\ answer'[t].kind = kind

LEMMA GoMoves ==
  ASSUME Shaped, NEW t \in Threads, NEW pc, Go(t, pc)
  PROVE  MovesTo(t, pc) /\ at'[t].req = at[t].req
BY DEF Shaped, Go, MovesTo

LEMMA ReturnMoves ==
  ASSUME Shaped, NEW t \in Threads, NEW kind, NEW delivery, NEW n, Return(t, kind, delivery, n)
  PROVE  MovesTo(t, "done") /\ Answers(t, kind)
BY DEF Shaped, Return, MovesTo, Answers

(* A thread of the connection, at a step of execute or of shutdown. *)
LEMMA StepKeeps ==
  ASSUME Inv, NEW t \in Threads, NEW pc,
         \/ t \in Callers \cup {Main} /\ at[t].pc \in Executing /\ pc \in Executing \cup {"done"}
         \/ t \in Closers \cup {Main} /\ at[t].pc \in ShuttingDown /\ pc \in ShuttingDown \cup {"done"},
         DOMAIN at' = Threads, DOMAIN at'[t] = {"pc", "req", "poison"},
         \A u \in Threads : u # t => at'[u] = at[u],
         at'[t].pc = pc, at'[t].poison => s'.closing,
         answer' = answer \/ \E kind : Answers(t, kind) /\ (kind = "ended" => AllEnded'),
         writing' = writing \/ writing \in {NoOne, t}, phase' = phase,
         Grows, StateInv',
         s'.input = s.input \/ \A u \in Threads : u # t => at[u].pc \notin Writing,
         pc \in Writing => writing' = t,
         pc \in {"check", "write"} => s'.input = "open",
         pc \in (ShuttingDown \ {"shutdown"}) \cup {"poison"} => s'.closing
  PROVE  Inv'
<1>1. ThreadOk(t)
  BY DEF Inv
<1>2. ThreadMoves(t)
  BY DEF ThreadMoves, Answers, Inv, Shaped
<1>3. AllEnded => AllEnded'
  BY EndedStays
<1>4. answer'[t].kind = "ended" => AllEnded'
  BY <1>1, <1>3 DEF ThreadOk, Answers
<1>5. t = Main => MainAt(pc)'
  BY <1>1 DEF ThreadOk, MainAt, Executing, ShuttingDown, Resting
<1>6. /\ t \in Callers => pc \in Executing \cup Resting
      /\ t \in Closers => pc \in ShuttingDown \cup Resting
      /\ t # Main => phase = "lent"
  BY <1>1, ConnectionAssumption DEF ThreadOk, Executing, ShuttingDown, Resting
<1>7. ThreadOk(t)'
  BY <1>4, <1>5, <1>6 DEF ThreadOk, MainAt
<1>. QED
  BY <1>2, <1>7, ThreadKeeps

LEMMA ExecuteKeeps ==
  ASSUME Inv, NEW t \in Callers \cup {Main}, Execute(t)
  PROVE  Inv'
<1>. /\ t \in Threads /\ ThreadOk(t) /\ Shaped /\ StateInv
     /\ DOMAIN s = StateFields /\ DOMAIN child = ClientFields
  BY ZenonT(30) DEF Inv, Threads, Shaped
<1>0. /\ at[t].pc \in Executing /\ UNCHANGED <<reader, waiter, phase>>
  BY DEF Execute, Refuse, Push, CheckOpen, WriteSome, WriteFails, PoisonUnlessClosing, Await,
         Poison, keep_thread, Executing
<1>1. CASE Refuse(t)
  <2>1. /\ UNCHANGED <<s, child, writing>> /\ MovesTo(t, "done") /\ Answers(t, "error")
    BY <1>1, ReturnMoves DEF Refuse
  <2>2. Grows /\ StateInv'
    BY <1>0, <2>1, StateKeeps DEF Grows, StateInv
  <2>. QED
    BY <1>0, <2>1, <2>2, StepKeeps DEF MovesTo, ThreadOk, Writing, Executing, ShuttingDown
<1>2. CASE Push(t)
  <2>1. CASE Accepting
    <3>1. /\ ~s.closing /\ UNCHANGED <<child, answer>> /\ writing = NoOne /\ writing' = t
          /\ s' = [s EXCEPT !.pending = Append(@, Len(req) + 1)]
          /\ at' = [at EXCEPT ![t].pc = "check", ![t].req = Len(req) + 1]
      BY <1>2, <2>1 DEF Push, Accepting
    <3>2. /\ DOMAIN s' = StateFields /\ s'.closing = s.closing /\ s'.fatal = s.fatal
          /\ s'.saw_exit = s.saw_exit /\ s'.input = s.input
          /\ s'.shutdown_complete = s.shutdown_complete
      BY <3>1 DEF StateFields
    <3>3. MovesTo(t, "check")
      BY <3>1 DEF MovesTo, Shaped
    <3>4. Grows /\ StateInv'
      BY <1>0, <3>1, <3>2, StateKeeps DEF Grows
    <3>5. s.input = "open"
      BY <1>0, <3>1, ConnectionAssumption DEF StateInv, ThreadOk, MainAt, Executing, Resting
    <3>. QED
      BY <1>0, <3>1, <3>2, <3>3, <3>4, <3>5, StepKeeps
      DEF MovesTo, ThreadOk, Writing, Executing, ShuttingDown
  <2>2. CASE ~Accepting
    <3>1. /\ UNCHANGED <<s, child, writing>> /\ MovesTo(t, "done") /\ Answers(t, "error")
      BY <1>2, <2>2, ReturnMoves DEF Push
    <3>2. Grows /\ StateInv'
      BY <1>0, <3>1, StateKeeps DEF Grows, StateInv
    <3>. QED
      BY <1>0, <3>1, <3>2, StepKeeps DEF MovesTo, ThreadOk, Writing, Executing, ShuttingDown
  <2>. QED
    BY <2>1, <2>2
<1>3. CASE CheckOpen(t)
  <2>1. PICK pc \in {"failed", "write"} : /\ Go(t, pc) /\ at[t].pc = "check"
                                          /\ UNCHANGED <<s, child, answer, writing>>
    BY <1>3 DEF CheckOpen
  <2>2. MovesTo(t, pc) /\ writing = t /\ s.input = "open"
    BY <2>1, GoMoves DEF ThreadOk, Writing
  <2>3. Grows /\ StateInv'
    BY <1>0, <2>1, StateKeeps DEF Grows, StateInv
  <2>. QED
    BY <1>0, <2>1, <2>2, <2>3, StepKeeps DEF MovesTo, ThreadOk, Writing, Executing, ShuttingDown
<1>4. CASE WriteSome(t)
  <2>1. PICK amount : /\ s' = [s EXCEPT !.partial = amount # Whole]
                      /\ IF amount = Whole THEN Go(t, "wait") /\ writing' = NoOne
                                           ELSE Go(t, "check") /\ UNCHANGED writing
    BY <1>4, Zenon DEF WriteSome
  <2>2. PICK pc \in {"wait", "check"} : Go(t, pc) /\ (pc = "check" => writing' = writing)
    BY <2>1
  <2>3. at[t].pc = "write" /\ UNCHANGED <<child, answer>>
    BY <1>4 DEF WriteSome
  <2>4. MovesTo(t, pc) /\ writing = t /\ s.input = "open"
    BY <2>2, <2>3, GoMoves DEF ThreadOk, Writing
  <2>5. /\ DOMAIN s' = StateFields /\ s'.closing = s.closing /\ s'.fatal = s.fatal
        /\ s'.saw_exit = s.saw_exit /\ s'.input = s.input /\ s'.pending = s.pending
        /\ s'.shutdown_complete = s.shutdown_complete
    BY <2>1, ZenonT(30) DEF StateFields
  <2>6. Grows /\ StateInv'
    BY <1>0, <2>3, <2>5, StateKeeps DEF Grows, StateInv
  <2>. QED
    BY <1>0, <2>2, <2>3, <2>4, <2>5, <2>6, StepKeeps
    DEF MovesTo, ThreadOk, Writing, Executing, ShuttingDown
<1>5. CASE WriteFails(t)
  <2>1. /\ at[t].pc = "write" /\ UNCHANGED <<s, child, answer, writing>> /\ MovesTo(t, "failed")
    BY <1>5, GoMoves DEF WriteFails
  <2>2. Grows /\ StateInv'
    BY <1>0, <2>1, StateKeeps DEF Grows, StateInv
  <2>. QED
    BY <1>0, <2>1, <2>2, StepKeeps DEF MovesTo, ThreadOk, Writing, Executing, ShuttingDown
<1>6. CASE PoisonUnlessClosing(t)
  <2>1. /\ at[t].pc = "failed" /\ UNCHANGED <<child, answer>> /\ writing' = NoOne /\ writing = t
        /\ at' = [at EXCEPT ![t].pc = "wait", ![t].poison = ~s.closing]
    BY <1>6 DEF PoisonUnlessClosing, ThreadOk, Writing
  <2>2. /\ DOMAIN s' = StateFields /\ s'.closing /\ s'.pending = <<>> /\ s'.input = s.input
        /\ (s.fatal => s'.fatal) /\ (s.saw_exit => s'.saw_exit)
        /\ (s'.shutdown_complete => s.shutdown_complete)
    <3>1. CASE s.closing
      BY <1>6, <3>1 DEF PoisonUnlessClosing, StateInv
    <3>2. CASE ~s.closing
      <4>1. fail_locked([s EXCEPT !.closing = TRUE])
        BY <1>6, <3>2 DEF PoisonUnlessClosing
      <4>. QED
        BY <4>1, FailSays DEF StateFields
    <3>. QED
      BY <3>1, <3>2
  <2>3. /\ DOMAIN at' = Threads /\ DOMAIN at'[t] = {"pc", "req", "poison"}
        /\ \A u \in Threads : u # t => at'[u] = at[u]
        /\ at'[t].pc = "wait"
    BY <2>1 DEF Shaped
  <2>4. Grows /\ StateInv'
    BY <1>0, <2>1, <2>2, StateKeeps DEF Grows
  <2>. QED
    BY <1>0, <2>1, <2>2, <2>3, <2>4, StepKeeps DEF Writing, Executing, ShuttingDown
<1>7. CASE Await(t)
  <2>0. at[t].pc = "wait" /\ UNCHANGED <<child, writing>>
    BY <1>7 DEF Await
  <2>1. CASE Completed(t) /\ at[t].poison
    <3>1. UNCHANGED <<s, answer>> /\ MovesTo(t, "poison") /\ s.closing
      BY <1>7, <2>1, GoMoves, ZenonT(30) DEF Await, ThreadOk
    <3>2. Grows /\ StateInv'
      BY <1>0, <2>0, <3>1, StateKeeps, ZenonT(30) DEF Grows, StateInv
    <3>. QED
      BY <1>0, <2>0, <3>1, <3>2, StepKeeps DEF MovesTo, ThreadOk, Writing, Executing, ShuttingDown
  <2>2. CASE Completed(t) /\ ~at[t].poison
    <3>1. UNCHANGED s /\ ReturnResult(t)
      BY <1>7, <2>2 DEF Await
    <3>2. PICK kind \in {"error", "ok"} : MovesTo(t, "done") /\ Answers(t, kind)
      BY <3>1, ReturnMoves DEF ReturnResult
    <3>3. Grows /\ StateInv'
      BY <1>0, <2>0, <3>1, StateKeeps DEF Grows, StateInv
    <3>. QED
      BY <1>0, <2>0, <3>1, <3>2, <3>3, StepKeeps, ZenonT(30)
      DEF MovesTo, ThreadOk, Writing, Executing, ShuttingDown
  <2>3. CASE ~Completed(t)
    <3>1. /\ fail_locked([s EXCEPT !.closing = TRUE]) /\ UNCHANGED answer /\ MovesTo(t, "poison")
      BY <1>7, <2>3, GoMoves DEF Await, GiveUp
    <3>2. /\ DOMAIN s' = StateFields /\ s'.closing /\ s'.pending = <<>> /\ s'.input = s.input
          /\ (s.fatal => s'.fatal) /\ (s.saw_exit => s'.saw_exit)
          /\ (s'.shutdown_complete => s.shutdown_complete)
      BY <3>1, FailSays DEF StateFields
    <3>3. Grows /\ StateInv'
      BY <1>0, <2>0, <3>2, StateKeeps DEF Grows
    <3>. QED
      BY <1>0, <2>0, <3>1, <3>2, <3>3, StepKeeps
      DEF MovesTo, ThreadOk, Writing, Executing, ShuttingDown
  <2>. QED
    BY <2>1, <2>2, <2>3
<1>8. CASE Poison(t)
  <2>1. /\ at[t].pc = "poison" /\ writing = NoOne /\ UNCHANGED writing
        /\ s' = [s EXCEPT !.input = "closed"] /\ s.closing
        /\ DOMAIN child' = ClientFields /\ child'.state = child.state
    BY <1>8, SignalSays DEF Poison, ThreadOk
  <2>2. /\ DOMAIN s' = StateFields /\ s'.closing = s.closing /\ s'.pending = s.pending
        /\ s'.fatal = s.fatal /\ s'.saw_exit = s.saw_exit
        /\ s'.shutdown_complete = s.shutdown_complete
    BY <2>1, Zenon DEF StateFields
  <2>3. PICK kind \in {"error", "ok"} : MovesTo(t, "done") /\ Answers(t, kind)
    BY <1>8, ReturnMoves DEF Poison, ReturnResult
  <2>4. Grows /\ StateInv'
    BY <1>0, <2>1, <2>2, StateKeeps DEF Grows, StateInv
  <2>. QED
    BY <1>0, <2>1, <2>2, <2>3, <2>4, NobodyWrites, StepKeeps
    DEF MovesTo, ThreadOk, Writing, Executing, ShuttingDown
<1>. QED
  BY <1>1, <1>2, <1>3, <1>4, <1>5, <1>6, <1>7, <1>8 DEF Execute
-----------------------------------------------------------------------------
LEMMA ShutdownKeeps ==
  ASSUME Inv, NEW t \in Closers \cup {Main}, Shutdown(t)
  PROVE  Inv'
<1>. /\ t \in Threads /\ ThreadOk(t) /\ Shaped /\ StateInv
     /\ DOMAIN s = StateFields /\ DOMAIN child = ClientFields
  BY DEF Inv, Threads, Shaped
<1>0. /\ at[t].pc \in ShuttingDown /\ UNCHANGED <<reader, waiter, phase, writing>>
  BY DEF Shutdown, BeginShutdown, Detach, Terminate, FinishShutdown, CompleteShutdown,
         keep_shutdown, ShuttingDown
(* Returning changes nothing else. *)
<1>a. ASSUME NEW kind, Return(t, kind, "none", 0), UNCHANGED <<s, child>>,
             kind = "ended" => AllEnded
      PROVE  Inv'
  <2>1. MovesTo(t, "done") /\ Answers(t, kind)
    BY <1>a, ReturnMoves, ZenonT(30)
  <2>2. Grows /\ StateInv'
    BY <1>0, <1>a, StateKeeps DEF Grows, StateInv
  <2>3. kind = "ended" => AllEnded'
    BY <1>a, <2>2, EndedStays, ZenonT(30)
  <2>. QED
    BY <1>0, <1>a, <2>1, <2>2, <2>3, StepKeeps
    DEF MovesTo, ThreadOk, Writing, Executing, ShuttingDown
(* Going on after the announcement. *)
<1>b. ASSUME NEW pc \in {"grace", "terminate", "kill", "join"}, Go(t, pc),
             UNCHANGED <<s, answer>>, DOMAIN child' = ClientFields, child'.state = child.state,
             s.closing
      PROVE  Inv'
  <2>1. MovesTo(t, pc)
    BY <1>b, GoMoves, ZenonT(30)
  <2>2. Grows /\ StateInv'
    BY <1>0, <1>b, StateKeeps DEF Grows, StateInv
  <2>. QED
    BY <1>0, <1>b, <2>1, <2>2, StepKeeps, ZenonT(30)
    DEF MovesTo, ThreadOk, Writing, Executing, ShuttingDown
<1>c. s.shutdown_complete /\ ShutdownResult = "ended" => AllEnded
  BY DEF StateInv, ShutdownResult, AllEnded
<1>1. CASE BeginShutdown(t)
  <2>0. UNCHANGED child
    BY <1>1 DEF BeginShutdown
  <2>1. CASE s.shutdown_complete /\ Return(t, ShutdownResult, "none", 0) /\ UNCHANGED s
    BY <1>a, <1>c, <2>0, <2>1
  <2>2. CASE /\ s' = [s EXCEPT !.closing = TRUE, !.pending = <<>>] /\ Go(t, "detach")
             /\ UNCHANGED answer
    <3>1. /\ DOMAIN s' = StateFields /\ s'.closing /\ s'.pending = <<>> /\ s'.input = s.input
          /\ s'.fatal = s.fatal /\ s'.saw_exit = s.saw_exit
          /\ s'.shutdown_complete = s.shutdown_complete
      BY <2>2 DEF StateFields
    <3>2. MovesTo(t, "detach")
      BY <2>2, GoMoves
    <3>3. Grows /\ StateInv'
      BY <1>0, <2>0, <3>1, StateKeeps DEF Grows
    <3>. QED
      BY <1>0, <2>0, <2>2, <3>1, <3>2, <3>3, StepKeeps
      DEF MovesTo, ThreadOk, Writing, Executing, ShuttingDown
  <2>3. CASE Return(t, "late", "none", 0) /\ UNCHANGED s
    BY <1>a, <2>0, <2>3
  <2>. QED
    BY <1>1, <2>1, <2>2, <2>3 DEF BeginShutdown
<1>2. CASE Detach(t)
  <2>0. UNCHANGED child /\ s.closing
    BY <1>2 DEF Detach, ThreadOk, ShuttingDown
  <2>1. CASE /\ writing = NoOne /\ s' = [s EXCEPT !.input = "closed"] /\ Go(t, "grace")
             /\ UNCHANGED answer
    <3>1. /\ DOMAIN s' = StateFields /\ s'.closing = s.closing /\ s'.pending = s.pending
          /\ s'.fatal = s.fatal /\ s'.saw_exit = s.saw_exit
          /\ s'.shutdown_complete = s.shutdown_complete
      BY <2>1 DEF StateFields
    <3>2. MovesTo(t, "grace")
      BY <2>1, GoMoves, ZenonT(30)
    <3>3. Grows /\ StateInv'
      BY <1>0, <2>0, <3>1, StateKeeps DEF Grows, StateInv
    <3>. QED
      BY <1>0, <2>0, <2>1, <3>1, <3>2, <3>3, NobodyWrites, StepKeeps
      DEF MovesTo, ThreadOk, Writing, Executing, ShuttingDown
  <2>2. CASE EndShutdown(t, "late") /\ UNCHANGED s
    BY <1>a, <2>0, <2>2 DEF EndShutdown
  <2>. QED
    BY <1>2, <2>1, <2>2 DEF Detach
<1>3. CASE Terminate(t)
  <2>1. s.closing /\ UNCHANGED <<s, answer>>
    BY <1>3 DEF Terminate, ThreadOk, ShuttingDown
  <2>2. PICK pc \in {"terminate", "kill"} : /\ Go(t, pc) /\ DOMAIN child' = ClientFields
                                            /\ child'.state = child.state
    BY <1>3, SignalSays DEF Terminate
  <2>. QED
    BY <1>b, <2>1, <2>2
<1>4. CASE FinishShutdown(t)
  <2>1. s.closing /\ UNCHANGED <<s, child>>
    BY <1>4 DEF FinishShutdown, ThreadOk, ShuttingDown
  <2>2. (Go(t, "join") /\ UNCHANGED answer) \/ Return(t, "late", "none", 0)
    BY <1>4 DEF FinishShutdown, EndShutdown
  <2>. QED
    BY <1>a, <1>b, <2>1, <2>2
<1>5. CASE CompleteShutdown(t)
  <2>1. /\ s.closing /\ reader = "gone" /\ waiter = "gone" /\ UNCHANGED child
        /\ s' = [s EXCEPT !.shutdown_complete = TRUE]
        /\ Return(t, ShutdownResult, "none", 0)
    BY <1>5 DEF CompleteShutdown, EndShutdown, ThreadOk, ShuttingDown
  <2>2. /\ DOMAIN s' = StateFields /\ s'.closing = s.closing /\ s'.pending = s.pending
        /\ s'.fatal = s.fatal /\ s'.saw_exit = s.saw_exit /\ s'.input = s.input
    BY <2>1, Zenon DEF StateFields
  <2>3. MovesTo(t, "done") /\ Answers(t, ShutdownResult)
    BY <2>1, ReturnMoves
  <2>4. Grows
    BY <1>0, <2>1, <2>2 DEF Grows
  <2>5. StateInv'
    BY <1>0, <2>1, <2>2 DEF StateInv
  <2>6. ShutdownResult = "ended" => AllEnded'
    BY <1>0, <2>1, <2>2 DEF StateInv, ShutdownResult, AllEnded
  <2>. QED
    BY <1>0, <2>1, <2>2, <2>3, <2>4, <2>5, <2>6, StepKeeps
    DEF MovesTo, ThreadOk, Writing, Executing, ShuttingDown
<1>. QED
  BY <1>1, <1>2, <1>3, <1>4, <1>5 DEF Shutdown
-----------------------------------------------------------------------------
(* Nobody but Main runs unless the connection is lent. *)
LEMMA BackUnlessLent ==
  ASSUME Inv, phase # "lent"
  PROVE  AllBack
BY ConnectionAssumption DEF Inv, ThreadOk, Threads, AllBack, Resting

LEMMA BackWritesNot ==
  ASSUME AllBack
  PROVE  \A u \in Threads : u # Main => at[u].pc \notin Writing
BY DEF AllBack, Threads, Writing

(* A step of Main from one phase to the next. *)
LEMMA MainKeeps ==
  ASSUME Inv, AllBack, NEW pc, MovesTo(Main, pc), answer' = answer, writing' = writing,
         phase' # "lent", MainAt(pc)', pc \notin Writing,
         pc \in (ShuttingDown \ {"shutdown"}) \cup {"poison"} => s'.closing,
         Grows, StateInv'
  PROVE  Inv'
<1>0. Main \in Threads /\ ThreadOk(Main)
  BY DEF Inv, Threads
<1>1. ThreadMoves(Main)
  BY DEF ThreadMoves, MovesTo, Inv, Shaped
<1>2. AllEnded => AllEnded'
  BY EndedStays
<1>3. at'[Main].poison => s'.closing
  BY <1>0 DEF MovesTo, ThreadOk, Grows
<1>4. ThreadOk(Main)'
  BY <1>0, <1>2, <1>3, ConnectionAssumption DEF ThreadOk, MovesTo, Writing
<1>5. \A u \in Threads : u # Main => at[u].pc \notin Writing
  BY BackWritesNot
<1>. QED
  BY <1>0, <1>1, <1>4, <1>5, ThreadKeeps

LEMMA StartMoves ==
  ASSUME Shaped
  PROVE  /\ StartExecute => MovesTo(Main, "start")
         /\ StartShutdown => MovesTo(Main, "shutdown")
         /\ at' = at => MovesTo(Main, at[Main].pc)
BY DEF Shaped, StartExecute, StartShutdown, MovesTo, Threads

MainSteps ==
  RefuseConnection \/ Spawn \/ Await_startup \/ Settle \/ Destruct \/ KillChild \/ JoinThreads

LEMMA MainStepsKeep ==
  ASSUME Inv, MainSteps
  PROVE  Inv'
<1>. /\ Main \in Threads /\ ThreadOk(Main) /\ MainAt(at[Main].pc) /\ Shaped /\ StateInv
     /\ DOMAIN s = StateFields /\ DOMAIN child = ClientFields
  BY DEF Inv, Threads, Shaped, ThreadOk
<1>0. AllBack /\ UNCHANGED <<answer, writing>>
  BY BackUnlessLent DEF MainSteps, RefuseConnection, Spawn, Await_startup, Settle, Destruct,
     KillChild, JoinThreads, keep_main
<1>. USE DEF Resting, Executing, ShuttingDown, Writing
(* The steps that only choose what Main does next. *)
<1>a. ASSUME NEW pc \in {"start", "shutdown", "idle", "done"}, MovesTo(Main, pc), MainAt(pc)',
             UNCHANGED <<s, child, reader, waiter>>, phase' \notin {"lent", "spawn"},
             phase \notin {"destroy", "gone"}
      PROVE  Inv'
  <2>1. Grows
    BY <1>a DEF Grows
  <2>2. StateInv'
    BY <1>a DEF StateInv
  <2>. QED
    BY <1>0, <1>a, <2>1, <2>2, MainKeeps
<1>1. CASE RefuseConnection
  <2>1. /\ phase' = "gone" /\ phase = "spawn" /\ s' = [s EXCEPT !.log = "closed"]
        /\ UNCHANGED <<child, at, reader, waiter>>
    BY <1>1 DEF RefuseConnection
  <2>2. /\ DOMAIN s' = StateFields /\ s'.closing = s.closing /\ s'.pending = s.pending
        /\ s'.fatal = s.fatal /\ s'.saw_exit = s.saw_exit /\ s'.input = s.input
        /\ s'.shutdown_complete = s.shutdown_complete
    BY <2>1 DEF StateFields
  <2>3. Grows /\ StateInv'
    BY <2>1, <2>2 DEF Grows, StateInv
  <2>4. MovesTo(Main, at[Main].pc) /\ at[Main].pc \in Resting
    BY <2>1, StartMoves DEF MainAt
  <2>5. MainAt(at[Main].pc)'
    BY <2>1, <2>4 DEF MainAt
  <2>. QED
    BY <1>0, <2>1, <2>3, <2>4, <2>5, MainKeeps
<1>2. CASE Spawn
  <2>1. /\ phase = "spawn" /\ child' = [child EXCEPT !.state = "live"] /\ UNCHANGED s
        /\ reader = "none" /\ waiter = "none" /\ child.state = "none"
    BY <1>2 DEF Spawn, StateInv
  <2>2. DOMAIN child' = ClientFields
    BY <2>1 DEF ClientFields
  <2>3. Grows
    BY <2>1, <2>2 DEF Grows
  <2>4. CASE phase' = "await" /\ reader' = "loop" /\ waiter' = "waiting" /\ UNCHANGED at
    <3>1. StateInv'
      BY <2>1, <2>4 DEF StateInv
    <3>2. MovesTo(Main, at[Main].pc) /\ at[Main].pc \in Resting
      BY <2>1, <2>4, StartMoves DEF MainAt
    <3>3. MainAt(at[Main].pc)'
      BY <2>4, <3>2 DEF MainAt
    <3>. QED
      BY <1>0, <2>3, <2>4, <3>1, <3>2, <3>3, MainKeeps
  <2>5. CASE /\ phase' = "destroy" /\ waiter' \in {"waiting", "none"} /\ UNCHANGED reader
             /\ Go(Main, "kill_child")
    <3>1. StateInv'
      BY <2>1, <2>5 DEF StateInv
    <3>2. MovesTo(Main, "kill_child")
      BY <2>5, GoMoves
    <3>3. MainAt("kill_child")'
      BY <2>5 DEF MainAt
    <3>. QED
      BY <1>0, <2>3, <2>5, <3>1, <3>2, <3>3, MainKeeps
  <2>. QED
    BY <1>2, <2>4, <2>5 DEF Spawn
<1>3. CASE Await_startup
  <2>1. UNCHANGED <<s, child, reader, waiter>> /\ phase = "await"
    BY <1>3 DEF Await_startup
  <2>2. \/ phase' \in {"fence", "layout"} /\ MovesTo(Main, "start")
        \/ phase' = "abandon" /\ MovesTo(Main, "shutdown")
    BY <1>3, StartMoves DEF Await_startup
  <2>3. /\ phase' \in {"fence", "layout"} => MainAt("start")'
        /\ phase' = "abandon" => MainAt("shutdown")'
    BY DEF MainAt
  <2>. QED
    BY <1>a, <2>1, <2>2, <2>3
<1>4. CASE Settle
  <2>1. UNCHANGED <<s, child, reader, waiter>> /\ phase \in {"fence", "layout"} /\ at[Main].pc = "done"
    BY <1>4 DEF Settle
  <2>2. \/ phase' = "abandon" /\ MovesTo(Main, "shutdown")
        \/ phase' = "layout" /\ MovesTo(Main, "start")
        \/ phase' = "open" /\ MovesTo(Main, "done")
    BY <1>4, <2>1, StartMoves DEF Settle
  <2>3. /\ phase' = "abandon" => MainAt("shutdown")'
        /\ phase' = "layout" => MainAt("start")'
        /\ phase' = "open" => MainAt("done")'
    BY DEF MainAt
  <2>. QED
    BY <1>a, <2>1, <2>2, <2>3
<1>5. CASE Destruct
  <2>1. /\ UNCHANGED <<s, child, reader, waiter>> /\ phase \in {"open", "lent", "abandon"}
        /\ phase' = "destruct" /\ MovesTo(Main, "shutdown")
    BY <1>5, StartMoves DEF Destruct
  <2>2. MainAt("shutdown")'
    BY <2>1 DEF MainAt
  <2>. QED
    BY <1>a, <2>1, <2>2
<1>6. CASE KillChild
  <2>1. /\ phase' = "destroy" /\ s' = [s EXCEPT !.input = "closed"] /\ UNCHANGED <<reader, waiter>>
        /\ phase # "spawn" /\ DOMAIN child' = ClientFields /\ child'.state = child.state
        /\ MovesTo(Main, "join_threads")
    BY <1>6, SignalSays, GoMoves DEF KillChild, LastSignal
  <2>2. /\ DOMAIN s' = StateFields /\ s'.closing = s.closing /\ s'.pending = s.pending
        /\ s'.fatal = s.fatal /\ s'.saw_exit = s.saw_exit
        /\ s'.shutdown_complete = s.shutdown_complete
    BY <2>1 DEF StateFields
  <2>3. Grows /\ StateInv'
    BY <2>1, <2>2 DEF Grows, StateInv
  <2>4. MainAt("join_threads")'
    BY <2>1 DEF MainAt
  <2>. QED
    BY <1>0, <2>1, <2>3, <2>4, MainKeeps
<1>7. CASE JoinThreads
  <2>1. /\ phase' = "gone" /\ MovesTo(Main, "done") /\ UNCHANGED <<reader, waiter>>
    BY <1>7, GoMoves DEF JoinThreads
  <2>2. /\ DOMAIN s' = StateFields /\ s'.closing = s.closing /\ s'.pending = s.pending
        /\ s'.fatal = s.fatal /\ s'.saw_exit = s.saw_exit /\ s'.input = s.input
        /\ s'.shutdown_complete = s.shutdown_complete
    BY <1>7, Zenon DEF JoinThreads, StateFields
  <2>3. /\ DOMAIN child' = ClientFields
        /\ child'.state = child.state \/ child'.state = "freed"
    BY <1>7 DEF JoinThreads, ClientFields
  <2>4. Grows /\ StateInv'
    BY <2>1, <2>2, <2>3 DEF Grows, StateInv
  <2>5. MainAt("done")'
    BY <2>1 DEF MainAt
  <2>. QED
    BY <1>0, <2>1, <2>4, <2>5, MainKeeps
<1>. QED
  BY <1>1, <1>2, <1>3, <1>4, <1>5, <1>6, <1>7 DEF MainSteps

(* The calls of the threads the connection is lent to. *)
LEMMA CallKeeps ==
  ASSUME Inv, (\E t \in Callers : Call(t)) \/ (\E t \in Closers : Close(t))
  PROVE  Inv'
<1>1. PICK t \in Callers \cup Closers, pc \in {"start", "shutdown"} :
        /\ Go(t, pc) /\ phase = "lent" /\ (t \in Callers => pc = "start")
        /\ (t \in Closers => pc = "shutdown")
        /\ UNCHANGED <<s, child, answer, reader, waiter, phase, writing>>
  BY ConnectionAssumption DEF Call, Close, keep_main
<1>2. /\ t \in Threads /\ t # Main /\ ThreadOk(t) /\ Shaped /\ StateInv
  BY ConnectionAssumption DEF Inv, Threads
<1>3. MovesTo(t, pc)
  BY <1>1, <1>2, GoMoves
<1>4. Grows /\ StateInv'
  BY <1>1, <1>2 DEF Grows, StateInv, Shaped
<1>5. ThreadMoves(t)
  BY <1>1, <1>2, <1>3 DEF ThreadMoves, MovesTo, Shaped
<1>6. AllEnded => AllEnded'
  BY <1>4, EndedStays, ZenonT(30)
<1>7. ThreadOk(t)'
  BY <1>1, <1>2, <1>3, <1>6, ZenonT(30) DEF ThreadOk, MovesTo, Executing, ShuttingDown, Writing, Resting
<1>. QED
  BY <1>1, <1>2, <1>4, <1>5, <1>7, ThreadKeeps
-----------------------------------------------------------------------------
LEMMA AcceptSays ==
  ASSUME Shaped, NEW event, accept_event(event)
  PROVE  /\ DOMAIN s' = StateFields /\ s'.closing = s.closing /\ (s.fatal => s'.fatal)
         /\ (s.saw_exit => s'.saw_exit) /\ s'.input = s.input /\ s'.partial = s.partial
         /\ s'.shutdown_complete = s.shutdown_complete
         /\ (s.pending = <<>> => s'.pending = <<>>)
<1>. DOMAIN s = StateFields
  BY DEF Shaped
<1>1. CASE fail_locked(s)
  BY <1>1, FailSays
<1>2. CASE fail_locked([s EXCEPT !.startup_seen = TRUE])
  BY <1>2, FailSays DEF StateFields
<1>3. CASE s' = [s EXCEPT !.saw_exit = TRUE] \/ UNCHANGED s
  BY <1>3 DEF StateFields
<1>4. CASE s' = [s EXCEPT !.startup_seen = TRUE, !.ready = TRUE]
  BY <1>4 DEF StateFields
<1>5. CASE s' = [s EXCEPT !.pending = Tail(@)] /\ s.pending # <<>>
  BY <1>5 DEF StateFields
<1>. QED
  BY <1>1, <1>2, <1>3, <1>4, <1>5 DEF accept_event

LEMMA OutsideStepsKeep ==
  ASSUME Inv, Reader \/ Waiter \/ Client
  PROVE  Inv'
<1>. Shaped /\ StateInv /\ DOMAIN s = StateFields /\ DOMAIN child = ClientFields
  BY ZenonT(30) DEF Inv, Shaped
<1>0. UNCHANGED <<at, answer, writing, phase>>
  BY DEF Reader, ReaderAccepts, ReaderRefusesChunk, ReaderFails, ReaderLeaves, ReaderFinishes,
         ReaderCloses, ReaderEnds, keep_reader, Waiter, WaiterReaps, WaiterFails, keep_waiter,
         Client, ClientGreets, ClientReplies, ClientBounds, ClientMisbehaves, ClientExits, ClientDies
(* The steps that leave the input alone. *)
<1>a. ASSUME DOMAIN s' = StateFields, DOMAIN child' = ClientFields,
             s'.input = s.input, s'.shutdown_complete = s.shutdown_complete,
             s.closing => s'.closing, s'.closing => s'.pending = <<>>,
             s.fatal => s'.fatal, s.saw_exit => s'.saw_exit,
             child'.state = child.state \/ (child.state \in {"live", "zombie"}),
             reader' = reader \/ reader \in {"loop", "finish", "close", "leave"},
             reader' = "close" => s'.closing,
             waiter' = waiter \/ waiter \in {"waiting", "freed"},
             waiter' = "freed" => child'.state = "freed",
             waiter' = "gone" /\ ~s'.fatal => child'.state = "freed"
      PROVE  Inv'
  <2>1. Grows
    BY <1>a, ZenonT(30) DEF Grows, StateInv
  <2>2. StateInv'
    BY <1>0, <1>a DEF StateInv
  <2>. QED
    BY <1>0, <1>a, <2>1, <2>2, OutsideKeeps, ZenonT(30)
<1>1. CASE ReaderAccepts
  <2>1. PICK event : accept_event(event)
    BY <1>1 DEF ReaderAccepts
  <2>2. /\ DOMAIN child' = ClientFields /\ child'.state = child.state
        /\ UNCHANGED <<reader, waiter>>
    BY <1>1, ZenonT(30) DEF ReaderAccepts, keep_reader, ClientFields
  <2>. QED
    BY <1>a, <2>1, <2>2, AcceptSays DEF StateInv
<1>2. CASE ReaderRefusesChunk
  <2>1. /\ DOMAIN child' = ClientFields /\ child'.state = child.state
        /\ UNCHANGED <<reader, waiter>> /\ fail_locked(s)
    BY <1>2, ZenonT(30) DEF ReaderRefusesChunk, keep_reader, ClientFields
  <2>. QED
    BY <1>a, <2>1, FailSays DEF StateInv
<1>3. CASE ReaderFails \/ ReaderLeaves
  <2>1. UNCHANGED <<child, waiter>> /\ reader = "loop" /\ reader' = "finish"
    BY <1>3 DEF ReaderFails, ReaderLeaves, keep_reader
  <2>2. fail_locked(s) \/ UNCHANGED s
    BY <1>3 DEF ReaderFails, ReaderLeaves
  <2>. QED
    BY <1>a, <2>1, <2>2, FailSays, ZenonT(30) DEF StateInv
<1>4. CASE ReaderFinishes
  <2>1. UNCHANGED <<child, waiter>> /\ reader = "finish"
    BY <1>4 DEF ReaderFinishes, keep_reader
  <2>2. \/ fail_locked([s EXCEPT !.closing = TRUE]) /\ reader' = "close"
        \/ UNCHANGED s /\ reader' = "leave"
    BY <1>4 DEF ReaderFinishes
  <2>3. CASE fail_locked([s EXCEPT !.closing = TRUE]) /\ reader' = "close"
    <3>1. /\ DOMAIN s' = StateFields /\ s'.closing /\ s'.pending = <<>> /\ s'.input = s.input
          /\ s'.fatal /\ s'.saw_exit = s.saw_exit
          /\ s'.shutdown_complete = s.shutdown_complete
      BY <2>3, FailSays DEF StateFields
    <3>. QED
      BY <1>a, <2>1, <2>3, <3>1 DEF StateInv
  <2>. QED
    BY <1>a, <2>1, <2>2, <2>3 DEF StateInv
<1>5. CASE ReaderCloses
  <2>1. /\ reader = "close" /\ reader' = "leave" /\ writing = NoOne /\ UNCHANGED waiter /\ s.closing
        /\ s' = [s EXCEPT !.input = "closed"]
        /\ DOMAIN child' = ClientFields /\ child'.state = child.state
    BY <1>5, SignalSays DEF ReaderCloses, keep_reader, StateInv
  <2>2. /\ DOMAIN s' = StateFields /\ s'.closing = s.closing /\ s'.pending = s.pending
        /\ s'.fatal = s.fatal /\ s'.saw_exit = s.saw_exit
        /\ s'.shutdown_complete = s.shutdown_complete
    BY <2>1, Zenon DEF StateFields
  <2>3. Grows /\ StateInv'
    BY <1>0, <2>1, <2>2 DEF Grows, StateInv
  <2>. QED
    BY <1>0, <2>1, <2>3, NobodyWrites, OutsideKeeps
<1>6. CASE ReaderEnds
  <2>1. /\ reader = "leave" /\ reader' = "gone" /\ UNCHANGED <<child, waiter>>
        /\ s' = [s EXCEPT !.reader_done = TRUE, !.log = "closed"]
    BY <1>6 DEF ReaderEnds, keep_reader
  <2>2. /\ DOMAIN s' = StateFields /\ s'.closing = s.closing /\ s'.pending = s.pending
        /\ s'.fatal = s.fatal /\ s'.saw_exit = s.saw_exit /\ s'.input = s.input
        /\ s'.shutdown_complete = s.shutdown_complete
    BY <2>1 DEF StateFields
  <2>. QED
    BY <1>a, <2>1, <2>2 DEF StateInv
<1>7. CASE WaiterReaps
  <2>1. UNCHANGED reader
    BY <1>7 DEF WaiterReaps, keep_waiter
  <2>2. CASE /\ waiter = "waiting" /\ child.state = "zombie" /\ waiter' = "freed"
             /\ child' = [child EXCEPT !.state = "freed"] /\ UNCHANGED s
    <3>1. DOMAIN child' = ClientFields /\ child'.state = "freed"
      BY <2>2 DEF ClientFields
    <3>. QED
      BY <1>a, <2>1, <2>2, <3>1 DEF StateInv
  <2>3. CASE /\ waiter = "freed" /\ waiter' = "gone" /\ s' = [s EXCEPT !.reaped = TRUE]
             /\ UNCHANGED child
    <3>1. /\ DOMAIN s' = StateFields /\ s'.closing = s.closing /\ s'.pending = s.pending
          /\ s'.fatal = s.fatal /\ s'.saw_exit = s.saw_exit /\ s'.input = s.input
          /\ s'.shutdown_complete = s.shutdown_complete
      BY <2>3 DEF StateFields
    <3>. QED
      BY <1>a, <2>1, <2>3, <3>1 DEF StateInv
  <2>. QED
    BY <1>7, <2>2, <2>3 DEF WaiterReaps
<1>8. CASE WaiterFails
  <2>1. UNCHANGED reader /\ waiter = "waiting" /\ waiter' = "gone"
    BY <1>8 DEF WaiterFails, keep_waiter
  <2>2. CASE /\ child.state = "zombie" /\ child' = [child EXCEPT !.state = "freed"]
             /\ s' = [s EXCEPT !.reaped = TRUE]
    <3>1. /\ DOMAIN s' = StateFields /\ s'.closing = s.closing /\ s'.pending = s.pending
          /\ s'.fatal = s.fatal /\ s'.saw_exit = s.saw_exit /\ s'.input = s.input
          /\ s'.shutdown_complete = s.shutdown_complete
      BY <2>2 DEF StateFields
    <3>2. DOMAIN child' = ClientFields /\ child'.state = "freed"
      BY <2>2, ZenonT(30) DEF ClientFields
    <3>. QED
      BY <1>a, <2>1, <2>2, <3>1, <3>2 DEF StateInv
  <2>3. CASE fail_locked(s) /\ UNCHANGED child
    BY <1>a, <2>1, <2>3, FailSays, ZenonT(30) DEF StateInv
  <2>. QED
    BY <1>8, <2>2, <2>3 DEF WaiterFails
<1>9. CASE Client
  <2>1. /\ UNCHANGED <<s, reader, waiter>> /\ DOMAIN child' = ClientFields
        /\ child.state = "live"
    BY <1>9, Zenon DEF Client, ClientGreets, ClientReplies, ClientBounds, ClientMisbehaves, ClientExits,
       ClientDies, Emit, Lives, ClientFields
  <2>2. waiter # "freed" /\ (waiter = "gone" => s.fatal)
    BY <2>1 DEF StateInv
  <2>. QED
    BY <1>a, <2>1, <2>2 DEF StateInv
<1>. QED
  BY <1>1, <1>2, <1>3, <1>4, <1>5, <1>6, <1>7, <1>8, <1>9 DEF Reader, Waiter
-----------------------------------------------------------------------------
LEMMA Steps ==
  ASSUME Inv, [Next]_vars
  PROVE  Inv'
<1>1. CASE Library
  BY <1>1, MainStepsKeep, CallKeeps, ExecuteKeeps, ShutdownKeeps, OutsideStepsKeep
  DEF Library, MainSteps
<1>2. CASE Client
  BY <1>2, OutsideStepsKeep
<1>3. CASE UNCHANGED vars
  <2>1. UNCHANGED <<s, child, at, answer, reader, waiter, writing, phase>>
    BY <1>3, ZenonT(30) DEF vars
  <2>2. Grows /\ StateInv'
    BY <2>1 DEF Grows, Inv, Shaped, StateInv
  <2>. QED
    BY <2>1, <2>2, OutsideKeeps
<1>. QED
  BY <1>1, <1>2, <1>3 DEF Next

(***************************************************************************)
(* Whatever callers, closers, deadlines and failures did, a shutdown that  *)
(* reports success has ended everything: tmux said %exit, its client was   *)
(* reaped, the reader and the waiter are gone and no request is open.      *)
(***************************************************************************)
THEOREM ShutdownAlwaysTruthful == Spec => []ShutdownTruthful
<1>1. Inv => ShutdownTruthful
  BY DEF Inv, ThreadOk, StateInv, AllEnded, ShutdownTruthful, Threads
<1>. QED
  BY <1>1, Starts, Steps, PTL DEF Spec

(***************************************************************************)
(* A writer past the check of write_bytes always finds the descriptor open *)
(* and whoever closed it had announced it first.                           *)
(***************************************************************************)
THEOREM AlwaysWritesToOpenInput == Spec => []WritesToOpenInput
<1>1. Inv => WritesToOpenInput
  BY DEF Inv, ThreadOk, StateInv, WritesToOpenInput, Threads, Gone
<1>. QED
  BY <1>1, Starts, Steps, PTL DEF Spec
=============================================================================
