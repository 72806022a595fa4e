------------------------ MODULE CommandEngineSettles ------------------------
(***************************************************************************)
(* Every command of CommandEngine is settled exactly once and nobody       *)
(* sleeps while there is work, for any commands, workers, closing threads  *)
(* and limit: SettleInv is inductive relative to TurnsInv.                 *)
(***************************************************************************)
EXTENDS CommandEngineTurns

USE DEF queue, results, flags, engine, Publish, RunHook, NotifyAll

LEMMA OnwardSettles ==
  ASSUME TurnsInv, SettleInv, NEW w \in Worker, Onward(w), w \notin queueing,
         UNCHANGED <<queue, next_entry, flags, answer, hooks, closer, queueing, idle>>
  PROVE  SettleInv'
<1>. USE DEF SettleInv
<1>1. /\ UNCHANGED <<pending, order, next_order, next_entry, answer, hooks, closer, idle, queueing>>
      /\ Queued' = Queued
  BY Same
<1>2. /\ \A v \in Worker : at'[v].cmd = at[v].cmd
      /\ \A v \in Worker : v # w => at'[v] = at[v]
      /\ at[w].pc \notin {"top", "exited"} /\ at'[w].pc \notin {"top", "exited"}
      /\ at[w].pc \in Turning \cup {"entry"} => at'[w].pc \in Turning \cup {"entry"} \/ stop_requested
  BY DEF Onward, OnlyMoves, Turning
<1>3. (stop_requested' <=> stop_requested) /\ (terminal' <=> terminal)
  OBVIOUS
<1>4. HookInv'
  BY <1>1, <1>2 DEF HookInv, Held
<1>5. SleepInv'
  <2>1. idle \subseteq Worker /\ queueing \subseteq Worker
    BY DEF TurnsInv, TypeOK
  <2>. QED
    BY <1>1, <1>2, <1>3, <2>1 DEF SleepInv
<1>6. AwaitedInv'
  BY <1>1, <1>2, <1>3 DEF AwaitedInv, Awaited
<1>7. CloseInv'
  BY <1>1, <1>2, <1>3 DEF CloseInv, Exited, Joined
<1>. QED
  BY <1>4, <1>5, <1>6, <1>7

LEMMA AwaitEntrySettles ==
  ASSUME TurnsInv, SettleInv, NEW w \in Worker, AwaitEntry(w)
  PROVE  SettleInv'
<1>1. TypeOK
  BY DEF TurnsInv
<1>2. UNCHANGED <<queue, next_entry, flags, answer, hooks, closer, idle>> /\ w \notin queueing
  BY Zenon DEF AwaitEntry
<1>3. CASE Onward(w) /\ UNCHANGED queueing
  BY <1>2, <1>3, OnwardSettles
<1>4. CASE queueing' = queueing \cup {w} /\ UNCHANGED at
  <2>1. Queued' = Queued /\ at[w].pc = "entry" /\ ~stop_requested /\ order[at[w].cmd] # next_entry
    BY <1>1, <1>2, <1>4, Same, AwaitEntryMoves
  <2>2. SleepInv'
    BY <1>2, <1>4, <2>1 DEF SettleInv, SleepInv
  <2>. QED
    BY <1>2, <1>4, <2>1, <2>2 DEF SettleInv, HookInv, Held, AwaitedInv, Awaited, CloseInv, Exited, Joined
<1>. QED
  BY <1>1, <1>3, <1>4, AwaitEntryMoves, Zenon

LEMMA DecideSettles ==
  ASSUME TurnsInv, SettleInv, NEW w \in Worker, Decide(w)
  PROVE  SettleInv'
<1>1. Onward(w) /\ at[w].pc = "decide"
  BY DecideMoves, Zenon DEF TurnsInv
<1>2. w \notin queueing
  BY <1>1 DEF SettleInv, SleepInv
<1>. QED
  BY <1>1, <1>2, OnwardSettles, Zenon DEF Decide

LEMMA RunnerReturnsSettles ==
  ASSUME TurnsInv, SettleInv, NEW w \in Worker, RunnerReturns(w)
  PROVE  SettleInv'
<1>1. Onward(w) /\ at[w].pc \in {"running", "entered"}
  BY RunnerReturnsMoves DEF TurnsInv
<1>2. w \notin queueing
  BY <1>1 DEF SettleInv, SleepInv
<1>. QED
  BY <1>1, <1>2, OnwardSettles, Zenon DEF RunnerReturns

LEMMA PassSettles ==
  ASSUME TurnsInv, SettleInv, NEW w \in Worker, RunnerEntered(w) \/ Advance(w)
  PROVE  SettleInv'
<1>0. /\ PassesTurn(w) /\ AdvanceEntry(at[w].cmd)
      /\ UNCHANGED <<queue, flags, answer, hooks, closer, idle>>
  BY PassMoves DEF TurnsInv
<1>. USE DEF SettleInv
<1>1. /\ UNCHANGED <<pending, order, next_order, answer, hooks, closer, idle>>
      /\ Queued' = Queued
      /\ next_entry' = next_entry + 1 /\ queueing' = {}
      /\ order[at[w].cmd] = next_entry
  BY <1>0, TurnPasses, Same
<1>2. (stop_requested' <=> stop_requested) /\ (terminal' <=> terminal)
  BY <1>0
<1>3. /\ at[w].pc \in {"running", "advance"} /\ at'[w].pc \in {"entered", "publish"}
      /\ \A v \in Worker : at'[v].cmd = at[v].cmd
      /\ \A v \in Worker : v # w => at'[v] = at[v]
  BY <1>0 DEF PassesTurn, OnlyMoves
<1>4. HookInv'
  BY <1>1, <1>3 DEF HookInv, Held
<1>. idle \subseteq Worker /\ queueing \subseteq Worker
  BY DEF TurnsInv, TypeOK
<1>5. SleepInv'
  BY <1>1, <1>2, <1>3 DEF SleepInv
<1>6. AwaitedInv'
  <2>1. next_entry \in Nat
    BY DEF TurnsInv, TypeOK
  <2>2. ASSUME ~stop_requested, NEW o \in Nat, next_entry + 1 <= o, o < next_order PROVE Awaited(o)'
    <3>1. Awaited(o) /\ o # next_entry
      BY <2>1, <2>2 DEF AwaitedInv
    <3>. QED
      BY <3>1, <1>1, <1>3 DEF Awaited
  <2>. QED
    BY <2>2, <1>1, <1>2 DEF AwaitedInv
<1>7. CloseInv'
  BY <1>1, <1>2, <1>3 DEF CloseInv, Exited, Joined
<1>. QED
  BY <1>4, <1>5, <1>6, <1>7

LEMMA WorkerPublishesSettles ==
  ASSUME TurnsInv, SettleInv, NEW w \in Worker, WorkerPublishes(w)
  PROVE  SettleInv'
<1>. USE DEF SettleInv
<1>0. TypeOK /\ SequenceInv
  BY DEF TurnsInv
<1>1. /\ UNCHANGED <<pending, order, next_order, next_entry, hooks, closer, idle, queueing>>
      /\ Queued' = Queued
  BY Same DEF WorkerPublishes
<1>2. (stop_requested' <=> stop_requested) /\ (terminal' <=> terminal)
  BY DEF WorkerPublishes
<1>3. /\ at[w].pc = "publish" /\ at'[w].pc = "retire"
      /\ \A v \in Worker : at'[v].cmd = at[v].cmd
      /\ \A v \in Worker : v # w => at'[v] = at[v]
  BY <1>0, WorkerPublishesMoves DEF OnlyMoves
<1>4. HookInv'
  <2>1. at[w].cmd \in Cmd
    BY <1>0, <1>3, InCmd DEF TurnsInv, StageInv
  <2>2. \A c \in Cmd : c # at[w].cmd => answer'[c] = answer[c]
    BY <1>0, <2>1 DEF WorkerPublishes, TypeOK
  <2>3. \A c \in Cmd : Held(c)' <=> Held(c)
    BY <1>3 DEF Held
  <2>4. Held(at[w].cmd)
    BY DEF Held
  <2>. QED
    BY <2>2, <2>3, <2>4, <1>1 DEF HookInv
<1>. idle \subseteq Worker /\ queueing \subseteq Worker
  BY DEF TurnsInv, TypeOK
<1>5. SleepInv'
  BY <1>1, <1>2, <1>3 DEF SleepInv
<1>6. AwaitedInv'
  BY <1>1, <1>2, <1>3 DEF AwaitedInv, Awaited, Turning
<1>7. CloseInv'
  BY <1>1, <1>2, <1>3 DEF CloseInv, Exited, Joined
<1>. QED
  BY <1>4, <1>5, <1>6, <1>7

LEMMA WorkerRetiresSettles ==
  ASSUME TurnsInv, SettleInv, NEW w \in Worker, WorkerRetires(w)
  PROVE  SettleInv'
<1>. USE DEF SettleInv
<1>0. TypeOK /\ SequenceInv /\ idle \subseteq Worker /\ queueing \subseteq Worker
  BY DEF TurnsInv, TypeOK
<1>1. /\ UNCHANGED <<pending, order, next_order, next_entry, answer, closer, idle, queueing>>
      /\ Queued' = Queued
  BY Same DEF WorkerRetires
<1>2. (stop_requested' <=> stop_requested) /\ (terminal' <=> terminal)
  BY DEF WorkerRetires
<1>3. /\ at[w].pc = "retire" /\ at'[w].pc = "top" /\ at'[w].cmd = NoCmd
      /\ \A v \in Worker : v # w => at'[v] = at[v]
  BY <1>0, WorkerRetiresMoves DEF OnlyMoves
<1>4. HookInv'
  <2>1. at[w].cmd \in Cmd /\ Holding(w) /\ NoCmd \notin Cmd
    BY <1>0, <1>3, InCmd, PoolAssumption DEF TurnsInv, StageInv
  <2>2. answer[at[w].cmd] # "none"
    BY <1>3 DEF TurnsInv, EnterInv, StageInv
  <2>3. Held(at[w].cmd) /\ hooks[at[w].cmd] = 0
    <3>1. Held(at[w].cmd)
      BY DEF Held
    <3>. QED
      BY <3>1, <2>1 DEF HookInv
  <2>4. /\ hooks'[at[w].cmd] = 1
        /\ \A c \in Cmd : c # at[w].cmd => hooks'[c] = hooks[c]
    BY <1>0, <2>1, <2>3 DEF WorkerRetires, TypeOK
  <2>5. \A v \in Worker : v # w => at[v].cmd # at[w].cmd
    BY <2>1 DEF TurnsInv, OrderInv, Holding
  <2>6. ASSUME NEW c \in Cmd PROVE Held(c)' <=> Held(c) /\ c # at[w].cmd
    BY <1>3, <2>1, <2>5 DEF Held
  <2>. QED
    BY <2>1, <2>2, <2>3, <2>4, <2>6, <1>1 DEF HookInv
<1>5. SleepInv'
  BY <1>0, <1>1, <1>2, <1>3 DEF SleepInv
<1>6. AwaitedInv'
  BY <1>1, <1>2, <1>3 DEF AwaitedInv, Awaited, Turning
<1>7. CloseInv'
  BY <1>1, <1>2, <1>3 DEF CloseInv, Exited, Joined
<1>. QED
  BY <1>4, <1>5, <1>6, <1>7

LEMMA DequeueSettles ==
  ASSUME TurnsInv, SettleInv, NEW w \in Worker, Dequeue(w)
  PROVE  SettleInv'
<1>. USE DEF SettleInv
<1>0. /\ TypeOK /\ SequenceInv /\ idle \subseteq Worker /\ queueing \subseteq Worker
      /\ at[w].pc = "top" /\ w \notin idle /\ at[w].cmd = NoCmd /\ NoCmd \notin Cmd
  BY DequeueMoves, PoolAssumption DEF TurnsInv, TypeOK, StageInv, Holding
<1>1. UNCHANGED <<order, next_order, next_entry, answer, hooks, closer, queueing>>
  BY DEF Dequeue
<1>2. (stop_requested' <=> stop_requested) /\ (terminal' <=> terminal)
  BY DEF Dequeue
<1>3. CASE pending # <<>> /\ pending' = Tail(pending) /\ UNCHANGED idle
           /\ OnlyMoves(w) /\ at'[w].pc = "entry" /\ at'[w].cmd = Head(pending)
  <2>. DEFINE c == Head(pending)
  <2>1. c \in Cmd /\ Queued = Queued' \cup {c}
    BY <1>0, <1>3, TakenOff, Zenon DEF SequenceInv, TypeOK, Queued
  <2>. HIDE DEF c
  <2>2. /\ at'[w].pc = "entry" /\ at'[w].cmd = c
        /\ \A v \in Worker : v # w => at'[v] = at[v]
    BY <1>3 DEF OnlyMoves, c
  <2>3. HookInv'
    <3>1. answer[c] = "none"
      BY <2>1 DEF TurnsInv, StageInv
    <3>2. \A d \in Cmd : d # c => (Held(d)' <=> Held(d))
      BY <1>0, <2>2 DEF Held
    <3>. QED
      BY <3>1, <3>2, <1>1 DEF HookInv
  <2>4. SleepInv'
    BY <1>0, <1>1, <1>2, <1>3, <2>2 DEF SleepInv
  <2>5. AwaitedInv'
    <3>1. ASSUME NEW o, Awaited(o) PROVE Awaited(o)'
      BY <3>1, <1>0, <1>1, <2>1, <2>2 DEF Awaited, Turning
    <3>. QED
      BY <3>1, <1>1, <1>2 DEF AwaitedInv
  <2>6. CloseInv'
    <3>1. \A v \in Worker : ~Exited(v)
      BY <2>1 DEF CloseInv
    <3>2. \A v \in Worker : ~Exited(v)'
      BY <3>1, <2>2 DEF Exited
    <3>. QED
      BY <3>1, <3>2, <1>1, <1>2 DEF CloseInv, Joined
  <2>. QED
    BY <2>3, <2>4, <2>5, <2>6
<1>4. CASE pending = <<>> /\ stop_requested /\ UNCHANGED <<pending, idle>>
           /\ OnlyMoves(w) /\ at'[w].pc = "exited" /\ at'[w].cmd = at[w].cmd
  <2>1. /\ at'[w].pc = "exited" /\ \A v \in Worker : at'[v].cmd = at[v].cmd
        /\ \A v \in Worker : v # w => at'[v] = at[v]
        /\ Queued' = Queued /\ Queued = {}
    BY <1>0, <1>4, InCmd, Same DEF OnlyMoves
  <2>2. HookInv'
    BY <1>1, <2>1 DEF HookInv, Held
  <2>3. SleepInv'
    BY <1>0, <1>1, <1>2, <1>4, <2>1 DEF SleepInv
  <2>4. AwaitedInv'
    BY <1>2, <1>4 DEF AwaitedInv
  <2>5. CloseInv'
    BY <1>1, <1>2, <1>4, <2>1, SMTT(30), ZenonT(20), SMTT(60) DEF CloseInv, Exited, Joined
  <2>. QED
    BY <2>2, <2>3, <2>4, <2>5
<1>5. CASE pending = <<>> /\ ~stop_requested /\ idle' = idle \cup {w} /\ UNCHANGED <<pending, at>>
  <2>1. Queued' = Queued /\ Queued = {}
    BY <1>0, <1>5, InCmd, Same
  <2>2. SleepInv'
    BY <1>0, <1>1, <1>2, <1>5, <2>1 DEF SleepInv
  <2>. QED
    BY <1>1, <1>2, <1>5, <2>1, <2>2 DEF HookInv, Held, AwaitedInv, Awaited, CloseInv, Exited, Joined
<1>. QED
  BY <1>0, <1>3, <1>4, <1>5, DequeueMoves

LEMMA HookOnce ==
  ASSUME TurnsInv, HookInv, NEW c \in Cmd, NEW reply \in Outcome \ {"none"},
         answer[c] = "none", ~Held(c),
         answer' = [answer EXCEPT ![c] = reply], RunHook(c), UNCHANGED at
  PROVE  HookInv'
<1>1. hooks[c] = 0
  BY DEF HookInv
<1>2. /\ answer'[c] = reply /\ hooks'[c] = 1
      /\ \A d \in Cmd : d # c => answer'[d] = answer[d] /\ hooks'[d] = hooks[d]
  BY <1>1 DEF TurnsInv, TypeOK
<1>3. \A d : Held(d)' <=> Held(d)
  BY DEF Held
<1>. QED
  BY <1>2, <1>3 DEF HookInv

LEMMA AdmitSettles ==
  ASSUME TurnsInv, SettleInv, NEW c \in Cmd, Admit(c)
  PROVE  SettleInv'
<1>. USE DEF SettleInv
<1>1. /\ UNCHANGED <<pending, order, next_order, next_entry, at, idle, queueing, closer>>
      /\ Queued' = Queued
  BY Same DEF Admit
<1>2. (stop_requested' <=> stop_requested) /\ (terminal' <=> terminal)
  BY DEF Admit
<1>3. HookInv'
  <2>1. CASE UNCHANGED <<answer, hooks>>
    BY <1>1, <2>1 DEF HookInv, Held
  <2>2. CASE Publish(c, "overloaded") /\ RunHook(c)
    <3>1. answer[c] = "none" /\ ~Held(c) /\ "overloaded" \in Outcome \ {"none"}
      BY AdmittedMeans DEF Admit, Outcome
    <3>. QED
      BY <2>2, <3>1, <1>1, HookOnce, Zenon
  <2>. QED
    BY <2>1, <2>2, Zenon DEF Admit
<1>. QED
  BY <1>1, <1>2, <1>3 DEF SleepInv, AwaitedInv, Awaited, CloseInv, Exited, Joined

LEMMA SubmitSettles ==
  ASSUME TurnsInv, SettleInv, NEW c \in Cmd, Submit(c)
  PROVE  SettleInv'
<1>. USE DEF SettleInv
<1>0. /\ TypeOK /\ SequenceInv /\ idle \subseteq Worker /\ queueing \subseteq Worker
      /\ answer[c] = "none" /\ c \notin Queued /\ ~Held(c)
  BY DEF TurnsInv, TypeOK, StageInv, Submit
<1>1. UNCHANGED <<next_entry, at, queueing, closer>>
  BY DEF Submit
<1>2. (stop_requested' <=> stop_requested) /\ (terminal' <=> terminal)
  BY DEF Submit
<1>3. CASE stop_requested
  <2>1. Publish(c, "closed") /\ RunHook(c) /\ UNCHANGED <<pending, order, next_order, idle>>
    BY <1>3 DEF Submit
  <2>2. Queued' = Queued /\ "closed" \in Outcome \ {"none"}
    BY <2>1, Same DEF Outcome
  <2>3. HookInv'
    BY <1>0, <1>1, <2>1, <2>2, HookOnce, Zenon
  <2>. QED
    BY <1>1, <1>2, <2>1, <2>2, <2>3 DEF SleepInv, AwaitedInv, Awaited, CloseInv, Exited, Joined
<1>4. CASE ~stop_requested
  <2>1. /\ pending' = Append(pending, c) /\ order' = [order EXCEPT ![c] = next_order]
        /\ next_order' = next_order + 1 /\ UNCHANGED <<answer, hooks>>
        /\ idle' \in NotifyOne(idle)
    BY <1>4, Zenon DEF Submit
  <2>2. Queued' = Queued \cup {c}
    <3>1. pending \in Seq(Cmd)
      BY <1>0 DEF SequenceInv
    <3>2. Elements(Append(pending, c)) = Elements(pending) \cup {c}
      BY <3>1, AppendedElements
    <3>. QED
      BY <2>1, <3>2 DEF Queued
  <2>3. /\ order'[c] = next_order /\ next_order \in Nat
        /\ \A d \in Cmd : d # c => order'[d] = order[d]
    BY <1>0, <2>1 DEF TypeOK
  <2>4. /\ \A d \in Queued : order'[d] = order[d]
        /\ \A w \in Worker : Holding(w) => order'[at[w].cmd] = order[at[w].cmd]
    BY <1>0, <2>3, InCmd DEF Held
  <2>5. HookInv'
    BY <1>1, <2>1 DEF HookInv, Held
  <2>6. \A w \in Worker : at[w].pc \in Turning \cup {"entry"} => Holding(w)
    BY DEF TurnsInv, StageInv, Turning
  <2>7. SleepInv'
    <3>1. idle' \subseteq idle /\ idle' # Worker
      BY <1>0, <2>1, PoolAssumption DEF NotifyOne
    <3>. QED
      BY <3>1, <1>0, <1>1, <1>2, <1>4, <2>4, <2>6 DEF SleepInv
  <2>8. AwaitedInv'
    <3>1. ASSUME NEW o \in Nat, next_entry <= o, o < next_order + 1 PROVE Awaited(o)'
      <4>1. CASE o = next_order
        BY <4>1, <2>2, <2>3 DEF Awaited
      <4>2. CASE o # next_order
        <5>1. Awaited(o)
          BY <4>2, <3>1, <2>3, <1>4, SMTT(30), ZenonT(20), SMTT(60) DEF AwaitedInv
        <5>. QED
          BY <5>1, <1>1, <2>2, <2>4, <2>6 DEF Awaited
      <4>. QED
        BY <4>1, <4>2
    <3>. QED
      BY <3>1, <1>1, <2>1 DEF AwaitedInv
  <2>9. CloseInv'
    <3>1. \A w \in Worker : ~Exited(w)
      BY <1>4 DEF CloseInv
    <3>. QED
      BY <3>1, <1>1, <1>2 DEF CloseInv, Exited, Joined
  <2>. QED
    BY <2>5, <2>7, <2>8, <2>9
<1>. QED
  BY <1>3, <1>4, SMTT(30), ZenonT(20), SMTT(60)

LEMMA QuietSettles ==
  ASSUME SettleInv, UNCHANGED <<pending, order, next_order, next_entry, at, answer, hooks>>,
         \/ UNCHANGED <<stop_requested, idle, queueing>>
         \/ stop_requested' = TRUE /\ idle' = {} /\ queueing' = {},
         terminal => terminal', terminal' => terminal \/ Joined,
         \A k \in Closer : closer'[k] = "returned" => terminal'
  PROVE  SettleInv'
<1>. USE DEF SettleInv
<1>1. Queued' = Queued
  BY Same
<1>2. stop_requested => stop_requested'
  BY Zenon
<1>3. HookInv'
  BY DEF HookInv, Held
<1>4. SleepInv'
  <2>1. CASE UNCHANGED <<stop_requested, idle, queueing>>
    BY <1>1, <2>1 DEF SleepInv
  <2>2. CASE stop_requested' = TRUE /\ idle' = {} /\ queueing' = {}
    BY <1>1, <2>2, PoolAssumption DEF SleepInv
  <2>. QED
    BY <2>1, <2>2, Zenon
<1>5. AwaitedInv'
  BY <1>1, <1>2 DEF AwaitedInv, Awaited
<1>6. CloseInv'
  BY <1>1, <1>2 DEF CloseInv, Exited, Joined
<1>. QED
  BY <1>3, <1>4, <1>5, <1>6

LEMMA CloserSettles ==
  ASSUME TurnsInv, SettleInv, NEW k \in Closer, CloseBegin(k) \/ CloseEnd(k)
  PROVE  SettleInv'
<1>0. closer \in [Closer -> {"outside", "joining", "waiting", "returned"}]
  BY DEF TurnsInv, TypeOK
<1>a. \A j \in Closer : closer[j] = "returned" => terminal
  BY DEF SettleInv, CloseInv
<1>1. UNCHANGED <<pending, order, next_order, next_entry, at, answer, hooks>>
  BY Zenon DEF CloseBegin, CloseEnd
<1>2. CASE CloseBegin(k)
  <2>1. /\ \/ UNCHANGED <<stop_requested, idle, queueing>>
           \/ stop_requested' = TRUE /\ idle' = {} /\ queueing' = {}
        /\ UNCHANGED terminal
    BY <1>2, Zenon DEF CloseBegin
  <2>2. \/ terminal /\ closer' = [closer EXCEPT ![k] = "returned"]
        \/ closer' = [closer EXCEPT ![k] = "waiting"]
        \/ closer' = [closer EXCEPT ![k] = "joining"]
    BY <1>2, Zenon DEF CloseBegin
  <2>3. \A j \in Closer : closer'[j] = "returned" => terminal
    BY <2>2, <1>0, <1>a
  <2>. QED
    BY <1>1, <2>1, <2>3, QuietSettles, Zenon
<1>3. CASE CloseEnd(k)
  <2>1. UNCHANGED <<stop_requested, idle, queueing>>
    BY <1>3 DEF CloseEnd
  <2>2. (terminal' = TRUE /\ Joined) \/ (terminal /\ UNCHANGED terminal)
    BY <1>3, Zenon DEF CloseEnd
  <2>. QED
    BY <1>1, <2>1, <2>2, QuietSettles
<1>. QED
  BY <1>2, <1>3

LEMMA SettleStep == TurnsInv /\ SettleInv /\ [Next]_vars => SettleInv'
<1>. SUFFICES ASSUME TurnsInv, SettleInv, [Next]_vars PROVE SettleInv'
  OBVIOUS
<1>0. TypeOK /\ \A k \in Closer : closer[k] = "returned" => terminal
  BY DEF TurnsInv, SettleInv, CloseInv
<1>1. ASSUME NEW c \in Cmd, Admit(c) PROVE SettleInv'
  BY <1>1, AdmitSettles
<1>2. ASSUME NEW c \in Cmd, Submit(c) PROVE SettleInv'
  BY <1>2, SubmitSettles
<1>3. ASSUME NEW c \in Cmd, RequestCancel(c) PROVE SettleInv'
  BY <1>0, <1>3, QuietSettles DEF RequestCancel
<1>4. ASSUME NEW c \in Cmd, Observe(c) PROVE SettleInv'
  BY <1>0, <1>4, QuietSettles DEF Observe
<1>5. ASSUME NEW w \in Worker, RunnerEntered(w) \/ Advance(w) PROVE SettleInv'
  BY <1>5, PassSettles
<1>6. ASSUME NEW w \in Worker, Work(w) PROVE SettleInv'
  BY <1>5, <1>6, DequeueSettles, AwaitEntrySettles, DecideSettles, RunnerReturnsSettles,
     WorkerPublishesSettles, WorkerRetiresSettles, Zenon DEF Work
<1>7. CASE RequestStop
  BY <1>0, <1>7, QuietSettles DEF RequestStop
<1>8. ASSUME NEW k \in Closer, CloseBegin(k) \/ CloseEnd(k) PROVE SettleInv'
  BY <1>8, CloserSettles
<1>9. CASE UNCHANGED vars
  BY <1>0, <1>9, QuietSettles DEF vars
<1>. QED
  BY <1>1, <1>2, <1>3, <1>4, <1>5, <1>6, <1>7, <1>8, <1>9, Zenon DEF Next

LEMMA SettleStart == Init => SettleInv
<1>. SUFFICES ASSUME Init PROVE SettleInv
  OBVIOUS
<1>1. Queued = {}
  BY DEF Init, Queued, Elements
<1>2. /\ \A w \in Worker : at[w].pc = "top"
      /\ \A c \in Cmd : answer[c] = "none" /\ hooks[c] = 0
      /\ \A k \in Closer : closer[k] = "outside"
      /\ idle = {} /\ queueing = {} /\ next_order = 0 /\ next_entry = 0
      /\ stop_requested = FALSE /\ terminal = FALSE
  BY DEF Init, Top
<1>3. HookInv /\ SleepInv
  BY <1>1, <1>2 DEF HookInv, SleepInv
<1>4. AwaitedInv
  BY <1>2 DEF AwaitedInv
<1>5. CloseInv
  BY <1>2 DEF CloseInv, Exited
<1>. QED
  BY <1>3, <1>4, <1>5 DEF SettleInv

LEMMA SomebodyHasTheTurn ==
  ASSUME TurnsInv, SettleInv, NEW w \in queueing
  PROVE  \E v \in Worker : v \notin idle \cup queueing /\ ~Exited(v)
<1>1. /\ w \in Worker /\ at[w].pc = "entry" /\ order[at[w].cmd] # next_entry /\ ~stop_requested
      /\ Holding(w) /\ at[w].cmd \in Cmd
  BY InCmd, Zenon DEF TurnsInv, TypeOK, StageInv, SettleInv, SleepInv
<1>2. /\ order[at[w].cmd] \in Nat /\ next_entry \in Nat /\ next_order \in Nat
      /\ next_entry < order[at[w].cmd] /\ order[at[w].cmd] < next_order
  BY <1>1 DEF TurnsInv, TypeOK, TurnInv, OrderInv
<1>3. Awaited(next_entry)
  BY <1>1, <1>2 DEF SettleInv, AwaitedInv
<1>4. \A c \in Queued : order[c] # next_entry
  <2>1. \A c \in Queued : order[c] \in Nat /\ order[at[w].cmd] < order[c]
    BY <1>1, InCmd, SMTT(30), ZenonT(20), SMTT(60) DEF TurnsInv, TypeOK, OrderInv
  <2>. QED
    BY <1>2, <2>1, SMTT(30), ZenonT(20), SMTT(60)
<1>5. PICK v \in Worker : at[v].pc \in Turning \cup {"entry"} /\ order[at[v].cmd] = next_entry
  BY <1>3, <1>4 DEF Awaited
<1>. QED
  BY <1>5, SMTT(30), ZenonT(20), SMTT(60) DEF SettleInv, SleepInv, Exited, Turning

LEMMA SettleInvImplies == TurnsInv /\ SettleInv => AllSettled
<1>. SUFFICES ASSUME TurnsInv, SettleInv PROVE AllSettled
  OBVIOUS
<1>1. TypeOK /\ SequenceInv
  BY SMTT(30), ZenonT(20), SMTT(60) DEF TurnsInv
<1>2. \A w \in Worker : at[w].pc \in {"top", "exited"} => at[w].cmd = NoCmd
  BY DEF TurnsInv, StageInv, Holding
<1>3. ASSUME NEW c \in Cmd, Admitted(c), c \notin Queued, ~Held(c)
      PROVE  c \in submitting \/ (answer[c] # "none" /\ hooks[c] = 1)
  BY <1>3, AdmittedMeans DEF SettleInv, HookInv
<1>4. CloseSettles
  <2>. SUFFICES ASSUME \E k \in Closer : closer[k] = "returned"
                PROVE  /\ \A w \in Worker : Exited(w)
                       /\ pending = <<>>
                       /\ \A c \in Cmd : Admitted(c) =>
                            c \in submitting \/ (answer[c] # "none" /\ hooks[c] = 1)
    BY DEF CloseSettles
  <2>1. \A w \in Worker : Exited(w)
    BY DEF SettleInv, CloseInv, Joined
  <2>2. Queued = {}
    BY <2>1, PoolAssumption DEF SettleInv, CloseInv
  <2>3. \A c \in Cmd : ~Held(c)
    BY <2>1, <1>2, PoolAssumption DEF Held, Exited
  <2>. QED
    BY <2>1, <2>2, <2>3, <1>1, <1>3, InCmd
<1>5. NobodyStranded
  <2>. SUFFICES ASSUME submitting = {}, \A w \in Worker : w \in idle \cup queueing \/ Exited(w)
                PROVE  /\ \A c \in Cmd : Admitted(c) => answer[c] # "none" /\ hooks[c] = 1
                       /\ stop_requested => Joined
    BY DEF NobodyStranded
  <2>1. queueing = {}
    BY SomebodyHasTheTurn
  <2>2. \A w \in Worker : at[w].pc \in {"top", "exited"}
    BY <2>1 DEF SettleInv, SleepInv, Exited
  <2>3. \A c \in Cmd : ~Held(c)
    BY <2>2, <1>2, PoolAssumption DEF Held
  <2>4. Queued = {}
    <3>1. ASSUME Queued # {} PROVE FALSE
      <4>1. PICK w \in Worker : w \notin idle
        BY <3>1, <1>1, Zenon DEF SettleInv, SleepInv, TypeOK
      <4>2. Exited(w)
        BY <4>1, <2>1
      <4>. QED
        BY <3>1, <4>2 DEF SettleInv, CloseInv
    <3>. QED
      BY <3>1
  <2>5. stop_requested => Joined
    BY <2>1 DEF SettleInv, SleepInv, Joined
  <2>. QED
    BY <2>3, <2>4, <2>5, <1>3
<1>. QED
  BY <1>4, <1>5 DEF AllSettled

(***************************************************************************)
(* Every admitted command is answered once and its hook runs once, no      *)
(* worker sleeps over the entry whose turn it is or over a queued command, *)
(* and close returns only after the queue has drained, for every number of *)
(* commands, workers and closing threads (CommandEngine, worker_main,      *)
(* submit and close).                                                      *)
(***************************************************************************)
THEOREM AllAlwaysSettled == Spec => []AllSettled
<1>1. Init => TurnsInv /\ SettleInv
  BY TurnsStart, SettleStart
<1>2. (TurnsInv /\ SettleInv) /\ [Next]_vars => (TurnsInv /\ SettleInv)'
  BY TurnsStep, SettleStep
<1>. QED
  BY <1>1, <1>2, SettleInvImplies, PTL DEF Spec
=============================================================================
