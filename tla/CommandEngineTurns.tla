------------------------- MODULE CommandEngineTurns -------------------------
(***************************************************************************)
(* The inductive invariant of CommandEngine, in two halves, and what its   *)
(* proof keeps needing: sequences read through their elements, and where   *)
(* each action takes a worker.  TurnsInv is kept by every step on its own, *)
(* which is proved here; SettleInv with its help (CommandEngineSettles).   *)
(***************************************************************************)
EXTENDS CommandEngine, TLAPS

Outcome == {"none", "overloaded", "closed", "withdrawn", "timeout", "answer", "indeterminate"}

Place == {"top", "exited", "entry", "decide", "running", "entered", "advance", "publish",
          "retire"}

WorkerState == [pc : Place, cmd : Cmd \cup {NoCmd}, reply : Outcome]

(* The types of what the argument reads; the sequences are in SequenceInv. *)
TypeOK ==
  /\ order \in [Cmd -> Nat]
  /\ next_order \in Nat /\ next_entry \in Nat
  /\ at \in [Worker -> WorkerState]
  /\ idle \subseteq Worker /\ queueing \subseteq Worker
  /\ submitting \subseteq Cmd
  /\ answer \in [Cmd -> Outcome]
  /\ hooks \in [Cmd -> Nat]
  /\ closer \in [Closer -> {"outside", "joining", "waiting", "returned"}]

Elements(s) == {s[i] : i \in DOMAIN s}

Rising(s, number) == \A i, j \in DOMAIN s : i < j => number[s[i]] < number[s[j]]

(* Commands are queued, and enter, in the order of their numbers. *)
SequenceInv ==
  /\ pending \in Seq(Cmd) /\ entered \in Seq(Cmd)
  /\ Rising(pending, order) /\ Rising(entered, order)

Queued == Elements(pending)
Inside == Elements(entered)

Held(c) == \E w \in Worker : at[w].cmd = c

Holding(w) == at[w].cmd # NoCmd

(* A command is in one place: with its submitter, in the queue, with one   *)
(* worker, or answered.                                                    *)
StageInv ==
  /\ \A w \in Worker : Holding(w) <=> at[w].pc \notin {"top", "exited"}
  /\ \A c \in submitting : answer[c] = "none" /\ c \notin Queued /\ ~Held(c)
  /\ \A c \in Queued : answer[c] = "none" /\ ~Held(c)
  /\ \A w \in Worker : Holding(w) /\ at[w].pc # "retire" => answer[at[w].cmd] = "none"
  /\ \A w \in Worker : at[w].pc = "retire" => answer[at[w].cmd] = at[w].reply

(* What a worker holds was queued before what is still in the queue, and   *)
(* no two workers hold one number.                                         *)
OrderInv ==
  /\ \A c \in Queued : order[c] < next_order
  /\ \A w \in Worker, c \in Queued : Holding(w) => order[at[w].cmd] < order[c]
  /\ \A w \in Worker : Holding(w) => order[at[w].cmd] < next_order
  /\ \A w, v \in Worker : Holding(w) /\ Holding(v) /\ order[at[w].cmd] = order[at[v].cmd] => w = v

Turning == {"decide", "running", "advance"}

(* The turn is with at most one worker, and has not passed anyone waiting. *)
TurnInv ==
  /\ next_entry <= next_order
  /\ \A c \in Queued : next_entry <= order[c]
  /\ \A w \in Worker : at[w].pc = "entry" => next_entry <= order[at[w].cmd]
  /\ \A w \in Worker : at[w].pc \in Turning => order[at[w].cmd] = next_entry

(* A command that has entered is with its worker or answered, and has had  *)
(* its turn; a worker knows whether its command has entered.               *)
EnterInv ==
  /\ \A c \in Inside : Held(c) \/ answer[c] # "none"
  /\ \A c \in Inside :
       \/ order[c] < next_entry
       \/ \E w \in Worker : at[w].pc \in {"running", "advance"} /\ at[w].cmd = c
  /\ \A w \in Worker : at[w].pc \in {"entry", "decide"} => at[w].cmd \notin Inside
  /\ \A w \in Worker : at[w].pc \in {"running", "entered"} => at[w].cmd \in Inside
  /\ \A w \in Worker : at[w].pc \in {"advance", "publish", "retire"} =>
       /\ at[w].reply # "none"
       /\ at[w].reply \in {"answer", "indeterminate"} <=> at[w].cmd \in Inside

(* Nobody is answered as the transport's doing who was not in it. *)
AnswerInv ==
  \A c \in Cmd : answer[c] # "none" =>
    (answer[c] \in {"answer", "indeterminate"} <=> c \in Inside)

(* The hook runs once, when the command is answered and nobody holds it. *)
HookInv ==
  \A c \in Cmd : hooks[c] = IF answer[c] # "none" /\ ~Held(c) THEN 1 ELSE 0

(* Who sleeps, and why nobody does for ever. *)
SleepInv ==
  /\ \A w \in idle : at[w].pc = "top"
  /\ \A w \in queueing : at[w].pc = "entry" /\ order[at[w].cmd] # next_entry
  /\ stop_requested => idle = {} /\ queueing = {}
  /\ Queued # {} => idle # Worker

(* Before a stop every number that was given out and has not had its turn  *)
(* is in the queue or with a worker.                                       *)
Awaited(o) ==
  \/ \E c \in Queued : order[c] = o
  \/ \E w \in Worker : at[w].pc \in Turning \cup {"entry"} /\ order[at[w].cmd] = o

AwaitedInv ==
  ~stop_requested => \A o \in Nat : next_entry <= o /\ o < next_order => Awaited(o)

(* The end: a worker leaves an empty queue, and the joins come last. *)
CloseInv ==
  /\ \A w \in Worker : Exited(w) => stop_requested /\ Queued = {}
  /\ terminal => Joined
  /\ \A k \in Closer : closer[k] = "returned" => terminal

TurnsInv == TypeOK /\ SequenceInv /\ StageInv /\ OrderInv /\ TurnInv /\ EnterInv /\ AnswerInv

SettleInv == HookInv /\ SleepInv /\ AwaitedInv /\ CloseInv
-----------------------------------------------------------------------------
(* Sequences are read through the set of their elements. *)
LEMMA SequenceFacts ==
  ASSUME NEW s \in Seq(Cmd)
  PROVE  /\ Elements(s) \subseteq Cmd
         /\ s = <<>> <=> Elements(s) = {}
<1>1. \A i \in DOMAIN s : s[i] \in Cmd
  OBVIOUS
<1>2. s # <<>> => 1 \in DOMAIN s
  OBVIOUS
<1>3. s = <<>> => DOMAIN s = {}
  OBVIOUS
<1>. QED
  BY <1>1, <1>2, <1>3, Zenon DEF Elements

LEMMA AppendedElements ==
  ASSUME NEW s \in Seq(Cmd), NEW c \in Cmd
  PROVE  Elements(Append(s, c)) = Elements(s) \cup {c}
<1>. DEFINE t == Append(s, c)
<1>1. DOMAIN s = 1..Len(s) /\ DOMAIN t = 1..(Len(s) + 1) /\ Len(s) \in Nat
  OBVIOUS
<1>2. (\A i \in 1..Len(s) : t[i] = s[i]) /\ t[Len(s) + 1] = c
  OBVIOUS
<1>. HIDE DEF t
<1>3. \A i \in DOMAIN t : (i \in DOMAIN s /\ t[i] = s[i]) \/ t[i] = c
  BY <1>1, <1>2
<1>4. \A i \in DOMAIN s : i \in DOMAIN t /\ t[i] = s[i]
  BY <1>1, <1>2
<1>5. Len(s) + 1 \in DOMAIN t /\ t[Len(s) + 1] = c
  BY <1>1, <1>2
<1>6. Elements(t) = Elements(s) \cup {c}
  BY <1>3, <1>4, <1>5, Zenon DEF Elements
<1>. QED
  BY <1>6 DEF t

LEMMA Appended ==
  ASSUME NEW s \in Seq(Cmd), NEW c \in Cmd, NEW number \in [Cmd -> Nat],
         Rising(s, number), \A d \in Elements(s) : number[d] < number[c]
  PROVE  /\ Append(s, c) \in Seq(Cmd)
         /\ Elements(Append(s, c)) = Elements(s) \cup {c}
         /\ Rising(Append(s, c), number)
<1>. DEFINE t == Append(s, c)
<1>0. t \in Seq(Cmd)
  OBVIOUS
<1>1. DOMAIN s = 1..Len(s) /\ DOMAIN t = 1..(Len(s) + 1) /\ Len(s) \in Nat
  OBVIOUS
<1>2. (\A i \in 1..Len(s) : t[i] = s[i]) /\ t[Len(s) + 1] = c
  OBVIOUS
<1>3. \A i \in DOMAIN s : number[s[i]] < number[c]
  BY DEF Elements
<1>. HIDE DEF t
<1>4. Rising(t, number)
  BY <1>1, <1>2, <1>3, SMTT(30) DEF Rising
<1>5. Elements(t) = Elements(s) \cup {c}
  BY AppendedElements DEF t
<1>. QED
  BY <1>0, <1>4, <1>5, Zenon DEF t

LEMMA TakenOff ==
  ASSUME NEW s \in Seq(Cmd), s # <<>>, NEW number \in [Cmd -> Nat], Rising(s, number)
  PROVE  /\ Tail(s) \in Seq(Cmd) /\ Head(s) \in Cmd
         /\ Elements(s) = Elements(Tail(s)) \cup {Head(s)}
         /\ \A c \in Elements(Tail(s)) : number[Head(s)] < number[c]
         /\ Rising(Tail(s), number)
<1>. DEFINE t == Tail(s)
<1>0. t \in Seq(Cmd) /\ Head(s) \in Cmd
  OBVIOUS
<1>1. /\ DOMAIN s = 1..Len(s) /\ DOMAIN t = 1..(Len(s) - 1) /\ Len(s) \in Nat
      /\ Len(s) > 0 /\ Head(s) = s[1]
  OBVIOUS
<1>2. \A i \in 1..(Len(s) - 1) : t[i] = s[i + 1]
  OBVIOUS
<1>. HIDE DEF t
<1>3. ASSUME NEW i \in DOMAIN t, NEW j \in DOMAIN t, i < j PROVE number[t[i]] < number[t[j]]
  <2>1. i + 1 \in DOMAIN s /\ j + 1 \in DOMAIN s /\ i + 1 < j + 1
    <3>1. /\ i \in 1..(Len(s) - 1) /\ j \in 1..(Len(s) - 1) /\ Len(s) \in Nat
          /\ DOMAIN s = 1..Len(s) /\ i < j
      BY <1>1, <1>3, Zenon
    <3>. QED
      BY <3>1, SMTT(30)
  <2>2. number[s[i + 1]] < number[s[j + 1]]
    BY <2>1, Zenon DEF Rising
  <2>3. t[i] = s[i + 1] /\ t[j] = s[j + 1]
    BY <1>1, <1>2
  <2>. QED
    BY <2>2, <2>3, Zenon
<1>4. ASSUME NEW j \in DOMAIN t PROVE number[Head(s)] < number[t[j]]
  <2>1. 1 \in DOMAIN s /\ j + 1 \in DOMAIN s /\ 1 < j + 1
    BY <1>1
  <2>2. number[s[1]] < number[s[j + 1]]
    BY <2>1, Zenon DEF Rising
  <2>3. Head(s) = s[1] /\ t[j] = s[j + 1]
    BY <1>1, <1>2
  <2>. QED
    BY <2>2, <2>3, Zenon
<1>5. ASSUME NEW i \in DOMAIN s PROVE s[i] \in Elements(t) \cup {Head(s)}
  <2>1. CASE i = 1
    BY <1>1, <2>1
  <2>2. CASE i # 1
    <3>1. i - 1 \in DOMAIN t /\ t[i - 1] = s[i]
      BY <1>1, <1>2, <2>2
    <3>. QED
      BY <3>1 DEF Elements
  <2>. QED
    BY <2>1, <2>2
<1>6. ASSUME NEW j \in DOMAIN t PROVE t[j] \in Elements(s)
  <2>1. j + 1 \in DOMAIN s /\ t[j] = s[j + 1]
    BY <1>1, <1>2
  <2>. QED
    BY <2>1, Zenon DEF Elements
<1>7. Head(s) \in Elements(s)
  BY <1>1 DEF Elements
<1>8. Elements(s) = Elements(t) \cup {Head(s)} /\ \A c \in Elements(t) : number[Head(s)] < number[c]
  BY <1>4, <1>5, <1>6, <1>7, Zenon DEF Elements
<1>9. Rising(t, number)
  BY <1>3 DEF Rising
<1>. QED
  BY <1>0, <1>8, <1>9, Zenon DEF t

LEMMA Same ==
  /\ UNCHANGED pending => Queued' = Queued
  /\ UNCHANGED entered => Inside' = Inside
  BY DEF Queued, Inside

LEMMA InCmd ==
  ASSUME TypeOK, SequenceInv
  PROVE  /\ Queued \subseteq Cmd /\ Inside \subseteq Cmd
         /\ pending = <<>> <=> Queued = {}
         /\ \A w \in Worker : Holding(w) => at[w].cmd \in Cmd
<1>1. pending \in Seq(Cmd) /\ entered \in Seq(Cmd)
  BY DEF SequenceInv
<1>2. Queued \subseteq Cmd /\ (pending = <<>> <=> Queued = {}) /\ Inside \subseteq Cmd
  BY <1>1, SequenceFacts, Zenon DEF Queued, Inside
<1>3. \A w \in Worker : Holding(w) => at[w].cmd \in Cmd
  BY DEF TypeOK, WorkerState, Holding
<1>. QED
  BY <1>2, <1>3

LEMMA AdmittedMeans ==
  ASSUME NEW c \in Cmd
  PROVE  Admitted(c) <=> \/ c \in submitting \/ c \in Queued \/ Held(c)
                         \/ answer[c] \notin {"none", "overloaded"}
  BY Zenon DEF Admitted, Queued, Elements, Held
-----------------------------------------------------------------------------
(* Only the record of w changes. *)
OnlyMoves(w) ==
  /\ at' \in [Worker -> WorkerState]
  /\ \A v \in Worker \ {w} : at'[v] = at[v]

(* w goes on with its command, without passing the turn. *)
Onward(w) ==
  /\ OnlyMoves(w)
  /\ at'[w].cmd = at[w].cmd
  /\ \/ at[w].pc = "entry" /\ at'[w].pc = "publish" /\ at'[w].reply = "closed" /\ stop_requested
     \/ at[w].pc = "entry" /\ at'[w].pc = "decide" /\ order[at[w].cmd] = next_entry
     \/ at[w].pc = "decide" /\ at'[w].pc = "advance" /\ at'[w].reply \in {"withdrawn", "timeout"}
     \/ at[w].pc = "decide" /\ at'[w].pc = "running"
     \/ at[w].pc = "running" /\ at'[w].pc = "advance" /\ at'[w].reply \in {"answer", "indeterminate"}
     \/ at[w].pc = "entered" /\ at'[w].pc = "publish" /\ at'[w].reply \in {"answer", "indeterminate"}

(* w passes the turn. *)
PassesTurn(w) ==
  /\ OnlyMoves(w)
  /\ at'[w].cmd = at[w].cmd /\ at'[w].reply = at[w].reply
  /\ \/ at[w].pc = "running" /\ at'[w].pc = "entered"
     \/ at[w].pc = "advance" /\ at'[w].pc = "publish"

LEMMA Replaced ==
  ASSUME at \in [Worker -> WorkerState], NEW w \in Worker, NEW r \in WorkerState,
         at' = [at EXCEPT ![w] = r]
  PROVE  OnlyMoves(w) /\ at'[w] = r
  BY DEF OnlyMoves

LEMMA MovedOn ==
  ASSUME at \in [Worker -> WorkerState], NEW w \in Worker, NEW pc \in Place,
         at' = [at EXCEPT ![w].pc = pc]
  PROVE  OnlyMoves(w) /\ at'[w].pc = pc /\ at'[w].cmd = at[w].cmd /\ at'[w].reply = at[w].reply
  BY DEF OnlyMoves, WorkerState

LEMMA MovedWith ==
  ASSUME at \in [Worker -> WorkerState], NEW w \in Worker, NEW pc \in Place, NEW reply \in Outcome,
         \/ at' = [at EXCEPT ![w].pc = pc, ![w].reply = reply]
         \/ at' = [at EXCEPT ![w].reply = reply, ![w].pc = pc]
  PROVE  OnlyMoves(w) /\ at'[w].pc = pc /\ at'[w].cmd = at[w].cmd /\ at'[w].reply = reply
<1>1. [at[w] EXCEPT !.pc = pc, !.reply = reply] \in WorkerState
  BY Zenon DEF WorkerState
<1>2. [at[w] EXCEPT !.reply = reply, !.pc = pc] \in WorkerState
  BY Zenon DEF WorkerState
<1>3. CASE at' = [at EXCEPT ![w] = [at[w] EXCEPT !.pc = pc, !.reply = reply]]
  <2>1. OnlyMoves(w) /\ at'[w] = [at[w] EXCEPT !.pc = pc, !.reply = reply]
    BY <1>1, <1>3, Replaced, Zenon
  <2>. QED
    BY <2>1 DEF WorkerState
<1>4. CASE at' = [at EXCEPT ![w] = [at[w] EXCEPT !.reply = reply, !.pc = pc]]
  <2>1. OnlyMoves(w) /\ at'[w] = [at[w] EXCEPT !.reply = reply, !.pc = pc]
    BY <1>2, <1>4, Replaced, Zenon
  <2>. QED
    BY <2>1 DEF WorkerState
<1>5. [at EXCEPT ![w].pc = pc, ![w].reply = reply] =
        [at EXCEPT ![w] = [at[w] EXCEPT !.pc = pc, !.reply = reply]]
  BY Zenon DEF WorkerState
<1>6. [at EXCEPT ![w].reply = reply, ![w].pc = pc] =
        [at EXCEPT ![w] = [at[w] EXCEPT !.reply = reply, !.pc = pc]]
  BY Zenon DEF WorkerState
<1>. QED
  BY <1>3, <1>4, <1>5, <1>6, Zenon

LEMMA Places ==
  /\ {"top", "exited", "entry", "decide", "running", "entered", "advance", "publish", "retire"}
       \subseteq Place
  /\ {"none", "closed", "withdrawn", "timeout", "answer", "indeterminate"} \subseteq Outcome
  BY DEF Place, Outcome

LEMMA AwaitEntryMoves ==
  ASSUME TypeOK, NEW w \in Worker, AwaitEntry(w)
  PROVE  /\ UNCHANGED <<engine, idle>> /\ w \notin queueing /\ at[w].pc = "entry"
         /\ \/ Onward(w) /\ UNCHANGED queueing
            \/ /\ ~stop_requested /\ order[at[w].cmd] # next_entry
               /\ queueing' = queueing \cup {w} /\ UNCHANGED at
<1>. at \in [Worker -> WorkerState] /\ "publish" \in Place /\ "decide" \in Place /\ "closed" \in Outcome
  BY Places DEF TypeOK
<1>1. CASE stop_requested
  <2>1. at' = [at EXCEPT ![w].pc = "publish", ![w].reply = "closed"]
    BY <1>1, Zenon DEF AwaitEntry
  <2>2. OnlyMoves(w) /\ at'[w].pc = "publish" /\ at'[w].cmd = at[w].cmd /\ at'[w].reply = "closed"
    BY <2>1, MovedWith, Zenon
  <2>. QED
    BY <1>1, <2>2, Zenon DEF AwaitEntry, Onward
<1>2. CASE ~stop_requested /\ order[at[w].cmd] = next_entry
  <2>1. at' = [at EXCEPT ![w].pc = "decide"]
    BY <1>2, Zenon DEF AwaitEntry, MayEnter
  <2>2. OnlyMoves(w) /\ at'[w].pc = "decide" /\ at'[w].cmd = at[w].cmd
    BY <2>1, MovedOn, Zenon
  <2>. QED
    BY <1>2, <2>2, Zenon DEF AwaitEntry, MayEnter, Onward
<1>3. CASE ~stop_requested /\ order[at[w].cmd] # next_entry
  BY <1>3, Zenon DEF AwaitEntry, MayEnter
<1>. QED
  BY <1>1, <1>2, <1>3, Zenon

LEMMA DecideMoves ==
  ASSUME TypeOK, NEW w \in Worker, Decide(w)
  PROVE  /\ Onward(w) /\ at[w].pc = "decide"
         /\ \/ at'[w].pc = "advance" /\ UNCHANGED entered
            \/ at'[w].pc = "running" /\ entered' = Append(entered, at[w].cmd)
<1>. at \in [Worker -> WorkerState] /\ "advance" \in Place /\ "running" \in Place
  BY Places DEF TypeOK
<1>1. ASSUME NEW r \in {"withdrawn", "timeout"},
             at' = [at EXCEPT ![w].pc = "advance", ![w].reply = r]
      PROVE  OnlyMoves(w) /\ at'[w].pc = "advance" /\ at'[w].cmd = at[w].cmd /\ at'[w].reply = r
  <2>1. r \in Outcome
    BY Places
  <2>. QED
    BY <1>1, <2>1, MovedWith, Zenon
<1>2. at' = [at EXCEPT ![w].pc = "running"] =>
        OnlyMoves(w) /\ at'[w].pc = "running" /\ at'[w].cmd = at[w].cmd
  BY MovedOn, Zenon
<1>. QED
  BY <1>1, <1>2, Zenon DEF Decide, Onward

LEMMA RunnerReturnsMoves ==
  ASSUME TypeOK, NEW w \in Worker, RunnerReturns(w)
  PROVE  Onward(w) /\ at[w].pc \in {"running", "entered"}
<1>. DEFINE pc == IF at[w].pc = "running" THEN "advance" ELSE "publish"
<1>1. /\ at \in [Worker -> WorkerState] /\ {"answer", "indeterminate"} \subseteq Outcome
      /\ "advance" \in Place /\ "publish" \in Place
  BY Places DEF TypeOK
<1>2. pc \in Place
  BY <1>1, Zenon
<1>. HIDE DEF pc
<1>3. ASSUME NEW r \in {"answer", "indeterminate"}, at' = [at EXCEPT ![w].reply = r, ![w].pc = pc]
      PROVE  OnlyMoves(w) /\ at'[w].pc = pc /\ at'[w].cmd = at[w].cmd /\ at'[w].reply = r
  <2>1. r \in Outcome
    BY <1>1
  <2>. QED
    BY <1>1, <1>2, <1>3, <2>1, MovedWith, Zenon
<1>4. /\ OnlyMoves(w) /\ at'[w].pc = pc /\ at'[w].cmd = at[w].cmd
      /\ at'[w].reply \in {"answer", "indeterminate"}
  BY <1>3, Zenon DEF RunnerReturns, pc
<1>. QED
  BY <1>4 DEF RunnerReturns, Onward, pc

LEMMA PassMoves ==
  ASSUME TypeOK, NEW w \in Worker, RunnerEntered(w) \/ Advance(w)
  PROVE  /\ PassesTurn(w) /\ AdvanceEntry(at[w].cmd)
         /\ UNCHANGED <<queue, flags, in_flight, submitting, results, closer, idle, entered>>
<1>. at \in [Worker -> WorkerState] /\ "entered" \in Place /\ "publish" \in Place
  BY Places DEF TypeOK
<1>1. \A p \in {"entered", "publish"} : at' = [at EXCEPT ![w].pc = p] =>
        OnlyMoves(w) /\ at'[w].pc = p /\ at'[w].cmd = at[w].cmd /\ at'[w].reply = at[w].reply
  BY MovedOn, Zenon
<1>. QED
  BY <1>1, Zenon DEF RunnerEntered, Advance, PassesTurn

LEMMA WorkerPublishesMoves ==
  ASSUME TypeOK, NEW w \in Worker, WorkerPublishes(w)
  PROVE  /\ OnlyMoves(w) /\ at[w].pc = "publish" /\ at'[w].pc = "retire"
         /\ at'[w].cmd = at[w].cmd /\ at'[w].reply = at[w].reply /\ at[w].reply \in Outcome
<1>. at \in [Worker -> WorkerState] /\ "retire" \in Place
  BY Places DEF TypeOK
<1>1. at[w].reply \in Outcome
  BY DEF WorkerState
<1>. QED
  BY <1>1, MovedOn, Zenon DEF WorkerPublishes

LEMMA WorkerRetiresMoves ==
  ASSUME TypeOK, NEW w \in Worker, WorkerRetires(w)
  PROVE  OnlyMoves(w) /\ at[w].pc = "retire" /\ at'[w].pc = "top" /\ at'[w].cmd = NoCmd
<1>1. at \in [Worker -> WorkerState] /\ Top \in WorkerState
  BY Places DEF TypeOK, Top, WorkerState
<1>2. OnlyMoves(w) /\ at'[w] = Top
  BY <1>1, Replaced, Zenon DEF WorkerRetires
<1>. QED
  BY <1>2 DEF Top, WorkerRetires

LEMMA DequeueMoves ==
  ASSUME TypeOK, SequenceInv, NEW w \in Worker, Dequeue(w)
  PROVE  /\ at[w].pc = "top" /\ w \notin idle
         /\ \/ /\ pending # <<>> /\ pending' = Tail(pending) /\ UNCHANGED idle
               /\ OnlyMoves(w) /\ at'[w].pc = "entry" /\ at'[w].cmd = Head(pending)
            \/ /\ pending = <<>> /\ stop_requested /\ UNCHANGED <<pending, idle>>
               /\ OnlyMoves(w) /\ at'[w].pc = "exited" /\ at'[w].cmd = at[w].cmd
            \/ /\ pending = <<>> /\ ~stop_requested /\ idle' = idle \cup {w}
               /\ UNCHANGED <<pending, at>>
<1>1. at \in [Worker -> WorkerState] /\ "entry" \in Place /\ "exited" \in Place /\ "none" \in Outcome
  BY Places DEF TypeOK
<1>. DEFINE r == [pc |-> "entry", cmd |-> Head(pending), reply |-> "none"]
<1>2. r.pc = "entry" /\ r.cmd = Head(pending)
  OBVIOUS
<1>3. ASSUME pending # <<>> PROVE r \in WorkerState
  <2>1. Head(pending) \in Cmd \cup {NoCmd}
    BY <1>3, TakenOff, Zenon DEF SequenceInv, TypeOK
  <2>. QED
    BY <1>1, <2>1, Zenon DEF WorkerState
<1>4. pending # <<>> /\ at' = [at EXCEPT ![w] = r] => OnlyMoves(w) /\ at'[w] = r
  <2>. HIDE DEF r
  <2>. QED
    BY <1>1, <1>3, Replaced, Zenon
<1>5. at' = [at EXCEPT ![w].pc = "exited"] =>
        OnlyMoves(w) /\ at'[w].pc = "exited" /\ at'[w].cmd = at[w].cmd
  BY <1>1, MovedOn, Zenon
<1>. QED
  BY <1>2, <1>4, <1>5, Zenon DEF Dequeue
-----------------------------------------------------------------------------
USE DEF queue, results, flags, engine, Publish, RunHook, NotifyAll

(* What a step leaves of the half about entering when nobody enters or leaves. *)
LEMMA EnterStays ==
  ASSUME EnterInv, Inside' = Inside, order' = order, next_entry' = next_entry,
         \A c \in Inside : answer[c] # "none" => answer'[c] # "none",
         \A v \in Worker : at'[v].cmd = at[v].cmd,
         \A v \in Worker : \/ at'[v] = at[v]
                           \/ at[v].pc = "top" /\ at'[v].pc \in {"top", "exited"}
  PROVE  EnterInv'
<1>1. \A c \in Inside : Held(c)' <=> Held(c)
  BY DEF Held
<1>2. \A c \in Inside : Held(c)' \/ answer'[c] # "none"
  BY <1>1 DEF EnterInv
<1>3. ASSUME NEW c \in Inside, ~(order[c] < next_entry)
      PROVE  \E w \in Worker : at'[w].pc \in {"running", "advance"} /\ at'[w].cmd = c
  <2>1. PICK w \in Worker : at[w].pc \in {"running", "advance"} /\ at[w].cmd = c
    BY <1>3 DEF EnterInv
  <2>2. at'[w] = at[w]
    BY <2>1
  <2>. QED
    BY <2>1, <2>2
<1>4. /\ \A w \in Worker : at'[w].pc \in {"entry", "decide"} => at'[w].cmd \notin Inside
      /\ \A w \in Worker : at'[w].pc \in {"running", "entered"} => at'[w].cmd \in Inside
  BY DEF EnterInv
<1>5. \A w \in Worker : at'[w].pc \in {"advance", "publish", "retire"} =>
        /\ at'[w].reply # "none"
        /\ at'[w].reply \in {"answer", "indeterminate"} <=> at'[w].cmd \in Inside
  BY DEF EnterInv
<1>. QED
  BY <1>2, <1>3, <1>4, <1>5 DEF EnterInv

LEMMA OnwardKeeps ==
  ASSUME TurnsInv, NEW w \in Worker, Onward(w), at'[w].pc # "running",
         UNCHANGED <<queue, next_entry, submitting, answer, hooks, closer, idle, queueing, entered>>
  PROVE  TurnsInv'
<1>. USE DEF TurnsInv
<1>1. /\ UNCHANGED <<pending, entered, order, next_order, next_entry, submitting, answer>>
      /\ Queued' = Queued /\ Inside' = Inside
  BY Same
<1>2. /\ \A v \in Worker : at'[v].cmd = at[v].cmd
      /\ \A v \in Worker : v # w => at'[v] = at[v]
      /\ at[w].pc \notin {"top", "exited", "retire"} /\ at'[w].pc \notin {"top", "exited", "retire"}
  BY DEF Onward, OnlyMoves
<1>3. TypeOK'
  BY DEF TypeOK, Onward, OnlyMoves
<1>4. SequenceInv'
  BY <1>1 DEF SequenceInv
<1>5. StageInv'
  BY <1>1, <1>2 DEF StageInv, Holding, Held
<1>6. OrderInv'
  BY <1>1, <1>2 DEF OrderInv, Holding
<1>7. TurnInv'
  BY <1>1, <1>2 DEF TurnInv, Turning, Onward
<1>8. EnterInv'
  BY <1>1, <1>2 DEF EnterInv, Held, Onward
<1>9. AnswerInv'
  BY <1>1 DEF AnswerInv
<1>. QED
  BY <1>3, <1>4, <1>5, <1>6, <1>7, <1>8, <1>9

(* A command enters: it has the turn, and whoever is inside had it before. *)
LEMMA EntersKeeps ==
  ASSUME TurnsInv, NEW w \in Worker, Onward(w), at[w].pc = "decide", at'[w].pc = "running",
         entered' = Append(entered, at[w].cmd),
         UNCHANGED <<queue, next_entry, submitting, answer, hooks, closer, idle, queueing>>
  PROVE  TurnsInv'
<1>. USE DEF TurnsInv
<1>1. /\ UNCHANGED <<pending, order, next_order, next_entry, submitting, answer>>
      /\ Queued' = Queued
  BY Same
<1>2. /\ \A v \in Worker : at'[v].cmd = at[v].cmd
      /\ \A v \in Worker : v # w => at'[v] = at[v]
  BY DEF Onward, OnlyMoves
<1>3. at[w].cmd \in Cmd /\ order[at[w].cmd] = next_entry /\ at[w].cmd \notin Inside
  BY InCmd DEF StageInv, TurnInv, Turning, EnterInv
<1>4. ASSUME NEW c \in Inside PROVE order[c] < order[at[w].cmd]
  <2>1. ASSUME NEW v \in Worker, at[v].pc \in {"running", "advance"}, at[v].cmd = c
        PROVE  FALSE
    <3>1. order[at[v].cmd] = order[at[w].cmd] /\ Holding(v) /\ Holding(w)
      BY <2>1 DEF TurnInv, Turning, StageInv
    <3>. QED
      BY <2>1, <3>1 DEF OrderInv
  <2>. QED
    BY <1>3, <2>1 DEF EnterInv
<1>5. entered' \in Seq(Cmd) /\ Inside' = Inside \cup {at[w].cmd} /\ Rising(entered', order)
  <2>1. entered \in Seq(Cmd) /\ order \in [Cmd -> Nat]
    BY DEF SequenceInv, TypeOK
  <2>2. Rising(entered, order) /\ \A d \in Elements(entered) : order[d] < order[at[w].cmd]
    BY <1>4 DEF SequenceInv, Inside
  <2>. QED
    BY <1>3, <2>1, <2>2, Appended, Zenon DEF Inside
<1>6. TypeOK'
  BY DEF TypeOK, Onward, OnlyMoves
<1>7. SequenceInv'
  BY <1>1, <1>5 DEF SequenceInv
<1>8. Inside' = Inside \cup {at[w].cmd}
  BY <1>5
<1>9. StageInv'
  BY <1>1, <1>2 DEF StageInv, Holding, Held
<1>10. OrderInv'
  BY <1>1, <1>2 DEF OrderInv, Holding
<1>11. TurnInv'
  BY <1>1, <1>2 DEF TurnInv, Turning
<1>12. EnterInv'
  <2>1. \A v \in Worker : v # w /\ at[v].pc \notin {"top", "exited"} => at[v].cmd # at[w].cmd
    BY DEF OrderInv, StageInv, Holding
  <2>. QED
    BY <1>1, <1>2, <1>8, <2>1 DEF EnterInv, Held
<1>13. AnswerInv'
  <2>1. answer[at[w].cmd] = "none"
    BY DEF StageInv
  <2>. QED
    BY <1>1, <1>8, <2>1 DEF AnswerInv
<1>. QED
  BY <1>6, <1>7, <1>9, <1>10, <1>11, <1>12, <1>13

(* Steps that touch neither the queue nor the workers nor an outcome. *)
LEMMA QuietKeeps ==
  ASSUME TurnsInv, idle' \subseteq Worker, queueing' \subseteq Worker,
         closer' \in [Closer -> {"outside", "joining", "waiting", "returned"}],
         UNCHANGED <<queue, next_entry, at, submitting, answer, hooks, entered>>
  PROVE  TurnsInv'
<1>. USE DEF TurnsInv
<1>1. Queued' = Queued /\ Inside' = Inside
  BY Same
<1>2. TypeOK' /\ SequenceInv'
  BY DEF TypeOK, SequenceInv
<1>3. StageInv' /\ OrderInv'
  BY <1>1 DEF StageInv, OrderInv, Holding, Held
<1>4. TurnInv' /\ AnswerInv'
  BY <1>1 DEF TurnInv, AnswerInv
<1>5. EnterInv'
  BY <1>1 DEF EnterInv, Held
<1>. QED
  BY <1>2, <1>3, <1>4, <1>5

LEMMA AwaitEntryKeeps ==
  ASSUME TurnsInv, NEW w \in Worker, AwaitEntry(w)
  PROVE  TurnsInv'
<1>1. TypeOK /\ queueing \subseteq Worker
  BY DEF TurnsInv, TypeOK
<1>2. CASE Onward(w) /\ UNCHANGED queueing
  <2>1. at[w].pc = "entry" /\ UNCHANGED <<engine, idle>>
    BY <1>1, AwaitEntryMoves
  <2>2. at'[w].pc # "running"
    BY <1>2, <2>1 DEF Onward
  <2>. QED
    BY <1>2, <2>1, <2>2, OnwardKeeps
<1>3. CASE queueing' = queueing \cup {w} /\ UNCHANGED at
  <2>1. UNCHANGED <<engine, idle>>
    BY <1>1, AwaitEntryMoves
  <2>. QED
    BY <1>1, <1>3, <2>1, QuietKeeps DEF TurnsInv, TypeOK
<1>. QED
  BY <1>1, <1>2, <1>3, AwaitEntryMoves, Zenon

LEMMA DecideKeeps ==
  ASSUME TurnsInv, NEW w \in Worker, Decide(w)
  PROVE  TurnsInv'
<1>1. /\ Onward(w) /\ at[w].pc = "decide"
      /\ \/ at'[w].pc = "advance" /\ UNCHANGED entered
         \/ at'[w].pc = "running" /\ entered' = Append(entered, at[w].cmd)
  BY DecideMoves, Zenon DEF TurnsInv
<1>2. UNCHANGED <<queue, next_entry, submitting, answer, hooks, closer, idle, queueing>>
  BY DEF Decide
<1>3. CASE at'[w].pc = "advance" /\ UNCHANGED entered
  BY <1>1, <1>2, <1>3, OnwardKeeps
<1>4. CASE at'[w].pc = "running" /\ entered' = Append(entered, at[w].cmd)
  BY <1>1, <1>2, <1>4, EntersKeeps, Zenon
<1>. QED
  BY <1>1, <1>3, <1>4

LEMMA RunnerReturnsKeeps ==
  ASSUME TurnsInv, NEW w \in Worker, RunnerReturns(w)
  PROVE  TurnsInv'
<1>1. Onward(w) /\ at[w].pc \in {"running", "entered"}
  BY RunnerReturnsMoves DEF TurnsInv
<1>2. at'[w].pc # "running"
  BY <1>1 DEF Onward
<1>. QED
  BY <1>1, <1>2, OnwardKeeps, Zenon DEF RunnerReturns

(* The turn: only the worker that has it can pass it on. *)
LEMMA TurnPasses ==
  ASSUME TurnsInv, NEW w \in Worker, PassesTurn(w), AdvanceEntry(at[w].cmd)
  PROVE  next_entry' = next_entry + 1 /\ queueing' = {} /\ order[at[w].cmd] = next_entry
  BY DEF PassesTurn, TurnsInv, TurnInv, Turning, AdvanceEntry

LEMMA PassKeeps ==
  ASSUME TurnsInv, NEW w \in Worker, RunnerEntered(w) \/ Advance(w)
  PROVE  TurnsInv'
<1>. USE DEF TurnsInv
<1>0. /\ PassesTurn(w) /\ AdvanceEntry(at[w].cmd)
      /\ UNCHANGED <<queue, submitting, answer, hooks, closer, idle, entered>>
  BY PassMoves, ZenonT(30)
<1>1. /\ UNCHANGED <<pending, entered, order, next_order, submitting, answer, hooks, closer, idle>>
      /\ Queued' = Queued /\ Inside' = Inside
      /\ next_entry' = next_entry + 1 /\ queueing' = {}
      /\ order[at[w].cmd] = next_entry
  BY <1>0, TurnPasses, Same
<1>2. /\ at' \in [Worker -> WorkerState]
      /\ \A v \in Worker : at'[v].cmd = at[v].cmd
      /\ \A v \in Worker : v # w => at'[v] = at[v]
      /\ at'[w].reply = at[w].reply
      /\ \/ at[w].pc = "running" /\ at'[w].pc = "entered"
         \/ at[w].pc = "advance" /\ at'[w].pc = "publish"
  BY <1>0 DEF PassesTurn, OnlyMoves
<1>3. Holding(w) /\ at[w].cmd \in Cmd
  BY <1>2, InCmd DEF StageInv
<1>4. next_entry \in Nat /\ next_order \in Nat /\ order \in [Cmd -> Nat]
  BY DEF TypeOK
<1>5. \A v \in Worker : v # w /\ at[v].pc \notin {"top", "exited"} => order[at[v].cmd] # next_entry
  BY <1>1, <1>3 DEF StageInv, OrderInv
<1>6. TypeOK'
  BY <1>1, <1>2 DEF TypeOK
<1>7. SequenceInv'
  BY <1>1, SMTT(30), ZenonT(20), SMTT(60) DEF SequenceInv
<1>8. StageInv'
  BY <1>1, <1>2, <1>3, SMTT(30), ZenonT(20), SMTT(60) DEF StageInv, Holding, Held
<1>9. OrderInv'
  BY <1>1, <1>2 DEF OrderInv, Holding
<1>10. TurnInv'
  <2>1. next_entry + 1 <= next_order
    BY <1>1, <1>3, <1>4 DEF OrderInv
  <2>2. \A c \in Queued : next_entry + 1 <= order[c]
    BY <1>1, <1>3, <1>4, InCmd DEF OrderInv
  <2>3. ASSUME NEW v \in Worker, at'[v].pc = "entry" PROVE next_entry + 1 <= order[at[v].cmd]
    <3>1. v # w /\ at[v].pc = "entry" /\ order[at[v].cmd] # next_entry /\ at[v].cmd \in Cmd
      BY <2>3, <1>2, <1>5, InCmd DEF StageInv
    <3>2. next_entry <= order[at[v].cmd]
      BY <3>1 DEF TurnInv
    <3>. QED
      BY <3>1, <3>2, <1>4
  <2>4. ASSUME NEW v \in Worker PROVE at'[v].pc \notin Turning
    BY <1>2, <1>5, ZenonT(30) DEF TurnInv, Turning
  <2>. QED
    BY <2>1, <2>2, <2>3, <2>4, <1>1, <1>2 DEF TurnInv
<1>11. EnterInv'
  <2>1. ASSUME NEW c \in Inside
        PROVE  \/ order[c] < next_entry + 1
               \/ \E v \in Worker : at'[v].pc \in {"running", "advance"} /\ at'[v].cmd = c
    <3>1. order[c] \in Nat
      BY <1>4, InCmd, SMTT(30), ZenonT(20), SMTT(60)
    <3>. QED
      BY <3>1, <1>1, <1>2, <1>4 DEF EnterInv
  <2>2. \A c \in Inside : Held(c)' \/ answer'[c] # "none"
    BY <1>1, <1>2 DEF EnterInv, Held
  <2>. QED
    BY <2>1, <2>2, <1>1, <1>2, SMTT(30), ZenonT(20), SMTT(60) DEF EnterInv
<1>12. AnswerInv'
  BY <1>1 DEF AnswerInv
<1>. QED
  BY <1>6, <1>7, <1>8, <1>9, <1>10, <1>11, <1>12

LEMMA WorkerPublishesKeeps ==
  ASSUME TurnsInv, NEW w \in Worker, WorkerPublishes(w)
  PROVE  TurnsInv'
<1>. USE DEF TurnsInv
<1>1. /\ UNCHANGED <<pending, entered, order, next_order, next_entry, submitting, hooks, closer,
                     idle, queueing>>
      /\ Queued' = Queued /\ Inside' = Inside
  BY Same DEF WorkerPublishes
<1>2. /\ at[w].pc = "publish" /\ at'[w].pc = "retire"
      /\ at' \in [Worker -> WorkerState]
      /\ \A v \in Worker : at'[v].cmd = at[v].cmd
      /\ \A v \in Worker : v # w => at'[v] = at[v]
      /\ at'[w].reply = at[w].reply
      /\ at[w].reply \in Outcome
  BY WorkerPublishesMoves DEF OnlyMoves
<1>3. Holding(w) /\ at[w].cmd \in Cmd
  BY <1>2, InCmd DEF StageInv
<1>4. /\ answer' \in [Cmd -> Outcome] /\ answer'[at[w].cmd] = at[w].reply
      /\ \A c \in Cmd : c # at[w].cmd => answer'[c] = answer[c]
  BY <1>2, <1>3, ZenonT(30) DEF WorkerPublishes, TypeOK
<1>5. /\ \A v \in Worker : v # w => at[v].cmd # at[w].cmd
      /\ at[w].cmd \notin Queued /\ at[w].cmd \notin submitting
  BY <1>3, ZenonT(30) DEF OrderInv, StageInv, Holding, Held
<1>6. at[w].reply # "none" /\ (at[w].reply \in {"answer", "indeterminate"} <=> at[w].cmd \in Inside)
  BY <1>2 DEF EnterInv
<1>7. TypeOK'
  BY <1>1, <1>2, <1>4 DEF TypeOK
<1>8. SequenceInv'
  BY <1>1, SMTT(30), ZenonT(20), SMTT(60) DEF SequenceInv
<1>9. StageInv'
  <2>1. /\ \A v \in Worker : Holding(v)' <=> at'[v].pc \notin {"top", "exited"}
        /\ \A c : Held(c)' <=> Held(c)
    BY <1>1, <1>2, <1>3, SMTT(30), ZenonT(20), SMTT(60) DEF StageInv, Holding, Held
  <2>2. \A c \in submitting : answer'[c] = "none"
    BY <1>4, <1>5, ZenonT(30) DEF StageInv, TypeOK
  <2>3. \A c \in Queued : answer'[c] = "none"
    BY <1>4, <1>5, InCmd DEF StageInv
  <2>4. ASSUME NEW v \in Worker, v # w, Holding(v)
        PROVE  answer'[at[v].cmd] = answer[at[v].cmd]
    BY <1>4, <1>5, <2>4, InCmd, ZenonT(30)
  <2>. QED
    <3>1. /\ \A c \in submitting' : answer'[c] = "none" /\ c \notin Queued' /\ ~Held(c)'
          /\ \A c \in Queued' : answer'[c] = "none" /\ ~Held(c)'
      BY <1>1, <2>1, <2>2, <2>3, ZenonT(30) DEF StageInv
    <3>2. ASSUME NEW v \in Worker, v # w
          PROVE  /\ Holding(v)' /\ at'[v].pc # "retire" => answer'[at'[v].cmd] = "none"
                 /\ at'[v].pc = "retire" => answer'[at'[v].cmd] = at'[v].reply
      <4>1. at'[v] = at[v] /\ (Holding(v)' <=> Holding(v))
        BY <1>2, <3>2 DEF Holding
      <4>2. at[v].pc = "retire" => Holding(v)
        BY DEF StageInv
      <4>. QED
        BY <2>4, <3>2, <4>1, <4>2 DEF StageInv
    <3>3. at'[w].pc = "retire" /\ answer'[at'[w].cmd] = at'[w].reply
      BY <1>2, <1>4, ZenonT(30)
    <3>. QED
      BY <2>1, <3>1, <3>2, <3>3, ZenonT(30) DEF StageInv
<1>10. OrderInv'
  BY <1>1, <1>2, SMTT(30), ZenonT(20), SMTT(60) DEF OrderInv, Holding
<1>11. TurnInv'
  BY <1>1, <1>2, ZenonT(30) DEF TurnInv, Turning
<1>12. EnterInv'
  <2>1. \A c \in Inside : answer[c] # "none" => answer'[c] # "none"
    BY <1>4, <1>6, InCmd
  <2>. QED
    BY <2>1, <1>1, <1>2, SMTT(30), ZenonT(20), SMTT(60) DEF EnterInv, Held
<1>13. AnswerInv'
  BY <1>1, <1>4, <1>6 DEF AnswerInv
<1>. QED
  BY <1>7, <1>8, <1>9, <1>10, <1>11, <1>12, <1>13

LEMMA WorkerRetiresKeeps ==
  ASSUME TurnsInv, NEW w \in Worker, WorkerRetires(w)
  PROVE  TurnsInv'
<1>. USE DEF TurnsInv
<1>1. /\ UNCHANGED <<pending, entered, order, next_order, next_entry, submitting, answer, closer,
                     idle, queueing>>
      /\ Queued' = Queued /\ Inside' = Inside
  BY Same DEF WorkerRetires
<1>2. /\ at[w].pc = "retire" /\ at'[w].pc = "top" /\ at'[w].cmd = NoCmd
      /\ at' \in [Worker -> WorkerState]
      /\ \A v \in Worker : v # w => at'[v] = at[v]
  BY WorkerRetiresMoves DEF OnlyMoves
<1>3. Holding(w) /\ at[w].cmd \in Cmd /\ NoCmd \notin Cmd
  BY <1>2, InCmd, PoolAssumption DEF StageInv
<1>4. hooks' \in [Cmd -> Nat]
  BY <1>3, SMTT(30), ZenonT(20), SMTT(60) DEF WorkerRetires, TypeOK
<1>5. answer[at[w].cmd] # "none"
  BY <1>2 DEF EnterInv, StageInv
<1>6. \A c \in Cmd : (Held(c)' => Held(c)) /\ (Held(c) /\ c # at[w].cmd => Held(c)')
  BY <1>2, <1>3 DEF Held
<1>7. TypeOK'
  BY <1>1, <1>2, <1>4, ZenonT(30) DEF TypeOK
<1>8. SequenceInv'
  BY <1>1 DEF SequenceInv
<1>9. StageInv'
  <2>1. Queued \subseteq Cmd /\ submitting \subseteq Cmd
    BY InCmd, ZenonT(30) DEF TypeOK
  <2>. QED
    BY <2>1, <1>1, <1>2, <1>6 DEF StageInv, Holding
<1>10. OrderInv'
  BY <1>1, <1>2 DEF OrderInv, Holding
<1>11. TurnInv'
  <2>1. \A v \in Worker : v # w => at'[v] = at[v]
    BY <1>2
  <2>2. at'[w].pc = "top"
    BY <1>2, ZenonT(30)
  <2>. QED
    BY <1>1, <2>1, <2>2 DEF TurnInv, Turning
<1>12. EnterInv'
  <2>1. \A c \in Inside : Held(c)' \/ answer[c] # "none"
    BY <1>5, <1>6, InCmd DEF EnterInv
  <2>2. /\ at[w].pc = "retire" /\ at'[w].pc = "top"
        /\ \A v \in Worker : v # w => at'[v] = at[v]
    BY <1>2
  <2>3. \A c \in Inside :
          \/ order[c] < next_entry
          \/ \E v \in Worker : at'[v].pc \in {"running", "advance"} /\ at'[v].cmd = c
    BY <2>2 DEF EnterInv
  <2>4. \A v \in Worker :
          /\ at'[v].pc \in {"entry", "decide"} => at'[v].cmd \notin Inside
          /\ at'[v].pc \in {"running", "entered"} => at'[v].cmd \in Inside
          /\ at'[v].pc \in {"advance", "publish", "retire"} =>
               /\ at'[v].reply # "none"
               /\ at'[v].reply \in {"answer", "indeterminate"} <=> at'[v].cmd \in Inside
    BY <2>2 DEF EnterInv
  <2>. QED
    BY <2>1, <2>3, <2>4, <1>1, ZenonT(30) DEF EnterInv
<1>13. AnswerInv'
  BY <1>1, ZenonT(30) DEF AnswerInv
<1>. QED
  BY <1>7, <1>8, <1>9, <1>10, <1>11, <1>12, <1>13

LEMMA DequeueKeeps ==
  ASSUME TurnsInv, NEW w \in Worker, Dequeue(w)
  PROVE  TurnsInv'
<1>. USE DEF TurnsInv
<1>1. /\ UNCHANGED <<entered, order, next_order, next_entry, submitting, answer, hooks, closer,
                     queueing>>
      /\ Inside' = Inside
  BY Same, ZenonT(30) DEF Dequeue
<1>2. /\ at[w].pc = "top" /\ at[w].cmd = NoCmd
  BY DequeueMoves DEF StageInv, Holding
<1>3. CASE pending # <<>> /\ pending' = Tail(pending) /\ UNCHANGED idle
           /\ OnlyMoves(w) /\ at'[w].pc = "entry" /\ at'[w].cmd = Head(pending)
  <2>. DEFINE c == Head(pending)
  <2>1. /\ pending' \in Seq(Cmd) /\ c \in Cmd /\ Rising(pending', order)
        /\ Queued = Queued' \cup {c}
        /\ \A d \in Queued' : order[c] < order[d]
    BY <1>3, TakenOff, Zenon DEF SequenceInv, TypeOK, Queued
  <2>. HIDE DEF c
  <2>2. /\ at'[w].pc = "entry" /\ at'[w].cmd = c /\ c # NoCmd
        /\ at' \in [Worker -> WorkerState]
        /\ \A v \in Worker : v # w => at'[v] = at[v]
    BY <1>3, <2>1, PoolAssumption DEF OnlyMoves, c
  <2>3. c \notin Queued' /\ Queued' \subseteq Queued /\ c \in Queued /\ Queued \subseteq Cmd
    <3>1. order[c] \in Nat
      BY <2>1 DEF TypeOK
    <3>. QED
      BY <3>1, <2>1, InCmd
  <2>4. \A d \in Cmd : Held(d)' <=> Held(d) \/ d = c
    BY <1>2, <2>2, PoolAssumption DEF Held
  <2>5. TypeOK'
    BY <1>1, <1>3, <2>2 DEF TypeOK
  <2>6. SequenceInv'
    BY <1>1, <2>1, ZenonT(30) DEF SequenceInv
  <2>7. StageInv'
    <3>1. submitting \subseteq Cmd
      BY ZenonT(30) DEF TypeOK
    <3>. QED
      BY <3>1, <1>1, <1>2, <2>1, <2>2, <2>3, <2>4 DEF StageInv, Holding
  <2>8. OrderInv'
    <3>1. /\ order[c] \in Nat /\ order[c] < next_order /\ \A d \in Queued' : order[c] < order[d]
          /\ \A v \in Worker : Holding(v) => order[at[v].cmd] \in Nat /\ order[at[v].cmd] < order[c]
      BY <2>1, <2>3, InCmd, SMTT(30), ZenonT(20), SMTT(60) DEF TypeOK, OrderInv
    <3>. QED
      BY <3>1, <1>1, <1>2, <2>2, <2>3 DEF OrderInv, Holding
  <2>9. TurnInv'
    BY <1>1, <1>2, <2>2, <2>3, SMTT(30), ZenonT(20), SMTT(60) DEF TurnInv, Turning
  <2>10. EnterInv'
    <3>1. c \notin Inside
      BY <2>3, ZenonT(30) DEF EnterInv, StageInv
    <3>2. \A d \in Inside : Held(d)' \/ answer[d] # "none"
      BY <2>4, InCmd DEF EnterInv
    <3>. QED
      <4>1. ASSUME NEW d \in Inside, ~(order[d] < next_entry)
            PROVE  \E v \in Worker : at'[v].pc \in {"running", "advance"} /\ at'[v].cmd = d
        <5>1. PICK v \in Worker : at[v].pc \in {"running", "advance"} /\ at[v].cmd = d
          BY <4>1 DEF EnterInv
        <5>2. at'[v] = at[v]
          BY <1>2, <2>2, <5>1
        <5>. QED
          BY <5>1, <5>2, ZenonT(30)
      <4>2. \A v \in Worker : at'[v] = at[v] \/ (at'[v].pc = "entry" /\ at'[v].cmd \notin Inside)
        BY <2>2, <3>1
      <4>3. /\ \A v \in Worker : at'[v].pc \in {"entry", "decide"} => at'[v].cmd \notin Inside
            /\ \A v \in Worker : at'[v].pc \in {"running", "entered"} => at'[v].cmd \in Inside
        BY <4>2, ZenonT(30) DEF EnterInv
      <4>4. \A v \in Worker : at'[v].pc \in {"advance", "publish", "retire"} =>
              /\ at'[v].reply # "none"
              /\ at'[v].reply \in {"answer", "indeterminate"} <=> at'[v].cmd \in Inside
        BY <4>2 DEF EnterInv
      <4>. QED
        BY <1>1, <3>2, <4>1, <4>3, <4>4, SMTT(30), ZenonT(20), SMTT(60) DEF EnterInv
  <2>11. AnswerInv'
    BY <1>1 DEF AnswerInv
  <2>. QED
    BY <2>5, <2>6, <2>7, <2>8, <2>9, <2>10, <2>11
<1>4. CASE /\ UNCHANGED pending /\ idle' \subseteq Worker
           /\ \/ OnlyMoves(w) /\ at'[w].pc = "exited" /\ at'[w].cmd = at[w].cmd
              \/ UNCHANGED at
  <2>1. Queued' = Queued
    BY <1>4, Same
  <2>2. /\ at' \in [Worker -> WorkerState]
        /\ at'[w].pc \in {"top", "exited"}
        /\ \A v \in Worker : at'[v].cmd = at[v].cmd
        /\ \A v \in Worker : v # w => at'[v] = at[v]
    BY <1>2, <1>4 DEF OnlyMoves, TypeOK
  <2>3. TypeOK'
    BY <1>1, <1>4, <2>2 DEF TypeOK
  <2>4. SequenceInv'
    BY <1>1, <1>4, ZenonT(30) DEF SequenceInv
  <2>5. StageInv'
    BY <1>1, <1>2, <2>1, <2>2, SMTT(30), ZenonT(20), SMTT(60) DEF StageInv, Holding, Held
  <2>6. OrderInv'
    BY <1>1, <2>1, <2>2, SMTT(30), ZenonT(20), SMTT(60) DEF OrderInv, Holding
  <2>7. TurnInv'
    BY <1>1, <2>1, <2>2, ZenonT(30) DEF TurnInv, Turning
  <2>8. EnterInv'
    <3>1. \A v \in Worker : \/ at'[v] = at[v]
                            \/ at[v].pc = "top" /\ at'[v].pc \in {"top", "exited"}
      BY <1>2, <2>2
    <3>. QED
      BY <1>1, <2>2, <3>1, EnterStays
  <2>9. AnswerInv'
    BY <1>1 DEF AnswerInv
  <2>. QED
    BY <2>3, <2>4, <2>5, <2>6, <2>7, <2>8, <2>9
<1>5. idle \subseteq Worker /\ idle \cup {w} \subseteq Worker
  BY DEF TypeOK
<1>. QED
  BY <1>3, <1>4, <1>5, DequeueMoves

(* Steps that only settle a command no worker has and nobody queued. *)
LEMMA SettledKeeps ==
  ASSUME TurnsInv, NEW c \in Cmd, NEW reply \in Outcome \ {"none", "answer", "indeterminate"},
         answer[c] = "none", c \notin Queued, ~Held(c), c \notin submitting',
         submitting' \subseteq submitting,
         answer' = [answer EXCEPT ![c] = reply], RunHook(c),
         UNCHANGED <<queue, next_entry, at, idle, queueing, closer, entered>>
  PROVE  TurnsInv'
<1>. USE DEF TurnsInv
<1>1. /\ UNCHANGED <<pending, entered, order, next_order, next_entry, at, closer, idle, queueing>>
      /\ Queued' = Queued /\ Inside' = Inside
  BY Same
<1>2. /\ answer' \in [Cmd -> Outcome] /\ answer'[c] = reply
      /\ \A d \in Cmd : d # c => answer'[d] = answer[d]
      /\ hooks' \in [Cmd -> Nat]
  BY SMTT(30), ZenonT(20), SMTT(60) DEF TypeOK
<1>3. c \notin Inside
  BY DEF EnterInv
<1>4. TypeOK'
  BY <1>1, <1>2 DEF TypeOK
<1>5. SequenceInv'
  BY <1>1, ZenonT(30) DEF SequenceInv
<1>6. StageInv'
  <2>1. submitting \subseteq Cmd /\ Queued \subseteq Cmd
    BY InCmd, ZenonT(30) DEF TypeOK
  <2>2. \A w \in Worker : Holding(w) => at[w].cmd \in Cmd /\ at[w].cmd # c
    BY InCmd, ZenonT(30) DEF Held
  <2>3. /\ \A d \in submitting' : answer'[d] = "none" /\ d \notin Queued /\ ~Held(d)
        /\ \A d \in Queued : answer'[d] = "none" /\ ~Held(d)
    BY <1>2, <2>1, ZenonT(30) DEF StageInv
  <2>4. /\ \A w \in Worker : Holding(w) /\ at[w].pc # "retire" => answer'[at[w].cmd] = "none"
        /\ \A w \in Worker : at[w].pc = "retire" => answer'[at[w].cmd] = at[w].reply
    BY <1>2, <2>2, ZenonT(30) DEF StageInv
  <2>. QED
    BY <2>3, <2>4, <1>1 DEF StageInv, Holding, Held
<1>7. OrderInv'
  BY <1>1, ZenonT(30) DEF OrderInv, Holding
<1>8. TurnInv'
  BY <1>1, ZenonT(30) DEF TurnInv
<1>9. EnterInv'
  <2>1. \A d \in Inside : answer'[d] = answer[d]
    BY <1>2, <1>3, InCmd, ZenonT(30)
  <2>. QED
    BY <2>1, <1>1, EnterStays
<1>10. AnswerInv'
  BY <1>1, <1>2, <1>3 DEF AnswerInv
<1>. QED
  BY <1>4, <1>5, <1>6, <1>7, <1>8, <1>9, <1>10

LEMMA AdmitKeeps ==
  ASSUME TurnsInv, NEW c \in Cmd, Admit(c)
  PROVE  TurnsInv'
<1>. USE DEF TurnsInv
<1>1. answer[c] = "none" /\ c \notin submitting /\ c \notin Queued /\ ~Held(c)
  BY AdmittedMeans, Zenon DEF Admit
<1>2. CASE /\ submitting' = submitting \cup {c} /\ UNCHANGED <<answer, hooks>>
  <2>1. /\ UNCHANGED <<pending, entered, order, next_order, next_entry, at, closer, idle, queueing>>
        /\ Queued' = Queued /\ Inside' = Inside
    BY Same DEF Admit
  <2>2. TypeOK'
    BY <1>2, <2>1 DEF TypeOK
  <2>3. SequenceInv'
    BY <2>1, ZenonT(30) DEF SequenceInv
  <2>4. StageInv'
    BY <1>1, <1>2, <2>1, ZenonT(30) DEF StageInv, Holding, Held
  <2>5. OrderInv'
    BY <2>1, ZenonT(30) DEF OrderInv, Holding
  <2>6. TurnInv'
    BY <2>1, ZenonT(30) DEF TurnInv
  <2>7. EnterInv'
    BY <1>2, <2>1 DEF EnterInv, Held
  <2>8. AnswerInv'
    BY <1>2, <2>1 DEF AnswerInv
  <2>. QED
    BY <2>2, <2>3, <2>4, <2>5, <2>6, <2>7, <2>8
<1>3. CASE Publish(c, "overloaded") /\ RunHook(c) /\ UNCHANGED submitting
  <2>1. "overloaded" \in Outcome \ {"none", "answer", "indeterminate"}
    BY DEF Outcome
  <2>2. UNCHANGED <<queue, next_entry, at, idle, queueing, closer, entered>>
    BY DEF Admit
  <2>. QED
    BY <1>1, <1>3, <2>1, <2>2, SettledKeeps, Zenon
<1>. QED
  BY <1>2, <1>3, Zenon DEF Admit

LEMMA SubmitKeeps ==
  ASSUME TurnsInv, NEW c \in Cmd, Submit(c)
  PROVE  TurnsInv'
<1>. USE DEF TurnsInv
<1>1. answer[c] = "none" /\ c \in submitting /\ c \notin Queued /\ ~Held(c)
  BY DEF Submit, StageInv
<1>2. /\ submitting' = submitting \ {c}
      /\ UNCHANGED <<next_entry, at, queueing, closer, entered>>
      /\ Inside' = Inside
  BY Same DEF Submit
<1>3. CASE stop_requested
  <2>1. "closed" \in Outcome \ {"none", "answer", "indeterminate"}
    BY ZenonT(30) DEF Outcome
  <2>2. Publish(c, "closed") /\ RunHook(c) /\ UNCHANGED <<queue, idle>>
    BY <1>3 DEF Submit
  <2>. QED
    BY <1>1, <1>2, <2>1, <2>2, SettledKeeps, Zenon
<1>4. CASE ~stop_requested
  <2>1. /\ pending' = Append(pending, c)
        /\ order' = [order EXCEPT ![c] = next_order]
        /\ next_order' = next_order + 1
        /\ UNCHANGED <<answer, hooks>>
    BY <1>4, Zenon DEF Submit
  <2>2. idle' \subseteq Worker
    <3>1. idle' \in NotifyOne(idle) /\ idle \subseteq Worker
      BY <1>4 DEF Submit, TypeOK
    <3>. QED
      BY <3>1 DEF NotifyOne
  <2>3. /\ order' \in [Cmd -> Nat] /\ order'[c] = next_order
        /\ \A d \in Cmd : d # c => order'[d] = order[d]
        /\ next_order' \in Nat
    BY <2>1, SMTT(30), ZenonT(20), SMTT(60) DEF TypeOK
  (* The new number is above those in the queue, and c is not inside. *)
  <2>4. c \notin Inside
    BY <1>1, ZenonT(30) DEF EnterInv
  <2>5. /\ \A d \in Queued : d \in Cmd /\ order'[d] = order[d]
        /\ \A d \in Inside : d \in Cmd /\ order'[d] = order[d]
        /\ \A w \in Worker : Holding(w) => at[w].cmd \in Cmd /\ order'[at[w].cmd] = order[at[w].cmd]
    BY <1>1, <2>3, <2>4, InCmd DEF Held
  <2>6. Rising(pending, order') /\ Rising(entered, order')
    BY <2>5, Zenon DEF SequenceInv, Rising, Queued, Inside, Elements
  <2>7. pending' \in Seq(Cmd) /\ Queued' = Queued \cup {c} /\ Rising(pending', order')
    <3>1. pending \in Seq(Cmd)
      BY SMTT(30), ZenonT(20), SMTT(60) DEF SequenceInv
    <3>2. \A d \in Elements(pending) : order'[d] < order'[c]
      BY <2>3, <2>5 DEF OrderInv, Queued
    <3>. QED
      BY <2>1, <2>3, <2>6, <3>1, <3>2, Appended, Zenon DEF Queued
  <2>8. TypeOK'
    BY <1>2, <2>1, <2>2, <2>3 DEF TypeOK
  <2>9. SequenceInv'
    BY <1>2, <2>6, <2>7 DEF SequenceInv
  <2>. Queued' = Queued \cup {c}
    BY <2>7, ZenonT(30)
  <2>10. StageInv'
    BY <1>1, <1>2, <2>1 DEF StageInv, Holding, Held
  <2>. next_order \in Nat /\ next_entry \in Nat /\ order \in [Cmd -> Nat]
    BY SMTT(30), ZenonT(20), SMTT(60) DEF TypeOK
  <2>11. OrderInv'
    <3>1. /\ \A d \in Queued : order'[d] = order[d] /\ order[d] \in Nat /\ order[d] < next_order
          /\ \A w \in Worker : Holding(w) => /\ order'[at[w].cmd] = order[at[w].cmd]
                                            /\ order[at[w].cmd] \in Nat
                                            /\ order[at[w].cmd] < next_order
      BY <2>5, ZenonT(30) DEF OrderInv
    <3>2. /\ \A d \in Queued' : order'[d] < next_order'
          /\ \A w \in Worker : Holding(w) => order'[at[w].cmd] < next_order'
      BY <2>1, <2>3, <3>1
    <3>3. \A w \in Worker, d \in Queued' : Holding(w) => order'[at[w].cmd] < order'[d]
      BY <2>3, <3>1, ZenonT(30) DEF OrderInv
    <3>4. \A w, v \in Worker :
            Holding(w) /\ Holding(v) /\ order'[at[w].cmd] = order'[at[v].cmd] => w = v
      BY <3>1 DEF OrderInv
    <3>5. \A w \in Worker : at'[w] = at[w] /\ (Holding(w)' <=> Holding(w))
      BY <1>2, ZenonT(30) DEF Holding
    <3>. QED
      BY <3>2, <3>3, <3>4, <3>5, ZenonT(30) DEF OrderInv
  <2>12. TurnInv'
    <3>1. \A w \in Worker : at[w].pc \in Turning \cup {"entry"} => Holding(w)
      BY ZenonT(30) DEF StageInv, Turning
    <3>. QED
      <4>1. next_entry' <= next_order' /\ \A d \in Queued' : next_entry' <= order'[d]
        BY <1>2, <2>1, <2>3, <2>5, SMTT(30), ZenonT(20), SMTT(60) DEF TurnInv
      <4>2. \A w \in Worker : at[w].pc \in Turning \cup {"entry"} =>
              order'[at[w].cmd] = order[at[w].cmd]
        BY <2>5, <3>1
      <4>. QED
        BY <1>2, <4>1, <4>2, ZenonT(30) DEF TurnInv, Turning
  <2>13. EnterInv'
    BY <1>2, <2>1, <2>5 DEF EnterInv, Held
  <2>14. AnswerInv'
    BY <1>2, <2>1 DEF AnswerInv
  <2>. QED
    BY <2>8, <2>9, <2>10, <2>11, <2>12, <2>13, <2>14
<1>. QED
  BY <1>3, <1>4, ZenonT(30)

LEMMA CloserTyped ==
  ASSUME TypeOK, NEW k \in Closer, CloseBegin(k) \/ CloseEnd(k)
  PROVE  /\ closer' \in [Closer -> {"outside", "joining", "waiting", "returned"}]
         /\ idle' \subseteq Worker /\ queueing' \subseteq Worker
         /\ UNCHANGED <<queue, next_entry, at, submitting, results, entered>>
<1>1. \E p \in {"joining", "waiting", "returned"} : closer' = [closer EXCEPT ![k] = p]
  BY Zenon DEF CloseBegin, CloseEnd
<1>2. closer' \in [Closer -> {"outside", "joining", "waiting", "returned"}]
  BY <1>1 DEF TypeOK
<1>3. (idle' = {} \/ idle' = idle) /\ (queueing' = {} \/ queueing' = queueing)
  BY Zenon DEF CloseBegin, CloseEnd
<1>4. UNCHANGED <<queue, next_entry, at, submitting, results, entered>>
  BY Zenon DEF CloseBegin, CloseEnd
<1>. QED
  BY <1>2, <1>3, <1>4 DEF TypeOK

LEMMA TurnsStart == Init => TurnsInv
<1>. SUFFICES ASSUME Init PROVE TurnsInv
  OBVIOUS
<1>1. Queued = {} /\ Inside = {}
  BY DEF Init, Queued, Inside, Elements
<1>2. TypeOK
  BY DEF Init, TypeOK, Top, WorkerState, Place, Outcome
<1>3. SequenceInv
  BY DEF Init, SequenceInv, Rising
<1>4. \A w \in Worker : at[w].pc = "top" /\ at[w].cmd = NoCmd
  BY DEF Init, Top
<1>5. submitting = {} /\ next_order = 0 /\ next_entry = 0 /\ \A c \in Cmd : answer[c] = "none"
  BY ZenonT(30) DEF Init
<1>6. StageInv /\ OrderInv /\ TurnInv /\ EnterInv /\ AnswerInv
  BY <1>1, <1>4, <1>5 DEF StageInv, OrderInv, TurnInv, Turning, EnterInv, AnswerInv, Holding
<1>. QED
  BY <1>2, <1>3, <1>6 DEF TurnsInv

LEMMA TurnsStep == TurnsInv /\ [Next]_vars => TurnsInv'
<1>. SUFFICES ASSUME TurnsInv, [Next]_vars PROVE TurnsInv'
  OBVIOUS
<1>0. /\ idle \subseteq Worker /\ queueing \subseteq Worker /\ TypeOK
      /\ closer \in [Closer -> {"outside", "joining", "waiting", "returned"}]
  BY DEF TurnsInv, TypeOK
<1>1. ASSUME NEW c \in Cmd, Admit(c) PROVE TurnsInv'
  BY <1>1, AdmitKeeps
<1>2. ASSUME NEW c \in Cmd, Submit(c) PROVE TurnsInv'
  BY <1>2, SubmitKeeps
<1>3. ASSUME NEW c \in Cmd, RequestCancel(c) PROVE TurnsInv'
  BY <1>0, <1>3, QuietKeeps, ZenonT(30) DEF RequestCancel
<1>4. ASSUME NEW c \in Cmd, Observe(c) PROVE TurnsInv'
  BY <1>0, <1>4, QuietKeeps DEF Observe
<1>5. ASSUME NEW w \in Worker, Work(w) PROVE TurnsInv'
  BY <1>5, DequeueKeeps, AwaitEntryKeeps, DecideKeeps, RunnerReturnsKeeps, PassKeeps,
     WorkerPublishesKeeps, WorkerRetiresKeeps, Zenon DEF Work
<1>6. ASSUME NEW w \in Worker, RunnerEntered(w) PROVE TurnsInv'
  BY <1>6, PassKeeps
<1>7. CASE RequestStop
  BY <1>0, <1>7, QuietKeeps DEF RequestStop
<1>8. ASSUME NEW k \in Closer, CloseBegin(k) \/ CloseEnd(k) PROVE TurnsInv'
  BY <1>0, <1>8, CloserTyped, QuietKeeps, SMTT(30), ZenonT(20), SMTT(60)
<1>9. CASE UNCHANGED vars
  BY <1>0, <1>9, QuietKeeps DEF vars
<1>. QED
  BY <1>1, <1>2, <1>3, <1>4, <1>5, <1>6, <1>7, <1>8, <1>9, Zenon DEF Next

LEMMA TurnsInvImplies == TurnsInv => TurnsKept
<1>. SUFFICES ASSUME TurnsInv PROVE TurnsKept
  OBVIOUS
<1>1. \A i, j \in DOMAIN entered : i < j => order[entered[i]] < order[entered[j]]
  BY SMTT(30), ZenonT(20), SMTT(60) DEF TurnsInv, SequenceInv, Rising
<1>2. ASSUME NEW w \in Worker, NEW v \in Worker, {at[w].pc, at[v].pc} \subseteq {"decide", "running"}
      PROVE  w = v
  <2>1. Holding(w) /\ Holding(v) /\ order[at[w].cmd] = next_entry /\ order[at[v].cmd] = next_entry
    BY <1>2 DEF TurnsInv, StageInv, TurnInv, Turning
  <2>. QED
    BY <2>1, ZenonT(30) DEF TurnsInv, OrderInv
<1>3. DeliveryHonest
  BY Zenon DEF TurnsInv, AnswerInv, DeliveryHonest, Inside, Elements
<1>. QED
  BY <1>1, <1>2, <1>3 DEF TurnsKept, EntryOrder

(***************************************************************************)
(* Commands enter the transport one at a time in the order in which they   *)
(* were queued, and a command is reported as not started exactly if it     *)
(* never entered, for every number of commands, workers and closing        *)
(* threads (CommandEngine, worker_main and EntryGuard).                    *)
(***************************************************************************)
THEOREM TurnsAlwaysKept == Spec => []TurnsKept
  BY TurnsStart, TurnsStep, TurnsInvImplies, PTL DEF Spec
=============================================================================
