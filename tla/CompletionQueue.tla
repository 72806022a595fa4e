--------------------------- MODULE CompletionQueue ---------------------------
(***************************************************************************)
(* The completion queue (src/completion_queue.cpp): registered callbacks,  *)
(* the ready ones threaded into a doubly linked list through the records   *)
(* themselves, one dispatcher at a time, and a self-pipe that is readable  *)
(* exactly when a waiter would be released.  Each critical section of the  *)
(* core's mutex is one action; the claim of the `dispatching` flag, which  *)
(* is taken before the mutex, and the callback, which runs without it, are *)
(* steps of their own.  A token is a number, 0 is the absent one.          *)
(***************************************************************************)
EXTENDS Integers, Sequences, FiniteSets, Functions

CONSTANTS
  Thread,    \* threads that dispatch, discard or wait
  MaxToken   \* bound on the tokens handed out in a behaviour

Token == 1 .. MaxToken
None == 0

VARIABLES
  records,                 \* token -> Record
  ready_head, ready_tail, ready_count, last_ready_generation,
  next_token, closed, finished, dispatching,
  pipe,                    \* whether the self-pipe could be made
  wake_armed,
  reserved,                \* tokens from next_token() not yet registered
  at,                      \* where each thread is
  parked,                  \* threads asleep on ready_changed
  fate                     \* history: how a registered record left

list == <<ready_head, ready_tail, ready_count, last_ready_generation>>
vars == <<records, list, next_token, closed, finished, dispatching, pipe,
          wake_armed, reserved, at, parked, fate>>

NewRecord == [enqueued |-> FALSE, ready_generation |-> 0,
              previous_ready |-> None, next_ready |-> None]

Outside == [pc |-> "outside", left |-> 0, cutoff |-> 0, batch |-> {}]

Init ==
  /\ records = [t \in {} |-> NewRecord]
  /\ ready_head = None /\ ready_tail = None
  /\ ready_count = 0 /\ last_ready_generation = 0
  /\ next_token = 1
  /\ closed = FALSE /\ finished = FALSE /\ dispatching = FALSE
  /\ pipe \in BOOLEAN
  /\ wake_armed = FALSE
  /\ reserved = {}
  /\ at = [d \in Thread |-> Outside]
  /\ parked = {}
  /\ fate = [t \in Token |-> "none"]
-----------------------------------------------------------------------------
Enqueued == {t \in DOMAIN records : records[t].enqueued}

(* refresh_wake_locked: the level of the self-pipe follows ready_locked. *)
Refreshed(count, isFinished, isClosed) ==
  pipe /\ (count # 0 \/ isFinished \/ isClosed)

Linked(recs, t) ==
  LET last == [recs EXCEPT ![t].enqueued = TRUE,
                           ![t].ready_generation = last_ready_generation + 1,
                           ![t].previous_ready = ready_tail]
  IN  IF ready_tail = None THEN last ELSE [last EXCEPT ![ready_tail].next_ready = t]

MutNotifyAll(asleep) == asleep

NotifyAll(asleep) == {}

(* link_ready and the notification its callers send once the lock is free. *)
LinkReady(recs, t) ==
  /\ records' = Linked(recs, t)
  /\ last_ready_generation' = last_ready_generation + 1
  /\ ready_head' = IF ready_tail = None THEN t ELSE ready_head
  /\ ready_tail' = t
  /\ ready_count' = ready_count + 1
  /\ wake_armed' = Refreshed(ready_count', finished, closed)
  /\ parked' = NotifyAll(parked)

Unlinked(t) ==
  LET p == records[t].previous_ready
      n == records[t].next_ready
      before == IF p = None THEN records ELSE [records EXCEPT ![p].next_ready = n]
  IN  IF n = None THEN before ELSE [before EXCEPT ![n].previous_ready = p]

(* unlink_ready, then the record is extracted. *)
UnlinkReady(t) ==
  /\ records' = Restrict(Unlinked(t), DOMAIN records \ {t})
  /\ ready_head' = IF records[t].previous_ready = None
                   THEN records[t].next_ready ELSE ready_head
  /\ ready_tail' = IF records[t].next_ready = None
                   THEN records[t].previous_ready ELSE ready_tail
  /\ ready_count' = ready_count - 1
  /\ wake_armed' = Refreshed(ready_count', finished, closed)
  /\ UNCHANGED last_ready_generation

MutClaimReady ==
  /\ UnlinkReady(ready_tail)
  /\ fate' = [fate EXCEPT ![ready_tail] = "claimed"]

ClaimReady ==
  /\ UnlinkReady(ready_head)
  /\ fate' = [fate EXCEPT ![ready_head] = "claimed"]
-----------------------------------------------------------------------------
NextToken ==
  /\ next_token <= MaxToken
  /\ next_token' = next_token + 1
  /\ reserved' = reserved \cup {next_token}
  /\ UNCHANGED <<records, list, closed, finished, dispatching, pipe, wake_armed,
                 at, parked, fate>>

(* register_record: refused once the queue is closed. *)
RegisterRecord(t) ==
  /\ t \in reserved
  /\ reserved' = reserved \ {t}
  /\ IF closed THEN UNCHANGED records
               ELSE records' = [u \in DOMAIN records \cup {t} |->
                                  IF u = t THEN NewRecord ELSE records[u]]
  /\ UNCHANGED <<list, next_token, closed, finished, dispatching, pipe, wake_armed,
                 at, parked, fate>>

PushReady ==
  /\ next_token <= MaxToken
  /\ ~closed
  /\ next_token' = next_token + 1
  /\ LinkReady([u \in DOMAIN records \cup {next_token} |->
                  IF u = next_token THEN NewRecord ELSE records[u]], next_token)
  /\ UNCHANGED <<closed, finished, dispatching, pipe, reserved, at, fate>>

(***************************************************************************)
(* The mailbox's enqueue; a token that is closed out, unknown or already   *)
(* enqueued is refused and changes nothing.                                *)
(***************************************************************************)
Enqueue(t) ==
  /\ ~closed
  /\ t \in DOMAIN records
  /\ ~records[t].enqueued
  /\ LinkReady(records, t)
  /\ UNCHANGED <<next_token, closed, finished, dispatching, pipe, reserved, at, fate>>

Detach(t) ==
  /\ t \in DOMAIN records
  /\ IF records[t].enqueued
     THEN UnlinkReady(t)
     ELSE /\ records' = Restrict(records, DOMAIN records \ {t})
          /\ UNCHANGED <<list, wake_armed>>
  /\ fate' = [fate EXCEPT ![t] = "dropped"]
  /\ UNCHANGED <<next_token, closed, finished, dispatching, pipe, reserved, at, parked>>

Finish ==
  /\ ~finished
  /\ finished' = TRUE
  /\ wake_armed' = Refreshed(ready_count, TRUE, closed)
  /\ parked' = NotifyAll(parked)
  /\ UNCHANGED <<records, list, next_token, closed, dispatching, pipe, reserved, at,
                 fate>>

Close ==
  /\ ~closed
  /\ closed' = TRUE
  /\ ready_head' = None /\ ready_tail' = None /\ ready_count' = 0
  /\ wake_armed' = Refreshed(0, finished, TRUE)
  /\ records' = [t \in {} |-> NewRecord]
  /\ fate' = [t \in Token |-> IF t \in DOMAIN records THEN "dropped" ELSE fate[t]]
  /\ parked' = NotifyAll(parked)
  /\ UNCHANGED <<last_ready_generation, next_token, finished, dispatching, pipe,
                 reserved, at>>
-----------------------------------------------------------------------------
core == <<records, list, next_token, closed, finished, pipe, wake_armed, reserved, fate>>

Go(d, pc) == at' = [at EXCEPT ![d].pc = pc]

(* DispatchClaim's compare-and-exchange. *)
Available == ~dispatching

(* The claim; a call that does not get it returns at once. *)
BeginDispatch(d) ==
  /\ at[d].pc = "outside"
  /\ IF Available
     THEN /\ dispatching' = TRUE
          /\ \E pc \in {"run_one", "run_ready", "discard"} : Go(d, pc)
     ELSE UNCHANGED <<dispatching, at>>
  /\ UNCHANGED <<core, parked>>

EndDispatch(d) ==
  /\ at' = [at EXCEPT ![d] = Outside]
  /\ dispatching' = FALSE

RunOne(d) ==
  /\ at[d].pc = "run_one"
  /\ d \notin parked
  /\ \/ /\ ready_count # 0
        /\ ClaimReady
        /\ Go(d, "calling_one")
        /\ UNCHANGED <<next_token, closed, finished, dispatching, pipe, reserved, parked>>
     \/ /\ ready_count = 0 /\ (closed \/ finished)
        /\ EndDispatch(d)
        /\ UNCHANGED <<core, parked>>
     \/ /\ ready_count = 0 /\ ~closed /\ ~finished
        /\ parked' = parked \cup {d}
        /\ UNCHANGED <<core, at, dispatching>>

(* run_ready notes how much is ready and how far the generations have come. *)
RunReadyBegin(d) ==
  /\ at[d].pc = "run_ready"
  /\ at' = [at EXCEPT ![d] = [pc |-> "batch", left |-> ready_count,
                              cutoff |-> last_ready_generation, batch |-> Enqueued]]
  /\ UNCHANGED <<core, dispatching, parked>>

MutInBatch(d) == at[d].left > 0 /\ ready_head # None

InBatch(d) ==
  /\ at[d].left > 0
  /\ ready_head # None
  /\ records[ready_head].ready_generation <= at[d].cutoff

RunReadyStep(d) ==
  /\ at[d].pc = "batch"
  /\ \/ /\ InBatch(d)
        /\ ClaimReady
        /\ at' = [at EXCEPT ![d].pc = "calling", ![d].left = @ - 1]
        /\ UNCHANGED <<next_token, closed, finished, dispatching, pipe, reserved, parked>>
     \/ /\ ~InBatch(d)
        /\ EndDispatch(d)
        /\ UNCHANGED <<core, parked>>

(* The callback returns; run_one is done, run_ready goes on with its batch. *)
CallbackReturns(d) ==
  \/ /\ at[d].pc = "calling_one"
     /\ EndDispatch(d)
     /\ UNCHANGED <<core, parked>>
  \/ /\ at[d].pc = "calling"
     /\ Go(d, "batch")
     /\ UNCHANGED <<core, dispatching, parked>>

(* It throws: the claim is released on the way out. *)
CallbackThrows(d) ==
  /\ at[d].pc = "calling"
  /\ EndDispatch(d)
  /\ UNCHANGED <<core, parked>>

(* discard_ready claims until nothing is ready and then destroys the lot. *)
DiscardReady(d) ==
  /\ at[d].pc = "discard"
  /\ records' = Restrict(records, DOMAIN records \ Enqueued)
  /\ ready_head' = None /\ ready_tail' = None /\ ready_count' = 0
  /\ wake_armed' = Refreshed(0, finished, closed)
  /\ fate' = [t \in Token |-> IF t \in Enqueued THEN "dropped" ELSE fate[t]]
  /\ Go(d, "destroying")
  /\ UNCHANGED <<last_ready_generation, next_token, closed, finished, dispatching,
                 pipe, reserved, parked>>

DiscardEnds(d) ==
  /\ at[d].pc = "destroying"
  /\ EndDispatch(d)
  /\ UNCHANGED <<core, parked>>

(* The predicate wait_ready and run_one sleep on (ready_locked). *)
Releasing == ready_count # 0 \/ finished \/ closed

WaitReady(d) ==
  /\ at[d].pc = "outside"
  /\ ~Releasing
  /\ Go(d, "waiting")
  /\ parked' = parked \cup {d}
  /\ UNCHANGED <<core, dispatching>>

WaitResumes(d) ==
  /\ at[d].pc = "waiting"
  /\ d \notin parked
  /\ IF Releasing THEN Go(d, "outside") /\ UNCHANGED parked
                  ELSE parked' = parked \cup {d} /\ UNCHANGED at
  /\ UNCHANGED <<core, dispatching>>

WaitTimesOut(d) ==
  /\ at[d].pc = "waiting"
  /\ Go(d, "outside")
  /\ parked' = parked \ {d}
  /\ UNCHANGED <<core, dispatching>>

Moves(d) ==
  RunOne(d) \/ RunReadyBegin(d) \/ RunReadyStep(d) \/ CallbackReturns(d)
  \/ DiscardReady(d) \/ DiscardEnds(d) \/ WaitResumes(d)

Next ==
  \/ NextToken \/ PushReady \/ Finish \/ Close
  \/ \E t \in Token : RegisterRecord(t) \/ Enqueue(t) \/ Detach(t)
  \/ \E d \in Thread : \/ BeginDispatch(d) \/ WaitReady(d)
                       \/ CallbackThrows(d) \/ WaitTimesOut(d) \/ Moves(d)

Spec == Init /\ [][Next]_vars

(***************************************************************************)
(* Threads inside a call are scheduled, and callbacks return.              *)
(***************************************************************************)
FairSpec == Spec /\ \A d \in Thread : WF_vars(Moves(d))
-----------------------------------------------------------------------------
(***************************************************************************)
(* The list walked from its head, no further than it can be long.          *)
(***************************************************************************)
Walk ==
  LET From[n \in 0 .. MaxToken, t \in Token \cup {None}] ==
        IF n = 0 \/ t = None \/ t \notin DOMAIN records THEN <<>>
        ELSE <<t>> \o From[n - 1, records[t].next_ready]
  IN  From[MaxToken, ready_head]

(***************************************************************************)
(* Unlinking from the middle, from either end and of the only element      *)
(* keeps one list: it links exactly the enqueued records both ways, oldest *)
(* generation first, and ready_count counts it.                            *)
(***************************************************************************)
ListWellFormed ==
  LET w == Walk
      n == Len(w)
  IN  /\ {w[i] : i \in 1 .. n} = Enqueued
      /\ n = Cardinality(Enqueued) /\ n = ready_count
      /\ \A i \in 1 .. n - 1 :
           records[w[i]].ready_generation < records[w[i + 1]].ready_generation
      /\ \A i \in 1 .. n :
           records[w[i]].previous_ready = IF i = 1 THEN None ELSE w[i - 1]
      /\ ready_tail = IF n = 0 THEN None ELSE w[n]

(***************************************************************************)
(* The comment at completion_queue.cpp:100: a poller and a blocked waiter  *)
(* never disagree about whether there is work.                             *)
(***************************************************************************)
DescriptorAgrees == pipe => (wake_armed <=> Releasing)

(***************************************************************************)
(* The list, its count and the descriptor say the same.                    *)
(***************************************************************************)
ListAndDescriptor == ListWellFormed /\ DescriptorAgrees

(***************************************************************************)
(* run_ready claims only what was ready when it took its snapshot, so a    *)
(* callback that makes more work ready cannot keep it going, and what was  *)
(* ready then and is neither detached nor closed out is claimed before it  *)
(* ends normally.                                                          *)
(***************************************************************************)
BatchExact ==
  [][\A d \in Thread : at[d].pc = "batch" =>
       /\ at'[d].pc = "calling" =>
            {t \in Token : fate[t] # fate'[t]} \subseteq at[d].batch
       /\ at'[d].pc = "outside" => at[d].batch \cap Enqueued = {}]_vars

Stage ==
  [t \in Token |->
     IF t \in DOMAIN records THEN (IF records[t].enqueued THEN "ready" ELSE "held")
     ELSE IF fate[t] = "none" THEN "unknown" ELSE fate[t]]

(***************************************************************************)
(* The linked list is a FIFO of records that leave exactly once: every     *)
(* step is a step of ReadyQueue.                                           *)
(***************************************************************************)
Abstract == INSTANCE ReadyQueue WITH stage <- Stage, queue <- Walk, open <- ~closed

IsReadyQueue == Abstract!Spec

(***************************************************************************)
(* No wake-up is lost: once the queue has finished or closed no thread     *)
(* stays inside run_one or wait_ready, and a thread in run_one never       *)
(* sleeps for good over ready work.                                        *)
(***************************************************************************)
Stuck(d) ==
  \/ at[d].pc \in {"run_one", "waiting"} /\ (closed \/ finished)
  \/ at[d].pc = "run_one" /\ ready_count # 0

WaitersLeave == \A d \in Thread : []<>~Stuck(d)
=============================================================================
