--------------------------- MODULE OperationState ---------------------------
(***************************************************************************)
(* Operations and the completion queue they deliver through                *)
(* (src/operation_state.hpp): the transport publishes one outcome and      *)
(* retires, the owner of the handle drops it, waits on it or turns it into *)
(* a subscription, and the admission slot is given back once both sides    *)
(* are done.  Each critical section is one action; the mailbox's enqueue,  *)
(* the destruction of a dropped record and release_admission run after the *)
(* lock is free and are steps of their own.  The queue is the one that     *)
(* ReadyQueue specifies, with one record per operation.                    *)
(***************************************************************************)
EXTENDS Naturals, FiniteSets

CONSTANTS
  Op,              \* the operations that may be made
  OperationLimit   \* operation_limit_ of the admission channel

ASSUME LimitAssumption == OperationLimit \in Nat

VARIABLES
  outcome,             \* outcome_
  observer,            \* observer_
  transport,           \* transport_
  admission_released,  \* admission_released_
  channel,             \* whether the hooks are the channel's
  relay,               \* the OperationRelay's flags
  record,              \* the observer record: a ReadyQueue stage, or "spent"
  owner,               \* where the holder of the handle is
  asleep,              \* whether it sleeps on outcome_changed_
  to_enqueue,          \* the source has a token it has yet to enqueue
  to_detach,           \* a lease is being destroyed and has yet to detach
  to_release,          \* release_admission calls still to be made
  in_flight,           \* in_flight_ of the channel
  queue_open,          \* the completion queue is not closed
  calls                \* history: how often the callback was run

state == <<outcome, observer, transport, admission_released>>
pending == <<to_enqueue, to_detach, to_release>>
vars == <<state, channel, relay, record, owner, asleep, pending, in_flight, queue_open,
          calls>>

Relay == [cancellation_requested |-> FALSE, outcome_published |-> FALSE,
          retired |-> FALSE, observing |-> FALSE]

Init ==
  /\ outcome = [o \in Op |-> "none"]
  /\ observer = [o \in Op |-> "unselected"]
  /\ transport = [o \in Op |-> "queued"]
  /\ admission_released = [o \in Op |-> FALSE]
  /\ channel = [o \in Op |-> FALSE]
  /\ relay = [o \in Op |-> Relay]
  /\ record = [o \in Op |-> "unknown"]
  /\ owner = [o \in Op |-> "none"]
  /\ asleep = [o \in Op |-> FALSE]
  /\ to_enqueue = [o \in Op |-> FALSE]
  /\ to_detach = [o \in Op |-> FALSE]
  /\ to_release = [o \in Op |-> 0]
  /\ in_flight = 0
  /\ queue_open = TRUE
  /\ calls = [o \in Op |-> 0]
-----------------------------------------------------------------------------
Set(f, o, v) == [f EXCEPT ![o] = v]

Finished(phase) == phase \in {"detached", "delivered"}

MutReleases(o, seen, phase) == phase = "retired" /\ Finished(seen)

(* release_hook_locked for the phases the caller has just written. *)
Releases(o, seen, phase) ==
  ~admission_released[o] /\ phase = "retired" /\ Finished(seen)

ReleaseHook(o, seen, phase) ==
  LET now == Releases(o, seen, phase)
  IN  /\ admission_released' = Set(admission_released, o, admission_released[o] \/ now)
      /\ to_release' = Set(to_release, o, to_release[o] + (IF now THEN 1 ELSE 0))

(* The observer's side ends with `seen`. *)
Settle(o, seen) ==
  /\ observer' = Set(observer, o, seen)
  /\ ReleaseHook(o, seen, transport[o])
  /\ UNCHANGED <<outcome, transport>>
-----------------------------------------------------------------------------
(* Submission: admitted and made with the channel's hooks ... *)
Submit(o) ==
  /\ owner[o] = "none"
  /\ in_flight < OperationLimit
  /\ in_flight' = in_flight + 1
  /\ channel' = Set(channel, o, TRUE)
  /\ owner' = Set(owner, o, "holding")
  /\ UNCHANGED <<state, relay, record, asleep, pending, queue_open, calls>>

(* ... or refused: published and retired before the caller has the handle. *)
Refuse(o) ==
  /\ owner[o] = "none"
  /\ in_flight >= OperationLimit
  /\ owner' = Set(owner, o, "holding")
  /\ outcome' = Set(outcome, o, "refused")
  /\ transport' = Set(transport, o, "retired")
  /\ relay' = [relay EXCEPT ![o].outcome_published = TRUE, ![o].retired = TRUE]
  /\ UNCHANGED <<observer, admission_released, channel, record, asleep, pending,
                 in_flight, queue_open, calls>>

ReleaseAdmission(o) ==
  /\ to_release[o] > 0
  /\ to_release' = Set(to_release, o, to_release[o] - 1)
  /\ in_flight' = IF channel[o] /\ in_flight > 0 THEN in_flight - 1 ELSE in_flight
  /\ UNCHANGED <<state, channel, relay, record, owner, asleep, to_enqueue, to_detach,
                 queue_open, calls>>
-----------------------------------------------------------------------------
Live(o) == owner[o] # "none" /\ channel[o] /\ ~to_enqueue[o]

(* mark_dispatching, mark_active, begin_retirement. *)
Advance(o) ==
  /\ Live(o)
  /\ \/ transport[o] = "queued" /\ transport' = Set(transport, o, "dispatching")
     \/ transport[o] = "dispatching" /\ transport' = Set(transport, o, "active")
     \/ transport[o] = "active" /\ transport' = Set(transport, o, "retiring")
  /\ UNCHANGED <<outcome, observer, admission_released, channel, relay, record, owner,
                 asleep, pending, in_flight, queue_open, calls>>

(* outcome_changed_.notify_all *)
Woken(o) == Set(asleep, o, FALSE)

(* A second publication is refused and changes nothing. *)
Publish(o) ==
  /\ Live(o)
  /\ transport[o] # "retired"
  /\ outcome[o] = "none"
  /\ outcome' = Set(outcome, o, "answer")
  /\ relay' = [relay EXCEPT ![o].outcome_published = TRUE]
  /\ to_enqueue' = Set(to_enqueue, o, observer[o] = "callback")
  /\ asleep' = Woken(o)
  /\ UNCHANGED <<observer, transport, admission_released, channel, record, owner,
                 to_detach, to_release, in_flight, queue_open, calls>>

MutAbandoned(o) == "abandoned"

(* retire() leaves an unpublished operation its abandoned outcome. *)
Abandoned(o) == IF outcome[o] = "none" THEN "abandoned" ELSE outcome[o]

(***************************************************************************)
(* The source retires explicitly and again when it is destroyed.           *)
(***************************************************************************)
Retire(o) ==
  /\ Live(o)
  /\ transport' = Set(transport, o, "retired")
  /\ relay' = [relay EXCEPT ![o].retired = TRUE]
  /\ outcome' = Set(outcome, o, Abandoned(o))
  /\ to_enqueue' = Set(to_enqueue, o, outcome[o] = "none" /\ observer[o] = "callback")
  /\ asleep' = IF outcome[o] = "none" THEN Woken(o) ELSE asleep
  /\ ReleaseHook(o, observer[o], "retired")
  /\ UNCHANGED <<observer, channel, record, owner, to_detach, in_flight, queue_open,
                 calls>>

(* The mailbox's enqueue: only a record that is still held becomes ready. *)
Enqueued(o) == IF record[o] = "held" THEN Set(record, o, "ready") ELSE record

SourceEnqueues(o) ==
  /\ to_enqueue[o]
  /\ to_enqueue' = Set(to_enqueue, o, FALSE)
  /\ record' = Enqueued(o)
  /\ UNCHANGED <<state, channel, relay, owner, asleep, to_detach, to_release, in_flight,
                 queue_open, calls>>
-----------------------------------------------------------------------------
Cancellable(o) ==
  /\ ~relay[o].cancellation_requested
  /\ ~relay[o].outcome_published
  /\ ~relay[o].retired

(* Any handle's request_cancel, through the relay alone. *)
RequestCancel(o) ==
  /\ owner[o] # "none"
  /\ Cancellable(o)
  /\ relay' = [relay EXCEPT ![o].cancellation_requested = TRUE]
  /\ UNCHANGED <<state, channel, record, owner, asleep, pending, in_flight, queue_open,
                 calls>>

(* ~Operation on a handle nobody selected an observer through. *)
DropHandle(o) ==
  /\ owner[o] = "holding"
  /\ owner' = Set(owner, o, "gone")
  /\ Settle(o, "detached")
  /\ UNCHANGED <<channel, relay, record, asleep, to_enqueue, to_detach, in_flight,
                 queue_open, calls>>

(* sync_wait: select_blocking, then wait_and_take. *)
SelectBlocking(o) ==
  /\ owner[o] = "holding"
  /\ owner' = Set(owner, o, "blocking")
  /\ observer' = Set(observer, o, "blocking")
  /\ UNCHANGED <<outcome, transport, admission_released, channel, relay, record, asleep,
                 pending, in_flight, queue_open, calls>>

WaitAndTake(o) ==
  /\ owner[o] = "blocking"
  /\ ~asleep[o]
  /\ IF outcome[o] = "none"
     THEN /\ observer' = Set(observer, o, "blocking_waiting")
          /\ asleep' = Set(asleep, o, TRUE)
          /\ UNCHANGED <<outcome, transport, admission_released, to_release, owner>>
     ELSE /\ Settle(o, "delivered")
          /\ owner' = Set(owner, o, "gone")
          /\ UNCHANGED asleep
  /\ UNCHANGED <<channel, relay, record, to_enqueue, to_detach, in_flight, queue_open,
                 calls>>

(* subscribe: select_callback ... *)
SelectCallback(o) ==
  /\ owner[o] = "holding"
  /\ owner' = Set(owner, o, "selected")
  /\ observer' = Set(observer, o, "callback")
  /\ relay' = [relay EXCEPT ![o].observing = TRUE]
  /\ UNCHANGED <<outcome, transport, admission_released, channel, record, asleep,
                 pending, in_flight, queue_open, calls>>

(* ... register_record, whose refusal destroys the record and its lease ... *)
Register(o) ==
  /\ owner[o] = "selected"
  /\ IF queue_open
     THEN /\ record' = Set(record, o, "held")
          /\ owner' = Set(owner, o, "registered")
          /\ UNCHANGED to_detach
     ELSE /\ to_detach' = Set(to_detach, o, TRUE)
          /\ owner' = Set(owner, o, "gone")
          /\ UNCHANGED record
  /\ UNCHANGED <<state, channel, relay, asleep, to_enqueue, to_release, in_flight,
                 queue_open, calls>>

MutMissedOutcome(o) == FALSE

(* outcome_published(), asked again after the record is in place ... *)
MissedOutcome(o) == outcome[o] # "none"

(* ... and the enqueue the publication could not make. *)
Recheck(o) ==
  /\ owner[o] = "registered"
  /\ owner' = Set(owner, o, IF MissedOutcome(o) THEN "enqueuing" ELSE "subscribed")
  /\ UNCHANGED <<state, channel, relay, record, asleep, pending, in_flight, queue_open,
                 calls>>

SubscriberEnqueues(o) ==
  /\ owner[o] = "enqueuing"
  /\ owner' = Set(owner, o, "subscribed")
  /\ record' = Enqueued(o)
  /\ UNCHANGED <<state, channel, relay, asleep, pending, in_flight, queue_open, calls>>
-----------------------------------------------------------------------------
InQueue(o) == record[o] \in {"held", "ready"}

(* Records leave the queue unclaimed; their leases are then destroyed. *)
DropRecords(gone) ==
  /\ record' = [o \in Op |-> IF o \in gone THEN "dropped" ELSE record[o]]
  /\ to_detach' = [o \in Op |-> o \in gone \/ to_detach[o]]

(* Subscription::detach, also when the subscription is destroyed. *)
Unsubscribe(o) ==
  /\ owner[o] = "subscribed"
  /\ owner' = Set(owner, o, "gone")
  /\ DropRecords({o} \cap {p \in Op : InQueue(p)})
  /\ UNCHANGED <<state, channel, relay, asleep, to_enqueue, to_release, in_flight,
                 queue_open, calls>>

DiscardReady ==
  /\ \E o \in Op : record[o] = "ready"
  /\ DropRecords({o \in Op : record[o] = "ready"})
  /\ UNCHANGED <<state, channel, relay, owner, asleep, to_enqueue, to_release, in_flight,
                 queue_open, calls>>

CloseQueue ==
  /\ queue_open
  /\ queue_open' = FALSE
  /\ DropRecords({o \in Op : InQueue(o)})
  /\ UNCHANGED <<state, channel, relay, owner, asleep, to_enqueue, to_release, in_flight,
                 calls>>

StillObserving(o) == observer[o] = "callback"

(* ~ObserverLease of a record nobody claimed. *)
DetachCallback(o) ==
  /\ to_detach[o]
  /\ to_detach' = Set(to_detach, o, FALSE)
  /\ IF StillObserving(o)
     THEN /\ Settle(o, "detached")
          /\ relay' = [relay EXCEPT ![o].observing = FALSE]
     ELSE UNCHANGED <<state, relay, to_release>>
  /\ UNCHANGED <<channel, record, owner, asleep, to_enqueue, in_flight, queue_open,
                 calls>>

Claim(o) ==
  /\ record[o] = "ready"
  /\ record' = Set(record, o, "claimed")
  /\ UNCHANGED <<state, channel, relay, owner, asleep, pending, in_flight, queue_open,
                 calls>>

(* The claimed record: take_callback, then the callback with the result. *)
TakeCallback(o) ==
  /\ record[o] = "claimed"
  /\ record' = Set(record, o, "spent")
  /\ Settle(o, "delivered")
  /\ relay' = [relay EXCEPT ![o].observing = FALSE]
  /\ calls' = Set(calls, o, calls[o] + 1)
  /\ UNCHANGED <<channel, owner, asleep, to_enqueue, to_detach, in_flight, queue_open>>
-----------------------------------------------------------------------------
Dispatch(o) == Claim(o) \/ TakeCallback(o)

(* What a thread that has begun does next by itself. *)
Continue(o) ==
  \/ WaitAndTake(o) \/ Register(o) \/ Recheck(o) \/ SubscriberEnqueues(o)
  \/ SourceEnqueues(o) \/ DetachCallback(o) \/ ReleaseAdmission(o)

Next ==
  \/ CloseQueue \/ DiscardReady
  \/ \E o \in Op :
       \/ Submit(o) \/ Refuse(o) \/ Advance(o) \/ Publish(o) \/ Retire(o)
       \/ RequestCancel(o) \/ DropHandle(o) \/ SelectBlocking(o) \/ SelectCallback(o)
       \/ Unsubscribe(o) \/ Dispatch(o) \/ Continue(o)

Spec == Init /\ [][Next]_vars

(***************************************************************************)
(* Threads inside a call are scheduled, and the queue is being dispatched. *)
(***************************************************************************)
FairSpec ==
  Spec /\ \A o \in Op : WF_vars(Continue(o)) /\ WF_vars(Dispatch(o))
-----------------------------------------------------------------------------
(***************************************************************************)
(* The channel counts exactly the admitted operations that have not given  *)
(* their slot back: each gives it back once, however often its source      *)
(* retires and whichever of the two sides ends last.                       *)
(***************************************************************************)
Charged(o) == channel[o] /\ (~admission_released[o] \/ to_release[o] > 0)

SlotsExact == in_flight = Cardinality({o \in Op : Charged(o)})

(***************************************************************************)
(* take_callback's three assertions hold for every record a dispatcher     *)
(* claims, against detaches, discards, closes and retirements.             *)
(***************************************************************************)
TakeAsserts ==
  \A o \in Op : record[o] = "claimed" =>
    outcome[o] # "none" /\ observer[o] = "callback" /\ relay[o].observing

(***************************************************************************)
(* A record is delivered or detached, never both, and once the slot is     *)
(* given back nothing of the operation is left in the queue.               *)
(***************************************************************************)
OneEnding ==
  \A o \in Op :
    /\ calls[o] = 1 => observer[o] = "delivered"
    /\ observer[o] = "detached" => record[o] \in {"unknown", "dropped"}
    /\ admission_released[o] => ~InQueue(o) /\ record[o] # "claimed" /\ ~asleep[o]

(***************************************************************************)
(* Slots are counted exactly, no assertion of a dispatcher fails, and      *)
(* every operation ends once.                                              *)
(***************************************************************************)
OperationSound == SlotsExact /\ TakeAsserts /\ OneEnding

(***************************************************************************)
(* The first outcome is final: neither a later publication nor retirement  *)
(* replaces it, and no cancellation is accepted once it is there, though   *)
(* the relay's own flags and mutex decide that.                            *)
(***************************************************************************)
OutcomeFinal ==
  [][\A o \in Op : outcome[o] # "none" =>
       /\ outcome'[o] = outcome[o]
       /\ relay'[o].cancellation_requested = relay[o].cancellation_requested]_vars

(***************************************************************************)
(* Once the transport has retired and an observer was selected or the      *)
(* handle dropped, the slot comes back: no subscription races its          *)
(* publication into a record nobody enqueues, no waiter misses the outcome *)
(* (publish, select_callback and release).                                 *)
(***************************************************************************)
Owed(o) ==
  /\ transport[o] = "retired" /\ owner[o] \notin {"none", "holding"}
  /\ ~(admission_released[o] /\ to_release[o] = 0)

SlotComesBack == []<>(\A o \in Op : ~Owed(o))
=============================================================================
