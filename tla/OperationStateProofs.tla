------------------------ MODULE OperationStateProofs ------------------------
(***************************************************************************)
(* Safety of OperationState for any set of operations and any limit.       *)
(***************************************************************************)
EXTENDS OperationState, FiniteSetTheorems, TLAPS

Outcome == {"none", "answer", "refused", "abandoned"}
ObserverPhase == {"unselected", "callback", "blocking", "blocking_waiting", "detached",
                  "delivered"}
TransportPhase == {"queued", "dispatching", "active", "retiring", "retired"}
RelayType == [cancellation_requested : BOOLEAN, outcome_published : BOOLEAN,
              retired : BOOLEAN, observing : BOOLEAN]
RecordStage == {"unknown", "held", "ready", "claimed", "dropped", "spent"}
OwnerPlace == {"none", "holding", "blocking", "selected", "registered", "enqueuing",
               "subscribed", "gone"}

(* The types of the operations, of the channel and of the queue's records. *)
TypeOK ==
  /\ outcome \in [Op -> Outcome]
  /\ observer \in [Op -> ObserverPhase]
  /\ transport \in [Op -> TransportPhase]
  /\ admission_released \in [Op -> BOOLEAN]
  /\ channel \in [Op -> BOOLEAN]
  /\ relay \in [Op -> RelayType]
  /\ record \in [Op -> RecordStage]
  /\ owner \in [Op -> OwnerPlace]
  /\ asleep \in [Op -> BOOLEAN]
  /\ to_enqueue \in [Op -> BOOLEAN]
  /\ to_detach \in [Op -> BOOLEAN]
  /\ to_release \in [Op -> {0, 1}]
  /\ in_flight \in Nat
  /\ queue_open \in BOOLEAN
  /\ calls \in [Op -> {0, 1}]

(* The handle: what its owner has selected is what the state observes. *)
OwnerInv(o) ==
  /\ owner[o] = "none" => ~channel[o] /\ ~admission_released[o] /\ outcome[o] = "none"
  /\ owner[o] \in {"none", "holding"} => observer[o] = "unselected"
  /\ owner[o] = "blocking" => observer[o] \in {"blocking", "blocking_waiting"}
  /\ owner[o] = "selected" => observer[o] = "callback" /\ record[o] = "unknown"
  /\ owner[o] = "enqueuing" => outcome[o] # "none"
  /\ asleep[o] => owner[o] = "blocking"
  /\ owner[o] \notin {"selected", "registered", "enqueuing", "subscribed", "gone"} =>
       record[o] = "unknown" /\ ~to_detach[o]
  /\ owner[o] = "selected" => ~to_detach[o]

(* The record: where it is tells what the state and the relay say. *)
RecordInv(o) ==
  /\ observer[o] = "callback" <=> relay[o].observing
  /\ record[o] \in {"held", "ready", "claimed"} => observer[o] = "callback"
  /\ record[o] \in {"ready", "claimed"} => outcome[o] # "none"
  /\ to_detach[o] => record[o] \in {"unknown", "dropped"}
  /\ observer[o] = "detached" => record[o] \in {"unknown", "dropped"}
  /\ IF calls[o] = 1 THEN record[o] = "spent" ELSE record[o] # "spent"
  /\ record[o] = "spent" => observer[o] = "delivered"
  /\ to_enqueue[o] => outcome[o] # "none"

(* The outcome and the slot. *)
EndInv(o) ==
  /\ outcome[o] # "none" => relay[o].outcome_published \/ relay[o].retired
  /\ admission_released[o] => Finished(observer[o]) /\ transport[o] = "retired"
  /\ to_release[o] = 1 => admission_released[o]

OpInv(o) == OwnerInv(o) /\ RecordInv(o) /\ EndInv(o)

Holders == {o \in Op : Charged(o)}

IInv ==
  /\ TypeOK
  /\ \A o \in Op : OpInv(o)
  /\ IsFiniteSet(Holders) /\ in_flight = Cardinality(Holders)
-----------------------------------------------------------------------------
(* What has to be expanded to see the state after an action. *)
USE DEF Set, state, pending

(* Setting one flag of a relay keeps its type. *)
LEMMA RelaySet ==
  ASSUME NEW r \in [Op -> RelayType], NEW o \in Op, NEW v \in BOOLEAN
  PROVE  /\ [r EXCEPT ![o].cancellation_requested = v] \in [Op -> RelayType]
         /\ [r EXCEPT ![o].outcome_published = v] \in [Op -> RelayType]
         /\ [r EXCEPT ![o].retired = v] \in [Op -> RelayType]
         /\ [r EXCEPT ![o].observing = v] \in [Op -> RelayType]
  BY DEF RelayType

(* One more release is owed only by an operation that owed none. *)
LEMMA ReleaseHookType ==
  ASSUME IInv, NEW o \in Op, NEW seen, NEW phase, ReleaseHook(o, seen, phase)
  PROVE  /\ admission_released' \in [Op -> BOOLEAN]
         /\ to_release' \in [Op -> {0, 1}]
<1>1. /\ admission_released \in [Op -> BOOLEAN] /\ to_release \in [Op -> {0, 1}]
      /\ to_release[o] = 1 => admission_released[o]
  BY DEF IInv, TypeOK, OpInv, EndInv
<1>2. admission_released' \in [Op -> BOOLEAN]
  BY <1>1, Zenon DEF ReleaseHook, Releases
<1>3. to_release[o] + (IF Releases(o, seen, phase) THEN 1 ELSE 0) \in {0, 1}
  BY <1>1 DEF Releases
<1>4. to_release' \in [Op -> {0, 1}]
  BY <1>1, <1>3, Zenon DEF ReleaseHook
<1>. QED
  BY <1>2, <1>4

(***************************************************************************)
(* Every action keeps the types.                                           *)
(***************************************************************************)
LEMMA TypeStep ==
  ASSUME IInv, Next
  PROVE  TypeOK'
<1>. USE DEF IInv, TypeOK, Outcome, ObserverPhase, TransportPhase, RecordStage,
             OwnerPlace
<1>1. CASE CloseQueue
  BY <1>1, ZenonT(30) DEF CloseQueue, DropRecords, InQueue
<1>2. CASE DiscardReady
  BY <1>2 DEF DiscardReady, DropRecords
<1>3. ASSUME NEW o \in Op, Submit(o) PROVE TypeOK'
  BY <1>3 DEF Submit
<1>4. ASSUME NEW o \in Op, Refuse(o) PROVE TypeOK'
  <2>1. relay' \in [Op -> RelayType]
    BY <1>4, RelaySet, ZenonT(30) DEF Refuse
  <2>. QED
    BY <1>4, <2>1 DEF Refuse
<1>5. ASSUME NEW o \in Op, Advance(o) PROVE TypeOK'
  BY <1>5 DEF Advance, Live
<1>6. ASSUME NEW o \in Op, Publish(o) PROVE TypeOK'
  BY <1>6, RelaySet, ZenonT(30) DEF Publish, Live, Woken
<1>7. ASSUME NEW o \in Op, Retire(o) PROVE TypeOK'
  <2>1. relay' \in [Op -> RelayType]
    BY <1>7, RelaySet, ZenonT(30) DEF Retire
  <2>2. admission_released' \in [Op -> BOOLEAN] /\ to_release' \in [Op -> {0, 1}]
    BY <1>7, ReleaseHookType DEF Retire
  <2>. QED
    BY <1>7, <2>1, <2>2 DEF Retire, Abandoned, Woken
<1>8. ASSUME NEW o \in Op, RequestCancel(o) PROVE TypeOK'
  BY <1>8, RelaySet, ZenonT(30) DEF RequestCancel
<1>9. ASSUME NEW o \in Op, DropHandle(o) PROVE TypeOK'
  <2>1. admission_released' \in [Op -> BOOLEAN] /\ to_release' \in [Op -> {0, 1}]
    BY <1>9, ReleaseHookType DEF DropHandle, Settle
  <2>. QED
    BY <1>9, <2>1, ZenonT(30) DEF DropHandle, Settle
<1>10. ASSUME NEW o \in Op, SelectBlocking(o) PROVE TypeOK'
  BY <1>10 DEF SelectBlocking
<1>11. ASSUME NEW o \in Op, SelectCallback(o) PROVE TypeOK'
  BY <1>11, RelaySet, ZenonT(30) DEF SelectCallback
<1>12. ASSUME NEW o \in Op, Unsubscribe(o) PROVE TypeOK'
  BY <1>12 DEF Unsubscribe, DropRecords, InQueue
<1>13. ASSUME NEW o \in Op, Claim(o) PROVE TypeOK'
  BY <1>13 DEF Claim
<1>14. ASSUME NEW o \in Op, TakeCallback(o) PROVE TypeOK'
  <2>1. relay' \in [Op -> RelayType]
    BY <1>14, RelaySet, ZenonT(30) DEF TakeCallback
  <2>2. admission_released' \in [Op -> BOOLEAN] /\ to_release' \in [Op -> {0, 1}]
    BY <1>14, ReleaseHookType DEF TakeCallback, Settle
  <2>3. calls' \in [Op -> {0, 1}]
    BY <1>14 DEF TakeCallback, OpInv, RecordInv
  <2>. QED
    BY <1>14, <2>1, <2>2, <2>3 DEF TakeCallback, Settle
<1>15. ASSUME NEW o \in Op, WaitAndTake(o) PROVE TypeOK'
  <2>1. CASE outcome[o] = "none"
    BY <1>15, <2>1, ZenonT(30) DEF WaitAndTake
  <2>2. CASE outcome[o] # "none"
    <3>1. admission_released' \in [Op -> BOOLEAN] /\ to_release' \in [Op -> {0, 1}]
      BY <1>15, <2>2, ReleaseHookType DEF WaitAndTake, Settle
    <3>. QED
      BY <1>15, <2>2, <3>1, ZenonT(60) DEF WaitAndTake, Settle
  <2>. QED
    BY <2>1, <2>2
<1>16. ASSUME NEW o \in Op, Register(o) PROVE TypeOK'
  <2>1. CASE queue_open
    BY <1>16, <2>1 DEF Register
  <2>2. CASE ~queue_open
    <3>1. /\ to_detach' = [to_detach EXCEPT ![o] = TRUE] /\ owner' = [owner EXCEPT ![o] = "gone"]
          /\ UNCHANGED <<record, state, channel, relay, asleep, to_enqueue, to_release, in_flight,
                         queue_open, calls>>
      BY <1>16, <2>2, Zenon DEF Register
    <3>2. to_detach' \in [Op -> BOOLEAN]
      BY <3>1, Zenon DEF TypeOK
    <3>. QED
      BY <3>1, <3>2
  <2>. QED
    BY <2>1, <2>2
<1>17. ASSUME NEW o \in Op, Recheck(o) PROVE TypeOK'
  BY <1>17 DEF Recheck, MissedOutcome
<1>18. ASSUME NEW o \in Op, SubscriberEnqueues(o) PROVE TypeOK'
  BY <1>18 DEF SubscriberEnqueues, Enqueued
<1>19. ASSUME NEW o \in Op, SourceEnqueues(o) PROVE TypeOK'
  BY <1>19 DEF SourceEnqueues, Enqueued
<1>20. ASSUME NEW o \in Op, DetachCallback(o) PROVE TypeOK'
  <2>1. CASE StillObserving(o)
    <3>1. /\ Settle(o, "detached")
          /\ relay' = [relay EXCEPT ![o].observing = FALSE]
      BY <1>20, <2>1 DEF DetachCallback
    <3>2. relay' \in [Op -> RelayType]
      BY <3>1, RelaySet, ZenonT(30)
    <3>3. admission_released' \in [Op -> BOOLEAN] /\ to_release' \in [Op -> {0, 1}]
      BY <3>1, ReleaseHookType DEF Settle
    <3>. QED
      BY <1>20, <3>1, <3>2, <3>3 DEF DetachCallback, Settle
  <2>2. CASE ~StillObserving(o)
    BY <1>20, <2>2 DEF DetachCallback
  <2>. QED
    BY <2>1, <2>2
<1>21. ASSUME NEW o \in Op, ReleaseAdmission(o) PROVE TypeOK'
  BY <1>21 DEF ReleaseAdmission
<1>. QED
  BY <1>1, <1>2, <1>3, <1>4, <1>5, <1>6, <1>7, <1>8, <1>9, <1>10, <1>11, <1>12, <1>13,
     <1>14, <1>15, <1>16, <1>17, <1>18, <1>19, <1>20, <1>21, ZenonT(30) DEF Next, Dispatch, Continue

(***************************************************************************)
(* Every action keeps what is said of one operation.                       *)
(***************************************************************************)
LEMMA OpStep ==
  ASSUME IInv, Next, NEW p \in Op
  PROVE  OpInv(p)'
<1>. USE DEF IInv, TypeOK, OpInv, OwnerInv, RecordInv, EndInv, Finished, Outcome,
             ObserverPhase, TransportPhase, RelayType, RecordStage, OwnerPlace
<1>1. CASE CloseQueue
  BY <1>1 DEF CloseQueue, DropRecords, InQueue
<1>2. CASE DiscardReady
  BY <1>2 DEF DiscardReady, DropRecords
<1>3. ASSUME NEW o \in Op, Submit(o) PROVE OpInv(p)'
  BY <1>3 DEF Submit
<1>4. ASSUME NEW o \in Op, Refuse(o) PROVE OpInv(p)'
  BY <1>4 DEF Refuse
<1>5. ASSUME NEW o \in Op, Advance(o) PROVE OpInv(p)'
  BY <1>5 DEF Advance, Live
<1>6. ASSUME NEW o \in Op, Publish(o) PROVE OpInv(p)'
  BY <1>6 DEF Publish, Live, Woken
<1>7. ASSUME NEW o \in Op, Retire(o) PROVE OpInv(p)'
  BY <1>7 DEF Retire, Live, Abandoned, Woken, ReleaseHook, Releases
<1>8. ASSUME NEW o \in Op, RequestCancel(o) PROVE OpInv(p)'
  BY <1>8 DEF RequestCancel, Cancellable
<1>9. ASSUME NEW o \in Op, DropHandle(o) PROVE OpInv(p)'
  <2>1. owner[o] = "holding" /\ Settle(o, "detached")
    BY <1>9 DEF DropHandle
  <2>2. EndInv(p)'
    <3>1. ~admission_released[o] /\ to_release[o] = 0
      BY <2>1
    <3>2. CASE p = o /\ Releases(o, "detached", transport[o])
      <4>1. /\ transport'[o] = "retired" /\ observer'[o] = "detached"
            /\ admission_released'[o]
            /\ outcome' = outcome /\ relay' = relay
        BY <1>9, <2>1, <3>2, ZenonT(30) DEF DropHandle, Settle, ReleaseHook, Releases
      <4>. QED
        BY <3>2, <4>1
    <3>3. CASE p = o /\ ~Releases(o, "detached", transport[o])
      BY <1>9, <2>1, <3>1, <3>3 DEF DropHandle, Settle, ReleaseHook
    <3>4. CASE p # o
      BY <1>9, <2>1, <3>4 DEF DropHandle, Settle, ReleaseHook
    <3>. QED
      BY <3>2, <3>3, <3>4
  <2>3. OwnerInv(p)'
    <3>1. CASE p = o
      BY <1>9, <2>1, <3>1 DEF DropHandle, Settle, ReleaseHook, Releases
    <3>2. CASE p # o
      BY <1>9, <2>1, <3>2 DEF DropHandle, Settle, ReleaseHook, Releases
    <3>. QED
      BY <3>1, <3>2
  <2>4. RecordInv(p)'
    BY <1>9, <2>1 DEF DropHandle, Settle
  <2>. QED
    BY <2>2, <2>3, <2>4
<1>10. ASSUME NEW o \in Op, SelectBlocking(o) PROVE OpInv(p)'
  BY <1>10 DEF SelectBlocking
<1>11. ASSUME NEW o \in Op, SelectCallback(o) PROVE OpInv(p)'
  BY <1>11 DEF SelectCallback
<1>12. ASSUME NEW o \in Op, Unsubscribe(o) PROVE OpInv(p)'
  BY <1>12 DEF Unsubscribe, DropRecords, InQueue
<1>13. ASSUME NEW o \in Op, Claim(o) PROVE OpInv(p)'
  BY <1>13 DEF Claim
<1>14. ASSUME NEW o \in Op, TakeCallback(o) PROVE OpInv(p)'
  BY <1>14 DEF TakeCallback, Settle, ReleaseHook, Releases
<1>15. ASSUME NEW o \in Op, WaitAndTake(o) PROVE OpInv(p)'
  BY <1>15 DEF WaitAndTake, Settle, ReleaseHook, Releases
<1>16. ASSUME NEW o \in Op, Register(o) PROVE OpInv(p)'
  BY <1>16 DEF Register
<1>17. ASSUME NEW o \in Op, Recheck(o) PROVE OpInv(p)'
  BY <1>17 DEF Recheck, MissedOutcome
<1>18. ASSUME NEW o \in Op, SubscriberEnqueues(o) PROVE OpInv(p)'
  BY <1>18 DEF SubscriberEnqueues, Enqueued
<1>19. ASSUME NEW o \in Op, SourceEnqueues(o) PROVE OpInv(p)'
  BY <1>19 DEF SourceEnqueues, Enqueued
<1>20. ASSUME NEW o \in Op, DetachCallback(o) PROVE OpInv(p)'
  <2>1. CASE StillObserving(o)
    <3>1. /\ Settle(o, "detached")
          /\ relay' = [relay EXCEPT ![o].observing = FALSE]
          /\ observer[o] = "callback"
      BY <1>20, <2>1 DEF DetachCallback, StillObserving
    <3>2. EndInv(p)'
      BY <1>20, <3>1 DEF DetachCallback, Settle, ReleaseHook, Releases
    <3>3. OwnerInv(p)'
      BY <1>20, <3>1 DEF DetachCallback, Settle, ReleaseHook, Releases
    <3>4. RecordInv(p)'
      BY <1>20, <3>1 DEF DetachCallback, Settle
    <3>. QED
      BY <3>2, <3>3, <3>4
  <2>2. CASE ~StillObserving(o)
    BY <1>20, <2>2 DEF DetachCallback
  <2>. QED
    BY <2>1, <2>2
<1>21. ASSUME NEW o \in Op, ReleaseAdmission(o) PROVE OpInv(p)'
  BY <1>21 DEF ReleaseAdmission
<1>. QED
  BY <1>1, <1>2, <1>3, <1>4, <1>5, <1>6, <1>7, <1>8, <1>9, <1>10, <1>11, <1>12, <1>13,
     <1>14, <1>15, <1>16, <1>17, <1>18, <1>19, <1>20, <1>21, ZenonT(30) DEF Next, Dispatch, Continue

(* The moment the release becomes owed moves the charge, it does not end it. *)
LEMMA ReleaseHookCharge ==
  ASSUME IInv, NEW o \in Op, NEW seen, NEW phase, ReleaseHook(o, seen, phase),
         channel' = channel
  PROVE  Holders' = Holders
<1>1. ASSUME NEW p \in Op PROVE Charged(p)' <=> Charged(p)
  BY DEF ReleaseHook, Releases, IInv, TypeOK, OpInv, EndInv, Charged
<1>. QED
  BY <1>1 DEF Holders

(***************************************************************************)
(* A slot is charged by Submit and given back by ReleaseAdmission; every   *)
(* other action leaves the set of operations that hold one as it was.      *)
(***************************************************************************)
LEMMA SlotStep ==
  ASSUME IInv, Next
  PROVE  IsFiniteSet(Holders)' /\ (in_flight = Cardinality(Holders))'
<1>. DEFINE Slots == IsFiniteSet(Holders)' /\ (in_flight = Cardinality(Holders))'
<1>1. ASSUME NEW o \in Op, Submit(o) PROVE Slots
  <2>1. owner[o] = "none" /\ ~channel[o] /\ ~admission_released[o]
    BY <1>1 DEF Submit, IInv, OpInv, OwnerInv
  <2>2. o \notin Holders
    BY <2>1 DEF Holders, Charged
  <2>3. ASSUME NEW p \in Op PROVE Charged(p)' <=> Charged(p) \/ p = o
    BY <1>1, <2>1 DEF Submit, Charged, IInv, TypeOK
  <2>4. Holders' = Holders \cup {o}
    BY <2>3 DEF Holders
  <2>. QED
    BY <1>1, <2>2, <2>4, FS_AddElement DEF Submit, IInv
<1>2. ASSUME NEW o \in Op, ReleaseAdmission(o) PROVE Slots
  <2>1. /\ to_release[o] = 1 /\ admission_released[o]
        /\ to_release' = [to_release EXCEPT ![o] = 0]
    <3>1. to_release[o] = 1
      BY <1>2 DEF ReleaseAdmission, IInv, TypeOK
    <3>. QED
      BY <1>2, <3>1 DEF ReleaseAdmission, IInv, OpInv, EndInv
  <2>2. ASSUME NEW p \in Op PROVE Charged(p)' <=> Charged(p) /\ p # o
    BY <1>2, <2>1 DEF ReleaseAdmission, Charged, IInv, TypeOK
  <2>3. Holders' = Holders \ {o}
    BY <2>2 DEF Holders
  <2>4. CASE channel[o]
    <3>1. o \in Holders
      BY <2>1, <2>4 DEF Holders, Charged
    <3>2. /\ IsFiniteSet(Holders \ {o})
          /\ Cardinality(Holders \ {o}) = Cardinality(Holders) - 1
      BY <3>1, FS_RemoveElement DEF IInv
    <3>3. in_flight > 0
      BY <3>1, FS_EmptySet, FS_CardinalityType DEF IInv, TypeOK
    <3>. QED
      BY <1>2, <2>3, <2>4, <3>2, <3>3 DEF ReleaseAdmission, IInv
  <2>5. CASE ~channel[o]
    <3>1. o \notin Holders
      BY <2>5 DEF Holders, Charged
    <3>. QED
      BY <1>2, <2>3, <2>5, <3>1 DEF ReleaseAdmission, IInv
  <2>. QED
    BY <2>4, <2>5
<1>3. ASSUME Holders' = Holders, in_flight' = in_flight PROVE Slots
  BY <1>3 DEF IInv
<1>4. ASSUME channel' = channel, admission_released' = admission_released,
             to_release' = to_release, in_flight' = in_flight
      PROVE  Slots
  BY <1>3, <1>4 DEF Holders, Charged
<1>5. CASE CloseQueue \/ DiscardReady
  BY <1>4, <1>5 DEF CloseQueue, DiscardReady
<1>6. ASSUME NEW o \in Op,
             \/ Refuse(o) \/ Advance(o) \/ Publish(o) \/ RequestCancel(o)
             \/ SelectBlocking(o) \/ SelectCallback(o) \/ Unsubscribe(o) \/ Claim(o)
             \/ Register(o) \/ Recheck(o) \/ SubscriberEnqueues(o) \/ SourceEnqueues(o)
      PROVE  Slots
  BY <1>4, <1>6 DEF Refuse, Advance, Publish, RequestCancel, SelectBlocking,
     SelectCallback, Unsubscribe, Claim, Register, Recheck, SubscriberEnqueues,
     SourceEnqueues
<1>7. ASSUME NEW o \in Op, Retire(o) PROVE Slots
  BY <1>3, <1>7, ReleaseHookCharge DEF Retire
<1>8. ASSUME NEW o \in Op, DropHandle(o) PROVE Slots
  BY <1>3, <1>8, ReleaseHookCharge DEF DropHandle, Settle
<1>9. ASSUME NEW o \in Op, TakeCallback(o) PROVE Slots
  BY <1>3, <1>9, ReleaseHookCharge DEF TakeCallback, Settle
<1>10. ASSUME NEW o \in Op, WaitAndTake(o) PROVE Slots
  BY <1>3, <1>4, <1>10, ReleaseHookCharge DEF WaitAndTake, Settle
<1>11. ASSUME NEW o \in Op, DetachCallback(o) PROVE Slots
  <2>1. CASE StillObserving(o)
    BY <1>3, <1>11, <2>1, ReleaseHookCharge DEF DetachCallback, Settle
  <2>2. CASE ~StillObserving(o)
    BY <1>4, <1>11, <2>2 DEF DetachCallback
  <2>. QED
    BY <2>1, <2>2
<1>. QED
  BY <1>1, <1>2, <1>5, <1>6, <1>7, <1>8, <1>9, <1>10, <1>11 DEF Next, Dispatch, Continue
-----------------------------------------------------------------------------
LEMMA InitInv == Init => IInv
<1>. SUFFICES ASSUME Init PROVE IInv
  OBVIOUS
<1>1. TypeOK
  BY DEF Init, TypeOK, Outcome, ObserverPhase, TransportPhase, RelayType, Relay,
     RecordStage, OwnerPlace
<1>2. ASSUME NEW o \in Op PROVE OpInv(o)
  BY DEF Init, OpInv, OwnerInv, RecordInv, EndInv, Relay, Finished
<1>3. Holders = {}
  BY DEF Init, Holders, Charged
<1>. QED
  BY <1>1, <1>2, <1>3, FS_EmptySet DEF Init, IInv

(* The inductive invariant holds in every reachable state. *)
LEMMA Inductive == Spec => []IInv
<1>1. ASSUME IInv, [Next]_vars PROVE IInv'
  <2>1. CASE Next
    BY <1>1, <2>1, TypeStep, OpStep, SlotStep, ZenonT(30) DEF IInv
  <2>2. CASE UNCHANGED vars
    BY <1>1, <2>2 DEF vars, IInv, TypeOK, OpInv, OwnerInv, RecordInv, EndInv, Holders,
       Charged
  <2>. QED
    BY <1>1, <2>1, <2>2
<1>. QED
  BY <1>1, InitInv, PTL DEF Spec

(***************************************************************************)
(* The admission count is the number of operations that hold a slot: every *)
(* ending, in every order of retirement, delivery, wait, drop and detach,  *)
(* gives its slot back once.                                               *)
(***************************************************************************)
THEOREM SlotsAlwaysExact == Spec => []SlotsExact
<1>1. IInv => SlotsExact
  BY ZenonT(30) DEF IInv, Holders, SlotsExact
<1>. QED
  BY <1>1, Inductive, PTL

(* A claimed record can always be taken: take_callback's asserts hold. *)
THEOREM TakeAssertsHold == Spec => []TakeAsserts
<1>1. IInv => TakeAsserts
  BY DEF IInv, TakeAsserts, OpInv, RecordInv
<1>. QED
  BY <1>1, Inductive, PTL

(* An operation ends for its observer in one way, and its slot goes back only *)
(* after nothing can call it any more.                                        *)
THEOREM EndsOnce == Spec => []OneEnding
<1>1. ASSUME IInv, NEW o \in Op
      PROVE  /\ calls[o] = 1 => observer[o] = "delivered"
             /\ observer[o] = "detached" => record[o] \in {"unknown", "dropped"}
             /\ admission_released[o] => ~InQueue(o) /\ record[o] # "claimed" /\ ~asleep[o]
  BY <1>1 DEF IInv, OpInv, OwnerInv, RecordInv, EndInv, InQueue, Finished
<1>2. IInv => OneEnding
  BY <1>1 DEF OneEnding
<1>. QED
  BY <1>2, Inductive, PTL

(* The three together, as the runs check them. *)
THEOREM OperationsStaySound == Spec => []OperationSound
  BY SlotsAlwaysExact, TakeAssertsHold, EndsOnce, PTL DEF OperationSound

(* What a step may never do: take back or change an outcome once it is set, or *)
(* accept a cancellation after it.                                             *)
THEOREM OutcomeStaysFinal == Spec => OutcomeFinal
<1>. DEFINE Kept(p) == /\ outcome'[p] = outcome[p]
                       /\ relay'[p].cancellation_requested = relay[p].cancellation_requested
<1>. USE DEF IInv, TypeOK, RelayType, OpInv
<1>1. ASSUME IInv, Next, NEW p \in Op, outcome[p] # "none" PROVE Kept(p)
  <2>1. CASE CloseQueue \/ DiscardReady
    BY <2>1 DEF CloseQueue, DiscardReady
  <2>2. ASSUME NEW o \in Op, Refuse(o) PROVE Kept(p)
    BY <1>1, <2>2 DEF Refuse, OwnerInv
  <2>3. ASSUME NEW o \in Op, Publish(o) PROVE Kept(p)
    BY <1>1, <2>3 DEF Publish
  <2>4. ASSUME NEW o \in Op, Retire(o) PROVE Kept(p)
    BY <1>1, <2>4 DEF Retire, Abandoned
  <2>5. ASSUME NEW o \in Op, RequestCancel(o) PROVE Kept(p)
    BY <1>1, <2>5, ZenonT(30) DEF RequestCancel, Cancellable, EndInv
  <2>6. ASSUME NEW o \in Op,
               \/ Submit(o) \/ Advance(o) \/ DropHandle(o) \/ SelectBlocking(o)
               \/ Claim(o) \/ WaitAndTake(o) \/ Register(o) \/ Recheck(o)
               \/ SubscriberEnqueues(o) \/ SourceEnqueues(o) \/ ReleaseAdmission(o)
        PROVE  Kept(p)
    BY <1>1, <2>6 DEF Submit, Advance, DropHandle, SelectBlocking, Claim, WaitAndTake,
       Register, Recheck, SubscriberEnqueues, SourceEnqueues, ReleaseAdmission, Settle
  <2>7. ASSUME NEW o \in Op,
               SelectCallback(o) \/ Unsubscribe(o) \/ TakeCallback(o) \/ DetachCallback(o)
        PROVE  Kept(p)
    BY <1>1, <2>7 DEF SelectCallback, Unsubscribe, TakeCallback, DetachCallback, Settle
  <2>. QED
    BY <1>1, <2>1, <2>2, <2>3, <2>4, <2>5, <2>6, <2>7, ZenonT(30) DEF Next, Dispatch, Continue
<1>2. ASSUME IInv, [Next]_vars, NEW p \in Op, outcome[p] # "none" PROVE Kept(p)
  BY <1>1, <1>2, ZenonT(30) DEF vars
<1>3. IInv /\ [Next]_vars =>
        [\A o \in Op : outcome[o] # "none" =>
           /\ outcome'[o] = outcome[o]
           /\ relay'[o].cancellation_requested = relay[o].cancellation_requested]_vars
  BY <1>2
<1>. QED
  BY <1>3, Inductive, PTL DEF Spec, OutcomeFinal
=============================================================================
