------------------------------ MODULE MCQueues ------------------------------
(***************************************************************************)
(* Operations and the completion queue that delivers them, checked         *)
(* together.  OperationState uses the queue as ReadyQueue specifies it and *)
(* CompletionQueue implements ReadyQueue, so in a behaviour only one of    *)
(* the two moves; the other one stays where it starts.                     *)
(***************************************************************************)
EXTENDS OperationState

CONSTANTS Thread, MaxToken

VARIABLES
  part,
  records, ready_head, ready_tail, ready_count, last_ready_generation, next_token, closed,
  finished, dispatching, pipe, wake_armed, reserved, at, parked, fate

queueVars == <<records, ready_head, ready_tail, ready_count, last_ready_generation, next_token,
               closed, finished, dispatching, pipe, wake_armed, reserved, at, parked, fate>>

CQ == INSTANCE CompletionQueue

QueuesInit ==
  /\ part \in {"operations", "queue"}
  /\ Init
  /\ CQ!Init
  /\ part = "operations" => pipe

QueuesNext ==
  /\ part' = part
  /\ \/ part = "operations" /\ Next /\ UNCHANGED queueVars
     \/ part = "queue" /\ CQ!Next /\ UNCHANGED vars

(* The fairness of OperationState and of CompletionQueue, each for its part. *)
QueuesFairSpec ==
  /\ QueuesInit /\ [][QueuesNext]_<<part, vars, queueVars>>
  /\ \A o \in Op : /\ WF_vars(part = "operations" /\ Continue(o))
                   /\ WF_vars(part = "operations" /\ Dispatch(o))
  /\ \A d \in Thread : WF_queueVars(part = "queue" /\ CQ!Moves(d))

-----------------------------------------------------------------------------
(* run_ready claims what was ready at its snapshot, no more and no less    *)
(* (CompletionQueue, run_ready).                                           *)
BatchExact == CQ!BatchExact

(* The linked list is a FIFO of records that leave exactly once, and its   *)
(* links, its count and the descriptor a poller watches say the same       *)
(* (CompletionQueue, implementing ReadyQueue).                             *)
IsReadyQueue == CQ!IsReadyQueue /\ []CQ!ListAndDescriptor

(* No wake-up is lost (CompletionQueue, run_one and wait_ready).           *)
WaitersLeave == CQ!WaitersLeave
=============================================================================
