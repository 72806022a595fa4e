----------------------------- MODULE ReadyQueue -----------------------------
(***************************************************************************)
(* What a completion queue promises its users: a record is registered,     *)
(* becomes ready at most once, and leaves exactly once, either claimed by  *)
(* a dispatcher in the order records became ready or dropped unclaimed.    *)
(* Shutting the queue drops whatever is left and admits nothing more.      *)
(***************************************************************************)
EXTENDS Naturals, Sequences

CONSTANT Token

VARIABLES
  stage,   \* "unknown", "held", "ready", "claimed" or "dropped"
  queue,   \* the ready records, first to be claimed first
  open     \* FALSE once shut

vars == <<stage, queue, open>>

Init ==
  /\ stage = [t \in Token |-> "unknown"]
  /\ queue = <<>>
  /\ open = TRUE

Hold(t) ==
  /\ open
  /\ stage[t] = "unknown"
  /\ stage' = [stage EXCEPT ![t] = "held"]
  /\ UNCHANGED <<queue, open>>

(* A record becomes ready, or is registered ready. *)
Ready(t) ==
  /\ open
  /\ stage[t] \in {"unknown", "held"}
  /\ stage' = [stage EXCEPT ![t] = "ready"]
  /\ queue' = Append(queue, t)
  /\ UNCHANGED open

Claim ==
  /\ queue # <<>>
  /\ stage' = [stage EXCEPT ![Head(queue)] = "claimed"]
  /\ queue' = Tail(queue)
  /\ UNCHANGED open

Drop(t) ==
  /\ stage[t] \in {"held", "ready"}
  /\ stage' = [stage EXCEPT ![t] = "dropped"]
  /\ queue' = SelectSeq(queue, LAMBDA u : u # t)
  /\ UNCHANGED open

Dropping(gone) ==
  [t \in Token |-> IF stage[t] \in gone THEN "dropped" ELSE stage[t]]

DropReady ==
  /\ stage' = Dropping({"ready"})
  /\ queue' = <<>>
  /\ UNCHANGED open

Shut ==
  /\ open
  /\ open' = FALSE
  /\ stage' = Dropping({"held", "ready"})
  /\ queue' = <<>>

Next ==
  \/ \E t \in Token : Hold(t) \/ Ready(t) \/ Drop(t)
  \/ Claim \/ DropReady \/ Shut

Spec == Init /\ [][Next]_vars
=============================================================================
