------------------------- MODULE NotificationStream -------------------------
(***************************************************************************)
(* The bounded notification log of a control connection                    *)
(* (src/notification_stream.cpp): one deque of entries with consecutive    *)
(* sequence numbers, any number of cursors that read it independently, and *)
(* per cursor a self-pipe whose readability tells a poller there is work.  *)
(* Every operation runs under the stream's mutex and is one action;        *)
(* `wait` sleeps on the condition variable, so it is the action that       *)
(* parks a thread and the two that return from it.                         *)
(*                                                                         *)
(* The deque is a function from the retained sequence numbers to the body  *)
(* size of each: its front is its least sequence number.                   *)
(***************************************************************************)
EXTENDS Integers, FiniteSets, FiniteSetsExt

CONSTANTS
  Cursor,      \* the cursors that may be subscribed
  NoCursor,    \* what a thread that is not waiting waits on
  Thread,      \* threads that call `wait`
  BodySize,    \* the sizes a notification's body may have
  MaximumCount, MaximumBytes,
  MaxPush      \* bound on the notifications pushed in a behaviour

ASSUME BoundsAssumption ==
  /\ MaximumCount \in Nat
  /\ MaximumBytes \in Nat
  /\ MaxPush \in Nat
  /\ BodySize \subseteq Nat
  /\ NoCursor \notin Cursor

VARIABLES
  entries,        \* entries_: retained sequence number -> body size
  bytes,          \* bytes_
  next_sequence,  \* next_sequence_
  closed,         \* closed_
  cursor,         \* the NotificationCursor of each subscription
  waiting,        \* the cursor a thread is inside `wait` for
  parked,         \* the threads asleep on condition_
  first,          \* history: where a subscription started reading
  seen,           \* history: the sequence numbers it was given
  lost            \* history: the sequence numbers the bounds removed

stream == <<entries, bytes, next_sequence, closed>>
history == <<first, seen, lost>>
vars == <<stream, cursor, waiting, parked, history>>

Idle == [live |-> FALSE, pipe |-> FALSE, next_sequence |-> 0, dropped |-> 0,
         wake_armed |-> FALSE]

Init ==
  /\ entries = [s \in {} |-> 0]
  /\ bytes = 0
  /\ next_sequence = 0
  /\ closed = FALSE
  /\ cursor = [c \in Cursor |-> Idle]
  /\ waiting = [t \in Thread |-> NoCursor]
  /\ parked = {}
  /\ first = [c \in Cursor |-> 0]
  /\ seen = [c \in Cursor |-> {}]
  /\ lost = {}
-----------------------------------------------------------------------------
Held == DOMAIN entries

BytesOf(S) == MapThenSumSet(LAMBDA s : entries[s], S)

(***************************************************************************)
(* Writing the one byte makes the pipe readable; a cursor whose pipe could *)
(* not be made is never armed.                                             *)
(***************************************************************************)
Arm(cur) == [cur EXCEPT !.wake_armed = @ \/ cur.pipe]

Disarm(cur) == [cur EXCEPT !.wake_armed = @ /\ ~cur.pipe]

(* sweep_cursors_locked, for the values the caller has just written. *)
MutSweep(curs, next, isClosed) ==
  [c \in Cursor |-> IF curs[c].live /\ curs[c].next_sequence < next
                    THEN Arm(curs[c]) ELSE curs[c]]

Sweep(curs, next, isClosed) ==
  [c \in Cursor |-> IF curs[c].live /\ (isClosed \/ curs[c].next_sequence < next)
                    THEN Arm(curs[c]) ELSE curs[c]]

(***************************************************************************)
(* prune_consumed_locked: an entry every cursor has read is released.      *)
(***************************************************************************)
MutFirstNeeded(curs) ==
  Max({0} \cup {curs[c].next_sequence : c \in {d \in Cursor : curs[d].live}})

FirstNeeded(curs) ==
  Min({next_sequence}
      \cup {curs[c].next_sequence : c \in {d \in Cursor : curs[d].live}})

PruneConsumed(curs) ==
  LET kept == {s \in Held : s >= FirstNeeded(curs)}
  IN  /\ entries' = Restrict(entries, kept)
      /\ bytes' = bytes - BytesOf(Held \ kept)

(***************************************************************************)
(* The eviction loop of push drops the front entry until the count and the *)
(* bytes leave room: an entry survives iff what is left from it on does.   *)
(***************************************************************************)
Survivors(arriving) ==
  {s \in Held : /\ Cardinality({r \in Held : r >= s}) < MaximumCount
                /\ bytes - BytesOf({r \in Held : r < s}) <= MaximumBytes - arriving}
-----------------------------------------------------------------------------
Subscribe(c, replay, pipe) ==
  LET start == IF replay /\ Held # {} THEN Min(Held) ELSE next_sequence
      fresh == [live |-> TRUE, pipe |-> pipe, next_sequence |-> start,
                dropped |-> 0, wake_armed |-> FALSE]
  IN  /\ ~cursor[c].live
      /\ cursor' = [cursor EXCEPT ![c] = IF closed \/ start < next_sequence
                                         THEN Arm(fresh) ELSE fresh]
      /\ first' = [first EXCEPT ![c] = start]
      /\ seen' = [seen EXCEPT ![c] = {}]
      /\ UNCHANGED <<stream, waiting, parked, lost>>

(* ~NotificationWatchState; a watch is not destroyed under a thread in it. *)
Unsubscribe(c) ==
  /\ cursor[c].live
  /\ \A t \in Thread : waiting[t] # c
  /\ cursor' = [cursor EXCEPT ![c] = Idle]
  /\ PruneConsumed(cursor')
  /\ UNCHANGED <<next_sequence, closed, waiting, parked, history>>

MutNotified(asleep) == asleep

(* condition_.notify_all: what is left asleep. *)
Notified(asleep) == {}

Push(arriving) ==
  LET fits == MaximumCount # 0 /\ arriving <= MaximumBytes
      kept == Survivors(arriving)
  IN  /\ next_sequence < MaxPush
      /\ next_sequence' = next_sequence + 1
      /\ IF fits
         THEN /\ entries' = [s \in kept \cup {next_sequence} |->
                               IF s = next_sequence THEN arriving ELSE entries[s]]
              /\ bytes' = bytes - BytesOf(Held \ kept) + arriving
              /\ lost' = lost \cup (Held \ kept)
         ELSE /\ lost' = lost \cup {next_sequence}
              /\ UNCHANGED <<entries, bytes>>
      /\ cursor' = Sweep(cursor, next_sequence', closed)
      /\ parked' = Notified(parked)
      /\ UNCHANGED <<closed, waiting, first, seen>>

Close ==
  /\ ~closed
  /\ closed' = TRUE
  /\ cursor' = Sweep(cursor, next_sequence, TRUE)
  /\ parked' = Notified(parked)
  /\ UNCHANGED <<entries, bytes, next_sequence, waiting, history>>

(***************************************************************************)
(* collect_locked: everything retained from the cursor on is returned, the *)
(* gaps are added to its drop count, and the cursor catches up.            *)
(***************************************************************************)
Gaps(c) == Cardinality((cursor[c].next_sequence .. next_sequence - 1) \ Held)

MutCaughtUp(c) == [cursor[c] EXCEPT !.next_sequence = next_sequence]

CaughtUp(c) ==
  [cursor[c] EXCEPT !.next_sequence = next_sequence, !.dropped = @ + Gaps(c)]

Collect(c) ==
  /\ cursor' = [cursor EXCEPT ![c] = IF closed THEN CaughtUp(c)
                                               ELSE Disarm(CaughtUp(c))]
  /\ seen' = [seen EXCEPT ![c] =
                @ \cup {s \in Held : s >= cursor[c].next_sequence}]
  /\ PruneConsumed(cursor')
  /\ UNCHANGED <<next_sequence, closed, first, lost>>

Take(c) ==
  /\ cursor[c].live
  /\ Collect(c)
  /\ UNCHANGED <<waiting, parked>>

Behind(c) == cursor[c].next_sequence < next_sequence

(* The predicate `wait` sleeps on. *)
Releasable(c) == Behind(c) \/ closed

Wait(t, c) ==
  /\ waiting[t] = NoCursor
  /\ cursor[c].live
  /\ \/ /\ Releasable(c)
        /\ Collect(c)
        /\ UNCHANGED <<waiting, parked>>
     \/ /\ ~Releasable(c)
        /\ waiting' = [waiting EXCEPT ![t] = c]
        /\ parked' = parked \cup {t}
        /\ UNCHANGED <<stream, cursor, history>>

(* A notified thread tests the predicate again under the lock. *)
Resume(t) ==
  /\ waiting[t] # NoCursor
  /\ t \notin parked
  /\ \/ /\ Releasable(waiting[t])
        /\ Collect(waiting[t])
        /\ waiting' = [waiting EXCEPT ![t] = NoCursor]
        /\ UNCHANGED parked
     \/ /\ ~Releasable(waiting[t])
        /\ parked' = parked \cup {t}
        /\ UNCHANGED <<stream, cursor, waiting, history>>

(* The deadline passes; what is there is returned all the same. *)
Expire(t) ==
  /\ waiting[t] # NoCursor
  /\ Collect(waiting[t])
  /\ waiting' = [waiting EXCEPT ![t] = NoCursor]
  /\ parked' = parked \ {t}

Next ==
  \/ \E c \in Cursor, replay, pipe \in BOOLEAN : Subscribe(c, replay, pipe)
  \/ \E c \in Cursor : Unsubscribe(c) \/ Take(c)
  \/ \E arriving \in BodySize : Push(arriving)
  \/ Close
  \/ \E t \in Thread : (\E c \in Cursor : Wait(t, c)) \/ Resume(t) \/ Expire(t)

Spec == Init /\ [][Next]_vars

(* A notified thread is eventually scheduled; a deadline may never come. *)
FairSpec == Spec /\ \A t \in Thread : WF_vars(Resume(t))
-----------------------------------------------------------------------------
CursorType ==
  [live : BOOLEAN, pipe : BOOLEAN, next_sequence : Nat, dropped : Nat,
   wake_armed : BOOLEAN]

(* The types of the stream, of its cursors and of the history. *)
TypeOK ==
  /\ next_sequence \in Nat
  /\ Held \subseteq 0 .. next_sequence - 1
  /\ entries \in [Held -> BodySize]
  /\ closed \in BOOLEAN
  /\ cursor \in [Cursor -> CursorType]
  /\ waiting \in [Thread -> Cursor \cup {NoCursor}]
  /\ parked \subseteq Thread
  /\ first \in [Cursor -> Nat]
  /\ seen \in [Cursor -> SUBSET Nat]
  /\ lost \subseteq 0 .. next_sequence - 1

(***************************************************************************)
(* The log never retains more notifications than its bound, in whatever    *)
(* order pushes, subscriptions and takes come.                             *)
(***************************************************************************)
CountBounded == Cardinality(Held) <= MaximumCount

(***************************************************************************)
(* What dropped_notifications() reports: the drops counted so far plus the *)
(* gaps a take would find now (pending_drops_locked).                      *)
(***************************************************************************)
PendingDrops(c) == cursor[c].dropped + Gaps(c)

(***************************************************************************)
(* The count a watch reports is exactly the notifications pushed since it  *)
(* subscribed that it was neither given nor can still be given: no drop is *)
(* missed, counted twice, or counted for an entry a take would return.     *)
(***************************************************************************)
DropsExact ==
  \A c \in Cursor : cursor[c].live =>
    PendingDrops(c) =
      Cardinality((first[c] .. next_sequence - 1) \ (seen[c] \cup Held))

(***************************************************************************)
(* Another watch's take, or its destruction, never costs this one an       *)
(* entry: what it has not read yet is retained unless a bound removed it.  *)
(***************************************************************************)
OnlyBoundsLose ==
  \A c \in Cursor : cursor[c].live =>
    (cursor[c].next_sequence .. next_sequence - 1) \ Held \subseteq lost

(***************************************************************************)
(* Both bounds of push are kept and nothing else loses an entry: the count *)
(* and bytes_, which is the size of what the log holds, whatever was       *)
(* evicted, pruned and taken.                                              *)
(***************************************************************************)
BoundsKept ==
  /\ CountBounded /\ bytes = BytesOf(Held) /\ bytes <= MaximumBytes
  /\ OnlyBoundsLose

(***************************************************************************)
(* The descriptor of a watch is readable exactly when `wait` on it would   *)
(* return at once, so a poller and a blocked thread never disagree.        *)
(***************************************************************************)
DescriptorAgrees ==
  \A c \in Cursor : cursor[c].live /\ cursor[c].pipe =>
    (cursor[c].wake_armed <=> Releasable(c))

(***************************************************************************)
(* No wake-up is lost: no thread sleeps for good inside `wait` on a cursor *)
(* that is behind or after the stream has closed (push, close and wait).   *)
(***************************************************************************)
Overdue(t) == waiting[t] # NoCursor /\ (closed \/ Behind(waiting[t]))

WaitersServed == \A t \in Thread : []<>~Overdue(t)
=============================================================================
