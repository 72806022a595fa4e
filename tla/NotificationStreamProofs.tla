---------------------- MODULE NotificationStreamProofs ----------------------
(***************************************************************************)
(* The notification log keeps its count bound, accounts for every drop and *)
(* loses nothing a watch still needs except to its bounds, for every set   *)
(* of cursors and threads and every value of the bounds.                   *)
(***************************************************************************)
EXTENDS NotificationStream, FiniteSetTheorems, TLAPS

(***************************************************************************)
(* What is true of one subscription between operations.  The read part of  *)
(* the log (from its start to its cursor) is given or counted as dropped,  *)
(* and the unread part is retained or lost to a bound.                     *)
(***************************************************************************)
Read(c) == first[c] .. cursor[c].next_sequence - 1

Unread(c) == cursor[c].next_sequence .. next_sequence - 1

CursorInv(c) ==
  /\ first[c] <= cursor[c].next_sequence
  /\ cursor[c].next_sequence <= next_sequence
  /\ seen[c] \subseteq Read(c)
  /\ Held \cap Read(c) \subseteq seen[c]
  /\ cursor[c].dropped = Cardinality(Read(c) \ seen[c])
  /\ Unread(c) \ Held \subseteq lost
  /\ cursor[c].wake_armed <=> cursor[c].pipe /\ Releasable(c)

(* What is missing behind a retained entry was lost to a bound. *)
GapsLost ==
  \A h \in Held : \A s \in h .. next_sequence - 1 : s \in Held \cup lost

LogInv ==
  /\ next_sequence \in Nat
  /\ Held \subseteq 0 .. next_sequence - 1
  /\ entries \in [Held -> BodySize]
  /\ closed \in BOOLEAN
  /\ cursor \in [Cursor -> CursorType]
  /\ first \in [Cursor -> Nat]
  /\ seen \in [Cursor -> SUBSET Nat]
  /\ lost \subseteq 0 .. next_sequence - 1
  /\ Cardinality(Held) <= MaximumCount
  /\ GapsLost
  /\ \A c \in Cursor : cursor[c].live => CursorInv(c)

WaitInv ==
  /\ waiting \in [Thread -> Cursor \cup {NoCursor}]
  /\ parked \subseteq Thread
  /\ \A t \in Thread : waiting[t] # NoCursor => cursor[waiting[t]].live

(* The inductive invariant. *)
IInv == LogInv /\ WaitInv
-----------------------------------------------------------------------------
(* Every nonempty set of naturals has the minimum that Min chooses. *)
LEMMA MinNat ==
  ASSUME NEW S \in SUBSET Nat, S # {}
  PROVE  Min(S) \in S /\ \A y \in S : Min(S) <= y
<1>1. PICK x \in S : \A y \in S : ~(<<y, x>> \in OpToRel(<, Nat))
  BY NatLessThanWellFounded, WFMin, ZenonT(30)
<1>2. ASSUME NEW y \in S
      PROVE  x <= y
  <2>1. y < x => <<y, x>> \in OpToRel(<, Nat)
    BY DEF OpToRel
  <2>2. ~(y < x)
    BY <1>1, <2>1, Zenon
  <2>3. x \in Nat /\ y \in Nat
    OBVIOUS
  <2>4. QED
    BY <2>2, <2>3
<1>3. QED
  BY <1>2, ZenonT(30) DEF Min

(* A subset of an interval of naturals is finite. *)
LEMMA FiniteLog ==
  ASSUME NEW n \in Nat, NEW S, S \subseteq 0 .. n - 1
  PROVE  IsFiniteSet(S) /\ Cardinality(S) \in Nat
<1>1. IsFiniteSet(0 .. n - 1)
  BY FS_Interval
<1>2. QED
  BY <1>1, FS_Subset, FS_CardinalityType, ZenonT(30)

(* Nothing from a live cursor on is below FirstNeeded. *)
LEMMA FirstNeededBound ==
  ASSUME NEW curs \in [Cursor -> CursorType], next_sequence \in Nat
  PROVE  /\ FirstNeeded(curs) \in Nat
         /\ FirstNeeded(curs) <= next_sequence
         /\ \A c \in Cursor : curs[c].live => FirstNeeded(curs) <= curs[c].next_sequence
<1> DEFINE S == {next_sequence}
               \cup {curs[c].next_sequence : c \in {d \in Cursor : curs[d].live}}
<1>1. S \subseteq Nat /\ S # {}
  BY DEF CursorType
<1>2. Min(S) \in S /\ \A y \in S : Min(S) <= y
  BY <1>1, MinNat, ZenonT(30)
<1>3. QED
  BY <1>1, <1>2, ZenonT(30) DEF FirstNeeded

(* The survivors of an eviction leave room for one more entry. *)
LEMMA SurvivorsCount ==
  ASSUME LogInv, NEW arriving, MaximumCount # 0
  PROVE  /\ Survivors(arriving) \subseteq Held
         /\ Cardinality(Survivors(arriving) \cup {next_sequence}) <= MaximumCount
<1> DEFINE kept == Survivors(arriving)
<1>1. kept \subseteq Held
  BY DEF Survivors
<1>2. Held \in SUBSET Nat /\ IsFiniteSet(kept) /\ Cardinality(kept) \in Nat
  <2>1. Held \subseteq 0 .. next_sequence - 1 /\ next_sequence \in Nat
    BY DEF LogInv
  <2>2. Held \in SUBSET Nat
    BY <2>1
  <2>3. kept \subseteq 0 .. next_sequence - 1
    BY <1>1, <2>1, ZenonT(30)
  <2>4. QED
    BY <2>1, <2>2, <2>3, FiniteLog
<1>3. Cardinality(kept) < MaximumCount
  <2>1. CASE kept = {}
    BY <2>1, FS_EmptySet, BoundsAssumption
  <2>2. CASE kept # {}
    <3>1. Min(kept) \in kept /\ \A s \in kept : Min(kept) <= s
      BY <1>1, <1>2, <2>2, MinNat, ZenonT(30)
    <3> DEFINE above == {r \in Held : r >= Min(kept)}
    <3>2. kept \subseteq above
      BY <1>1, <1>2, <3>1
    <3>3. Cardinality(above) < MaximumCount
      BY <3>1 DEF Survivors
    <3>4. IsFiniteSet(above) /\ Cardinality(above) \in Nat
      <4>1. above \subseteq 0 .. next_sequence - 1 /\ next_sequence \in Nat
        BY ZenonT(30) DEF LogInv
      <4>2. QED
        BY <4>1, FiniteLog
    <3>5. Cardinality(kept) <= Cardinality(above)
      BY <3>2, <3>4, FS_Subset
    <3>6. QED
      BY <1>2, <3>3, <3>4, <3>5, BoundsAssumption
  <2>3. QED
    BY <2>1, <2>2
<1>4. Cardinality(kept \cup {next_sequence})
        = IF next_sequence \in kept THEN Cardinality(kept) ELSE Cardinality(kept) + 1
  BY <1>2, FS_AddElement
<1>5. IsFiniteSet(kept \cup {next_sequence})
  BY <1>2, FS_AddElement
<1>6. Cardinality(kept \cup {next_sequence}) \in Nat
  BY <1>5, FS_CardinalityType
<1>7. QED
  BY <1>1, <1>2, <1>3, <1>4, <1>6, BoundsAssumption

(* Pruning leaves every live cursor what it has not read. *)
LEMMA PruneKeeps ==
  ASSUME LogInv, NEW curs \in [Cursor -> CursorType], PruneConsumed(curs)
  PROVE  /\ Held' \subseteq Held
         /\ entries' \in [Held' -> BodySize]
         /\ Cardinality(Held') <= MaximumCount
         /\ \A c \in Cursor, s \in Held :
              curs[c].live /\ s >= curs[c].next_sequence => s \in Held'
         /\ \A h \in Held', s \in Held : s >= h => s \in Held'
<1>1. next_sequence \in Nat /\ Held \subseteq 0 .. next_sequence - 1
      /\ entries \in [Held -> BodySize] /\ Cardinality(Held) <= MaximumCount
  BY DEF LogInv
<1>2. /\ FirstNeeded(curs) \in Nat
      /\ \A c \in Cursor : curs[c].live => FirstNeeded(curs) <= curs[c].next_sequence
  BY <1>1, FirstNeededBound
<1>3. Held' = {s \in Held : s >= FirstNeeded(curs)}
  BY DEF PruneConsumed, Restrict, Held
<1>4. entries' \in [Held' -> BodySize]
  BY <1>1, <1>3 DEF PruneConsumed, Restrict, Held
<1>5. Cardinality(Held') <= MaximumCount
  <2>1. IsFiniteSet(Held) /\ Cardinality(Held) \in Nat
    BY <1>1, FiniteLog, ZenonT(30)
  <2>2. Held' \subseteq 0 .. next_sequence - 1
    BY <1>1, <1>3, ZenonT(30)
  <2>3. Cardinality(Held') \in Nat
    BY <1>1, <2>2, FiniteLog, ZenonT(30)
  <2>4. Cardinality(Held') <= Cardinality(Held)
    BY <1>3, <2>1, FS_Subset
  <2>5. QED
    BY <1>1, <2>1, <2>3, <2>4, BoundsAssumption
<1>6. ASSUME NEW c \in Cursor, NEW s \in Held,
             curs[c].live, s >= curs[c].next_sequence
      PROVE  s \in Held'
  <2>1. curs[c].next_sequence \in Nat /\ s \in Nat
    BY <1>1 DEF CursorType
  <2>2. QED
    BY <1>2, <1>3, <1>6, <2>1
<1>7. \A h \in Held', s \in Held : s >= h => s \in Held'
  <2>1. Held \subseteq Nat
    BY <1>1
  <2>2. QED
    BY <1>2, <1>3, <2>1
<1>8. QED
  BY <1>3, <1>4, <1>5, <1>6, <1>7

(* Counting a set in two disjoint parts. *)
LEMMA DisjointCount ==
  ASSUME NEW S, NEW T, IsFiniteSet(S), IsFiniteSet(T), S \cap T = {}
  PROVE  Cardinality(S \cup T) = Cardinality(S) + Cardinality(T)
<1>1. Cardinality(S \cup T)
        = Cardinality(S) + Cardinality(T) - Cardinality(S \cap T)
  BY FS_Union
<1>2. Cardinality(S \cap T) = 0
  BY FS_EmptySet
<1>3. Cardinality(S) \in Nat /\ Cardinality(T) \in Nat
  BY FS_CardinalityType
<1>4. QED
  BY <1>1, <1>2, <1>3

(* The parts of the log a live cursor divides are finite. *)
LEMMA CursorTypes ==
  ASSUME LogInv, NEW c \in Cursor
  PROVE  /\ next_sequence \in Nat
         /\ cursor[c] \in CursorType
         /\ cursor[c].next_sequence \in Nat
         /\ cursor[c].dropped \in Nat
         /\ first[c] \in Nat
         /\ seen[c] \subseteq Nat
         /\ Gaps(c) \in Nat
         /\ IsFiniteSet(Unread(c) \ Held)
         /\ IsFiniteSet(Read(c) \ seen[c])
<1>1. /\ next_sequence \in Nat
      /\ cursor[c] \in CursorType
      /\ first[c] \in Nat
      /\ seen[c] \subseteq Nat
  BY DEF LogInv
<1>2. cursor[c].next_sequence \in Nat /\ cursor[c].dropped \in Nat
  BY <1>1 DEF CursorType
<1>3. IsFiniteSet(Unread(c) \ Held)
  <2>1. cursor[c].next_sequence \in Int /\ next_sequence - 1 \in Int
    BY <1>1, <1>2
  <2>2. IsFiniteSet(Unread(c))
    BY <2>1, FS_Interval DEF Unread
  <2>3. QED
    BY <2>2, FS_Difference, ZenonT(30)
<1>4. IsFiniteSet(Read(c) \ seen[c])
  <2>1. first[c] \in Int /\ cursor[c].next_sequence - 1 \in Int
    BY <1>1, <1>2
  <2>2. IsFiniteSet(Read(c))
    BY <2>1, FS_Interval DEF Read
  <2>3. QED
    BY <2>2, FS_Difference, ZenonT(30)
<1>5. Gaps(c) \in Nat
  BY <1>3, FS_CardinalityType DEF Gaps, Unread
<1>6. QED
  BY <1>1, <1>2, <1>3, <1>4, <1>5

(***************************************************************************)
(* Collecting moves the cursor to the end: what it passes is given to it   *)
(* or counted, and the other cursors keep what they have not read.         *)
(***************************************************************************)
LEMMA CollectKeeps ==
  ASSUME LogInv, NEW c \in Cursor, cursor[c].live, Collect(c)
  PROVE  LogInv' /\ \A d \in Cursor : cursor'[d].live = cursor[d].live
<1>1. next_sequence' = next_sequence /\ closed' = closed
      /\ first' = first /\ lost' = lost
  BY DEF Collect
<1>2. /\ next_sequence \in Nat
      /\ Held \subseteq 0 .. next_sequence - 1
      /\ closed \in BOOLEAN
      /\ cursor \in [Cursor -> CursorType]
      /\ first \in [Cursor -> Nat]
      /\ seen \in [Cursor -> SUBSET Nat]
      /\ lost \subseteq 0 .. next_sequence - 1
  BY DEF LogInv
<1>3. /\ cursor[c].next_sequence \in Nat
      /\ cursor[c].dropped \in Nat
      /\ Gaps(c) \in Nat
  BY CursorTypes, ZenonT(30)
<1>4. /\ cursor' \in [Cursor -> CursorType]
      /\ \A d \in Cursor \ {c} : cursor'[d] = cursor[d]
      /\ cursor'[c].live = cursor[c].live
      /\ cursor'[c].pipe = cursor[c].pipe
      /\ cursor'[c].next_sequence = next_sequence
      /\ cursor'[c].dropped = cursor[c].dropped + Gaps(c)
      /\ cursor'[c].wake_armed <=> cursor[c].wake_armed /\ (closed \/ ~cursor[c].pipe)
  <2> DEFINE moved == IF closed THEN CaughtUp(c) ELSE Disarm(CaughtUp(c))
  <2>1. cursor[c] \in CursorType
    BY <1>2
  <2>2. CaughtUp(c) \in CursorType
    <3>1. next_sequence \in Nat /\ cursor[c].dropped + Gaps(c) \in Nat
      BY <1>2, <1>3
    <3>2. QED
      BY <2>1, <3>1, ZenonT(30) DEF CaughtUp, CursorType
  <2>3. /\ moved \in CursorType
        /\ moved.live = cursor[c].live
        /\ moved.pipe = cursor[c].pipe
        /\ moved.next_sequence = next_sequence
        /\ moved.dropped = cursor[c].dropped + Gaps(c)
    BY <2>1, <2>2, ZenonT(30) DEF CaughtUp, Disarm, CursorType
  <2>4. moved.wake_armed <=> cursor[c].wake_armed /\ (closed \/ ~cursor[c].pipe)
    BY <1>2, <2>1 DEF CaughtUp, Disarm, CursorType
  <2>5. cursor' = [cursor EXCEPT ![c] = moved]
    BY DEF Collect
  <2> HIDE DEF moved
  <2>6. QED
    BY <1>2, <2>3, <2>4, <2>5, ZenonT(30)
<1>5. /\ seen' \in [Cursor -> SUBSET Nat]
      /\ \A d \in Cursor \ {c} : seen'[d] = seen[d]
      /\ seen'[c] = seen[c] \cup {s \in Held : s >= cursor[c].next_sequence}
  <2> DEFINE given == seen[c] \cup {s \in Held : s >= cursor[c].next_sequence}
  <2>1. given \in SUBSET Nat
    <3>1. seen[c] \subseteq Nat /\ Held \subseteq Nat
      BY <1>2
    <3>2. QED
      BY <3>1, ZenonT(30)
  <2>2. seen' = [seen EXCEPT ![c] = given]
    BY DEF Collect
  <2> HIDE DEF given
  <2>3. seen' \in [Cursor -> SUBSET Nat]
        /\ (\A d \in Cursor \ {c} : seen'[d] = seen[d]) /\ seen'[c] = given
    BY <1>2, <2>1, <2>2
  <2>4. QED
    BY <2>3 DEF given
<1>6. /\ Held' \subseteq Held
      /\ entries' \in [Held' -> BodySize]
      /\ Cardinality(Held') <= MaximumCount
      /\ \A d \in Cursor, s \in Held :
           cursor'[d].live /\ s >= cursor'[d].next_sequence => s \in Held'
      /\ \A h \in Held', s \in Held : s >= h => s \in Held'
  BY <1>4, PruneKeeps, ZenonT(30) DEF Collect
<1>7. ASSUME NEW d \in Cursor, cursor'[d].live
      PROVE  CursorInv(d)'
  <2>1. cursor[d].live /\ CursorInv(d)
    BY <1>4, <1>7 DEF LogInv
  <2>2. first[d] \in Nat /\ cursor[d].next_sequence \in Nat /\ seen[d] \subseteq Nat
    BY CursorTypes, ZenonT(30)
  <2>3. CASE d # c
    <3>1. cursor'[d] = cursor[d] /\ seen'[d] = seen[d]
      BY <1>4, <1>5, <2>3
    <3>2. Unread(d) \ Held' \subseteq lost
      <4>1. ASSUME NEW s \in Unread(d), s \notin Held'
            PROVE  s \notin Held
        BY <1>2, <1>6, <1>7, <2>2, <3>1, <4>1 DEF Unread
      <4>2. QED
        BY <2>1, <4>1 DEF CursorInv
    <3>3. QED
      BY <1>1, <1>6, <2>1, <3>1, <3>2 DEF CursorInv, Read, Unread, Releasable, Behind
  <2>4. CASE d = c
    <3>1. first[c] <= next_sequence
      BY <1>2, <1>3, <2>1, <2>2, <2>4 DEF CursorInv
    <3>2. seen'[c] \subseteq Read(c)' /\ Held' \cap Read(c)' \subseteq seen'[c]
      BY <1>1, <1>2, <1>3, <1>4, <1>5, <1>6, <2>1, <2>2, <2>4 DEF CursorInv, Read
    <3>3. cursor'[c].dropped = Cardinality(Read(c)' \ seen'[c])
      <4>1. Read(c)' \ seen'[c] = (Read(c) \ seen[c]) \cup (Unread(c) \ Held)
        BY <1>1, <1>2, <1>3, <1>4, <1>5, <2>1, <2>2, <2>4 DEF CursorInv, Read, Unread
      <4>2. (Read(c) \ seen[c]) \cap (Unread(c) \ Held) = {}
        BY <1>2, <1>3, <2>2, <2>4 DEF Read, Unread
      <4>3. IsFiniteSet(Read(c) \ seen[c]) /\ IsFiniteSet(Unread(c) \ Held)
        BY CursorTypes, ZenonT(30)
      <4>4. Cardinality(Read(c)' \ seen'[c])
              = Cardinality(Read(c) \ seen[c]) + Cardinality(Unread(c) \ Held)
        BY <4>1, <4>2, <4>3, DisjointCount
      <4>5. cursor[c].dropped = Cardinality(Read(c) \ seen[c])
        BY <2>1, <2>4 DEF CursorInv
      <4>6. Gaps(c) = Cardinality(Unread(c) \ Held)
        BY DEF Gaps, Unread
      <4>7. QED
        BY <1>4, <4>4, <4>5, <4>6
    <3>4. Unread(c)' = {}
      BY <1>1, <1>2, <1>4 DEF Unread
    <3>5. cursor'[c].wake_armed <=> cursor'[c].pipe /\ Releasable(c)'
      <4>1. Releasable(c)' <=> closed
        BY <1>1, <1>2, <1>4 DEF Releasable, Behind
      <4>2. cursor[c].wake_armed <=> cursor[c].pipe /\ Releasable(c)
        BY <2>1, <2>4 DEF CursorInv
      <4>3. closed => Releasable(c)
        BY DEF Releasable
      <4>4. QED
        BY <1>4, <4>1, <4>2, <4>3
    <3>6. QED
      BY <1>1, <1>2, <1>4, <2>4, <3>1, <3>2, <3>3, <3>4, <3>5 DEF CursorInv
  <2>5. QED
    BY <2>3, <2>4
<1>8. GapsLost'
  <2>1. GapsLost /\ Held \subseteq Nat
    BY <1>2 DEF LogInv
  <2>2. QED
    BY <1>1, <1>2, <1>6, <2>1 DEF GapsLost
<1>9. LogInv'
  BY <1>1, <1>2, <1>4, <1>5, <1>6, <1>7, <1>8 DEF LogInv
<1>10. QED
  BY <1>4, <1>9, ZenonT(30)

(* A sweep only arms, and arms exactly the live cursors with work. *)
LEMMA SweepArms ==
  ASSUME cursor \in [Cursor -> CursorType], NEW n \in Nat, NEW isClosed \in BOOLEAN
  PROVE  /\ Sweep(cursor, n, isClosed) \in [Cursor -> CursorType]
         /\ \A c \in Cursor :
              LET swept == Sweep(cursor, n, isClosed)[c]
              IN  /\ swept.live = cursor[c].live
                  /\ swept.pipe = cursor[c].pipe
                  /\ swept.next_sequence = cursor[c].next_sequence
                  /\ swept.dropped = cursor[c].dropped
                  /\ swept.wake_armed <=>
                       \/ cursor[c].wake_armed
                       \/ /\ cursor[c].live /\ cursor[c].pipe
                          /\ isClosed \/ cursor[c].next_sequence < n
<1>1. ASSUME NEW c \in Cursor
      PROVE  /\ Arm(cursor[c]) \in CursorType
             /\ Arm(cursor[c]).live = cursor[c].live
             /\ Arm(cursor[c]).pipe = cursor[c].pipe
             /\ Arm(cursor[c]).next_sequence = cursor[c].next_sequence
             /\ Arm(cursor[c]).dropped = cursor[c].dropped
             /\ Arm(cursor[c]).wake_armed <=> cursor[c].wake_armed \/ cursor[c].pipe
  <2>1. cursor[c] \in CursorType
    OBVIOUS
  <2>2. QED
    BY <2>1 DEF Arm, CursorType
<1>2. QED
  BY <1>1 DEF Sweep

(* A push appends, evicts from the front, and wakes every cursor. *)
LEMMA PushKeeps ==
  ASSUME LogInv, NEW arriving \in BodySize, Push(arriving)
  PROVE  LogInv' /\ \A d \in Cursor : cursor'[d].live = cursor[d].live
<1>1. next_sequence' = next_sequence + 1 /\ closed' = closed
      /\ first' = first /\ seen' = seen
  BY DEF Push
<1>2. /\ next_sequence \in Nat
      /\ Held \subseteq 0 .. next_sequence - 1
      /\ closed \in BOOLEAN
      /\ cursor \in [Cursor -> CursorType]
      /\ entries \in [Held -> BodySize]
      /\ lost \subseteq 0 .. next_sequence - 1
      /\ Cardinality(Held) <= MaximumCount
  BY DEF LogInv
<1>3. /\ cursor' \in [Cursor -> CursorType]
      /\ \A c \in Cursor :
           /\ cursor'[c].live = cursor[c].live
           /\ cursor'[c].pipe = cursor[c].pipe
           /\ cursor'[c].next_sequence = cursor[c].next_sequence
           /\ cursor'[c].dropped = cursor[c].dropped
           /\ cursor'[c].wake_armed <=>
                \/ cursor[c].wake_armed
                \/ /\ cursor[c].live /\ cursor[c].pipe
                   /\ closed \/ cursor[c].next_sequence < next_sequence + 1
  <2>1. next_sequence + 1 \in Nat /\ cursor' = Sweep(cursor, next_sequence + 1, closed)
    BY <1>1, <1>2 DEF Push
  <2>2. QED
    BY <1>2, <2>1, SweepArms
<1>4. /\ Held' \subseteq Held \cup {next_sequence}
      /\ entries' \in [Held' -> BodySize]
      /\ Cardinality(Held') <= MaximumCount
      /\ lost' \subseteq lost \cup Held \cup {next_sequence}
      /\ lost \subseteq lost'
      /\ (Held \cup {next_sequence}) \ Held' \subseteq lost'
  <2>1. CASE MaximumCount # 0 /\ arriving <= MaximumBytes
    <3>1. /\ Survivors(arriving) \subseteq Held
          /\ Cardinality(Survivors(arriving) \cup {next_sequence}) <= MaximumCount
      BY <2>1, SurvivorsCount
    <3>2. entries' = [s \in Survivors(arriving) \cup {next_sequence} |->
                        IF s = next_sequence THEN arriving ELSE entries[s]]
      BY <2>1 DEF Push
    <3>3. Held' = Survivors(arriving) \cup {next_sequence}
      BY <3>2 DEF Held
    <3>4. lost' = lost \cup (Held \ Survivors(arriving))
      BY <2>1 DEF Push
    <3>5. entries' \in [Held' -> BodySize]
      BY <1>2, <3>1, <3>2, <3>3, ZenonT(30)
    <3>6. QED
      BY <3>1, <3>3, <3>4, <3>5
  <2>2. CASE ~(MaximumCount # 0 /\ arriving <= MaximumBytes)
    <3>1. entries' = entries /\ lost' = lost \cup {next_sequence}
      BY <2>2 DEF Push
    <3>2. Held' = Held
      BY <3>1 DEF Held
    <3>3. QED
      BY <1>2, <3>1, <3>2
  <2>3. QED
    BY <2>1, <2>2
<1>5. ASSUME NEW d \in Cursor, cursor'[d].live
      PROVE  CursorInv(d)'
  <2>1. cursor[d].live /\ CursorInv(d)
    BY <1>3, <1>5 DEF LogInv
  <2>2. first[d] \in Nat /\ cursor[d].next_sequence \in Nat /\ seen[d] \subseteq Nat
    BY CursorTypes, ZenonT(30)
  <2>3. Read(d)' = Read(d) /\ next_sequence \notin Read(d)
    BY <1>1, <1>2, <1>3, <2>1, <2>2 DEF Read, CursorInv
  <2>4. Unread(d)' = Unread(d) \cup {next_sequence}
    BY <1>1, <1>2, <1>3, <2>1, <2>2 DEF Unread, CursorInv
  <2>5. Unread(d)' \ Held' \subseteq lost'
    BY <1>4, <2>1, <2>4 DEF CursorInv
  <2>6. Held' \cap Read(d)' \subseteq seen'[d]
    BY <1>1, <1>4, <2>1, <2>3 DEF CursorInv
  <2>7. cursor'[d].wake_armed <=> cursor'[d].pipe /\ Releasable(d)'
    <3>1. cursor[d].next_sequence < next_sequence + 1
      BY <1>2, <2>1, <2>2 DEF CursorInv
    <3>2. Releasable(d)'
      BY <1>1, <1>3, <3>1 DEF Releasable, Behind
    <3>3. cursor[d].wake_armed => cursor[d].pipe
      BY <2>1 DEF CursorInv
    <3>4. QED
      BY <1>3, <2>1, <3>1, <3>2, <3>3
  <2>8. cursor'[d].next_sequence <= next_sequence'
    BY <1>1, <1>2, <1>3, <2>1, <2>2 DEF CursorInv
  <2>9. /\ first'[d] <= cursor'[d].next_sequence
        /\ seen'[d] \subseteq Read(d)'
        /\ cursor'[d].dropped = Cardinality(Read(d)' \ seen'[d])
    BY <1>1, <1>3, <2>1, <2>3 DEF CursorInv
  <2>10. QED
    BY <2>5, <2>6, <2>7, <2>8, <2>9 DEF CursorInv
<1>6. Held' \subseteq 0 .. next_sequence' - 1 /\ lost' \subseteq 0 .. next_sequence' - 1
  BY <1>1, <1>2, <1>4
<1>7. GapsLost'
  <2>1. GapsLost
    BY DEF LogInv
  <2>2. SUFFICES ASSUME NEW h \in Held', NEW s \in h .. next_sequence
                 PROVE  s \in Held' \cup lost'
    BY <1>1, <1>2 DEF GapsLost
  <2>3. CASE s = next_sequence
    BY <1>4, <2>3
  <2>4. CASE s # next_sequence
    <3>1. h \in Held /\ s \in h .. next_sequence - 1
      BY <1>2, <1>4, <2>4
    <3>2. s \in Held \cup lost
      BY <2>1, <3>1 DEF GapsLost
    <3>3. QED
      BY <1>4, <3>2
  <2>5. QED
    BY <2>3, <2>4
<1>8. LogInv'
  BY <1>1, <1>2, <1>3, <1>4, <1>5, <1>6, <1>7 DEF LogInv
<1>9. QED
  BY <1>3, <1>8

(* Closing arms every live cursor. *)
LEMMA CloseKeeps ==
  ASSUME LogInv, Close
  PROVE  LogInv' /\ \A d \in Cursor : cursor'[d].live = cursor[d].live
<1>1. /\ entries' = entries /\ next_sequence' = next_sequence /\ closed' = TRUE
      /\ first' = first /\ seen' = seen /\ lost' = lost
  BY DEF Close, history
<1>2. Held' = Held
  BY <1>1 DEF Held
<1>3. next_sequence \in Nat /\ cursor \in [Cursor -> CursorType]
  BY DEF LogInv
<1>4. /\ cursor' \in [Cursor -> CursorType]
      /\ \A c \in Cursor :
           /\ cursor'[c].live = cursor[c].live
           /\ cursor'[c].pipe = cursor[c].pipe
           /\ cursor'[c].next_sequence = cursor[c].next_sequence
           /\ cursor'[c].dropped = cursor[c].dropped
           /\ cursor'[c].wake_armed <=>
                cursor[c].wake_armed \/ (cursor[c].live /\ cursor[c].pipe)
  BY <1>3, SweepArms, ZenonT(30) DEF Close
<1>5. ASSUME NEW d \in Cursor, cursor'[d].live
      PROVE  CursorInv(d)'
  <2>1. cursor[d].live /\ CursorInv(d)
    BY <1>4, <1>5 DEF LogInv
  <2>2. Read(d)' = Read(d) /\ Unread(d)' = Unread(d) /\ Releasable(d)'
    BY <1>1, <1>4 DEF Read, Unread, Releasable
  <2>3. cursor'[d].wake_armed <=> cursor'[d].pipe
    BY <1>4, <2>1 DEF CursorInv
  <2>4. QED
    BY <1>1, <1>2, <1>4, <2>1, <2>2, <2>3 DEF CursorInv
<1>6. GapsLost'
  BY <1>1, <1>2 DEF LogInv, GapsLost
<1>7. LogInv'
  BY <1>1, <1>2, <1>4, <1>5, <1>6, ZenonT(30) DEF LogInv
<1>8. QED
  BY <1>4, <1>7

(* A new subscription starts inside the log or at its end. *)
LEMMA SubscribeKeeps ==
  ASSUME LogInv, NEW c \in Cursor, NEW replay \in BOOLEAN, NEW pipe \in BOOLEAN,
         Subscribe(c, replay, pipe)
  PROVE  LogInv' /\ \A d \in Cursor : cursor[d].live => cursor'[d].live
<1> DEFINE start == IF replay /\ Held # {} THEN Min(Held) ELSE next_sequence
           fresh == [live |-> TRUE, pipe |-> pipe, next_sequence |-> start,
                     dropped |-> 0, wake_armed |-> FALSE]
           opened == IF closed \/ start < next_sequence THEN Arm(fresh) ELSE fresh
<1>1. /\ entries' = entries /\ next_sequence' = next_sequence /\ closed' = closed
      /\ lost' = lost /\ Held' = Held
  BY DEF Subscribe, stream, Held
<1>2. /\ next_sequence \in Nat
      /\ Held \subseteq 0 .. next_sequence - 1
      /\ closed \in BOOLEAN
      /\ cursor \in [Cursor -> CursorType]
      /\ first \in [Cursor -> Nat]
      /\ seen \in [Cursor -> SUBSET Nat]
  BY DEF LogInv
<1>3. /\ start \in Nat /\ start <= next_sequence
      /\ \A s \in start .. next_sequence - 1 : s \in Held \cup lost
  <2>1. CASE replay /\ Held # {}
    <3>1. Min(Held) \in Held
      BY <1>2, <2>1, MinNat
    <3>2. GapsLost
      BY DEF LogInv
    <3>3. start = Min(Held)
      BY <2>1
    <3> HIDE DEF start
    <3>4. start \in Held
      BY <3>1, <3>3
    <3>5. QED
      BY <1>2, <3>2, <3>4 DEF GapsLost
  <2>2. CASE ~(replay /\ Held # {})
    BY <1>2, <2>2
  <2>3. QED
    BY <2>1, <2>2
<1>4. /\ opened \in CursorType /\ opened.live /\ opened.pipe = pipe
      /\ opened.next_sequence = start /\ opened.dropped = 0
      /\ opened.wake_armed <=> pipe /\ (closed \/ start < next_sequence)
  <2> HIDE DEF start
  <2>1. fresh \in CursorType
    BY <1>3 DEF CursorType
  <2>2. QED
    BY <2>1, ZenonT(30) DEF Arm, CursorType
<1>5. /\ cursor' = [cursor EXCEPT ![c] = opened]
      /\ first' = [first EXCEPT ![c] = start]
      /\ seen' = [seen EXCEPT ![c] = {}]
  BY DEF Subscribe
<1> HIDE DEF start, opened
<1>6. /\ cursor' \in [Cursor -> CursorType] /\ cursor'[c] = opened
      /\ first' \in [Cursor -> Nat] /\ first'[c] = start
      /\ seen' \in [Cursor -> SUBSET Nat] /\ seen'[c] = {}
      /\ \A d \in Cursor \ {c} :
           cursor'[d] = cursor[d] /\ first'[d] = first[d] /\ seen'[d] = seen[d]
  BY <1>2, <1>3, <1>4, <1>5
<1>7. ASSUME NEW d \in Cursor, cursor'[d].live
      PROVE  CursorInv(d)'
  <2>1. CASE d # c
    <3>1. CursorInv(d)
      BY <1>6, <1>7, <2>1 DEF LogInv
    <3>2. QED
      BY <1>1, <1>6, <2>1, <3>1, ZenonT(30) DEF CursorInv, Read, Unread, Releasable, Behind
  <2>2. CASE d = c
    <3>1. Read(c)' = {}
      BY <1>3, <1>4, <1>6 DEF Read
    <3>2. Unread(c)' = start .. next_sequence - 1
      BY <1>1, <1>4, <1>6 DEF Unread
    <3>3. Cardinality({}) = 0
      BY FS_EmptySet
    <3>4. Read(c)' \ seen'[c] = {}
      BY <3>1
    <3>5. cursor'[c].dropped = Cardinality(Read(c)' \ seen'[c])
      BY <1>4, <1>6, <3>3, <3>4, ZenonT(30)
    <3>6. cursor'[c].wake_armed <=> cursor'[c].pipe /\ Releasable(c)'
      BY <1>1, <1>4, <1>6 DEF Releasable, Behind
    <3>7. first'[c] <= cursor'[c].next_sequence /\ cursor'[c].next_sequence <= next_sequence'
      BY <1>1, <1>3, <1>4, <1>6
    <3>8. seen'[c] \subseteq Read(c)' /\ Held' \cap Read(c)' \subseteq seen'[c]
      BY <1>6, <3>1
    <3>9. Unread(c)' \ Held' \subseteq lost'
      BY <1>1, <1>3, <3>2
    <3>10. QED
      BY <2>2, <3>5, <3>6, <3>7, <3>8, <3>9 DEF CursorInv
  <2>3. QED
    BY <2>1, <2>2
<1>8. GapsLost'
  BY <1>1 DEF LogInv, GapsLost
<1>9. LogInv'
  BY <1>1, <1>2, <1>6, <1>7, <1>8 DEF LogInv
<1>10. QED
  BY <1>4, <1>6, <1>9

(* Dropping a subscription releases only what no other one needs. *)
LEMMA UnsubscribeKeeps ==
  ASSUME LogInv, NEW c \in Cursor, Unsubscribe(c)
  PROVE  LogInv' /\ \A d \in Cursor \ {c} : cursor'[d].live = cursor[d].live
<1>1. /\ next_sequence' = next_sequence /\ closed' = closed
      /\ first' = first /\ seen' = seen /\ lost' = lost
  BY DEF Unsubscribe, history
<1>2. /\ next_sequence \in Nat
      /\ Held \subseteq 0 .. next_sequence - 1
      /\ cursor \in [Cursor -> CursorType]
  BY DEF LogInv
<1>3. /\ cursor' \in [Cursor -> CursorType] /\ ~cursor'[c].live
      /\ \A d \in Cursor \ {c} : cursor'[d] = cursor[d]
  BY <1>2 DEF Unsubscribe, Idle, CursorType
<1>4. /\ Held' \subseteq Held
      /\ entries' \in [Held' -> BodySize]
      /\ Cardinality(Held') <= MaximumCount
      /\ \A d \in Cursor, s \in Held :
           cursor'[d].live /\ s >= cursor'[d].next_sequence => s \in Held'
      /\ \A h \in Held', s \in Held : s >= h => s \in Held'
  BY <1>3, PruneKeeps, ZenonT(30) DEF Unsubscribe
<1>5. ASSUME NEW d \in Cursor, cursor'[d].live
      PROVE  CursorInv(d)'
  <2>1. d # c /\ cursor'[d] = cursor[d]
    BY <1>3, <1>5
  <2>2. CursorInv(d)
    BY <1>5, <2>1 DEF LogInv
  <2>3. cursor[d].next_sequence \in Nat
    BY CursorTypes, ZenonT(30)
  <2>4. Unread(d) \ Held' \subseteq lost
    <3>1. ASSUME NEW s \in Unread(d), s \notin Held'
          PROVE  s \notin Held
      BY <1>2, <1>4, <1>5, <2>1, <2>3, <3>1 DEF Unread
    <3>2. QED
      BY <2>2, <3>1 DEF CursorInv
  <2>5. QED
    BY <1>1, <1>4, <2>1, <2>2, <2>4 DEF CursorInv, Read, Unread, Releasable, Behind
<1>6. GapsLost'
  <2>1. GapsLost /\ Held \subseteq Nat
    BY <1>2 DEF LogInv
  <2>2. QED
    BY <1>1, <1>2, <1>4, <2>1 DEF GapsLost
<1>7. LogInv'
  BY <1>1, <1>2, <1>3, <1>4, <1>5, <1>6 DEF LogInv
<1>8. QED
  BY <1>3, <1>7

-----------------------------------------------------------------------------
(* A step of the log that keeps the waited-for cursors live keeps WaitInv. *)
LEMMA LiveKept ==
  ASSUME IInv,
         waiting' \in [Thread -> Cursor \cup {NoCursor}],
         parked' \subseteq Thread,
         \A t \in Thread : waiting'[t] \in {waiting[t], NoCursor},
         \A d \in Cursor : cursor[d].live => cursor'[d].live
  PROVE  WaitInv'
BY DEF IInv, WaitInv

LEMMA InitHolds ==
  Init => IInv
<1> SUFFICES ASSUME Init PROVE IInv
  OBVIOUS
<1> USE DEF Init
<1>1. Held = {}
  BY DEF Held
<1>2. Cardinality(Held) = 0
  BY <1>1, FS_EmptySet
<1>3. cursor \in [Cursor -> CursorType] /\ \A c \in Cursor : ~cursor[c].live
  BY DEF Idle, CursorType
<1>4. LogInv
  <2>1. entries \in [Held -> BodySize] /\ GapsLost
    BY <1>1 DEF Held, GapsLost
  <2>2. MaximumCount \in Nat
    BY BoundsAssumption
  <2>3. first \in [Cursor -> Nat] /\ seen \in [Cursor -> SUBSET Nat]
    OBVIOUS
  <2>4. /\ next_sequence \in Nat /\ closed \in BOOLEAN
        /\ Held \subseteq 0 .. next_sequence - 1
        /\ lost \subseteq 0 .. next_sequence - 1
    BY <1>1, ZenonT(30)
  <2>5. Cardinality(Held) <= MaximumCount
    BY <1>2, <2>2
  <2>6. QED
    BY <1>3, <2>1, <2>3, <2>4, <2>5, Zenon DEF LogInv
<1>5. WaitInv
  BY DEF WaitInv
<1>6. QED
  BY <1>4, <1>5 DEF IInv

LEMMA NextKeeps ==
  IInv /\ [Next]_vars => IInv'
<1> SUFFICES ASSUME IInv, [Next]_vars PROVE IInv'
  OBVIOUS
<1> USE DEF IInv
<1>a. waiting \in [Thread -> Cursor \cup {NoCursor}] /\ parked \subseteq Thread
  BY DEF WaitInv
<1>1. ASSUME NEW c \in Cursor, NEW replay \in BOOLEAN, NEW pipe \in BOOLEAN,
             Subscribe(c, replay, pipe)
      PROVE  IInv'
  <2>1. waiting' = waiting /\ parked' = parked
    BY <1>1 DEF Subscribe
  <2>2. QED
    BY <1>a, <1>1, <2>1, SubscribeKeeps, LiveKept
<1>2. ASSUME NEW c \in Cursor, Unsubscribe(c)
      PROVE  IInv'
  <2>1. /\ waiting' = waiting /\ parked' = parked
        /\ \A t \in Thread : waiting[t] # c
    BY <1>2 DEF Unsubscribe
  <2>2. LogInv' /\ \A d \in Cursor \ {c} : cursor'[d].live = cursor[d].live
    BY <1>2, UnsubscribeKeeps
  <2>3. WaitInv'
    BY <1>a, <2>1, <2>2 DEF WaitInv
  <2>4. QED
    BY <2>2, <2>3
<1>3. ASSUME NEW c \in Cursor, Take(c)
      PROVE  IInv'
  <2>1. waiting' = waiting /\ parked' = parked /\ cursor[c].live /\ Collect(c)
    BY <1>3 DEF Take
  <2>2. QED
    BY <1>a, <2>1, CollectKeeps, LiveKept
<1>4. ASSUME NEW arriving \in BodySize, Push(arriving)
      PROVE  IInv'
  <2>1. waiting' = waiting /\ parked' = {}
    BY <1>4 DEF Push, Notified
  <2>2. QED
    BY <1>a, <1>4, <2>1, PushKeeps, LiveKept
<1>5. ASSUME Close
      PROVE  IInv'
  <2>1. waiting' = waiting /\ parked' = {}
    BY <1>5 DEF Close, Notified
  <2>2. QED
    BY <1>a, <1>5, <2>1, CloseKeeps, LiveKept
<1>b. ASSUME UNCHANGED <<stream, cursor, history>>
      PROVE  LogInv'
  BY <1>b DEF LogInv, GapsLost, CursorInv, Read, Unread, Releasable, Behind,
              Held, stream, history
<1>6. ASSUME NEW t \in Thread, NEW c \in Cursor, Wait(t, c)
      PROVE  IInv'
  <2>1. CASE Collect(c) /\ UNCHANGED <<waiting, parked>>
    BY <1>a, <1>6, <2>1, CollectKeeps, LiveKept DEF Wait
  <2>2. CASE /\ waiting' = [waiting EXCEPT ![t] = c]
             /\ parked' = parked \cup {t}
             /\ UNCHANGED <<stream, cursor, history>>
    <3>1. WaitInv'
      BY <1>6, <2>2 DEF Wait, WaitInv
    <3>2. QED
      BY <1>b, <2>2, <3>1
  <2>3. QED
    BY <1>6, <2>1, <2>2 DEF Wait
<1>7. ASSUME NEW t \in Thread, Resume(t) \/ Expire(t)
      PROVE  IInv'
  <2>1. waiting[t] \in Cursor /\ cursor[waiting[t]].live
    BY <1>7 DEF Resume, Expire, WaitInv
  <2>2. CASE /\ Collect(waiting[t])
             /\ waiting' = [waiting EXCEPT ![t] = NoCursor]
             /\ parked' \subseteq parked
    BY <1>a, <2>1, <2>2, CollectKeeps, LiveKept
  <2>3. CASE /\ parked' = parked \cup {t}
             /\ UNCHANGED <<stream, cursor, waiting, history>>
    <3>1. WaitInv'
      BY <2>3 DEF WaitInv
    <3>2. QED
      BY <1>b, <2>3, <3>1
  <2>4. QED
    BY <1>7, <2>2, <2>3, ZenonT(30) DEF Resume, Expire
<1>8. CASE UNCHANGED vars
  <2>1. WaitInv'
    BY <1>8 DEF WaitInv, vars
  <2>2. QED
    BY <1>b, <1>8, <2>1 DEF vars
<1>9. QED
  BY <1>1, <1>2, <1>3, <1>4, <1>5, <1>6, <1>7, <1>8 DEF Next

(***************************************************************************)
(* The log, its cursors and its waiters are inductively well formed.       *)
(***************************************************************************)
THEOREM Inductive ==
  Spec => []IInv
<1>1. Init => IInv
  BY InitHolds
<1>2. IInv /\ [Next]_vars => IInv'
  BY NextKeeps
<1>3. QED
  BY <1>1, <1>2, PTL DEF Spec
-----------------------------------------------------------------------------
(* The state of the stream has its types in every reachable state. *)
THEOREM TypeCorrect ==
  Spec => []TypeOK
<1>1. IInv => TypeOK
  BY DEF IInv, LogInv, WaitInv, TypeOK
<1>2. QED
  BY <1>1, Inductive, PTL

(***************************************************************************)
(* push never retains more than maximum_count notifications.               *)
(***************************************************************************)
THEOREM CountStaysBounded ==
  Spec => []CountBounded
<1>1. IInv => CountBounded
  BY DEF IInv, LogInv, CountBounded
<1>2. QED
  BY <1>1, Inductive, PTL

(***************************************************************************)
(* No watch's take, and no unsubscription, ever costs another watch an     *)
(* entry it has not read: only push's bounds do.                           *)
(***************************************************************************)
THEOREM OnlyBoundsEverLose ==
  Spec => []OnlyBoundsLose
<1>1. IInv => OnlyBoundsLose
  BY ZenonT(30) DEF IInv, LogInv, CursorInv, Unread, OnlyBoundsLose
<1>2. QED
  BY <1>1, Inductive, PTL

(***************************************************************************)
(* The self-pipe of a watch holds its byte exactly while `wait` on that    *)
(* watch would return at once.                                             *)
(***************************************************************************)
THEOREM DescriptorsAgree ==
  Spec => []DescriptorAgrees
<1>1. IInv => DescriptorAgrees
  BY ZenonT(30) DEF IInv, LogInv, CursorInv, DescriptorAgrees
<1>2. QED
  BY <1>1, Inductive, PTL

(***************************************************************************)
(* dropped_notifications() counts exactly what was pushed since the        *)
(* subscription and can no longer be given to it.                          *)
(***************************************************************************)
THEOREM DropsAreExact ==
  Spec => []DropsExact
<1>1. ASSUME LogInv, NEW c \in Cursor, cursor[c].live
      PROVE  PendingDrops(c) =
               Cardinality((first[c] .. next_sequence - 1) \ (seen[c] \cup Held))
  <2> DEFINE missed == Read(c) \ seen[c]
             gone == Unread(c) \ Held
  <2>1. CursorInv(c)
    BY <1>1 DEF LogInv
  <2>2. next_sequence \in Nat /\ cursor[c].next_sequence \in Nat /\ first[c] \in Nat
    BY <1>1, CursorTypes, ZenonT(30) DEF LogInv
  <2>3. PendingDrops(c) = Cardinality(missed) + Cardinality(gone)
    BY <2>1 DEF PendingDrops, Gaps, CursorInv, Unread
  <2>4. missed \cap gone = {}
    BY <2>2 DEF Read, Unread
  <2>5. missed \cup gone = (first[c] .. next_sequence - 1) \ (seen[c] \cup Held)
    <3>1. first[c] .. next_sequence - 1 = Read(c) \cup Unread(c)
      BY <2>1, <2>2 DEF CursorInv, Read, Unread
    <3>2. seen[c] \cap Unread(c) = {} /\ Held \cap Read(c) \subseteq seen[c]
      BY <2>1, <2>2 DEF CursorInv, Read, Unread
    <3>3. QED
      BY <3>1, <3>2
  <2>6. IsFiniteSet(missed) /\ IsFiniteSet(gone)
    <3>1. missed \subseteq 0 .. next_sequence - 1 /\ gone \subseteq 0 .. next_sequence - 1
      BY <2>1, <2>2 DEF CursorInv, Read, Unread
    <3>2. QED
      BY <2>2, <3>1, FiniteLog
  <2>7. QED
    <3> HIDE DEF missed, gone
    <3>1. Cardinality(missed \cup gone) = Cardinality(missed) + Cardinality(gone)
      BY <2>4, <2>6, DisjointCount
    <3>2. QED
      BY <2>3, <2>5, <3>1, ZenonT(30)
<1>2. IInv => DropsExact
  BY <1>1 DEF IInv, DropsExact
<1>3. QED
  BY <1>2, Inductive, PTL
=============================================================================
