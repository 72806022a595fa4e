--------------------------- MODULE PaneInputEcho ----------------------------
(***************************************************************************)
(* What a tool call typed is on record and nothing is left in tmux unsaid, *)
(* proved of module PaneInput: the invariant on the echo ledger, the       *)
(* dispatches and the paste buffers, and the steps that keep it.           *)
(***************************************************************************)
EXTENDS PaneInputRuns

(* A pane of this daemon, or of one before it, that has been there. *)
KeyOk(k) ==
  /\ k[1] \in Nat /\ k[1] <= world.gen /\ k[2] \in Panes
  /\ k[1] = world.gen => world.status[k[2]] # "unborn"

(* A record of the pane would be pruned, or was. *)
Gone(k) == k \in world.pruned \/ k[1] # world.gen \/ world.status[k[2]] = "gone"

(* The call that has the token, if it still has it, is at none of the pcs. *)
Past(t, pcs) == \A c \in Calls : call[c].token = t => call[c].pc \notin pcs

PaneInv ==
  /\ world.gen \in Nat
  /\ \A p \in Panes : world.status[p] \in {"unborn", "alive", "dead", "gone"}

(* What reached a pane was dispatched, and is on the record of the pane as *)
(* long as the pane is listed and its record was not pruned.               *)
ReachedOk(r) ==
  /\ KeyOk(r[1]) /\ Given(r[2]) /\ Past(r[2], {"stage", "note", "dispatch"})
  /\ r[1][1] = world.gen /\ world.status[r[1][2]] \in {"alive", "dead"} /\ r[1] \notin world.pruned =>
       r[2] \in OnRecord(r[1])

UnsentOk(t) == Given(t) /\ Past(t, {"stage", "note", "dispatch"})

(* A token comes on a record when its call writes the ledger. *)
RecordedOk(k, t) ==
  /\ Given(t) /\ Past(t, {"stage", "note"}) /\ t \notin world.unsent
  /\ \A c \in Calls : call[c].token = t /\ call[c].pc = "dispatch" => k \in Identities(call[c].final)

(* Nobody else has written to the records of a call that is about to       *)
(* dispatch, and what is gone was pruned or is of no pane any more.        *)
AwaitsDispatch(c, k) ==
  /\ KeyOk(k)
  /\ \E e \in registry.active : e.id = k /\ e.token = call[c].token
  /\ call[c].prev[k] \in Seq(Nat)
  /\ \A i \in DOMAIN call[c].prev[k] : call[c].prev[k][i] # call[c].token
  /\ k \in DOMAIN ledger => ledger[k] = Append(call[c].prev[k], call[c].token)
  /\ k \notin DOMAIN ledger => Gone(k)

DispatchOk(c) ==
  call[c].pc = "dispatch" =>
    /\ DOMAIN call[c].prev = Identities(call[c].final)
    /\ \A k \in Identities(call[c].final) : AwaitsDispatch(c, k)

BufferOk(c) ==
  /\ c \in world.buffers => call[c].buffer \in {"staged", "reported"}
  /\ call[c].buffer # "none" => call[c].tool = "paste_text"
  /\ call[c].pc \in {"preflight", "reserve", "prove", "take", "stage"} => call[c].buffer = "none"
  /\ call[c].pc \in {"stage", "cleanup"} => call[c].tool = "paste_text"
  /\ call[c].pc \in {"prune", "release", "done", "running", "retain", "watched"} =>
       call[c].buffer # "staged"

EchoInv ==
  /\ PaneInv
  /\ \A r \in world.reached : ReachedOk(r)
  /\ \A t \in world.unsent : UnsentOk(t)
  /\ \A k \in DOMAIN ledger : ledger[k] \in Seq(Nat) /\ \A t \in OnRecord(k) : RecordedOk(k, t)
  /\ \A c \in Calls : DispatchOk(c) /\ BufferOk(c)
-----------------------------------------------------------------------------
InSeq(t, q) == \E i \in DOMAIN q : t = q[i]

LEMMA OnRecordIs ==
  ASSUME NEW k, NEW t
  PROVE  t \in OnRecord(k) <=> k \in DOMAIN ledger /\ InSeq(t, ledger[k])
<1>1. CASE k \in DOMAIN ledger
  BY <1>1, Zenon DEF OnRecord, Known, InSeq
<1>2. CASE k \notin DOMAIN ledger
  <2>1. Known(k) = <<>> /\ DOMAIN Known(k) = {}
    BY <1>2 DEF Known
  <2>. QED
    BY <1>2, <2>1, Zenon DEF OnRecord, InSeq
<1>. QED
  BY <1>1, <1>2

LEMMA OnRecordWillBe ==
  ASSUME NEW k, NEW t
  PROVE  t \in OnRecord(k)' <=> k \in DOMAIN ledger' /\ InSeq(t, ledger'[k])
<1>1. CASE k \in DOMAIN ledger'
  BY <1>1, Zenon DEF OnRecord, Known, InSeq
<1>2. CASE k \notin DOMAIN ledger'
  <2>1. Known(k)' = <<>> /\ DOMAIN Known(k)' = {}
    BY <1>2 DEF Known
  <2>. QED
    BY <1>2, <2>1, Zenon DEF OnRecord, InSeq
<1>. QED
  BY <1>1, <1>2

LEMMA EchoStarts == InputInit => EchoInv
<1>. SUFFICES ASSUME InputInit PROVE EchoInv
  OBVIOUS
<1>1. PICK asked \in [Calls -> Requests] : call = [c \in Calls |-> Asked(asked[c])]
  BY DEF InputInit
<1>2. \A c \in Calls : call[c].pc = "preflight" /\ call[c].buffer = "none"
  BY <1>1, ZenonT(30) DEF Asked
<1>3. /\ world.gen = 1 /\ \A p \in Panes : world.status[p] \in {"unborn", "alive"}
      /\ world.reached = {} /\ world.unsent = {} /\ world.buffers = {}
  BY DEF InputInit, Fresh
<1>4. DOMAIN ledger = {}
  BY DEF InputInit
<1>5. PaneInv
  BY <1>3 DEF PaneInv
<1>6. ASSUME NEW c \in Calls PROVE DispatchOk(c) /\ BufferOk(c)
  BY <1>2, <1>3 DEF DispatchOk, BufferOk
<1>. QED
  BY <1>3, <1>4, <1>5, <1>6 DEF EchoInv

(* Steps of a call that leave the records, and what they are about, alone. *)
SameRecords ==
  /\ ledger' = ledger
  /\ world'.gen = world.gen /\ world'.status = world.status
  /\ world'.reached = world.reached /\ world'.unsent = world.unsent /\ world'.pruned = world.pruned

Others(c) ==
  /\ \A d \in Calls : d # c => call'[d] = call[d]
  /\ \A d \in Calls : d # c => (d \in world'.buffers => d \in world.buffers)

(* The call does not come to a dispatch, or get an old token. *)
NoDispatch(c) ==
  /\ call'[c].pc # "dispatch"
  /\ call'[c].pc \in {"stage", "note"} =>
       \/ ~Given(call'[c].token)
       \/ call'[c].token = call[c].token /\ call[c].pc \in {"stage", "note"}

(* The reservations of the others that dispatch stay. *)
KeepsHolders(c) ==
  /\ registry'.next \in Nat /\ registry.next <= registry'.next
  /\ \A d \in Calls : d # c /\ call[d].pc = "dispatch" =>
       \A e \in registry.active : e.token = call[d].token =>
         \E f \in registry'.active : f.id = e.id /\ f.token = e.token

LEMMA GivenStays ==
  ASSUME NEW c, KeepsHolders(c), registry.next \in Nat, NEW t, Given(t)
  PROVE  Given(t)'
BY DEF KeepsHolders, Given

LEMMA PastStays ==
  ASSUME NEW c \in Calls, Others(c), NoDispatch(c), NEW t, Given(t)
  PROVE  /\ Past(t, {"stage", "note"}) => Past(t, {"stage", "note"})'
         /\ Past(t, {"stage", "note", "dispatch"}) => Past(t, {"stage", "note", "dispatch"})'
BY DEF Past, Others, NoDispatch

LEMMA EchoShape ==
  ASSUME InputInv, EchoInv, NEW c \in Calls
  PROVE  /\ DOMAIN call = Calls /\ DOMAIN call[c] = CallFields /\ DOMAIN world = WorldFields
         /\ CallOk(c) /\ BufferOk(c) /\ DispatchOk(c)
         /\ registry.next \in Nat
BY DEF InputInv, Shaped, EchoInv, TokenInv

(* No record of the others is written to, and a record goes only with a    *)
(* note of it or with its pane.                                            *)
RecordsStay(c) ==
  /\ world'.gen = world.gen /\ world'.status = world.status /\ world.pruned \subseteq world'.pruned
  /\ \A k \in DOMAIN ledger' :
       /\ k \in DOMAIN ledger /\ ledger'[k] \in Seq(Nat)
       /\ \A t \in OnRecord(k)' : t \in OnRecord(k) /\ t \notin world'.unsent
  /\ \A r \in world.reached : r[2] \in OnRecord(r[1]) => r[2] \in OnRecord(r[1])' \/ Gone(r[1])'
  /\ \A d \in Calls : d # c /\ call[d].pc = "dispatch" =>
       \A k \in Identities(call[d].final) :
         /\ k \in DOMAIN ledger' => ledger'[k] = ledger[k]
         /\ k \in DOMAIN ledger \ DOMAIN ledger' => Gone(k)'

LEMMA StepKeeps ==
  ASSUME InputInv, EchoInv, NEW c \in Calls, Others(c), NoDispatch(c), KeepsHolders(c), BufferOk(c)',
         RecordsStay(c), \A r \in world'.reached : r \in world.reached \/ ReachedOk(r)',
         \A t \in world'.unsent : t \in world.unsent \/ UnsentOk(t)'
  PROVE  EchoInv'
<1>1. /\ world'.gen = world.gen /\ world'.status = world.status /\ world.pruned \subseteq world'.pruned
      /\ \A k : KeyOk(k)' <=> KeyOk(k)
  BY DEF RecordsStay, KeyOk
<1>2. PaneInv'
  BY <1>1 DEF EchoInv, PaneInv
<1>3. ASSUME NEW r \in world.reached PROVE ReachedOk(r)'
  <2>1. ReachedOk(r)
    BY DEF EchoInv
  <2>2. Given(r[2])' /\ Past(r[2], {"stage", "note", "dispatch"})'
    BY <2>1, GivenStays, PastStays, EchoShape DEF ReachedOk
  <2>3. r[2] \in OnRecord(r[1]) => r[2] \in OnRecord(r[1])' \/ Gone(r[1])'
    BY DEF RecordsStay
  <2>. QED
    BY <1>1, <2>1, <2>2, <2>3 DEF ReachedOk, Gone
<1>4. ASSUME NEW t \in world.unsent PROVE UnsentOk(t)'
  <2>1. UnsentOk(t)
    BY DEF EchoInv
  <2>. QED
    BY <2>1, GivenStays, PastStays, EchoShape DEF UnsentOk
<1>5. ASSUME NEW k \in DOMAIN ledger', NEW t \in OnRecord(k)' PROVE RecordedOk(k, t)'
  <2>1. RecordedOk(k, t) /\ t \notin world'.unsent
    BY DEF RecordsStay, EchoInv
  <2>2. Given(t)' /\ Past(t, {"stage", "note"})'
    BY <2>1, GivenStays, PastStays, EchoShape DEF RecordedOk
  <2>. QED
    BY <2>1, <2>2 DEF RecordedOk, Others, NoDispatch
<1>6. ASSUME NEW d \in Calls PROVE DispatchOk(d)' /\ BufferOk(d)'
  <2>1. CASE d = c
    BY <2>1 DEF DispatchOk, NoDispatch
  <2>2. CASE d # c
    <3>1. DispatchOk(d) /\ BufferOk(d) /\ call'[d] = call[d]
      BY <2>2 DEF EchoInv, Others
    <3>2. ASSUME NEW k \in Identities(call[d].final), call[d].pc = "dispatch" PROVE AwaitsDispatch(d, k)'
      <4>1. AwaitsDispatch(d, k)
        BY <3>1, <3>2 DEF DispatchOk
      <4>2. \E f \in registry'.active : f.id = k /\ f.token = call[d].token
        BY <2>2, <3>2, <4>1 DEF AwaitsDispatch, KeepsHolders
      <4>3. /\ k \in DOMAIN ledger' => k \in DOMAIN ledger /\ ledger'[k] = ledger[k]
            /\ k \in DOMAIN ledger \ DOMAIN ledger' => Gone(k)'
        BY <2>2, <3>2 DEF RecordsStay
      <4>4. k \notin DOMAIN ledger => Gone(k)'
        BY <1>1, <4>1 DEF AwaitsDispatch, Gone
      <4>. QED
        BY <1>1, <3>1, <4>1, <4>2, <4>3, <4>4 DEF AwaitsDispatch
    <3>3. DispatchOk(d)'
      BY <3>1, <3>2 DEF DispatchOk, Identities
    <3>4. BufferOk(d)'
      BY <2>2, <3>1 DEF BufferOk, Others
    <3>. QED
      BY <3>3, <3>4
  <2>. QED
    BY <2>1, <2>2
<1>7. \A k \in DOMAIN ledger' : ledger'[k] \in Seq(Nat)
  BY DEF RecordsStay
<1>. QED
  BY <1>2, <1>3, <1>4, <1>5, <1>6, <1>7 DEF EchoInv

LEMMA QuietKeeps ==
  ASSUME InputInv, EchoInv, NEW c \in Calls, SameRecords, Others(c), NoDispatch(c), KeepsHolders(c),
         BufferOk(c)'
  PROVE  EchoInv'
<1>1. \A k : OnRecord(k)' = OnRecord(k)
  BY DEF OnRecord, Known, SameRecords
<1>2. \A k \in DOMAIN ledger : ledger[k] \in Seq(Nat) /\ \A t \in OnRecord(k) : t \notin world.unsent
  BY DEF EchoInv, RecordedOk
<1>3. RecordsStay(c)
  BY <1>1, <1>2 DEF RecordsStay, SameRecords
<1>. QED
  BY <1>3, StepKeeps DEF SameRecords

(* Steps that change nothing but the call. *)
LEMMA LocalKeeps ==
  ASSUME InputInv, EchoInv, NEW c \in Calls, UNCHANGED <<world, registry, ledger>>,
         \A d \in Calls : d # c => call'[d] = call[d], NoDispatch(c), BufferOk(c)'
  PROVE  EchoInv'
<1>1. SameRecords /\ Others(c)
  BY DEF SameRecords, Others
<1>2. KeepsHolders(c)
  BY EchoShape DEF KeepsHolders
<1>. QED
  BY <1>1, <1>2, QuietKeeps

LEMMA PreflightEcho ==
  ASSUME InputInv, EchoInv, NEW c \in Calls, Preflight(c)
  PROVE  EchoInv'
<1>1. /\ UNCHANGED <<world, registry, ledger>> /\ call[c].pc = "preflight"
      /\ \A d \in Calls : d # c => call'[d] = call[d]
      /\ call'[c].pc \in {"release", "reserve"}
      /\ call'[c].tool = call[c].tool /\ call'[c].buffer = call[c].buffer
  BY EchoShape DEF Preflight, Fails, CallFields
<1>2. NoDispatch(c) /\ BufferOk(c)'
  BY <1>1, EchoShape DEF NoDispatch, BufferOk
<1>. QED
  BY <1>1, <1>2, LocalKeeps

LEMMA AskHoldersEcho ==
  ASSUME InputInv, EchoInv, NEW c \in Calls, AskHolders(c)
  PROVE  EchoInv'
<1>1. /\ UNCHANGED <<world, registry, ledger>> /\ call[c].pc = "reserve"
      /\ \A d \in Calls : d # c => call'[d] = call[d]
      /\ call'[c].pc \in {"release", "prove"}
      /\ call'[c].tool = call[c].tool /\ call'[c].buffer = call[c].buffer
  BY EchoShape DEF AskHolders, Fails, CallFields
<1>2. NoDispatch(c) /\ BufferOk(c)'
  BY <1>1, EchoShape DEF NoDispatch, BufferOk
<1>. QED
  BY <1>1, <1>2, LocalKeeps

LEMMA ProveEcho ==
  ASSUME InputInv, EchoInv, NEW c \in Calls, Prove(c)
  PROVE  EchoInv'
<1>1. /\ UNCHANGED <<world, registry, ledger>> /\ call[c].pc = "prove"
      /\ \A d \in Calls : d # c => call'[d] = call[d]
      /\ call'[c].pc = "take"
      /\ call'[c].tool = call[c].tool /\ call'[c].buffer = call[c].buffer
  BY EchoShape DEF Prove, CallFields
<1>2. NoDispatch(c) /\ BufferOk(c)'
  BY <1>1, EchoShape DEF NoDispatch, BufferOk
<1>. QED
  BY <1>1, <1>2, LocalKeeps

LEMMA RunEcho ==
  ASSUME InputInv, EchoInv, NEW c \in Calls, RunCompletes(c) \/ RunAbandoned(c) \/ WatchersGiveUp(c)
  PROVE  EchoInv'
<1>1. /\ UNCHANGED <<world, registry, ledger>> /\ call[c].pc \in {"running", "watched"}
      /\ \A d \in Calls : d # c => call'[d] = call[d]
      /\ call'[c].pc \in {"release", "retain", "done"}
      /\ call'[c].tool = call[c].tool /\ call'[c].buffer = call[c].buffer
  <2>1. CASE RunCompletes(c)
    BY <2>1, EchoShape DEF RunCompletes, CallFields
  <2>2. CASE RunAbandoned(c)
    BY <2>2, EchoShape DEF RunAbandoned, CallFields
  <2>3. CASE WatchersGiveUp(c)
    BY <2>3, EchoShape DEF WatchersGiveUp, Over, CallFields
  <2>. QED
    BY <2>1, <2>2, <2>3
<1>2. NoDispatch(c) /\ BufferOk(c)'
  BY <1>1, EchoShape DEF NoDispatch, BufferOk
<1>. QED
  BY <1>1, <1>2, LocalKeeps

(* The holders a call has a proof against, and its own reservation, are of *)
(* no other call that dispatches.                                          *)
LEMMA ReleaseKeepsHolders ==
  ASSUME InputInv, NEW c \in Calls, registry' = Release(c)
  PROVE  KeepsHolders(c)
<1>1. registry'.next = registry.next /\ registry'.active = registry.active \ Mine(c)
  BY DEF InputInv, Shaped, Release
<1>2. ASSUME NEW d \in Calls, d # c, NEW e \in registry.active, e.token = call[d].token
      PROVE  e \in registry'.active
  BY <1>1, <1>2 DEF InputInv, TokenInv, Given, Mine
<1>. QED
  BY <1>1, <1>2 DEF KeepsHolders, InputInv, TokenInv

LEMMA TakeEcho ==
  ASSUME InputInv, EchoInv, NEW c \in Calls, Take(c)
  PROVE  EchoInv'
<1>. DEFINE left == {e \in registry.active : e.token \notin call[c].proven}
            token == registry.next + 1
<1>1. call[c].pc = "take" /\ UNCHANGED <<world, ledger>>
  BY ZenonT(30) DEF Take
<1>2. ASSUME NEW d \in Calls, call[d].pc = "dispatch", NEW e \in registry.active, e.token = call[d].token
      PROVE  e \in left
  BY <1>1, <1>2, EchoShape, ZenonT(30) DEF CallOk, Spent
<1>3. SameRecords
  BY <1>1 DEF SameRecords
<1>4. DOMAIN registry = {"active", "next"} /\ registry.next \in Nat
  BY DEF InputInv, Shaped, TokenInv
<1>5. CASE registry' = [registry EXCEPT !.active = left] /\ call' = Fails(c)
  <2>1. /\ \A d \in Calls : d # c => call'[d] = call[d]
        /\ call'[c].pc = "release"
        /\ call'[c].tool = call[c].tool /\ call'[c].buffer = call[c].buffer
    BY <1>5, EchoShape DEF Fails, CallFields
  <2>2. registry'.next = registry.next /\ registry'.active = left
    BY <1>4, <1>5
  <2>. HIDE DEF left
  <2>3. KeepsHolders(c)
    BY <1>2, <1>4, <2>2 DEF KeepsHolders
  <2>4. Others(c) /\ NoDispatch(c) /\ BufferOk(c)'
    BY <1>1, <2>1, EchoShape DEF Others, NoDispatch, BufferOk
  <2>. QED
    BY <1>3, <2>3, <2>4, QuietKeeps
<1>6. CASE /\ registry'.next = token /\ left \subseteq registry'.active
           /\ call' = [call EXCEPT ![c].token = token, ![c].proven = {},
                         ![c].pc = IF call[c].tool = "paste_text" THEN "stage" ELSE "note"]
  <2>1. /\ \A d \in Calls : d # c => call'[d] = call[d]
        /\ call'[c].pc \in {"stage", "note"} /\ (call'[c].pc = "stage" => call[c].tool = "paste_text")
        /\ call'[c].tool = call[c].tool /\ call'[c].buffer = call[c].buffer
        /\ call'[c].token = token
    BY <1>6, EchoShape DEF CallFields
  <2>2. ~Given(token)
    BY <1>4 DEF Given
  <2>. HIDE DEF left
  <2>3. KeepsHolders(c)
    BY <1>2, <1>4, <1>6 DEF KeepsHolders
  <2>4. Others(c) /\ NoDispatch(c) /\ BufferOk(c)'
    BY <1>1, <2>1, <2>2, EchoShape DEF Others, NoDispatch, BufferOk
  <2>. QED
    BY <1>3, <2>3, <2>4, QuietKeeps
<1>. QED
  BY <1>5, <1>6 DEF Take

LEMMA StageEcho ==
  ASSUME InputInv, EchoInv, NEW c \in Calls, Stage(c)
  PROVE  EchoInv'
<1>1. call[c].pc = "stage" /\ UNCHANGED <<registry, ledger>>
  BY Zenon DEF Stage
<1>2. CASE \E failed \in BOOLEAN :
             call' = [call EXCEPT ![c].pc = "release", ![c].failed = failed] /\ UNCHANGED world
  <2>1. /\ UNCHANGED <<world, registry, ledger>>
        /\ \A d \in Calls : d # c => call'[d] = call[d]
        /\ call'[c].pc = "release"
        /\ call'[c].tool = call[c].tool /\ call'[c].buffer = call[c].buffer
    BY <1>1, <1>2, EchoShape DEF CallFields
  <2>2. NoDispatch(c) /\ BufferOk(c)'
    BY <1>1, <2>1, EchoShape DEF NoDispatch, BufferOk
  <2>. QED
    BY <2>1, <2>2, LocalKeeps
<1>3. ASSUME NEW staged \in BOOLEAN, NEW failed \in BOOLEAN,
             world' = [world EXCEPT !.buffers = IF staged THEN @ \cup {c} ELSE @],
             call' = [call EXCEPT ![c].pc = IF failed THEN "cleanup" ELSE "note",
                        ![c].failed = failed, ![c].buffer = "staged"]
      PROVE  EchoInv'
  <2>1. /\ \A d \in Calls : d # c => call'[d] = call[d]
        /\ call'[c].pc \in {"cleanup", "note"} /\ call'[c].token = call[c].token
        /\ call'[c].tool = call[c].tool /\ call'[c].buffer = "staged"
    BY <1>3, EchoShape DEF CallFields
  <2>2. SameRecords /\ world'.buffers \subseteq world.buffers \cup {c}
    BY <1>1, <1>3, EchoShape DEF SameRecords, WorldFields
  <2>3. Others(c) /\ NoDispatch(c) /\ BufferOk(c)'
    BY <1>1, <2>1, <2>2, EchoShape DEF Others, NoDispatch, BufferOk
  <2>4. KeepsHolders(c)
    BY <1>1, EchoShape DEF KeepsHolders
  <2>. QED
    BY <2>2, <2>3, <2>4, QuietKeeps
<1>. QED
  BY <1>2, <1>3, Zenon DEF Stage

LEMMA CleanupEcho ==
  ASSUME InputInv, EchoInv, NEW c \in Calls, Cleanup(c)
  PROVE  EchoInv'
<1>1. call[c].pc = "cleanup" /\ UNCHANGED <<registry, ledger>>
  BY Zenon DEF Cleanup
<1>2. PICK deleted \in BOOLEAN, seen \in BOOLEAN :
        LET left == IF deleted THEN world.buffers \ {c} ELSE world.buffers
            removed == seen /\ c \notin left
        IN  /\ world' = [world EXCEPT !.buffers = left]
            /\ call' = [call EXCEPT ![c].pc = IF removed /\ ~call[c].failed THEN "prune" ELSE "release",
                          ![c].buffer = IF removed THEN "removed" ELSE "reported"]
  BY Zenon DEF Cleanup
<1>3. /\ \A d \in Calls : d # c => call'[d] = call[d]
      /\ call'[c].pc \in {"prune", "release"} /\ call'[c].tool = call[c].tool
  BY <1>2, EchoShape DEF CallFields
<1>4. SameRecords /\ world'.buffers \subseteq world.buffers
  BY <1>1, <1>2, EchoShape DEF SameRecords, WorldFields
<1>5. call'[c].buffer = "reported" \/ (call'[c].buffer = "removed" /\ c \notin world'.buffers)
  BY <1>2, EchoShape DEF CallFields, WorldFields
<1>6. Others(c) /\ NoDispatch(c)
  BY <1>3, <1>4 DEF Others, NoDispatch
<1>7. KeepsHolders(c)
  BY <1>1, EchoShape DEF KeepsHolders
<1>8. BufferOk(c)'
  BY <1>1, <1>3, <1>5, EchoShape DEF BufferOk
<1>. QED
  BY <1>4, <1>6, <1>7, <1>8, QuietKeeps

LEMMA RetainEcho ==
  ASSUME InputInv, EchoInv, NEW c \in Calls, Retain(c)
  PROVE  EchoInv'
<1>1. /\ UNCHANGED <<world, ledger>> /\ call[c].pc = "retain"
      /\ \A d \in Calls : d # c => call'[d] = call[d]
      /\ call'[c].pc = "watched"
      /\ call'[c].tool = call[c].tool /\ call'[c].buffer = call[c].buffer
  BY EchoShape DEF Retain, CallFields
<1>2. SameRecords /\ Others(c) /\ NoDispatch(c) /\ BufferOk(c)'
  BY <1>1, EchoShape DEF SameRecords, Others, NoDispatch, BufferOk
<1>3. /\ registry'.next = registry.next
      /\ registry'.active = {IF e \in Mine(c) THEN [e EXCEPT !.proof = TRUE] ELSE e : e \in registry.active}
  BY DEF Retain, InputInv, Shaped
<1>4. ASSUME NEW d \in Calls, d # c, NEW e \in registry.active, e.token = call[d].token
      PROVE  e \in registry'.active
  <2>1. e \notin Mine(c)
    BY <1>4 DEF InputInv, TokenInv, Given, Mine
  <2>. QED
    BY <1>3, <2>1, Zenon
<1>5. KeepsHolders(c)
  BY <1>3, <1>4, EchoShape DEF KeepsHolders
<1>. QED
  BY <1>2, <1>5, QuietKeeps

LEMMA ReleaseEcho ==
  ASSUME InputInv, EchoInv, NEW c \in Calls, WatcherProves(c) \/ Leave(c)
  PROVE  EchoInv'
<1>1. /\ UNCHANGED <<world, ledger>> /\ call[c].pc \in {"watched", "release"}
      /\ registry' = Release(c)
      /\ call' = Over(c) \/
           (/\ call[c].tool = "send_keys_batch"
            /\ call' = [call EXCEPT ![c] = [@ EXCEPT !.pc = "preflight", !.pre = None, !.token = 0,
                           !.prev = None, !.final = None, !.failed = FALSE, !.ops = @ + 1]])
  BY Zenon DEF WatcherProves, Leave
<1>2. /\ \A d \in Calls : d # c => call'[d] = call[d]
      /\ call'[c].pc = "done" \/ (call'[c].pc = "preflight" /\ call[c].tool = "send_keys_batch")
      /\ call'[c].tool = call[c].tool /\ call'[c].buffer = call[c].buffer
  <2>1. CASE call' = Over(c)
    BY <2>1, EchoShape DEF Over, CallFields
  <2>2. CASE /\ call[c].tool = "send_keys_batch"
             /\ call' = [call EXCEPT ![c] = [@ EXCEPT !.pc = "preflight", !.pre = None, !.token = 0,
                            !.prev = None, !.final = None, !.failed = FALSE, !.ops = @ + 1]]
    BY <2>2, EchoShape DEF CallFields
  <2>. QED
    BY <1>1, <2>1, <2>2
<1>3. SameRecords /\ Others(c) /\ NoDispatch(c)
  BY <1>1, <1>2 DEF SameRecords, Others, NoDispatch
<1>4. BufferOk(c)'
  BY <1>1, <1>2, EchoShape DEF BufferOk
<1>. QED
  BY <1>1, <1>3, <1>4, ReleaseKeepsHolders, QuietKeeps

(* prune_dead_panes takes the records of panes that are gone, or notes     *)
(* which ones it took too many.                                            *)
LEMMA PruneKeeps ==
  ASSUME InputInv, EchoInv, NEW c \in Calls, Prune(c), UNCHANGED registry,
         \A d \in Calls : d # c => call'[d] = call[d], NoDispatch(c),
         world'.buffers = world.buffers, BufferOk(c)'
  PROVE  EchoInv'
<1>. DEFINE stale == {k \in Pruned(c) : k[1] = world.gen /\ k[2] \in Listed}
<1>1. /\ world'.gen = world.gen /\ world'.status = world.status
      /\ world'.reached = world.reached /\ world'.unsent = world.unsent
      /\ world'.pruned = world.pruned \cup stale
  BY EchoShape DEF Prune, WorldFields
<1>2. /\ DOMAIN ledger' = DOMAIN ledger \ Pruned(c)
      /\ \A k \in DOMAIN ledger' : ledger'[k] = ledger[k]
  BY DEF Prune
<1>3. Others(c) /\ KeepsHolders(c)
  BY EchoShape DEF Others, KeepsHolders
<1>4. ASSUME NEW k \in DOMAIN ledger, k \notin DOMAIN ledger', KeyOk(k), k[1] = world.gen
      PROVE  k \in world'.pruned \/ world.status[k[2]] = "gone"
  <2>1. k \in Pruned(c)
    BY <1>2, <1>4
  <2>2. CASE k[2] \in Listed
    BY <1>1, <1>4, <2>1, <2>2
  <2>3. CASE k[2] \notin Listed
    BY <1>4, <2>3 DEF Listed, KeyOk, EchoInv, PaneInv
  <2>. QED
    BY <2>2, <2>3
<1>. HIDE DEF stale
<1>5. \A k, t : t \in OnRecord(k)' <=> t \in OnRecord(k) /\ k \in DOMAIN ledger'
  <2>. SUFFICES ASSUME NEW k, NEW t PROVE t \in OnRecord(k)' <=> t \in OnRecord(k) /\ k \in DOMAIN ledger'
    OBVIOUS
  <2>1. t \in OnRecord(k) <=> k \in DOMAIN ledger /\ InSeq(t, ledger[k])
    BY OnRecordIs
  <2>2. t \in OnRecord(k)' <=> k \in DOMAIN ledger' /\ InSeq(t, ledger'[k])
    BY OnRecordWillBe
  <2>. QED
    BY <1>2, <2>1, <2>2
<1>6. \A k \in DOMAIN ledger : ledger[k] \in Seq(Nat) /\ \A t \in OnRecord(k) : t \notin world.unsent
  BY DEF EchoInv, RecordedOk
<1>7. ASSUME NEW k, KeyOk(k), k \in DOMAIN ledger \ DOMAIN ledger' PROVE Gone(k)'
  BY <1>1, <1>4, <1>7 DEF Gone
<1>8. ASSUME NEW r \in world.reached, r[2] \in OnRecord(r[1]) PROVE r[2] \in OnRecord(r[1])' \/ Gone(r[1])'
  <2>1. KeyOk(r[1]) /\ r[1] \in DOMAIN ledger
    BY <1>8, OnRecordIs, ZenonT(30) DEF EchoInv, ReachedOk
  <2>. QED
    BY <1>5, <1>7, <1>8, <2>1
<1>9. ASSUME NEW d \in Calls, call[d].pc = "dispatch", NEW k \in Identities(call[d].final)
      PROVE  KeyOk(k)
  BY <1>9, EchoShape, ZenonT(30) DEF DispatchOk, AwaitsDispatch
<1>10. RecordsStay(c)
  BY <1>1, <1>2, <1>5, <1>6, <1>7, <1>8, <1>9 DEF RecordsStay
<1>. QED
  BY <1>1, <1>3, <1>10, StepKeeps

LEMMA CommitEcho ==
  ASSUME InputInv, EchoInv, NEW c \in Calls, Commit(c)
  PROVE  EchoInv'
<1>1. UNCHANGED registry /\ call[c].pc = "commit"
  BY DEF Commit
<1>2. /\ \A d \in Calls : d # c => call'[d] = call[d]
      /\ call'[c].tool = call[c].tool /\ call'[c].buffer = call[c].buffer
      /\ \/ call[c].tool = "run_shell_command" /\ call'[c].pc \in {"retain", "running"}
         \/ call[c].buffer = "staged" /\ call'[c].pc = "cleanup"
         \/ call[c].buffer # "staged" /\ call'[c].pc = "release"
  BY EchoShape DEF Commit, Kind, CallFields
<1>3. world'.buffers = world.buffers
  BY EchoShape, ZenonT(30) DEF Commit, Prune, WorldFields
<1>4. NoDispatch(c) /\ BufferOk(c)'
  BY <1>1, <1>2, <1>3, EchoShape, ZenonT(30) DEF NoDispatch, BufferOk
<1>5. CASE UNCHANGED <<world, ledger>>
  BY <1>1, <1>2, <1>4, <1>5, LocalKeeps
<1>6. CASE Prune(c)
  BY <1>1, <1>2, <1>3, <1>4, <1>6, PruneKeeps
<1>. QED
  BY <1>5, <1>6 DEF Commit

LEMMA PruneAfterPasteEcho ==
  ASSUME InputInv, EchoInv, NEW c \in Calls, PruneAfterPaste(c)
  PROVE  EchoInv'
<1>1. /\ UNCHANGED registry /\ call[c].pc = "prune" /\ Prune(c)
      /\ \A d \in Calls : d # c => call'[d] = call[d]
      /\ call'[c].tool = call[c].tool /\ call'[c].buffer = call[c].buffer /\ call'[c].pc = "release"
  BY EchoShape DEF PruneAfterPaste, CallFields
<1>2. world'.buffers = world.buffers
  BY <1>1, EchoShape, ZenonT(30) DEF Prune, WorldFields
<1>3. NoDispatch(c) /\ BufferOk(c)'
  BY <1>1, <1>2, EchoShape DEF NoDispatch, BufferOk
<1>. QED
  BY <1>1, <1>2, <1>3, PruneKeeps

LEMMA AppendRange ==
  ASSUME NEW q \in Seq(Nat), NEW x \in Nat, NEW t
  PROVE  InSeq(t, Append(q, x)) <=> t = x \/ InSeq(t, q)
<1>1. /\ DOMAIN Append(q, x) = 1..(Len(q) + 1) /\ DOMAIN q = 1..Len(q) /\ Len(q) \in Nat
      /\ Append(q, x)[Len(q) + 1] = x /\ \A i \in 1..Len(q) : Append(q, x)[i] = q[i]
  OBVIOUS
<1>. QED
  BY <1>1 DEF InSeq

LEMMA TokenHeld ==
  ASSUME InputInv, NEW c \in Calls, call[c].pc \in {"stage", "note", "dispatch"}
  PROVE  /\ call[c].token # 0 /\ Given(call[c].token) /\ call[c].token \in Nat
         /\ \A d \in Calls : call[d].token = call[c].token => d = c
<1>1. call[c].token # 0
  BY ZenonT(30) DEF InputInv, CallOk
<1>. QED
  BY <1>1, ZenonT(30) DEF InputInv, TokenInv, Given

(* One pane has one holder, one token one call. *)
LEMMA OneHolder ==
  ASSUME InputInv, NEW c \in Calls, NEW d \in Calls, NEW e \in registry.active, NEW f \in registry.active,
         e.id = f.id, e.token = call[c].token, f.token = call[d].token
  PROVE  c = d
BY DEF InputInv, HolderInv, TokenInv, Given

LEMMA NoteRefusedEcho ==
  ASSUME InputInv, EchoInv, NEW c \in Calls, call[c].pc = "note",
         call' = AfterRefusal(c), UNCHANGED <<world, registry, ledger>>
  PROVE  EchoInv'
<1>1. /\ \A d \in Calls : d # c => call'[d] = call[d]
      /\ call'[c].pc = IF call[c].buffer = "none" THEN "release" ELSE "cleanup"
      /\ call'[c].tool = call[c].tool /\ call'[c].buffer = call[c].buffer
  BY EchoShape DEF AfterRefusal, CallFields
<1>2. NoDispatch(c) /\ BufferOk(c)'
  BY <1>1, EchoShape DEF NoDispatch, BufferOk
<1>. QED
  BY <1>1, <1>2, LocalKeeps

WritesLedger(c) ==
  LET ids == Identities(Route(c)) IN
  /\ ledger' = [k \in DOMAIN ledger \cup ids |->
                  IF k \in ids THEN Append(Known(k), call[c].token) ELSE ledger[k]]
  /\ call' = [call EXCEPT ![c].pc = "dispatch", ![c].final = Route(c),
                ![c].prev = [k \in ids |-> Known(k)]]

LEMMA NoteWrittenEcho ==
  ASSUME InputInv, EchoInv, NEW c \in Calls, call[c].pc = "note", ~Refused(c), Covers(c, Route(c)),
         WritesLedger(c), UNCHANGED <<world, registry>>
  PROVE  EchoInv'
<1>. DEFINE ids == Identities(Route(c))
            token == call[c].token
<1>1. token # 0 /\ Given(token) /\ token \in Nat
  BY TokenHeld
<1>2. /\ \A d \in Calls : d # c => call'[d] = call[d]
      /\ call'[c].pc = "dispatch" /\ call'[c].token = token /\ call'[c].final = Route(c)
      /\ call'[c].prev = [k \in ids |-> Known(k)]
      /\ call'[c].tool = call[c].tool /\ call'[c].buffer = call[c].buffer
  BY EchoShape DEF WritesLedger, CallFields
<1>3. ASSUME NEW k \in ids
      PROVE  KeyOk(k) /\ \E e \in registry.active : e.id = k /\ e.token = token
  <2>1. PICK p \in Cohort(c) : k = <<world.gen, p>>
    BY DEF Identities, Route
  <2>2. p \in Alive
    BY DEF Refused
  <2>3. KeyOk(k)
    BY <2>1, <2>2 DEF KeyOk, Alive, EchoInv, PaneInv
  <2>4. k \in {e.id : e \in Mine(c)}
    BY DEF Covers
  <2>. QED
    BY <2>3, <2>4, Zenon DEF Mine
<1>4. /\ DOMAIN ledger' = DOMAIN ledger \cup ids
      /\ \A k \in ids : ledger'[k] = Append(Known(k), token)
      /\ \A k \in DOMAIN ledger \ ids : ledger'[k] = ledger[k]
  BY ZenonT(30) DEF WritesLedger
<1>. HIDE DEF ids, token
<1>5. \A k : Known(k) \in Seq(Nat)
  BY DEF Known, EchoInv
<1>6. \A k, t : t \in OnRecord(k)' <=> t \in OnRecord(k) \/ (k \in ids /\ t = token)
  <2>. SUFFICES ASSUME NEW k, NEW t
                PROVE  t \in OnRecord(k)' <=> t \in OnRecord(k) \/ (k \in ids /\ t = token)
    OBVIOUS
  <2>1. t \in OnRecord(k)' <=> k \in DOMAIN ledger' /\ InSeq(t, ledger'[k])
    BY OnRecordWillBe, Zenon
  <2>2. CASE k \in ids
    <3>1. t \in OnRecord(k) <=> InSeq(t, Known(k))
      BY Zenon DEF OnRecord, InSeq
    <3>2. InSeq(t, Append(Known(k), token)) <=> t = token \/ InSeq(t, Known(k))
      BY <1>1, <1>5, AppendRange
    <3>3. k \in DOMAIN ledger' /\ ledger'[k] = Append(Known(k), token)
      BY <1>4, <2>2
    <3>. QED
      BY <2>1, <2>2, <3>1, <3>2, <3>3
  <2>3. CASE k \notin ids
    <3>1. t \in OnRecord(k) <=> k \in DOMAIN ledger /\ InSeq(t, ledger[k])
      BY OnRecordIs
    <3>2. (k \in DOMAIN ledger' <=> k \in DOMAIN ledger) /\ (k \in DOMAIN ledger => ledger'[k] = ledger[k])
      BY <1>4, <2>3
    <3>. QED
      BY <2>1, <2>3, <3>1, <3>2
  <2>. QED
    BY <2>2, <2>3
<1>7. \A d \in Calls : call[d].token = token => d = c
  BY TokenHeld DEF token
<1>8. \A k : (KeyOk(k)' <=> KeyOk(k)) /\ (Given(k)' <=> Given(k))
  BY ZenonT(30) DEF KeyOk, Given
<1>9. ASSUME NEW t, t # token
      PROVE  /\ Past(t, {"stage", "note"}) => Past(t, {"stage", "note"})'
             /\ Past(t, {"stage", "note", "dispatch"}) => Past(t, {"stage", "note", "dispatch"})'
  BY <1>2, <1>9, ZenonT(30) DEF Past
<1>10. ASSUME NEW r \in world'.reached PROVE ReachedOk(r)'
  <2>1. ReachedOk(r)
    BY DEF EchoInv
  <2>2. r[2] # token
    BY <2>1 DEF ReachedOk, Past, token
  <2>. QED
    BY <1>6, <1>8, <1>9, <2>1, <2>2 DEF ReachedOk
<1>11. ASSUME NEW t \in world'.unsent PROVE UnsentOk(t)' /\ t # token
  <2>1. UnsentOk(t)
    BY DEF EchoInv
  <2>2. t # token
    BY <2>1 DEF UnsentOk, Past, token
  <2>. QED
    BY <1>8, <1>9, <2>1, <2>2 DEF UnsentOk
<1>12. ASSUME NEW k \in DOMAIN ledger', NEW t \in OnRecord(k)' PROVE RecordedOk(k, t)'
  <2>1. CASE t \in OnRecord(k)
    <3>1. RecordedOk(k, t)
      BY <2>1, OnRecordIs, ZenonT(30) DEF EchoInv
    <3>2. t # token
      BY <3>1 DEF RecordedOk, Past, token
    <3>. QED
      BY <1>2, <1>8, <1>9, <3>1, <3>2, ZenonT(30) DEF RecordedOk, token
  <2>2. CASE k \in ids /\ t = token
    <3>1. Past(t, {"stage", "note"})'
      BY <1>2, <1>7, <2>2, ZenonT(30) DEF Past
    <3>2. \A d \in Calls : call'[d].token = t /\ call'[d].pc = "dispatch" => k \in Identities(call'[d].final)
      BY <1>2, <1>7, <2>2 DEF ids
    <3>3. \A d \in Calls : Identities(call'[d].final) = Identities(call[d].final)'
      BY DEF Identities
    <3>. QED
      BY <1>1, <1>8, <1>11, <2>2, <3>1, <3>2, <3>3, ZenonT(30) DEF RecordedOk
  <2>. QED
    BY <1>6, <2>1, <2>2
<1>13. ASSUME NEW k \in DOMAIN ledger' PROVE ledger'[k] \in Seq(Nat)
  <2>1. CASE k \in ids
    <3>1. Known(k) \in Seq(Nat) /\ ledger'[k] = Append(Known(k), token)
      BY <1>4, <1>5, <2>1, Zenon
    <3>. QED
      BY <1>1, <3>1
  <2>2. CASE k \notin ids
    BY <1>4, <2>2, ZenonT(30) DEF EchoInv
  <2>. QED
    BY <2>1, <2>2
<1>14. PaneInv'
  BY ZenonT(30) DEF EchoInv, PaneInv
<1>15. ASSUME NEW k \in ids PROVE AwaitsDispatch(c, k)'
  <2>1. call'[c].prev[k] = Known(k) /\ Known(k) \in Seq(Nat)
    BY <1>2, <1>5, ZenonT(30)
  <2>2. ASSUME NEW i \in DOMAIN Known(k) PROVE Known(k)[i] # token
    <3>1. Known(k)[i] \in OnRecord(k)
      BY Zenon DEF OnRecord
    <3>2. k \in DOMAIN ledger
      BY <3>1, OnRecordIs, Zenon
    <3>3. RecordedOk(k, Known(k)[i])
      BY <3>1, <3>2, ZenonT(30) DEF EchoInv
    <3>. QED
      BY <3>3 DEF RecordedOk, Past, token
  <2>3. k \in DOMAIN ledger' /\ ledger'[k] = Append(Known(k), token)
    BY <1>4
  <2>4. KeyOk(k)' /\ \E e \in registry'.active : e.id = k /\ e.token = token
    BY <1>3, <1>8
  <2>. QED
    BY <1>2, <2>1, <2>2, <2>3, <2>4, ZenonT(30) DEF AwaitsDispatch
<1>16. ASSUME NEW d \in Calls PROVE DispatchOk(d)' /\ BufferOk(d)'
  <2>1. CASE d = c
    <3>1. BufferOk(c)'
      BY <1>2, EchoShape, ZenonT(30) DEF BufferOk
    <3>2. DOMAIN call'[c].prev = ids /\ Identities(call'[c].final) = ids
      BY <1>2, ZenonT(30) DEF ids
    <3>3. Identities(call'[c].final) = Identities(call[c].final)'
      BY DEF Identities
    <3>. QED
      BY <1>15, <2>1, <3>1, <3>2, <3>3, ZenonT(30) DEF DispatchOk
  <2>2. CASE d # c
    <3>1. DispatchOk(d) /\ BufferOk(d) /\ call'[d] = call[d]
      BY <1>2, <2>2, ZenonT(30) DEF EchoInv
    <3>2. ASSUME NEW k \in Identities(call[d].final), call[d].pc = "dispatch" PROVE AwaitsDispatch(d, k)'
      <4>1. AwaitsDispatch(d, k)
        BY <3>1, <3>2 DEF DispatchOk
      <4>2. k \notin ids
        <5>. SUFFICES ASSUME k \in ids PROVE FALSE
          OBVIOUS
        <5>1. PICK e \in registry.active : e.id = k /\ e.token = call[c].token
          BY <1>3, ZenonT(30) DEF token
        <5>2. PICK g \in registry.active : g.id = k /\ g.token = call[d].token
          BY <4>1 DEF AwaitsDispatch
        <5>. QED
          BY <2>2, <5>1, <5>2, OneHolder
      <4>3. (k \in DOMAIN ledger' <=> k \in DOMAIN ledger) /\ (k \in DOMAIN ledger => ledger'[k] = ledger[k])
        BY <1>4, <4>2, ZenonT(30)
      <4>. QED
        BY <1>8, <3>1, <4>1, <4>3, ZenonT(30) DEF AwaitsDispatch, Gone
    <3>3. DispatchOk(d)'
      BY <3>1, <3>2, ZenonT(30) DEF DispatchOk, Identities
    <3>4. BufferOk(d)'
      BY <3>1 DEF BufferOk
    <3>. QED
      BY <3>3, <3>4, ZenonT(30)
  <2>. QED
    BY <2>1, <2>2, ZenonT(30)
<1>. QED
  BY <1>10, <1>11, <1>12, <1>13, <1>14, <1>16 DEF EchoInv

LEMMA NoteEcho ==
  ASSUME InputInv, EchoInv, NEW c \in Calls, Note(c)
  PROVE  EchoInv'
<1>1. call[c].pc = "note" /\ UNCHANGED <<world, registry>>
  BY Zenon DEF Note
<1>2. CASE call' = AfterRefusal(c) /\ UNCHANGED ledger
  BY <1>1, <1>2, NoteRefusedEcho, ZenonT(30)
<1>3. CASE ~Refused(c) /\ Covers(c, Route(c)) /\ WritesLedger(c)
  BY <1>1, <1>3, NoteWrittenEcho
<1>. QED
  BY <1>2, <1>3, Zenon DEF Note, WritesLedger

(* A dispatch that was not started takes back its own records. *)
LEMMA RolledBackEcho ==
  ASSUME InputInv, EchoInv, NEW c \in Calls, call[c].pc = "dispatch",
         call' = AfterRefusal(c), ledger' = Rollback(c), UNCHANGED registry,
         world' = [world EXCEPT !.unsent = @ \cup {call[c].token}]
  PROVE  EchoInv'
<1>. DEFINE ids == Identities(call[c].final)
            prev == call[c].prev
<1>0. PICK token : token = call[c].token
  BY ZenonT(30)
<1>1. token # 0 /\ Given(token) /\ token \in Nat
  BY <1>0, TokenHeld
<1>2. /\ \A d \in Calls : d # c => call'[d] = call[d]
      /\ call'[c].pc = IF call[c].buffer = "none" THEN "release" ELSE "cleanup"
      /\ call'[c].tool = call[c].tool /\ call'[c].buffer = call[c].buffer
  BY EchoShape DEF AfterRefusal, CallFields
<1>3. /\ world'.gen = world.gen /\ world'.status = world.status
      /\ world'.reached = world.reached /\ world'.unsent = world.unsent \cup {token}
      /\ world'.pruned = world.pruned /\ world'.buffers = world.buffers
  BY <1>0, EchoShape DEF WorldFields
<1>4. DOMAIN prev = ids /\ \A k \in ids : AwaitsDispatch(c, k)
  BY EchoShape DEF DispatchOk
<1>5. /\ DOMAIN ledger' = DOMAIN ledger
      /\ \A k \in DOMAIN ledger : ledger'[k] = IF k \in ids THEN prev[k] ELSE ledger[k]
  BY <1>4 DEF Rollback
<1>6. NoDispatch(c) /\ Others(c) /\ KeepsHolders(c)
  BY <1>2, <1>3, EchoShape DEF NoDispatch, Others, KeepsHolders
<1>7. ASSUME NEW k \in DOMAIN ledger, NEW t
      PROVE  InSeq(t, ledger'[k]) <=> InSeq(t, ledger[k]) /\ t # token
  <2>1. CASE k \in ids
    <3>1. /\ ledger[k] = Append(prev[k], token) /\ ledger'[k] = prev[k] /\ prev[k] \in Seq(Nat)
          /\ ~InSeq(token, prev[k])
      BY <1>0, <1>4, <1>5, <1>7, <2>1 DEF AwaitsDispatch, InSeq
    <3>2. InSeq(t, Append(prev[k], token)) <=> t = token \/ InSeq(t, prev[k])
      BY <1>1, <3>1, AppendRange
    <3>. QED
      BY <3>1, <3>2
  <2>2. CASE k \notin ids
    <3>1. ledger'[k] = ledger[k]
      BY <1>5, <1>7, <2>2
    <3>2. ASSUME InSeq(token, ledger[k]) PROVE FALSE
      <4>1. RecordedOk(k, token)
        BY <1>7, <3>2, OnRecordIs DEF EchoInv
      <4>. QED
        BY <1>0, <2>2, <4>1 DEF RecordedOk
    <3>. QED
      BY <3>1, <3>2
  <2>. QED
    BY <2>1, <2>2
<1>8. ASSUME NEW k, NEW t PROVE t \in OnRecord(k)' <=> t \in OnRecord(k) /\ t # token
  BY <1>5, <1>7, OnRecordIs, OnRecordWillBe
<1>9. UnsentOk(token)'
  <2>1. \A d \in Calls : call[d].token = token => d = c
    BY <1>0, TokenHeld
  <2>2. \A d \in Calls : call'[d].token = token => call'[d].pc \notin {"stage", "note", "dispatch"}
    BY <1>2, <2>1
  <2>3. Past(token, {"stage", "note", "dispatch"})'
    BY <2>2 DEF Past
  <2>4. Given(token)'
    BY <1>1 DEF Given
  <2>. QED
    BY <2>3, <2>4 DEF UnsentOk
<1>10. ASSUME NEW r \in world.reached, r[2] \in OnRecord(r[1]) PROVE r[2] \in OnRecord(r[1])'
  <2>1. r[2] # token
    BY <1>0 DEF EchoInv, ReachedOk, Past
  <2>. QED
    BY <1>8, <1>10, <2>1
<1>11. ASSUME NEW k \in DOMAIN ledger'
       PROVE  ledger'[k] \in Seq(Nat) /\ \A t \in OnRecord(k)' : t \in OnRecord(k) /\ t \notin world'.unsent
  <2>1. ledger'[k] \in Seq(Nat)
    BY <1>4, <1>5 DEF EchoInv, AwaitsDispatch
  <2>2. \A t \in OnRecord(k) : t \notin world.unsent
    BY <1>5 DEF EchoInv, RecordedOk
  <2>. QED
    BY <1>3, <1>8, <2>1, <2>2
<1>12. ASSUME NEW d \in Calls, d # c, call[d].pc = "dispatch", NEW k \in Identities(call[d].final)
       PROVE  k \in DOMAIN ledger => ledger'[k] = ledger[k]
  <2>1. k \notin ids
    <3>. SUFFICES ASSUME k \in ids PROVE FALSE
      OBVIOUS
    <3>1. PICK e \in registry.active : e.id = k /\ e.token = call[c].token
      BY <1>4 DEF AwaitsDispatch
    <3>2. PICK g \in registry.active : g.id = k /\ g.token = call[d].token
      BY <1>12, EchoShape DEF DispatchOk, AwaitsDispatch
    <3>. QED
      BY <1>12, <3>1, <3>2, OneHolder
  <2>. QED
    BY <1>5, <2>1
<1>13. RecordsStay(c)
  BY <1>3, <1>5, <1>10, <1>11, <1>12 DEF RecordsStay
<1>14. BufferOk(c)'
  BY <1>2, <1>3, EchoShape, ZenonT(30) DEF BufferOk
<1>. QED
  BY <1>3, <1>6, <1>9, <1>13, <1>14, StepKeeps

(* The panes the dispatch reaches and the second preflight named. *)
AsPlanned(c) == Reached(c) \cap Identities(call[c].final)

LEMMA DeliveredEcho ==
  ASSUME InputInv, EchoInv, NEW c \in Calls, call[c].pc = "dispatch", NEW failed,
         call' = Answer(c, failed), world' = Delivered(c), UNCHANGED <<registry, ledger>>
  PROVE  EchoInv'
<1>0. PICK token : token = call[c].token
  BY ZenonT(30)
<1>1. token # 0 /\ Given(token)
  BY <1>0, TokenHeld
<1>2. /\ \A d \in Calls : d # c => call'[d] = call[d]
      /\ call'[c].pc = "commit"
      /\ call'[c].tool = call[c].tool /\ call'[c].buffer = call[c].buffer
  BY EchoShape DEF Answer, CallFields
<1>3. /\ world'.gen = world.gen /\ world'.status = world.status
      /\ world'.reached = world.reached \cup {<<k, token>> : k \in AsPlanned(c)}
      /\ world'.unsent = world.unsent /\ world'.pruned = world.pruned /\ world'.buffers = world.buffers
  BY <1>0, EchoShape, ZenonT(30) DEF Delivered, WorldFields, AsPlanned
<1>4. NoDispatch(c) /\ Others(c) /\ KeepsHolders(c)
  BY <1>2, <1>3, EchoShape DEF NoDispatch, Others, KeepsHolders
<1>5. \A k : (KeyOk(k)' <=> KeyOk(k)) /\ OnRecord(k)' = OnRecord(k)
  BY <1>3, ZenonT(30) DEF KeyOk, OnRecord, Known
<1>6. ASSUME NEW k \in AsPlanned(c)
      PROVE  KeyOk(k) /\ (k \notin world.pruned => token \in OnRecord(k))
  <2>1. PICK p \in Cohort(c) \cap Alive : k = <<world.gen, p>>
    BY Zenon DEF AsPlanned, Reached
  <2>2. AwaitsDispatch(c, k)
    BY EchoShape, ZenonT(30) DEF AsPlanned, DispatchOk
  <2>3. k[1] = world.gen /\ world.status[k[2]] = "alive"
    BY <2>1, ZenonT(30) DEF Alive
  <2>4. ASSUME k \notin world.pruned PROVE token \in OnRecord(k)
    <3>1. k \in DOMAIN ledger /\ ledger[k] = Append(call[c].prev[k], token) /\ call[c].prev[k] \in Seq(Nat)
      BY <1>0, <2>2, <2>3, <2>4 DEF AwaitsDispatch, Gone
    <3>2. token \in Nat
      BY <1>1 DEF Given
    <3>3. InSeq(token, Append(call[c].prev[k], token))
      BY <3>1, <3>2, AppendRange
    <3>. QED
      BY <3>1, <3>3, OnRecordIs, ZenonT(30)
  <2>. QED
    BY <2>2, <2>4 DEF AwaitsDispatch
<1>7. ASSUME NEW r \in world'.reached PROVE r \in world.reached \/ ReachedOk(r)'
  <2>1. ASSUME NEW k \in AsPlanned(c), r = <<k, token>> PROVE ReachedOk(r)'
    <3>1. r[1] = k /\ r[2] = token
      BY <2>1, ZenonT(30)
    <3>2. \A d \in Calls : call[d].token = token => d = c
      BY <1>0, TokenHeld, ZenonT(30)
    <3>3. \A d \in Calls : call'[d].token = token => call'[d].pc \notin {"stage", "note", "dispatch"}
      BY <1>2, <3>2, ZenonT(30)
    <3>4. Past(token, {"stage", "note", "dispatch"})'
      BY <3>3 DEF Past
    <3>5. Given(token)'
      BY <1>1, ZenonT(30) DEF Given
    <3>. QED
      BY <1>3, <1>5, <1>6, <3>1, <3>4, <3>5, ZenonT(30) DEF ReachedOk
  <2>. QED
    BY <1>3, <2>1, Zenon
<1>8. \A k \in DOMAIN ledger : ledger[k] \in Seq(Nat) /\ \A t \in OnRecord(k) : t \notin world.unsent
  BY ZenonT(30) DEF EchoInv, RecordedOk
<1>9. RecordsStay(c)
  BY <1>3, <1>5, <1>8, ZenonT(30) DEF RecordsStay
<1>10. BufferOk(c)'
  BY <1>2, <1>3, EchoShape DEF BufferOk
<1>. QED
  BY <1>3, <1>4, <1>7, <1>9, <1>10, StepKeeps

LEMMA DispatchEcho ==
  ASSUME InputInv, EchoInv, NEW c \in Calls, Dispatch(c)
  PROVE  EchoInv'
<1>1. call[c].pc = "dispatch" /\ UNCHANGED registry
  BY Zenon DEF Dispatch
<1>2. CASE /\ call' = AfterRefusal(c) /\ ledger' = Rollback(c)
           /\ world' = [world EXCEPT !.unsent = @ \cup {call[c].token}]
  BY <1>1, <1>2, RolledBackEcho, ZenonT(30)
<1>3. CASE call' = Answer(c, TRUE) /\ UNCHANGED <<world, ledger>>
  <2>1. /\ \A d \in Calls : d # c => call'[d] = call[d]
        /\ call'[c].pc = "commit"
        /\ call'[c].tool = call[c].tool /\ call'[c].buffer = call[c].buffer
    BY <1>3, EchoShape DEF Answer, CallFields
  <2>2. NoDispatch(c) /\ BufferOk(c)'
    BY <1>1, <1>3, <2>1, EchoShape, ZenonT(30) DEF NoDispatch, BufferOk
  <2>. QED
    BY <1>1, <1>3, <2>1, <2>2, LocalKeeps, ZenonT(30)
<1>4. CASE (\E failed \in BOOLEAN : call' = Answer(c, failed)) /\ world' = Delivered(c) /\ UNCHANGED ledger
  BY <1>1, <1>4, DeliveredEcho
<1>. QED
  BY <1>2, <1>3, <1>4, Zenon DEF Dispatch

(* What happens in tmux: panes come and go, and a daemon that restarts has *)
(* panes with other identities.                                            *)
PanesMove ==
  /\ world'.reached = world.reached /\ world'.unsent = world.unsent /\ world'.pruned = world.pruned
  /\ world'.buffers \subseteq world.buffers
  /\ \/ world'.gen = world.gen + 1
     \/ /\ world'.gen = world.gen
        /\ \A p \in Panes :
             /\ world.status[p] = "gone" => world'.status[p] = "gone"
             /\ world.status[p] # "unborn" => world'.status[p] # "unborn"

LEMMA WorldEcho ==
  ASSUME InputInv, EchoInv, UNCHANGED <<registry, ledger, call>>, PaneInv', PanesMove
  PROVE  EchoInv'
<1>0. world.gen \in Nat /\ world'.gen \in Nat
  BY DEF EchoInv, PaneInv
<1>1. ASSUME NEW k, KeyOk(k)
      PROVE  /\ KeyOk(k)'
             /\ k[1] = world'.gen => /\ k[1] = world.gen
                                     /\ world.status[k[2]] = "gone" => world'.status[k[2]] = "gone"
  BY <1>0, <1>1 DEF KeyOk, PanesMove
<1>2. \A t : /\ Given(t)' <=> Given(t)
             /\ \A pcs : Past(t, pcs)' <=> Past(t, pcs)
             /\ OnRecord(t)' = OnRecord(t)
  BY ZenonT(30) DEF Given, Past, OnRecord, Known
<1>3. ASSUME NEW r \in world'.reached PROVE ReachedOk(r)'
  <2>1. ReachedOk(r) /\ KeyOk(r[1])
    BY ZenonT(30) DEF EchoInv, ReachedOk, PanesMove
  <2>2. ASSUME r[1][1] = world'.gen, world'.status[r[1][2]] \in {"alive", "dead"}
        PROVE  r[1][1] = world.gen /\ world.status[r[1][2]] \in {"alive", "dead"}
    BY <1>1, <2>1, <2>2, ZenonT(30) DEF KeyOk, EchoInv, PaneInv
  <2>. QED
    BY <1>1, <1>2, <2>1, <2>2, ZenonT(30) DEF ReachedOk, PanesMove
<1>4. ASSUME NEW t \in world'.unsent PROVE UnsentOk(t)'
  BY <1>2, ZenonT(30) DEF EchoInv, UnsentOk, PanesMove
<1>5. ASSUME NEW k \in DOMAIN ledger', NEW t \in OnRecord(k)' PROVE RecordedOk(k, t)'
  <2>1. RecordedOk(k, t)
    BY <1>2, ZenonT(30) DEF EchoInv
  <2>. QED
    BY <1>2, <2>1, ZenonT(30) DEF RecordedOk, PanesMove
<1>6. \A k \in DOMAIN ledger' : ledger'[k] \in Seq(Nat)
  BY DEF EchoInv
<1>7. ASSUME NEW d \in Calls PROVE DispatchOk(d)' /\ BufferOk(d)'
  <2>1. DispatchOk(d) /\ BufferOk(d)
    BY ZenonT(30) DEF EchoInv
  <2>2. ASSUME NEW k \in Identities(call[d].final), call[d].pc = "dispatch" PROVE AwaitsDispatch(d, k)'
    <3>1. AwaitsDispatch(d, k)
      BY <2>1, <2>2, ZenonT(30) DEF DispatchOk
    <3>2. KeyOk(k)' /\ (k[1] = world'.gen => k[1] = world.gen
                         /\ (world.status[k[2]] = "gone" => world'.status[k[2]] = "gone"))
      BY <1>1, <3>1, ZenonT(30) DEF AwaitsDispatch
    <3>3. k \notin DOMAIN ledger => Gone(k)'
      BY <3>1, <3>2, ZenonT(30) DEF AwaitsDispatch, Gone, PanesMove
    <3>. QED
      BY <3>1, <3>2, <3>3, ZenonT(30) DEF AwaitsDispatch
  <2>3. DispatchOk(d)'
    BY <2>1, <2>2, ZenonT(30) DEF DispatchOk, Identities
  <2>4. BufferOk(d)'
    BY <2>1 DEF BufferOk, PanesMove
  <2>. QED
    BY <2>3, <2>4, ZenonT(30)
<1>. QED
  BY <1>3, <1>4, <1>5, <1>6, <1>7 DEF EchoInv

LEMMA OutsideEcho ==
  ASSUME InputInv, EchoInv, Outside
  PROVE  EchoInv'
<1>1. /\ DOMAIN world = WorldFields /\ DOMAIN world.busy = Panes /\ DOMAIN world.status = Panes
      /\ world.gen \in Nat /\ \A p \in Panes : world.status[p] \in {"unborn", "alive", "dead", "gone"}
  BY DEF InputInv, Shaped, EchoInv, PaneInv
<1>2. UNCHANGED <<registry, ledger, call>>
  BY Zenon DEF Outside, PaneCreated, PaneEnds, DaemonRestarts, SyncToggled, PaneHeld, Happens, RunEnds,
         Respawned
<1>3. CASE PaneCreated
  <2>1. PICK p \in Panes : world.status[p] = "unborn" /\ Happens([world EXCEPT !.status[p] = "alive"])
    BY <1>3, Zenon DEF PaneCreated
  <2>2. /\ world'.gen = world.gen /\ world'.reached = world.reached /\ world'.unsent = world.unsent
        /\ world'.pruned = world.pruned /\ world'.buffers = world.buffers
        /\ world'.status[p] = "alive" /\ \A q \in Panes : q # p => world'.status[q] = world.status[q]
    BY <1>1, <2>1, ZenonT(30) DEF Happens, WorldFields
  <2>3. PaneInv'
    BY <1>1, <2>2 DEF PaneInv
  <2>. QED
    BY <1>2, <2>1, <2>2, <2>3, WorldEcho DEF PanesMove
<1>4. CASE PaneEnds
  <2>1. PICK p \in Listed, t \in {"dead", "gone"} :
          Happens([world EXCEPT !.status[p] = t, !.busy[p] = 0])
    BY <1>4, Zenon DEF PaneEnds
  <2>2. /\ world'.gen = world.gen /\ world'.reached = world.reached /\ world'.unsent = world.unsent
        /\ world'.pruned = world.pruned /\ world'.buffers = world.buffers
        /\ p \in Panes /\ world.status[p] \in {"alive", "dead"}
        /\ world'.status[p] = t /\ \A q \in Panes : q # p => world'.status[q] = world.status[q]
    BY <1>1, <2>1, ZenonT(30) DEF Happens, WorldFields, Listed
  <2>3. PaneInv'
    BY <1>1, <2>2, ZenonT(30) DEF PaneInv
  <2>. QED
    BY <1>2, <2>1, <2>2, <2>3, WorldEcho DEF PanesMove
<1>5. CASE DaemonRestarts
  <2>1. /\ world'.gen = world.gen + 1 /\ world'.reached = world.reached /\ world'.unsent = world.unsent
        /\ world'.pruned = world.pruned /\ world'.buffers = {}
        /\ \A p \in Panes : world'.status[p] \in {"unborn", "alive"}
    BY <1>1, <1>5 DEF DaemonRestarts, Happens, WorldFields, Fresh
  <2>2. PaneInv'
    BY <1>1, <2>1 DEF PaneInv
  <2>. QED
    BY <1>2, <2>1, <2>2, WorldEcho DEF PanesMove
<1>6. CASE SyncToggled \/ PaneHeld \/ RunEnds \/ Respawned
  <2>1. /\ world'.gen = world.gen /\ world'.reached = world.reached /\ world'.unsent = world.unsent
        /\ world'.pruned = world.pruned /\ world'.buffers = world.buffers
        /\ world'.status = world.status
    BY <1>1, <1>6, Zenon DEF SyncToggled, PaneHeld, RunEnds, Respawned, Happens, WorldFields
  <2>2. PaneInv'
    BY <1>1, <2>1 DEF PaneInv
  <2>. QED
    BY <1>2, <2>1, <2>2, WorldEcho DEF PanesMove
<1>. QED
  BY <1>3, <1>4, <1>5, <1>6, ZenonT(30) DEF Outside

LEMMA EchoStep == InputInv /\ EchoInv /\ [InputNext]_inputVars => EchoInv'
<1>. SUFFICES ASSUME InputInv, EchoInv, [InputNext]_inputVars PROVE EchoInv'
  OBVIOUS
<1>1. CASE Outside
  BY <1>1, OutsideEcho, ZenonT(30)
<1>2. ASSUME NEW c \in Calls, CallStep(c) PROVE EchoInv'
  <2>1. CASE Preflight(c)
    BY <2>1, PreflightEcho
  <2>2. CASE AskHolders(c)
    BY <2>2, AskHoldersEcho, ZenonT(30)
  <2>3. CASE Prove(c)
    BY <2>3, ProveEcho
  <2>4. CASE Take(c)
    BY <2>4, TakeEcho
  <2>5. CASE Stage(c)
    BY <2>5, StageEcho
  <2>6. CASE Note(c)
    BY <2>6, NoteEcho
  <2>7. CASE Dispatch(c)
    BY <2>7, DispatchEcho
  <2>8. CASE Commit(c)
    BY <2>8, CommitEcho
  <2>9. CASE Cleanup(c)
    BY <2>9, CleanupEcho
  <2>10. CASE PruneAfterPaste(c)
    BY <2>10, PruneAfterPasteEcho
  <2>11. CASE RunCompletes(c) \/ RunAbandoned(c) \/ WatchersGiveUp(c)
    BY <2>11, RunEcho, Zenon
  <2>12. CASE Retain(c)
    BY <2>12, RetainEcho
  <2>13. CASE WatcherProves(c) \/ Leave(c)
    BY <2>13, ReleaseEcho, Zenon
  <2>. QED
    BY <1>2, <2>1, <2>2, <2>3, <2>4, <2>5, <2>6, <2>7, <2>8, <2>9, <2>10, <2>11, <2>12, <2>13, ZenonT(30)
    DEF CallStep
<1>3. CASE UNCHANGED inputVars
  <2>1. UNCHANGED <<world, registry, ledger, call>>
    BY <1>3 DEF inputVars
  <2>2. PaneInv'
    BY <2>1 DEF EchoInv, PaneInv
  <2>. QED
    BY <2>1, <2>2, WorldEcho DEF PanesMove
<1>. QED
  BY <1>1, <1>2, <1>3 DEF InputNext

LEMMA EchoInvTruthful == EchoInv => DispatchTruthful
<1>. SUFFICES ASSUME EchoInv PROVE DispatchTruthful
  OBVIOUS
<1>1. ASSUME NEW p \in Listed, <<world.gen, p>> \notin world.pruned
      PROVE  Lost(<<world.gen, p>>) = {}
  <2>1. ASSUME NEW r \in world.reached, r[1] = <<world.gen, p>> PROVE r[2] \in OnRecord(<<world.gen, p>>)
    <3>1. ReachedOk(r)
      BY DEF EchoInv
    <3>2. r[1][1] = world.gen /\ r[1][2] = p
      BY <2>1
    <3>. QED
      BY <1>1, <2>1, <3>1, <3>2 DEF ReachedOk, Listed
  <2>. QED
    BY <2>1, Zenon DEF Lost
<1>2. ASSUME NEW k \in DOMAIN ledger PROVE OnRecord(k) \cap world.unsent = {}
  BY DEF EchoInv, RecordedOk
<1>3. BufferRemoved
  <2>1. ASSUME NEW c \in Calls, call[c].pc \in {"release", "done"}, c \in world.buffers
        PROVE  call[c].buffer = "reported"
    BY <2>1 DEF EchoInv, BufferOk
  <2>. QED
    BY <2>1, ZenonT(30) DEF BufferRemoved
<1>. QED
  BY <1>1, <1>2, <1>3, Zenon DEF DispatchTruthful, EchoTruthful

(* Whatever a tool call typed into a pane that its second preflight named  *)
(* is on the pane's echo record as long as the pane is listed and its      *)
(* record was not pruned, what was rolled back is on none, and a           *)
(* private paste buffer that stays behind was reported: for any number of  *)
(* calls, panes and batches, with panes that come and go, restarts of the  *)
(* daemon, and the rollback of one call beside the records of another.     *)
THEOREM DispatchAlwaysTruthful == InputSpec => []DispatchTruthful
<1>1. InputInit => InputInv /\ EchoInv
  BY InputStarts, EchoStarts
<1>2. InputInv /\ EchoInv /\ [InputNext]_inputVars => (InputInv /\ EchoInv)'
  BY InputStep, EchoStep
<1>3. EchoInv => DispatchTruthful
  BY EchoInvTruthful
<1>. QED
  BY <1>1, <1>2, <1>3, PTL DEF InputSpec
=============================================================================
