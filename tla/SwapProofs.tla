----------------------------- MODULE SwapProofs -----------------------------
(***************************************************************************)
(* What holds of mcp-swap for any processes, clients, servers and bounds:  *)
(* only the process that recorded a transaction touches the record and the *)
(* backups while it is pending.                                            *)
(***************************************************************************)
EXTENDS SwapTransaction, FiniteSetTheorems, TLAPS

Fields == {"pc", "kind", "applied", "txn", "snap", "view", "removed", "baks", "work"}

(* Where a process stands once it has begun, and while it may publish. *)
Began == {"backup", "check", "write", "rename", "read", "recreate", "undo",
          "unwrite", "unrename", "unread"}
Transacting == Began \cup {"begin", "leave"}

Pending == state.txn # None

(* A process that transacts holds the lock and, once it has begun, whatever *)
(* is pending is its own.                                                  *)
ProcOk(p) ==
  /\ "pc" \in DOMAIN proc[p]
  /\ proc[p].pc \in Transacting \cup {"plan"} => lock = p
  /\ proc[p].pc \in Transacting => DOMAIN proc[p] = Fields
  /\ proc[p].pc = "begin" => NoTransaction(proc[p].snap)
  /\ proc[p].pc \in Began => (Pending => state.txn = proc[p].txn)

OwnerInv == DOMAIN proc = Procs /\ \A p \in Procs : ProcOk(p)

(* What a step may do while a transaction is pending. *)
Stops ==
  Pending => \/ state' = state /\ backups' = backups
             \/ lock # None /\ proc[lock].txn = state.txn

LEMMA Starts == Init => OwnerInv
BY DEF Init, OwnerInv, ProcOk, Idle, Began, Transacting

(* A process that has no lock moves before the lock. *)
LEMMA BeforeLock ==
  ASSUME OwnerInv, NEW p \in Procs, NEW r, Goto(p, r), "pc" \in DOMAIN r,
         r.pc \in {"idle", "preflight", "lock"}, UNCHANGED <<files, lock>>
  PROVE  OwnerInv' /\ Stops
<1>1. state' = state /\ backups' = backups /\ lock' = lock
  BY DEF files
<1>2. DOMAIN proc' = Procs /\ proc'[p] = r /\ \A q \in Procs : q # p => proc'[q] = proc[q]
  BY DEF Goto, OwnerInv
<1>3. ASSUME NEW q \in Procs PROVE ProcOk(q)'
  <2>1. CASE q = p
    BY <1>2, <2>1 DEF ProcOk, Transacting, Began
  <2>2. CASE q # p
    <3>1. ProcOk(q) /\ proc'[q] = proc[q] /\ (Pending' <=> Pending)
      BY <1>1, <1>2, <2>2 DEF OwnerInv, Pending
    <3>. QED
      BY <1>1, <3>1 DEF ProcOk
  <2>. QED
    BY <2>1, <2>2
<1>. QED
  BY <1>1, <1>2, <1>3 DEF OwnerInv, Stops

(* The lock is released: nobody transacts. *)
LEMMA Leaves ==
  ASSUME OwnerInv, NEW p \in Procs, Leave(p), UNCHANGED files
  PROVE  OwnerInv' /\ Stops
<1>1. state' = state /\ backups' = backups
  BY DEF files
<1>2. DOMAIN proc' = Procs /\ proc'[p] = Idle /\ \A q \in Procs : q # p => proc'[q] = proc[q]
  BY DEF Leave, Goto, OwnerInv
<1>3. ASSUME NEW q \in Procs PROVE ProcOk(q)'
  <2>1. CASE q = p
    BY <1>2, <2>1 DEF ProcOk, Transacting, Began, Idle
  <2>2. CASE q # p
    <3>1. ProcOk(q) /\ proc'[q] = proc[q] /\ (Pending' <=> Pending)
      BY <1>1, <1>2, <2>2 DEF OwnerInv, Pending
    <3>2. lock = q => lock' = q
      BY <2>2 DEF Leave
    <3>. QED
      BY <1>1, <3>1, <3>2 DEF ProcOk
  <2>. QED
    BY <2>1, <2>2
<1>. QED
  BY <1>1, <1>2, <1>3 DEF OwnerInv, Stops

(* The holder of the lock moves within its transaction. *)
LEMMA Moves ==
  ASSUME OwnerInv, NEW p \in Procs, lock = p, lock' = lock, NEW r, Goto(p, r),
         DOMAIN r = Fields, r.pc \in Transacting,
         r.pc = "begin" => NoTransaction(r.snap),
         r.pc \in Began => (Pending' => state'.txn = r.txn)
  PROVE  OwnerInv'
<1>2. DOMAIN proc' = Procs /\ proc'[p] = r /\ \A q \in Procs : q # p => proc'[q] = proc[q]
  BY DEF Goto, OwnerInv
<1>3. ASSUME NEW q \in Procs PROVE ProcOk(q)'
  <2>1. CASE q = p
    <3>1. "pc" \in DOMAIN r
      BY DEF Fields
    <3>. QED
      BY <1>2, <2>1, <3>1 DEF ProcOk, NoTransaction
  <2>2. CASE q # p
    <3>1. ProcOk(q) /\ proc'[q] = proc[q] /\ lock # q
      BY <1>2, <2>2 DEF OwnerInv
    <3>. QED
      BY <3>1 DEF ProcOk, Transacting, Began
  <2>. QED
    BY <2>1, <2>2
<1>. QED
  BY <1>2, <1>3 DEF OwnerInv

(* A process that has begun may publish what it likes. *)
LEMMA Owner ==
  ASSUME OwnerInv, NEW p \in Procs, proc[p].pc \in Began
  PROVE  lock = p /\ DOMAIN proc[p] = Fields /\ Stops /\ (Pending => state.txn = proc[p].txn)
<1>1. ProcOk(p)
  BY DEF OwnerInv
<1>2. lock = p /\ DOMAIN proc[p] = Fields /\ (Pending => state.txn = proc[p].txn)
  BY <1>1 DEF ProcOk, Transacting
<1>3. lock # None
  BY <1>2, NobodyAssumption
<1>. QED
  BY <1>2, <1>3 DEF Stops
-----------------------------------------------------------------------------
(* What a process becomes within its transaction. *)
Continues(p, r) ==
  DOMAIN r = Fields /\ r.pc \in Began \cup {"leave"} /\ r.txn = proc[p].txn

LEMMA ToContinues ==
  ASSUME NEW p, DOMAIN proc[p] = Fields, NEW pc \in Began \cup {"leave"}
  PROVE  Continues(p, To(p, pc)) /\ Continues(p, Failing(p))
BY DEF To, Failing, Continues, Fields, Began

(* A step that leaves the record alone. *)
LEMMA RecordStays ==
  ASSUME OwnerInv, NEW p \in Procs, proc[p].pc \in Began, NEW r, Goto(p, r), Continues(p, r),
         state' = state, lock' = lock
  PROVE  OwnerInv' /\ Stops
<1>1. lock = p /\ Stops /\ (Pending => state.txn = proc[p].txn)
  BY Owner
<1>2. Pending' => state'.txn = r.txn
  BY <1>1 DEF Continues, Pending
<1>3. DOMAIN r = Fields /\ r.pc \in Transacting /\ r.pc # "begin"
  BY DEF Continues, Transacting, Began
<1>. QED
  BY <1>1, <1>2, <1>3, Moves

(* A step that writes the record, of this transaction or of none. *)
LEMMA RecordWritten ==
  ASSUME OwnerInv, NEW p \in Procs, proc[p].pc \in Began, NEW r, Goto(p, r), Continues(p, r),
         Pending' => state'.txn = proc[p].txn, lock' = lock
  PROVE  OwnerInv' /\ Stops
<1>1. lock = p /\ Stops
  BY Owner
<1>2. Pending' => state'.txn = r.txn
  BY DEF Continues
<1>3. DOMAIN r = Fields /\ r.pc \in Transacting /\ r.pc # "begin"
  BY DEF Continues, Transacting, Began
<1>. QED
  BY <1>1, <1>2, <1>3, Moves

LEMMA Refuses ==
  ASSUME OwnerInv, NEW p \in Procs, proc[p].pc \in Began, NEW r, Refuse(p, r), Continues(p, r),
         lock' = lock
  PROVE  OwnerInv' /\ Stops
<1>1. Goto(p, r) /\ state' = state
  BY DEF Refuse, files
<1>. QED
  BY <1>1, RecordStays

LEMMA WritesConfig ==
  ASSUME OwnerInv, NEW p \in Procs, proc[p].pc \in Began, NEW c, NEW bytes,
         NEW done, NEW failed, Continues(p, done), Continues(p, failed),
         atomic_write(p, c, bytes, done, failed), lock' = lock
  PROVE  OwnerInv' /\ Stops
<1>1. state' = state
  BY DEF atomic_write, files
<1>2. Goto(p, done) \/ Goto(p, failed)
  BY DEF atomic_write
<1>. QED
  BY <1>1, <1>2, RecordStays

LEMMA WritesState ==
  ASSUME OwnerInv, NEW p \in Procs, proc[p].pc \in Began, NEW entries, NEW txn,
         txn \in {None, proc[p].txn}, NEW done, NEW failed,
         Continues(p, done), Continues(p, failed),
         write_state(p, entries, txn, done, failed), lock' = lock
  PROVE  OwnerInv' /\ Stops
<1>. DEFINE new == [entries |-> entries, txn |-> txn, id |-> inode]
<1>1. \/ state' = new /\ Goto(p, [done EXCEPT !.snap = new])
      \/ state' = new /\ Goto(p, failed)
      \/ state' = state /\ Goto(p, failed)
  BY DEF write_state, files
<1>2. new.txn = txn
  OBVIOUS
<1>3. Continues(p, [done EXCEPT !.snap = new])
  BY DEF Continues, Fields
<1>4. CASE state' = new
  <2>1. Pending' => state'.txn = proc[p].txn
    BY <1>2, <1>4 DEF Pending
  <2>. QED
    BY <1>1, <1>3, <2>1, RecordWritten, RecordStays
<1>5. CASE state' = state /\ Goto(p, failed)
  BY <1>5, RecordStays
<1>. QED
  BY <1>1, <1>4, <1>5

LEMMA RemovesState ==
  ASSUME OwnerInv, NEW p \in Procs, proc[p].pc \in Began, NEW done, NEW failed,
         Continues(p, done), Continues(p, failed),
         remove_state(p, done, failed), lock' = lock
  PROVE  OwnerInv' /\ Stops
<1>1. state' \in {NoState, state} /\ (Goto(p, done) \/ Goto(p, failed))
  BY DEF remove_state, files
<1>2. CASE state' = NoState
  <2>1. ~Pending'
    BY <1>2 DEF Pending, NoState
  <2>. QED
    BY <1>1, <2>1, RecordWritten
<1>3. CASE state' = state
  BY <1>1, <1>3, RecordStays
<1>. QED
  BY <1>1, <1>2, <1>3

LEMMA Settles ==
  ASSUME OwnerInv, NEW p \in Procs, proc[p].pc \in Began, NEW entries, NEW done, NEW failed,
         Continues(p, done), Continues(p, failed),
         Settle(p, entries, done, failed), lock' = lock
  PROVE  OwnerInv' /\ Stops
<1>1. CASE entries = Empty
  BY <1>1, RemovesState DEF Settle
<1>2. CASE entries # Empty
  BY <1>2, WritesState DEF Settle
<1>. QED
  BY <1>1, <1>2

LEMMA CreatesFile ==
  ASSUME OwnerInv, NEW p \in Procs, proc[p].pc \in Began, NEW f, NEW bytes,
         NEW done, NEW failed, Continues(p, done), Continues(p, failed),
         create_private_file(p, f, bytes, done, failed), lock' = lock
  PROVE  OwnerInv' /\ Stops
<1>1. state' = state
  BY DEF create_private_file, files
<1>2. PICK baks : Goto(p, [done EXCEPT !.baks = baks]) \/ Goto(p, failed)
  BY DEF create_private_file
<1>3. Continues(p, [done EXCEPT !.baks = baks])
  BY DEF Continues, Fields
<1>. QED
  BY <1>1, <1>2, <1>3, RecordStays

LEMMA RemovesFile ==
  ASSUME OwnerInv, NEW p \in Procs, proc[p].pc \in Began, NEW f,
         NEW done, NEW failed, Continues(p, done), Continues(p, failed),
         remove_bound(p, f, done, failed), lock' = lock
  PROVE  OwnerInv' /\ Stops
<1>1. state' = state
  BY DEF remove_bound, files
<1>2. Goto(p, done) \/ Goto(p, failed)
  BY DEF remove_bound
<1>. QED
  BY <1>1, <1>2, RecordStays
-----------------------------------------------------------------------------
(* The plan found no transaction and nobody wrote the record since. *)
LEMMA Begins ==
  ASSUME OwnerInv, NEW p \in Procs, Begin(p)
  PROVE  OwnerInv' /\ Stops
<1>. DEFINE new == [entries |-> state.entries, txn |-> inode, id |-> inode]
            begun == [proc[p] EXCEPT !.pc = IF proc[p].kind = "apply" THEN "backup" ELSE "check",
                                     !.txn = inode]
            done == [begun EXCEPT !.snap = new]
<1>1. /\ ProcOk(p) /\ proc[p].pc = "begin" /\ lock = p /\ lock' = lock
      /\ DOMAIN proc[p] = Fields /\ NoTransaction(proc[p].snap)
  BY DEF Begin, At, OwnerInv, ProcOk, Transacting, Held
<1>2. DOMAIN To(p, "leave") = Fields /\ To(p, "leave").pc = "leave"
  BY <1>1 DEF To, Fields
<1>3. DOMAIN done = Fields /\ done.pc \in {"backup", "check"} /\ done.txn = inode
  BY <1>1 DEF Fields
<1>4. \/ validate_world(proc[p]) /\ write_state(p, state.entries, inode, begun, To(p, "leave"))
      \/ Refuse(p, To(p, "leave"))
  BY DEF Begin
<1>5. CASE Refuse(p, To(p, "leave"))
  <2>1. Goto(p, To(p, "leave")) /\ state' = state /\ backups' = backups
    BY <1>5 DEF Refuse, files
  <2>2. OwnerInv'
    BY <1>1, <1>2, <2>1, Moves DEF Transacting, Began
  <2>. QED
    BY <2>1, <2>2 DEF Stops
<1>6. CASE /\ validate_world(proc[p])
           /\ write_state(p, state.entries, inode, begun, To(p, "leave"))
  <2>1. state = proc[p].snap
    BY <1>6 DEF validate_world, validate_apply_world, validate_revert_world
  <2>2. ~Pending
    BY <1>1, <2>1 DEF NoTransaction, Pending
  <2>3. \/ state' = new /\ Goto(p, done)
        \/ Goto(p, To(p, "leave"))
    BY <1>6 DEF write_state
  <2>4. CASE state' = new /\ Goto(p, done)
    <3>1. Pending' => state'.txn = done.txn
      BY <1>3, <2>4
    <3>2. done.pc \in Transacting /\ done.pc # "begin"
      BY <1>3 DEF Transacting, Began
    <3>. QED
      BY <1>1, <1>3, <2>2, <2>4, <3>1, <3>2, Moves DEF Stops
  <2>5. CASE Goto(p, To(p, "leave"))
    BY <1>1, <1>2, <2>2, <2>5, Moves DEF Transacting, Began, Stops
  <2>. QED
    BY <2>3, <2>4, <2>5
<1>. QED
  BY <1>4, <1>5, <1>6

LEMMA BackupStops ==
  ASSUME OwnerInv, NEW p \in Procs, Backup(p)
  PROVE  OwnerInv' /\ Stops
<1>1. proc[p].pc = "backup" /\ proc[p].pc \in Began /\ lock' = lock
  BY DEF Backup, At, Held, Began
<1>2. DOMAIN proc[p] = Fields
  BY <1>1, Owner
<1>3. /\ Continues(p, Failing(p)) /\ Continues(p, proc[p])
      /\ \A pc \in Began \cup {"leave"} : Continues(p, To(p, pc))
  BY <1>1, <1>2, ToContinues DEF Continues
<1>4. PICK f, bytes : \/ create_private_file(p, f, bytes, proc[p], Failing(p))
                     \/ Refuse(p, Failing(p))
  BY DEF Backup
<1>. QED
  BY <1>1, <1>3, <1>4, CreatesFile, Refuses

LEMMA BindStops ==
  ASSUME OwnerInv, NEW p \in Procs, Bind(p)
  PROVE  OwnerInv' /\ Stops
<1>1. proc[p].pc = "backup" /\ proc[p].pc \in Began /\ lock' = lock
  BY DEF Bind, At, Held, Began
<1>2. DOMAIN proc[p] = Fields
  BY <1>1, Owner
<1>3. /\ Continues(p, Failing(p)) /\ Continues(p, proc[p])
      /\ \A pc \in Began \cup {"leave"} : Continues(p, To(p, pc))
  BY <1>1, <1>2, ToContinues DEF Continues
<1>4. \/ write_state(p, state.entries, proc[p].txn, To(p, "check"), Failing(p))
      \/ Refuse(p, Failing(p))
  BY DEF Bind
<1>5. Continues(p, To(p, "check"))
  BY <1>3 DEF Began
<1>. QED
  BY <1>1, <1>3, <1>4, <1>5, WritesState, Refuses

LEMMA CheckConfigStops ==
  ASSUME OwnerInv, NEW p \in Procs, CheckConfig(p)
  PROVE  OwnerInv' /\ Stops
<1>1. proc[p].pc = "check" /\ proc[p].pc \in Began /\ lock' = lock
  BY DEF CheckConfig, At, Held, Began
<1>2. DOMAIN proc[p] = Fields
  BY <1>1, Owner
<1>3. /\ Continues(p, Failing(p)) /\ Continues(p, proc[p])
      /\ \A pc \in Began \cup {"leave"} : Continues(p, To(p, pc))
  BY <1>1, <1>2, ToContinues DEF Continues
<1>4. Refuse(p, To(p, "write")) \/ Refuse(p, Failing(p))
  BY DEF CheckConfig
<1>5. Continues(p, To(p, "write"))
  BY <1>3 DEF Began
<1>. QED
  BY <1>1, <1>3, <1>4, <1>5, Refuses

LEMMA WriteConfigStops ==
  ASSUME OwnerInv, NEW p \in Procs, WriteConfig(p)
  PROVE  OwnerInv' /\ Stops
<1>1. proc[p].pc = "write" /\ proc[p].pc \in Began /\ lock' = lock
  BY DEF WriteConfig, At, Held, Began
<1>2. DOMAIN proc[p] = Fields
  BY <1>1, Owner
<1>3. /\ Continues(p, Failing(p)) /\ Continues(p, proc[p])
      /\ \A pc \in Began \cup {"leave"} : Continues(p, To(p, pc))
  BY <1>1, <1>2, ToContinues DEF Continues
<1>4. Refuse(p, To(p, "rename")) \/ Refuse(p, Failing(p))
  BY DEF WriteConfig
<1>5. Continues(p, To(p, "rename"))
  BY <1>3 DEF Began
<1>. QED
  BY <1>1, <1>3, <1>4, <1>5, Refuses

LEMMA RenameConfigStops ==
  ASSUME OwnerInv, NEW p \in Procs, RenameConfig(p)
  PROVE  OwnerInv' /\ Stops
<1>1. proc[p].pc = "rename" /\ proc[p].pc \in Began /\ lock' = lock
  BY DEF RenameConfig, At, Held, Began
<1>2. DOMAIN proc[p] = Fields
  BY <1>1, Owner
<1>3. /\ Continues(p, Failing(p)) /\ Continues(p, proc[p])
      /\ \A pc \in Began \cup {"leave"} : Continues(p, To(p, pc))
  BY <1>1, <1>2, ToContinues DEF Continues
<1>4. PICK c, bytes : atomic_write(p, c, bytes, To(p, "read"), Failing(p))
  BY DEF RenameConfig
<1>5. Continues(p, To(p, "read"))
  BY <1>3 DEF Began
<1>. QED
  BY <1>1, <1>3, <1>4, <1>5, WritesConfig

LEMMA ReadConfigStops ==
  ASSUME OwnerInv, NEW p \in Procs, ReadConfig(p)
  PROVE  OwnerInv' /\ Stops
<1>1. proc[p].pc = "read" /\ proc[p].pc \in Began /\ lock' = lock
  BY DEF ReadConfig, At, Held, Began
<1>2. DOMAIN proc[p] = Fields
  BY <1>1, Owner
<1>3. /\ Continues(p, Failing(p)) /\ Continues(p, proc[p])
      /\ \A pc \in Began \cup {"leave"} : Continues(p, To(p, pc))
  BY <1>1, <1>2, ToContinues DEF Continues
<1>4. PICK n, view : \/ Refuse(p, [proc[p] EXCEPT !.pc = "check", !.applied = n, !.view = view])
                     \/ Refuse(p, Failing(p))
  BY DEF ReadConfig
<1>5. Continues(p, [proc[p] EXCEPT !.pc = "check", !.applied = n, !.view = view])
  BY <1>2 DEF Continues, Fields, Began
<1>. QED
  BY <1>1, <1>3, <1>4, <1>5, Refuses

LEMMA FinishApplyStops ==
  ASSUME OwnerInv, NEW p \in Procs, FinishApply(p)
  PROVE  OwnerInv' /\ Stops
<1>1. proc[p].pc = "check" /\ proc[p].pc \in Began /\ lock' = lock
  BY DEF FinishApply, At, Held, Began
<1>2. DOMAIN proc[p] = Fields
  BY <1>1, Owner
<1>3. /\ Continues(p, Failing(p)) /\ Continues(p, proc[p])
      /\ \A pc \in Began \cup {"leave"} : Continues(p, To(p, pc))
  BY <1>1, <1>2, ToContinues DEF Continues
<1>4. PICK es : \/ write_state(p, es, None, To(p, "leave"), Failing(p))
                \/ Refuse(p, Failing(p))
  BY DEF FinishApply
<1>. QED
  BY <1>1, <1>3, <1>4, WritesState, Refuses

LEMMA RemoveBackupStops ==
  ASSUME OwnerInv, NEW p \in Procs, RemoveBackup(p)
  PROVE  OwnerInv' /\ Stops
<1>1. proc[p].pc = "check" /\ proc[p].pc \in Began /\ lock' = lock
  BY DEF RemoveBackup, At, Held, Began
<1>2. DOMAIN proc[p] = Fields
  BY <1>1, Owner
<1>3. /\ Continues(p, Failing(p)) /\ Continues(p, proc[p])
      /\ \A pc \in Began \cup {"leave"} : Continues(p, To(p, pc))
  BY <1>1, <1>2, ToContinues DEF Continues
<1>4. PICK f, removed, baks :
        \/ remove_bound(p, f, [proc[p] EXCEPT !.removed = removed, !.baks = baks], Failing(p))
        \/ Refuse(p, Failing(p))
  BY DEF RemoveBackup
<1>5. Continues(p, [proc[p] EXCEPT !.removed = removed, !.baks = baks])
  BY <1>1, <1>2 DEF Continues, Fields
<1>. QED
  BY <1>1, <1>3, <1>4, <1>5, RemovesFile, Refuses

LEMMA FinishRevertStops ==
  ASSUME OwnerInv, NEW p \in Procs, FinishRevert(p)
  PROVE  OwnerInv' /\ Stops
<1>1. proc[p].pc = "check" /\ proc[p].pc \in Began /\ lock' = lock
  BY DEF FinishRevert, At, Held, Began
<1>2. DOMAIN proc[p] = Fields
  BY <1>1, Owner
<1>3. /\ Continues(p, Failing(p)) /\ Continues(p, proc[p])
      /\ \A pc \in Began \cup {"leave"} : Continues(p, To(p, pc))
  BY <1>1, <1>2, ToContinues DEF Continues
<1>4. PICK es : Settle(p, es, To(p, "leave"), Failing(p)) \/ Refuse(p, Failing(p))
  BY DEF FinishRevert
<1>. QED
  BY <1>1, <1>3, <1>4, Settles, Refuses

LEMMA RecreateStops ==
  ASSUME OwnerInv, NEW p \in Procs, Recreate(p)
  PROVE  OwnerInv' /\ Stops
<1>1. proc[p].pc = "recreate" /\ proc[p].pc \in Began /\ lock' = lock
  BY DEF Recreate, At, Held, Began
<1>2. DOMAIN proc[p] = Fields
  BY <1>1, Owner
<1>3. /\ Continues(p, Failing(p)) /\ Continues(p, proc[p])
      /\ \A pc \in Began \cup {"leave"} : Continues(p, To(p, pc))
  BY <1>1, <1>2, ToContinues DEF Continues
<1>4. PICK f, bytes, removed :
        LET rest == [proc[p] EXCEPT !.removed = removed]
        IN  \/ Refuse(p, To(p, "undo")) \/ Refuse(p, rest)
            \/ create_private_file(p, f, bytes, rest, To(p, "leave"))
  BY DEF Recreate
<1>5. Continues(p, [proc[p] EXCEPT !.removed = removed]) /\ Continues(p, To(p, "undo"))
  BY <1>1, <1>2, <1>3 DEF Continues, Fields, Began
<1>. QED
  BY <1>1, <1>3, <1>4, <1>5, CreatesFile, Refuses

LEMMA UndoCheckStops ==
  ASSUME OwnerInv, NEW p \in Procs, UndoCheck(p)
  PROVE  OwnerInv' /\ Stops
<1>1. proc[p].pc = "undo" /\ proc[p].pc \in Began /\ lock' = lock
  BY DEF UndoCheck, At, Held, Began
<1>2. DOMAIN proc[p] = Fields
  BY <1>1, Owner
<1>3. /\ Continues(p, Failing(p)) /\ Continues(p, proc[p])
      /\ \A pc \in Began \cup {"leave"} : Continues(p, To(p, pc))
  BY <1>1, <1>2, ToContinues DEF Continues
<1>4. Refuse(p, To(p, "unwrite")) \/ Refuse(p, To(p, "leave"))
  BY DEF UndoCheck
<1>5. Continues(p, To(p, "unwrite"))
  BY <1>3 DEF Began
<1>. QED
  BY <1>1, <1>3, <1>4, <1>5, Refuses

LEMMA UndoWriteStops ==
  ASSUME OwnerInv, NEW p \in Procs, UndoWrite(p)
  PROVE  OwnerInv' /\ Stops
<1>1. proc[p].pc = "unwrite" /\ proc[p].pc \in Began /\ lock' = lock
  BY DEF UndoWrite, At, Held, Began
<1>2. DOMAIN proc[p] = Fields
  BY <1>1, Owner
<1>3. /\ Continues(p, Failing(p)) /\ Continues(p, proc[p])
      /\ \A pc \in Began \cup {"leave"} : Continues(p, To(p, pc))
  BY <1>1, <1>2, ToContinues DEF Continues
<1>4. Refuse(p, To(p, "unrename")) \/ Refuse(p, To(p, "leave"))
  BY DEF UndoWrite
<1>5. Continues(p, To(p, "unrename"))
  BY <1>3 DEF Began
<1>. QED
  BY <1>1, <1>3, <1>4, <1>5, Refuses

LEMMA UndoRenameStops ==
  ASSUME OwnerInv, NEW p \in Procs, UndoRename(p)
  PROVE  OwnerInv' /\ Stops
<1>1. proc[p].pc = "unrename" /\ proc[p].pc \in Began /\ lock' = lock
  BY DEF UndoRename, At, Held, Began
<1>2. DOMAIN proc[p] = Fields
  BY <1>1, Owner
<1>3. /\ Continues(p, Failing(p)) /\ Continues(p, proc[p])
      /\ \A pc \in Began \cup {"leave"} : Continues(p, To(p, pc))
  BY <1>1, <1>2, ToContinues DEF Continues
<1>4. PICK c, bytes : atomic_write(p, c, bytes, To(p, "unread"), To(p, "leave"))
  BY DEF UndoRename
<1>5. Continues(p, To(p, "unread"))
  BY <1>3 DEF Began
<1>. QED
  BY <1>1, <1>3, <1>4, <1>5, WritesConfig

LEMMA UndoReadStops ==
  ASSUME OwnerInv, NEW p \in Procs, UndoRead(p)
  PROVE  OwnerInv' /\ Stops
<1>1. proc[p].pc = "unread" /\ proc[p].pc \in Began /\ lock' = lock
  BY DEF UndoRead, At, Held, Began
<1>2. DOMAIN proc[p] = Fields
  BY <1>1, Owner
<1>3. /\ Continues(p, Failing(p)) /\ Continues(p, proc[p])
      /\ \A pc \in Began \cup {"leave"} : Continues(p, To(p, pc))
  BY <1>1, <1>2, ToContinues DEF Continues
<1>4. PICK n, view : \/ Refuse(p, [proc[p] EXCEPT !.pc = "undo", !.applied = n, !.view = view])
                     \/ Refuse(p, To(p, "leave"))
  BY DEF UndoRead
<1>5. Continues(p, [proc[p] EXCEPT !.pc = "undo", !.applied = n, !.view = view])
  BY <1>2 DEF Continues, Fields, Began
<1>. QED
  BY <1>1, <1>3, <1>4, <1>5, Refuses

LEMMA remove_new_backupsStops ==
  ASSUME OwnerInv, NEW p \in Procs, remove_new_backups(p)
  PROVE  OwnerInv' /\ Stops
<1>1. proc[p].pc = "undo" /\ proc[p].pc \in Began /\ lock' = lock
  BY DEF remove_new_backups, At, Held, Began
<1>2. DOMAIN proc[p] = Fields
  BY <1>1, Owner
<1>3. /\ Continues(p, Failing(p)) /\ Continues(p, proc[p])
      /\ \A pc \in Began \cup {"leave"} : Continues(p, To(p, pc))
  BY <1>1, <1>2, ToContinues DEF Continues
<1>4. PICK f, baks : \/ remove_bound(p, f, [proc[p] EXCEPT !.baks = baks], To(p, "leave"))
                     \/ Refuse(p, To(p, "leave"))
  BY DEF remove_new_backups
<1>5. Continues(p, [proc[p] EXCEPT !.baks = baks])
  BY <1>1, <1>2 DEF Continues, Fields
<1>. QED
  BY <1>1, <1>3, <1>4, <1>5, RemovesFile, Refuses

LEMMA restore_prior_stateStops ==
  ASSUME OwnerInv, NEW p \in Procs, restore_prior_state(p)
  PROVE  OwnerInv' /\ Stops
<1>1. proc[p].pc = "undo" /\ proc[p].pc \in Began /\ lock' = lock
  BY DEF restore_prior_state, At, Held, Began
<1>2. DOMAIN proc[p] = Fields
  BY <1>1, Owner
<1>3. /\ Continues(p, Failing(p)) /\ Continues(p, proc[p])
      /\ \A pc \in Began \cup {"leave"} : Continues(p, To(p, pc))
  BY <1>1, <1>2, ToContinues DEF Continues
<1>4. PICK es : Settle(p, es, To(p, "leave"), To(p, "leave")) \/ Refuse(p, To(p, "leave"))
  BY DEF restore_prior_state
<1>. QED
  BY <1>1, <1>3, <1>4, Settles, Refuses

LEMMA RestoreRevertedStops ==
  ASSUME OwnerInv, NEW p \in Procs, RestoreReverted(p)
  PROVE  OwnerInv' /\ Stops
<1>1. proc[p].pc = "undo" /\ proc[p].pc \in Began /\ lock' = lock
  BY DEF RestoreReverted, At, Held, Began
<1>2. DOMAIN proc[p] = Fields
  BY <1>1, Owner
<1>3. /\ Continues(p, Failing(p)) /\ Continues(p, proc[p])
      /\ \A pc \in Began \cup {"leave"} : Continues(p, To(p, pc))
  BY <1>1, <1>2, ToContinues DEF Continues
<1>4. PICK es : \/ write_state(p, es, None, To(p, "leave"), To(p, "leave"))
                \/ Refuse(p, To(p, "leave"))
  BY DEF RestoreReverted
<1>. QED
  BY <1>1, <1>3, <1>4, WritesState, Refuses
-----------------------------------------------------------------------------
(* Commands up to the first publication. *)
LEMMA PreflightStops ==
  ASSUME OwnerInv, NEW p \in Procs, Preflight(p)
  PROVE  OwnerInv' /\ Stops
<1>1. "pc" \in DOMAIN proc[p]
  BY DEF OwnerInv, ProcOk
<1>2. Goto(p, [proc[p] EXCEPT !.pc = "lock"]) \/ Goto(p, Idle)
  BY DEF Preflight
<1>3. UNCHANGED <<files, lock>>
  BY DEF Preflight
<1>4. "pc" \in DOMAIN Idle /\ Idle.pc = "idle"
  BY DEF Idle
<1>5. LET r == [proc[p] EXCEPT !.pc = "lock"] IN "pc" \in DOMAIN r /\ r.pc = "lock"
  BY <1>1
<1>. QED
  BY <1>2, <1>3, <1>4, <1>5, BeforeLock

LEMMA UseStartStops ==
  ASSUME OwnerInv, NEW p \in Procs, NEW sel, NEW spec, NEW no_preflight,
         UseStart(p, sel, spec, no_preflight)
  PROVE  OwnerInv' /\ Stops
<1>. DEFINE ask == [pc |-> "lock", cmd |-> "use", sel |-> sel, spec |-> spec, pre |-> None]
            early == [ask EXCEPT !.pc = "preflight", !.pre = Preflights(sel, spec)]
<1>1. Goto(p, ask) \/ Goto(p, early) \/ Goto(p, Idle)
  BY DEF UseStart
<1>2. UNCHANGED <<files, lock>>
  BY DEF UseStart
<1>3. "pc" \in DOMAIN Idle /\ Idle.pc = "idle"
  BY DEF Idle
<1>4. "pc" \in DOMAIN ask /\ ask.pc = "lock" /\ "pc" \in DOMAIN early /\ early.pc = "preflight"
  OBVIOUS
<1>. HIDE DEF ask, early
<1>. QED
  BY <1>1, <1>2, <1>3, <1>4, BeforeLock

LEMMA RevertStartStops ==
  ASSUME OwnerInv, NEW p \in Procs, NEW sel, RevertStart(p, sel)
  PROVE  OwnerInv' /\ Stops
<1>. DEFINE ask == [pc |-> "lock", cmd |-> "revert", sel |-> sel]
<1>1. Goto(p, ask) \/ Goto(p, Idle)
  BY DEF RevertStart
<1>2. UNCHANGED <<files, lock>>
  BY DEF RevertStart
<1>3. "pc" \in DOMAIN Idle /\ Idle.pc = "idle" /\ "pc" \in DOMAIN ask /\ ask.pc = "lock"
  BY DEF Idle
<1>. HIDE DEF ask
<1>. QED
  BY <1>1, <1>2, <1>3, BeforeLock

(* Whoever takes the lock finds nobody transacting. *)
LEMMA AcquireLockStops ==
  ASSUME OwnerInv, NEW p \in Procs, AcquireLock(p)
  PROVE  OwnerInv' /\ Stops
<1>1. state' = state /\ backups' = backups /\ lock = None /\ lock' = p
  BY DEF AcquireLock, files
<1>2. /\ DOMAIN proc' = Procs /\ \A q \in Procs : q # p => proc'[q] = proc[q]
      /\ "pc" \in DOMAIN proc'[p] /\ proc'[p].pc = "plan"
  BY DEF AcquireLock, Goto, OwnerInv, ProcOk
<1>3. ASSUME NEW q \in Procs PROVE ProcOk(q)'
  <2>1. CASE q = p
    BY <1>1, <1>2, <2>1 DEF ProcOk, Transacting, Began
  <2>2. CASE q # p
    <3>1. ProcOk(q) /\ proc'[q] = proc[q] /\ lock # q
      BY <1>1, <1>2, <2>2, NobodyAssumption DEF OwnerInv
    <3>. QED
      BY <3>1 DEF ProcOk, Transacting, Began
  <2>. QED
    BY <2>1, <2>2
<1>. QED
  BY <1>1, <1>2, <1>3 DEF OwnerInv, Stops

(* A plan is made only where no transaction is recorded. *)
LEMMA Plans ==
  ASSUME OwnerInv, NEW p \in Procs, proc[p].pc = "plan", NEW r, Goto(p, r),
         authenticate_recovery, DOMAIN r = Fields, r.pc = "begin", r.snap = state,
         UNCHANGED <<files, lock>>
  PROVE  OwnerInv' /\ Stops
<1>1. state' = state /\ backups' = backups /\ lock' = lock
  BY DEF files
<1>2. lock = p
  BY DEF OwnerInv, ProcOk
<1>3. NoTransaction(r.snap)
  BY DEF authenticate_recovery
<1>4. r.pc \in Transacting /\ r.pc \notin Began
  BY DEF Transacting, Began
<1>. QED
  BY <1>1, <1>2, <1>3, <1>4, Moves DEF Stops

LEMMA PlanShape ==
  ASSUME NEW kind, NEW w
  PROVE  LET r == Plan(kind, w) IN DOMAIN r = Fields /\ r.pc = "begin" /\ r.snap = state
BY DEF Plan, Fields

LEMMA PlanUseStops ==
  ASSUME OwnerInv, NEW p \in Procs, PlanUse(p)
  PROVE  OwnerInv' /\ Stops
<1>1. CASE Leave(p)
  BY <1>1, Leaves DEF PlanUse
<1>2. CASE ~Leave(p)
  <2>1. PICK w : Goto(p, Plan("apply", w))
    BY <1>2, Zenon DEF PlanUse, prepare_apply
  <2>2. authenticate_recovery /\ UNCHANGED <<files, lock>> /\ proc[p].pc = "plan"
    BY <1>2 DEF PlanUse, CanApply
  <2>. QED
    BY <2>1, <2>2, PlanShape, Plans
<1>. QED
  BY <1>1, <1>2

LEMMA PlanRevertStops ==
  ASSUME OwnerInv, NEW p \in Procs, PlanRevert(p)
  PROVE  OwnerInv' /\ Stops
<1>1. CASE Leave(p)
  BY <1>1, Leaves DEF PlanRevert
<1>2. CASE ~Leave(p)
  <2>1. PICK w : Goto(p, Plan("revert", w))
    BY <1>2, Zenon DEF PlanRevert, prepare_revert
  <2>2. authenticate_recovery /\ UNCHANGED <<files, lock>> /\ proc[p].pc = "plan"
    BY <1>2 DEF PlanRevert, CanRevert
  <2>. QED
    BY <2>1, <2>2, PlanShape, Plans
<1>. QED
  BY <1>1, <1>2

(* Everybody else. *)
LEMMA EditStops ==
  ASSUME OwnerInv, NEW c, NEW in_place, NEW entry, Edit(c, in_place, entry)
  PROVE  OwnerInv' /\ Stops
<1>1. UNCHANGED <<backups, state, lock, proc>>
  BY DEF Edit
<1>. QED
  BY <1>1 DEF OwnerInv, ProcOk, Pending, Stops, NoTransaction

LEMMA NextStops ==
  ASSUME OwnerInv, Next
  PROVE  OwnerInv' /\ Stops
<1>1. ASSUME NEW p \in Procs, Command(p) PROVE OwnerInv' /\ Stops
  BY <1>1, RevertStartStops, UseStartStops, PreflightStops, AcquireLockStops, PlanUseStops,
     PlanRevertStops DEF Command
<1>2. ASSUME NEW p \in Procs, Transact(p) PROVE OwnerInv' /\ Stops
  <2>1. CASE Exit(p)
    BY <2>1, Leaves DEF Exit
  <2>2. CASE \/ Begin(p) \/ Backup(p) \/ Bind(p) \/ CheckConfig(p) \/ WriteConfig(p)
             \/ RenameConfig(p) \/ ReadConfig(p) \/ FinishApply(p) \/ RemoveBackup(p)
             \/ FinishRevert(p)
    BY <2>2, Begins, BackupStops, BindStops, CheckConfigStops, WriteConfigStops,
       RenameConfigStops, ReadConfigStops, FinishApplyStops, RemoveBackupStops,
       FinishRevertStops
  <2>3. CASE \/ Recreate(p) \/ UndoCheck(p) \/ UndoWrite(p) \/ UndoRename(p)
             \/ UndoRead(p) \/ remove_new_backups(p) \/ restore_prior_state(p)
             \/ RestoreReverted(p)
    BY <2>3, RecreateStops, UndoCheckStops, UndoWriteStops, UndoRenameStops, UndoReadStops,
       remove_new_backupsStops, restore_prior_stateStops, RestoreRevertedStops
  <2>. QED
    BY <1>2, <2>1, <2>2, <2>3 DEF Transact
<1>3. ASSUME NEW p \in Procs, Crash(p) PROVE OwnerInv' /\ Stops
  BY <1>3, Leaves DEF Crash
<1>. QED
  BY <1>1, <1>2, <1>3, EditStops DEF Next

(* While a transaction is recorded as pending, only the process that began *)
(* it touches the record and the backups (use and revert of the mcp-swap   *)
(* command and their rollback), for any processes, clients and servers and *)
(* however many commands, edits, faults and crashes there are.             *)
THEOREM InterruptedAlwaysStops == Spec => InterruptedStops
<1>1. OwnerInv /\ UNCHANGED vars => OwnerInv'
  BY DEF OwnerInv, ProcOk, Pending, NoTransaction, vars
<1>2. OwnerInv /\ [Next]_vars =>
        /\ OwnerInv'
        /\ [state.txn # None =>
              \/ state' = state /\ backups' = backups
              \/ lock # None /\ proc[lock].txn = state.txn]_vars
  BY <1>1, NextStops DEF Stops, Pending
<1>. QED
  BY <1>2, Starts, PTL DEF Spec, InterruptedStops
====
