--------------------------- MODULE SwapTransaction ---------------------------
(***************************************************************************)
(* mcp-swap (src/tools/mcp) points the MCP clients of a machine at one     *)
(* server binary and later puts their configuration files back.  A command *)
(* plans without the lock, takes the lock, plans again and then publishes  *)
(* file by file: a pending record in the state file, a private backup of   *)
(* every configuration, the configurations, the final record.  Here every  *)
(* publication is a step, and between any two of them another process may  *)
(* plan, somebody may edit a configuration, a system call may fail and the *)
(* process may die.                                                        *)
(*                                                                         *)
(* A file is its bytes and its identity (inode, mode, route and parent are *)
(* one number): the code compares the two and nothing else.  The bytes of  *)
(* a configuration are what the properties tell apart: which outside edit  *)
(* they go back to, the server each recovery key points at, and the part   *)
(* of the server entry that a swap inherits (its environment).  SHA-256    *)
(* digests stand for the bytes they digest.                                *)
(***************************************************************************)
EXTENDS Integers, Sequences, FiniteSets, Functions

CONSTANTS
  Procs,        \* processes running the tool
  KeyOrder,     \* recovery keys, in the order of known_clients
  ConfigOf,     \* the configuration a key's client and scope write to
  Specs,        \* the servers a configuration can be pointed at
  None,         \* no transaction, no lock holder
  MaxCommands, MaxEdits, MaxFaults, MaxCrashes,   \* bounds, each on its own
  MaxEvents,    \* and on commands, edits, faults and crashes together
  LateFaults    \* the operations whose directory sync may fail after the effect

ASSUME NobodyAssumption == None \notin Procs
ASSUME KeysAssumption == IsFiniteSet(Range(KeyOrder))

VARIABLES
  config,    \* config[c]: the file [bytes, id]
  backups,   \* the backup files that exist: path -> [bytes, id]
  state,     \* the state file: [entries, txn, id]
  lock,      \* who holds swap/state.lock
  proc,      \* what each process is doing
  inode,     \* the next unused identity
  used,      \* how much of each bound is used up
  last,      \* last[c]: the number of the last outside edit of c
  raced,     \* configurations changed after the last look at what was changed
  owed       \* <<c, bytes>>: user bytes the tool took out of c and has not put back

vars == <<config, backups, state, lock, proc, inode, used, last, raced, owed>>
files == <<config, backups, state, inode, owed>>

Keys == Range(KeyOrder)
Configs == {ConfigOf[k] : k \in Keys}
Idle == [pc |-> "idle"]
Empty == <<>>

\* The function g with f laid over it.
Over(f, g) == [x \in DOMAIN f \cup DOMAIN g |-> IF x \in DOMAIN f THEN f[x] ELSE g[x]]

-----------------------------------------------------------------------------
(* The recovery state *)

\* There is no state file.
NoState == [entries |-> Empty, txn |-> None, id |-> 0]

Layers(es, c) == {k \in DOMAIN es : ConfigOf[k] = c}

Above(es, k) == {j \in Layers(es, ConfigOf[k]) : es[j].sequence > es[k].sequence}

\* The newest layer of a configuration, which has one if it has any.
Newest(es, c) == {k \in Layers(es, c) : Above(es, k) = {}}

next_sequence(es) ==
  CHOOSE n \in 0 .. Cardinality(DOMAIN es) + MaxCommands * Len(KeyOrder) :
     /\ \A k \in DOMAIN es : es[k].sequence < n
     /\ n = 0 \/ \E k \in DOMAIN es : es[k].sequence = n - 1

MutNoTransaction(s) == TRUE

NoTransaction(s) == s.txn = None

\* A backup must be the one recorded, a configuration must be what its newest
\* layer wrote, and the backup of a layer must be what the layer below wrote.
authenticate_recovery ==
  LET es == state.entries IN
  /\ NoTransaction(state)
  /\ \A k \in DOMAIN es :
       /\ es[k].path \in DOMAIN backups
       /\ backups[es[k].path] = [bytes |-> es[k].original, id |-> es[k].bakid]
  /\ \A c \in Configs : Layers(es, c) # {} =>
       \E k \in Newest(es, c) : config[c] = [bytes |-> es[k].expected, id |-> es[k].cfgid]
  /\ \A j \in DOMAIN es : \A k \in Above(es, j) :
       Above(es, j) \ Above(es, k) = {k} => es[k].original = es[j].expected

-----------------------------------------------------------------------------
(* Planning *)

points_at(bytes, k, spec) == bytes.srv[k] = spec

\* render_server keeps the rest of the file and the environment of the entry.
render_server(bytes, k, spec) == [bytes EXCEPT !.srv[k] = spec]

\* What the client would launch, which is what the preflight starts.
effective(bytes, spec) == <<spec, bytes.env>>

next_backup_path(k) ==
  CHOOSE f \in {<<k, n>> : n \in 0 .. MaxCommands * 2} :
     /\ f \notin DOMAIN backups
     /\ \A n \in 0 .. f[2] - 1 : <<k, n>> \in DOMAIN backups

Changed(sel, spec) == {k \in sel \cap Keys : ~points_at(config[ConfigOf[k]].bytes, k, spec)}

Preflights(sel, spec) == [k \in sel |-> effective(config[ConfigOf[k]].bytes, spec)]

\* A repeated swap must be of the newest layer; it keeps that layer's backup.
CanApply(sel, spec) ==
  /\ authenticate_recovery
  /\ LET es == state.entries IN
       \A k \in Changed(sel, spec) \cap DOMAIN es : k \in Newest(es, ConfigOf[k])

ApplyItem(k, spec) ==
  LET es == state.entries
      bytes == config[ConfigOf[k]].bytes
  IN [key |-> k, c |-> ConfigOf[k], from |-> bytes, to |-> render_server(bytes, k, spec),
      prior |-> k \in DOMAIN es,
      path |-> IF k \in DOMAIN es THEN es[k].path ELSE next_backup_path(k)]

\* The keys ks one after the other.
Orders(ks, Precedes(_, _)) ==
  {w \in [1 .. Cardinality(ks) -> ks] : \A i, j \in DOMAIN w : i < j => Precedes(w[i], w[j])}

Known(a, b) == \E i, j \in DOMAIN KeyOrder : i < j /\ KeyOrder[i] = a /\ KeyOrder[j] = b

\* The plan remembers every file it has looked at: the configurations (those of
\* the clients it will not touch included), the recorded backups, the state.
Plan(kind, work) ==
  [pc |-> "begin", kind |-> kind, applied |-> 0, txn |-> None, snap |-> state,
   view |-> config, removed |-> <<>>, work |-> work,
   baks |-> [f \in {state.entries[k].path : k \in DOMAIN state.entries} |-> backups[f]]]

prepare_apply(sel, spec) ==
  {Plan("apply", [i \in DOMAIN w |-> ApplyItem(w[i], spec)]) :
     w \in Orders(Changed(sel, spec), Known)}

Chosen(sel) == sel \cap DOMAIN state.entries

\* Only the newest layers of a configuration can be taken off.
CanRevert(sel) ==
  /\ authenticate_recovery
  /\ \A k \in Chosen(sel) : Above(state.entries, k) \subseteq sel

\* The layers k and those above it are taken off, and what k replaced comes back.
RevertTarget(k) ==
  LET es == state.entries
      c == ConfigOf[k]
  IN [c |-> c, from |-> config[c].bytes, to |-> es[k].original, layers |-> {k} \cup Above(es, k)]

\* The oldest of the chosen layers of every configuration.
Oldest(sel) == {k \in Chosen(sel) : \A j \in Chosen(sel) : k \notin Above(state.entries, j)}

LaterLayer(a, b) ==
  LET es == state.entries IN
  \E j \in Newest(es, ConfigOf[a]), k \in Newest(es, ConfigOf[b]) :
     es[j].sequence > es[k].sequence

prepare_revert(sel) ==
  {Plan("revert", [i \in DOMAIN w |-> RevertTarget(w[i])]) : w \in Orders(Oldest(sel), LaterLayer)}

-----------------------------------------------------------------------------
(* Validation before every publication *)

Targets(r) == {r.work[i].c : i \in DOMAIN r.work}

MutConfigsHold(r, include_protected) ==
  include_protected => \A c \in Configs \ Targets(r) : config[c] = r.view[c]

ConfigsHold(r, include_protected) ==
  \A c \in Configs : (include_protected \/ c \in Targets(r)) => config[c] = r.view[c]

BackupsHold(r) == \A f \in DOMAIN r.baks : f \in DOMAIN backups /\ backups[f] = r.baks[f]

validate_apply_world(r, include_protected, include_missing) ==
  /\ state = r.snap
  /\ ConfigsHold(r, include_protected)
  /\ BackupsHold(r)
  /\ include_missing => \A i \in DOMAIN r.work :
       r.work[i].path \notin DOMAIN r.baks => r.work[i].path \notin DOMAIN backups

validate_revert_world(r) == state = r.snap /\ config = r.view /\ BackupsHold(r)

validate_world(r) == IF r.kind = "apply" THEN validate_apply_world(r, TRUE, TRUE)
                                         ELSE validate_revert_world(r)

\* Rolling a revert back looks at the state, the clients that are not reverted
\* and the configuration about to be written, not at the backups.
validate_undo(r) ==
  IF r.kind = "apply" THEN validate_apply_world(r, TRUE, TRUE)
  ELSE /\ state = r.snap
       /\ \A c \in (Configs \ Targets(r)) \cup {r.work[r.applied].c} : config[c] = r.view[c]

-----------------------------------------------------------------------------
(* System calls that publish *)

Bound == [commands |-> MaxCommands, edits |-> MaxEdits, faults |-> MaxFaults,
          crashes |-> MaxCrashes]

Spend(b) ==
  /\ used[b] < Bound[b]
  /\ used.commands + used.edits + used.faults + used.crashes < MaxEvents
  /\ used' = [used EXCEPT ![b] = @ + 1]

Late(op) == op \in LateFaults /\ Spend("faults")

Goto(p, r) == proc' = [proc EXCEPT ![p] = r]

Leave(p) == Goto(p, Idle) /\ lock' = IF lock = p THEN None ELSE lock

UserBytes(bytes) == \A k \in Keys : bytes.srv[k] = "user"

MutValidateDirectoryEntry(p, c) == TRUE

validate_directory_entry(p, c) == config[c].id = proc[p].view[c].id

\* atomic_write of a configuration, from the rename on: the look at the directory
\* entry comes before it, as a step of its own.  It fails before the rename, or
\* after it when the directory cannot be synced.
atomic_write(p, c, bytes, done, failed) ==
  \/ /\ config' = [config EXCEPT ![c] = [bytes |-> bytes, id |-> inode]]
     /\ inode' = inode + 1
     /\ owed' = (owed \cup {<<c, b>> : b \in {x \in {config[c].bytes} : UserBytes(x)}})
                  \ {<<c, bytes>>}
     /\ \/ Goto(p, done) /\ UNCHANGED used
        \/ Goto(p, failed) /\ Late("config")
     /\ UNCHANGED <<backups, state>>
  \/ Spend("faults") /\ Goto(p, failed) /\ UNCHANGED files

\* write_state: the state file is renamed into place and becomes the snapshot
\* the next validation compares with.
write_state(p, entries, txn, done, failed) ==
  LET new == [entries |-> entries, txn |-> txn, id |-> inode] IN
  \/ /\ state' = new
     /\ inode' = inode + 1
     /\ \/ Goto(p, [done EXCEPT !.snap = new]) /\ UNCHANGED used
        \/ Goto(p, failed) /\ Late("state")
     /\ UNCHANGED <<config, backups, owed>>
  \/ Spend("faults") /\ Goto(p, failed) /\ UNCHANGED files

remove_state(p, done, failed) ==
  \/ /\ state' = NoState
     /\ \/ Goto(p, done) /\ UNCHANGED used
        \/ Goto(p, failed) /\ Late("state")
     /\ UNCHANGED <<config, backups, inode, owed>>
  \/ Spend("faults") /\ Goto(p, failed) /\ UNCHANGED files

\* write_state or, when no layer is left, remove_state.
Settle(p, entries, done, failed) ==
  IF entries = Empty THEN remove_state(p, done, failed)
                     ELSE write_state(p, entries, None, done, failed)

\* create_private_file unlinks what is at the path when it fails, whoever put it
\* there, except when only the look at the finished file fails.  The caller keeps
\* what it created.
create_private_file(p, f, bytes, done, failed) ==
  LET new == [bytes |-> bytes, id |-> inode] IN
  \/ /\ backups' = Over([x \in {f} |-> new], backups)
     /\ inode' = inode + 1
     /\ \/ Goto(p, [done EXCEPT !.baks = Over([x \in {f} |-> new], @)]) /\ UNCHANGED used
        \/ Goto(p, failed) /\ Late("create")
     /\ UNCHANGED <<config, state, owed>>
  \/ /\ Spend("faults") /\ Goto(p, failed)
     /\ backups' = Restrict(backups, DOMAIN backups \ {f})
     /\ UNCHANGED <<config, state, inode, owed>>

remove_bound(p, f, done, failed) ==
  \/ /\ backups' = Restrict(backups, DOMAIN backups \ {f})
     /\ \/ Goto(p, done) /\ UNCHANGED used
        \/ Goto(p, failed) /\ Late("remove")
     /\ UNCHANGED <<config, state, inode, owed>>
  \/ Spend("faults") /\ Goto(p, failed) /\ UNCHANGED files

Refuse(p, failed) == Goto(p, failed) /\ UNCHANGED <<files, used>>

-----------------------------------------------------------------------------
(* Commands up to the first publication *)

outside == <<last, raced>>

\* command_use: with the preflight, the plan is made once without the lock.
UseStart(p, sel, spec, no_preflight) ==
  /\ proc[p] = Idle /\ Spend("commands")
  /\ \A k, j \in sel : ConfigOf[k] = ConfigOf[j] => k = j
  /\ LET ask == [pc |-> "lock", cmd |-> "use", sel |-> sel, spec |-> spec, pre |-> None] IN
       IF no_preflight THEN Goto(p, ask)
       ELSE IF CanApply(sel, spec)
            THEN Goto(p, [ask EXCEPT !.pc = "preflight", !.pre = Preflights(sel, spec)])
            ELSE Goto(p, Idle)
  /\ UNCHANGED <<files, lock, outside>>

\* Every planned server is started and must answer; one failure ends the command.
Preflight(p) ==
  /\ proc[p].pc = "preflight"
  /\ Goto(p, [proc[p] EXCEPT !.pc = "lock"]) \/ Goto(p, Idle)
  /\ UNCHANGED <<files, lock, used, outside>>

RevertStart(p, sel) ==
  /\ proc[p] = Idle /\ Spend("commands")
  /\ IF CanRevert(sel) THEN Goto(p, [pc |-> "lock", cmd |-> "revert", sel |-> sel])
                       ELSE Goto(p, Idle)
  /\ UNCHANGED <<files, lock, outside>>

AcquireLock(p) ==
  /\ proc[p].pc = "lock" /\ lock = None
  /\ lock' = p
  /\ Goto(p, [proc[p] EXCEPT !.pc = "plan"])
  /\ UNCHANGED <<files, used, outside>>

\* The plan under the lock is the one that counts; it must ask for the servers
\* that were preflighted, and a plan without changes ends the command.
PlanUse(p) ==
  LET r == proc[p] IN
  /\ r.pc = "plan" /\ r.cmd = "use"
  /\ IF /\ CanApply(r.sel, r.spec)
        /\ r.pre # None => r.pre = Preflights(r.sel, r.spec)
        /\ Changed(r.sel, r.spec) # {}
     THEN (\E plan \in prepare_apply(r.sel, r.spec) : Goto(p, plan)) /\ UNCHANGED lock
     ELSE Leave(p)
  /\ UNCHANGED <<files, used, outside>>

PlanRevert(p) ==
  LET r == proc[p] IN
  /\ r.pc = "plan" /\ r.cmd = "revert"
  /\ IF CanRevert(r.sel) /\ Chosen(r.sel) # {}
     THEN (\E plan \in prepare_revert(r.sel) : Goto(p, plan)) /\ UNCHANGED lock
     ELSE Leave(p)
  /\ UNCHANGED <<files, used, outside>>

-----------------------------------------------------------------------------
(* apply_plan and apply_revert *)

At(p, pc) == proc[p].pc = pc
To(p, pc) == [proc[p] EXCEPT !.pc = pc]
Failing(p) == To(p, IF proc[p].kind = "apply" THEN "undo" ELSE "recreate")
Held == UNCHANGED <<lock, outside>>

\* The pending record, under a fresh transaction id (the identity of the file
\* serves), is written before the try block: its failure undoes nothing.
Begin(p) ==
  /\ At(p, "begin")
  /\ IF validate_world(proc[p])
     THEN write_state(p, state.entries, inode,
                      [proc[p] EXCEPT !.pc = IF proc[p].kind = "apply" THEN "backup" ELSE "check",
                                      !.txn = inode],
                      To(p, "leave"))
     ELSE Refuse(p, To(p, "leave"))
  /\ Held

Unsaved(r) == {i \in DOMAIN r.work : r.work[i].path \notin DOMAIN r.baks}

Saving(r) == CHOOSE i \in Unsaved(r) : \A j \in Unsaved(r) : i <= j

Backup(p) ==
  LET r == proc[p]  item == r.work[Saving(r)] IN
  /\ At(p, "backup") /\ Unsaved(r) # {}
  /\ IF validate_world(r)
     THEN create_private_file(p, item.path, item.from, r, Failing(p))
     ELSE Refuse(p, Failing(p))
  /\ Held

\* The pending record is written again, now with the identities of the backups.
Bind(p) ==
  /\ At(p, "backup") /\ Unsaved(proc[p]) = {}
  /\ IF validate_world(proc[p])
     THEN write_state(p, state.entries, proc[p].txn, To(p, "check"), Failing(p))
     ELSE Refuse(p, Failing(p))
  /\ Held

Current(r) == r.work[r.applied + 1]

CheckConfig(p) ==
  /\ At(p, "check") /\ proc[p].applied < Len(proc[p].work)
  /\ Refuse(p, IF validate_world(proc[p]) THEN To(p, "write") ELSE Failing(p))
  /\ Held

WriteConfig(p) ==
  /\ At(p, "write")
  /\ Refuse(p, IF validate_directory_entry(p, Current(proc[p]).c) THEN To(p, "rename")
                                                                ELSE Failing(p))
  /\ Held

RenameConfig(p) ==
  /\ At(p, "rename")
  /\ atomic_write(p, Current(proc[p]).c, Current(proc[p]).to, To(p, "read"), Failing(p))
  /\ Held

\* The file is read back; only then does it count as applied.
ReadConfig(p) ==
  LET r == proc[p]  c == Current(r).c IN
  /\ At(p, "read")
  /\ Refuse(p, IF config[c].bytes = Current(r).to
               THEN [r EXCEPT !.pc = "check", !.applied = @ + 1, !.view[c] = config[c]]
               ELSE Failing(p))
  /\ Held

\* A key swapped before keeps the record of its first backup.
Entry(r, i) ==
  LET item == r.work[i]
      old == r.snap.entries
      fresh == Cardinality({j \in 1 .. i - 1 : ~r.work[j].prior})
      base == IF item.prior THEN old[item.key]
              ELSE [sequence |-> next_sequence(old) + fresh, path |-> item.path,
                    original |-> item.from]
  IN Over([expected |-> item.to, cfgid |-> r.view[item.c].id, bakid |-> r.baks[item.path].id],
           base)

FinishApply(p) ==
  LET r == proc[p]
      new == [k \in {r.work[i].key : i \in DOMAIN r.work} |->
                Entry(r, CHOOSE i \in DOMAIN r.work : r.work[i].key = k)]
  IN
  /\ At(p, "check") /\ r.kind = "apply" /\ r.applied = Len(r.work)
  /\ IF validate_world(r)
     THEN write_state(p, Over(new, state.entries), None, To(p, "leave"), Failing(p))
     ELSE Refuse(p, Failing(p))
  /\ Held

\* The layers of target i still to remove.
Remaining(r, i) == r.work[i].layers \ Range(r.removed)

\* The next layer: target by target, newest first.
NextLayer(r) ==
  CHOOSE k \in Keys : \E i \in DOMAIN r.work :
     /\ \A j \in DOMAIN r.work : j < i => Remaining(r, j) = {}
     /\ k \in Remaining(r, i) /\ Above(r.snap.entries, k) \cap Remaining(r, i) = {}

AllRemoved(r) == \A i \in DOMAIN r.work : Remaining(r, i) = {}

RemoveBackup(p) ==
  LET r == proc[p]
      k == NextLayer(r)
      f == r.snap.entries[k].path
  IN
  /\ At(p, "check") /\ r.kind = "revert" /\ r.applied = Len(r.work) /\ ~AllRemoved(r)
  /\ IF validate_world(r)
     THEN remove_bound(p, f, [r EXCEPT !.removed = Append(@, k),
                                       !.baks = Restrict(@, DOMAIN @ \ {f})], Failing(p))
     ELSE Refuse(p, Failing(p))
  /\ Held

\* What is left: the newest remaining layer takes the restored file's identity.
Rebound(r, es) ==
  [k \in DOMAIN es |-> IF ConfigOf[k] \in Targets(r) /\ k \in Newest(es, ConfigOf[k])
                       THEN [es[k] EXCEPT !.cfgid = r.view[ConfigOf[k]].id] ELSE es[k]]

FinishRevert(p) ==
  LET r == proc[p]
      old == r.snap.entries
      es == Rebound(r, Restrict(old, DOMAIN old \ Range(r.removed)))
  IN
  /\ At(p, "check") /\ r.kind = "revert" /\ r.applied = Len(r.work) /\ AllRemoved(r)
  /\ IF validate_world(r) THEN Settle(p, es, To(p, "leave"), Failing(p))
                          ELSE Refuse(p, Failing(p))
  /\ Held

-----------------------------------------------------------------------------
(* Rollback *)

\* A failed revert first puts back the backups it removed.
Recreate(p) ==
  LET r == proc[p]
      f == r.snap.entries[Head(r.removed)].path
      rest == [r EXCEPT !.removed = Tail(@)]
  IN
  /\ At(p, "recreate")
  /\ IF r.removed = <<>> THEN Refuse(p, To(p, "undo"))
     ELSE IF f \in DOMAIN backups THEN Refuse(p, rest)
     ELSE create_private_file(p, f, r.snap.entries[Head(r.removed)].original, rest, To(p, "leave"))
  /\ Held

UndoCheck(p) ==
  /\ At(p, "undo") /\ proc[p].applied > 0
  /\ Refuse(p, To(p, IF validate_undo(proc[p]) THEN "unwrite" ELSE "leave"))
  /\ Held

Undone(r) == r.work[r.applied]

UndoWrite(p) ==
  /\ At(p, "unwrite")
  /\ Refuse(p, To(p, IF validate_directory_entry(p, Undone(proc[p]).c) THEN "unrename"
                                                                     ELSE "leave"))
  /\ Held

UndoRename(p) ==
  LET done == Undone(proc[p]) IN
  /\ At(p, "unrename")
  /\ atomic_write(p, done.c, done.from, To(p, "unread"), To(p, "leave"))
  /\ Held

UndoRead(p) ==
  LET r == proc[p]  done == Undone(r) IN
  /\ At(p, "unread")
  /\ Refuse(p, IF config[done.c].bytes = done.from
               THEN [r EXCEPT !.pc = "undo", !.applied = @ - 1, !.view[done.c] = config[done.c]]
               ELSE To(p, "leave"))
  /\ Held

\* The backups made by this command, last one first.
Made(r) == {i \in DOMAIN r.work : ~r.work[i].prior /\ r.work[i].path \in DOMAIN r.baks}

remove_new_backups(p) ==
  LET r == proc[p]
      f == r.work[CHOOSE i \in Made(r) : \A j \in Made(r) : j <= i].path
  IN
  /\ At(p, "undo") /\ r.kind = "apply" /\ r.applied = 0 /\ Made(r) # {}
  /\ IF validate_apply_world(r, FALSE, FALSE)
     THEN remove_bound(p, f, [r EXCEPT !.baks = Restrict(@, DOMAIN @ \ {f})], To(p, "leave"))
     ELSE Refuse(p, To(p, "leave"))
  /\ Held

\* The record from before the command, with the identities of the files it put back.
restore_prior_state(p) ==
  LET r == proc[p]
      es == r.snap.entries
      touched == {r.work[i].key : i \in {j \in DOMAIN r.work : r.work[j].prior}}
      prior == [k \in DOMAIN es |-> IF k \in touched
                   THEN [es[k] EXCEPT !.cfgid = r.view[ConfigOf[k]].id] ELSE es[k]]
  IN
  /\ At(p, "undo") /\ r.kind = "apply" /\ r.applied = 0 /\ Made(r) = {}
  /\ IF validate_apply_world(r, FALSE, FALSE)
     THEN Settle(p, prior, To(p, "leave"), To(p, "leave"))
     ELSE Refuse(p, To(p, "leave"))
  /\ Held

RestoreReverted(p) ==
  LET r == proc[p]
      es == r.snap.entries
      old == [k \in DOMAIN es |-> [es[k] EXCEPT !.bakid = r.baks[es[k].path].id]]
  IN
  /\ At(p, "undo") /\ r.kind = "revert" /\ r.applied = 0
  /\ IF validate_revert_world(r) /\ \A k \in DOMAIN es : es[k].path \in DOMAIN r.baks
     THEN write_state(p, Rebound(r, old), None, To(p, "leave"), To(p, "leave"))
     ELSE Refuse(p, To(p, "leave"))
  /\ Held

Exit(p) ==
  /\ At(p, "leave") /\ Leave(p)
  /\ UNCHANGED <<files, used, outside>>

-----------------------------------------------------------------------------
(* Everybody else *)

\* The kernel drops the record lock of a process that dies.
Crash(p) ==
  /\ proc[p] # Idle /\ Spend("crashes")
  /\ Leave(p)
  /\ UNCHANGED <<files, outside>>

\* p has compared the bytes of c for the last time, or its identity as well.
Compared(p, c) == \/ At(p, "write") /\ Current(proc[p]).c = c
                  \/ At(p, "unwrite") /\ Undone(proc[p]).c = c
Renaming(p, c) == \/ At(p, "rename") /\ Current(proc[p]).c = c
                  \/ At(p, "unrename") /\ Undone(proc[p]).c = c

\* The client itself, or its user, rewrites a configuration: a new file, or the
\* same file in place; in the server entry, or anywhere else.
Edit(c, in_place, entry) ==
  /\ Spend("edits")
  /\ last' = [last EXCEPT ![c] = used.edits + 1]
  /\ config' = [config EXCEPT ![c] =
        [bytes |-> [@.bytes EXCEPT !.rev = used.edits + 1,
                                   !.env = IF entry THEN used.edits + 1 ELSE @],
         id |-> IF in_place THEN @.id ELSE inode]]
  /\ inode' = inode + 1
  /\ raced' = IF \E p \in Procs : Renaming(p, c) \/ (in_place /\ Compared(p, c))
              THEN raced \cup {c} ELSE raced
  /\ UNCHANGED <<backups, state, lock, proc, owed>>

-----------------------------------------------------------------------------

FirstBytes == [rev |-> 0, env |-> 0, srv |-> [k \in Keys |-> "user"]]

Init ==
  /\ config = [c \in Configs |-> [bytes |-> FirstBytes, id |-> 0]]
  /\ backups = Empty /\ state = NoState /\ lock = None /\ owed = {} /\ raced = {}
  /\ proc = [p \in Procs |-> Idle]
  /\ inode = 1
  /\ used = [b \in {"commands", "edits", "faults", "crashes"} |-> 0]
  /\ last = [c \in Configs |-> 0]

Command(p) ==
  \/ \E sel \in SUBSET Keys \ {{}} : RevertStart(p, sel)
  \/ \E sel \in SUBSET Keys \ {{}}, spec \in Specs, no_preflight \in BOOLEAN :
       UseStart(p, sel, spec, no_preflight)
  \/ Preflight(p) \/ AcquireLock(p) \/ PlanUse(p) \/ PlanRevert(p)

Transact(p) ==
  \/ Begin(p) \/ Backup(p) \/ Bind(p) \/ CheckConfig(p) \/ WriteConfig(p) \/ RenameConfig(p)
  \/ ReadConfig(p) \/ FinishApply(p) \/ RemoveBackup(p) \/ FinishRevert(p)
  \/ Recreate(p) \/ UndoCheck(p) \/ UndoWrite(p) \/ UndoRename(p) \/ UndoRead(p)
  \/ remove_new_backups(p) \/ restore_prior_state(p) \/ RestoreReverted(p) \/ Exit(p)

Next ==
  \/ \E p \in Procs : Command(p) \/ Transact(p) \/ Crash(p)
  \/ \E c \in Configs, in_place \in BOOLEAN, entry \in BOOLEAN : Edit(c, in_place, entry)

Spec == Init /\ [][Next]_vars

-----------------------------------------------------------------------------
(* Properties *)

Settled == lock = None /\ state.txn = None

\* No rollback, no revert and no second swap overwrites what somebody else wrote
\* to a configuration, at whatever point of the transaction they wrote it, except
\* between the last look at what they changed and the rename: the bytes of the
\* file are compared first, then its identity alone, and neither comparison is
\* one step with renameat.
EditsSurvive == \A c \in Configs \ raced : config[c].bytes.rev = last[c]

\* The bytes a swap replaced are in a backup until they are back in the file,
\* through every failure of a publication, every rollback and every crash (with
\* the same exception).
OriginalKept ==
  \A o \in owed : o[1] \in raced \/ \E f \in DOMAIN backups :
     ConfigOf[f[1]] = o[1] /\ backups[f].bytes = o[2]

\* What somebody wrote is never lost: neither another's edit nor the original.
NothingLost == EditsSurvive /\ OriginalKept

\* When nobody transacts and no transaction is recorded as pending, every
\* swapped entry has its recovery record, the record's backup is there with the
\* bytes from before the first swap of that key, and the configuration is what
\* the newest record says unless somebody edited it since.
CommandsTruthful ==
  Settled =>
    LET es == state.entries IN
    /\ \A k \in Keys : config[ConfigOf[k]].bytes.srv[k] # "user" => k \in DOMAIN es
    /\ \A k \in DOMAIN es :
         /\ es[k].path \in DOMAIN backups
         /\ backups[es[k].path].bytes = es[k].original
         /\ points_at(es[k].original, k, "user")
    /\ \A c \in Configs : Layers(es, c) # {} =>
         \E k \in Newest(es, c) :
           config[c].bytes = es[k].expected \/ last[c] > es[k].expected.rev

\* And the newest record of a configuration nobody edited still passes
\* authentication, so that the layers can be taken off again: README, "Both
\* Claude scopes can coexist with independent backups, and a full `revert`
\* unwinds them in physical LIFO order."
RecoveryUsable ==
  Settled => \A c \in Configs :
    LET es == state.entries IN
      (Layers(es, c) # {} /\ last[c] = 0) =>
        \E k \in Newest(es, c) : config[c].id = es[k].cfgid

\* While a transaction is recorded as pending, only the process that began it
\* touches the record and the backups: what a dead or failed process left is
\* never continued, overwritten or built upon by another command.
InterruptedStops ==
  [][state.txn # None =>
       \/ state' = state /\ backups' = backups
       \/ lock # None /\ proc[lock].txn = state.txn]_vars

=============================================================================
