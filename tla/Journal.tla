------------------------------ MODULE Journal ------------------------------
(***************************************************************************)
(* The durability journal of src/src/journal.rs and the commits that       *)
(* Replica makes through it: the snapshot file, the log of records, crashes*)
(* and recovery.                                                           *)
(*                                                                         *)
(* The state of the replica is the sequence of operations that formed it   *)
(* (client mutations, merged delta groups, applied GC markers); replaying  *)
(* them in another order, or with one missing, gives other dots.  A line of*)
(* the log is "ok", "torn" (no newline, only ever the last) or "corrupt"   *)
(* (a record appended to a torn line, which no longer parses).  The commit *)
(* gate lets one commit or snapshot replacement be under way at a time.    *)
(***************************************************************************)
EXTENDS Naturals, Sequences, FiniteSets

CONSTANTS
  Base,       \* the state downloaded from object storage
  Kinds,      \* kinds of records: "mutation", "delta_group", "gc_marker"
  Crashes,    \* sets of kinds of crashes that may happen in one behaviour:
              \*   "kill" (of the process), "power" (of the machine)
  IoErrors,   \* kinds of records that may fail to be written or synced
  Early,      \* do clients send mutations before the bootstrap is complete?
  MaxOps,     \* bound: operations begun
  MaxCrashes  \* bound: crashes

ASSUME JournalAssumption ==
  /\ Kinds \subseteq {"mutation", "delta_group", "gc_marker"}
  /\ Crashes \subseteq SUBSET {"kill", "power"} /\ IoErrors \subseteq Kinds
  /\ Early \in BOOLEAN /\ MaxOps \in Nat /\ MaxCrashes \in Nat

VARIABLES
  status,     \* "down", "booting", "repairing", "running", "poisoned", "unrecoverable"
  mem,        \* the state in memory; of a replica that is down, the one it had
  installed,  \* has this identity completed its bootstrap?
  generation, \* DiskJournal::generation
  commit,     \* the record being written and the log before it, or none
  replacing,  \* the snapshot being installed and the step reached, or none
  snap,       \* the snapshot file, or none
  snapOld,    \* what the snapshot file may revert to in a power failure
  log,        \* the lines of the mutation log
  logOld,     \* what a truncated log may revert to in a power failure
  synced,     \* how many lines of the log are known to be on disk
  begun,      \* operations begun
  kinds,      \* kinds of crashes that may happen in this behaviour
  crashes     \* crashes so far

disk == <<snap, snapOld, log, logOld, synced>>
vars == <<status, mem, installed, generation, commit, replacing, disk, begun, kinds, crashes>>

Ops == [kind : Kinds, id : 1 .. MaxOps]

-----------------------------------------------------------------------------
(* Files.                                                                  *)

Torn(l) == l # <<>> /\ l[Len(l)].state = "torn"

\* append_record_locked writes one line; after a torn line it completes that.
Written(l, gen, op) ==
  IF Torn(l) THEN Append(SubSeq(l, 1, Len(l) - 1), [gen |-> gen, op |-> op, state |-> "corrupt"])
             ELSE Append(l, [gen |-> gen, op |-> op, state |-> "ok"])

\* A line of which only a part was written.
Partly(l, line) == IF Torn(l) THEN l ELSE Append(l, [line EXCEPT !.state = "torn"])

\* The log as a write that was interrupted leaves it.
Interrupted ==
  IF commit = {} THEN {log}
  ELSE {log} \cup UNION {{c.before, Partly(c.before, log[Len(log)])} : c \in commit}

\* The log as a power failure leaves it: unsynced lines may be missing.
Survivors(l, n) ==
  {SubSeq(l, 1, k) : k \in n .. Len(l)}
    \cup {Partly(SubSeq(l, 1, k - 1), l[k]) : k \in n + 1 .. Len(l)}

-----------------------------------------------------------------------------
(* Commits, under the commit gate: append the record, sync, then apply.    *)

GateFree == commit = {} /\ replacing = {}

\* append_record_locked up to sync_data; before the bootstrap is complete only
\* the HTTP server commits.
AppendRecord(kind) ==
  /\ status = "running" \/ (status = "booting" /\ Early /\ kind = "mutation")
  /\ GateFree /\ begun < MaxOps
  /\ begun' = begun + 1
  /\ LET op == [kind |-> kind, id |-> begun + 1]
     IN /\ commit' = {[op |-> op, before |-> log]}
        /\ log' = Written(log, generation, op)
  /\ UNCHANGED <<status, mem, installed, generation, replacing, snap, snapOld, logOld, synced, kinds, crashes>>

\* sync_data succeeds; the operation is applied and acknowledged.
Apply ==
  /\ status \in {"running", "booting"}
  /\ \E c \in commit : mem' = Append(mem, c.op)
  /\ commit' = {} /\ synced' = Len(log) /\ logOld' = {}
  /\ UNCHANGED <<status, installed, generation, replacing, snap, snapOld, log, begun, kinds, crashes>>

\* A write or the sync fails.  The mutation handler's task panics and the
\* process lives on; a panic in the run loop poisons the journal's lock.
FailRecord ==
  /\ status \in {"running", "booting"}
  /\ \E c \in commit :
       /\ c.op.kind \in IoErrors
       /\ status' = IF c.op.kind = "mutation" THEN status ELSE "poisoned"
  /\ log' \in Interrupted
  /\ commit' = {}
  /\ UNCHANGED <<mem, installed, generation, replacing, snap, snapOld, logOld, synced, begun, kinds, crashes>>

-----------------------------------------------------------------------------
(* Replacing the snapshot: replace_snapshot_and_clear_log_locked.          *)

\* bootstrap_from_object_storage: the downloaded state, or the initial one.
Bootstrap ==
  /\ status = "booting" /\ GateFree
  /\ \E state \in {<<Base>>, mem} :
       replacing' = {[gen |-> generation + 1, state |-> state, step |-> "write"]}
  /\ UNCHANGED <<status, mem, installed, generation, commit, disk, begun, kinds, crashes>>

\* The replacement is written, synced and renamed over the snapshot ...
RenameSnapshot ==
  /\ \E r \in replacing :
       /\ r.step = "write"
       /\ snap' = {[gen |-> r.gen, state |-> r.state]}
       /\ replacing' = {[r EXCEPT !.step = "rename"]}
  /\ UNCHANGED <<status, mem, installed, generation, commit, snapOld, log, logOld, synced, begun, kinds, crashes>>

\* Mutant: the directory is not synced after the rename.
ClearLogUnsynced ==
  /\ \E r \in replacing :
       /\ r.step = "rename"
       /\ replacing' = {[r EXCEPT !.step = "truncate"]}
  /\ log' = <<>> /\ logOld' = Survivors(log, synced) \cup logOld /\ synced' = 0
  /\ UNCHANGED <<status, mem, installed, generation, commit, snap, snapOld, begun, kinds, crashes>>

\* Mutant: the length of the log is not reset.
ClearLogLength ==
  /\ \E r \in replacing :
       /\ r.step = "rename"
       /\ replacing' = {[r EXCEPT !.step = "truncate"]}
  /\ snapOld' = snap
  /\ log' = <<>> /\ logOld' = Survivors(log, synced) \cup logOld
  /\ UNCHANGED <<status, mem, installed, generation, commit, snap, synced, begun, kinds, crashes>>

\* ... the directory is synced and the log truncated ...
ClearLog ==
  /\ \E r \in replacing :
       /\ r.step = "rename"
       /\ replacing' = {[r EXCEPT !.step = "truncate"]}
  /\ snapOld' = snap
  /\ log' = <<>> /\ logOld' = Survivors(log, synced) \cup logOld /\ synced' = 0
  /\ UNCHANGED <<status, mem, installed, generation, commit, snap, begun, kinds, crashes>>

\* ... the truncation is synced, and the new state is in use.
Installed ==
  /\ \E r \in replacing :
       r.step = "truncate" /\ generation' = r.gen /\ mem' = r.state
  /\ replacing' = {} /\ logOld' = {}
  /\ status' = "running" /\ installed' = TRUE
  /\ UNCHANGED <<commit, snap, snapOld, log, synced, begun, kinds, crashes>>

-----------------------------------------------------------------------------
(* Crashes and recovery.                                                   *)

\* The process dies; the files stay as the operating system has them.
Kill ==
  /\ "kill" \in kinds
  /\ log' \in Interrupted
  /\ UNCHANGED <<snap, snapOld, logOld, synced>>

\* The machine dies; what was not synced may be lost.
PowerFailure ==
  /\ "power" \in kinds
  /\ snap' \in {snap, snapOld} /\ snapOld' = snap'
  /\ log' \in (UNION {Survivors(l, synced) : l \in Interrupted}) \cup logOld
  /\ logOld' = {} /\ synced' = Len(log')

Crash ==
  /\ status # "down" /\ crashes < MaxCrashes
  /\ crashes' = crashes + 1
  /\ status' = "down" /\ commit' = {} /\ replacing' = {}
  /\ Kill \/ PowerFailure
  /\ UNCHANGED <<mem, installed, generation, begun, kinds>>

\* The lines that count after a restart: those before the first bad line, except
\* the ones of another generation.
Valid(gen, lines) ==
  {i \in DOMAIN lines : lines[i].gen = gen /\ \A j \in 1 .. i : lines[j].state = "ok"}

\* The operations of some of the lines, in the order of the log.
Nth(S, n) == CHOOSE i \in S : Cardinality({j \in S : j <= i}) = n
OpsOf(lines, S) == [n \in 1 .. Cardinality(S) |-> lines[Nth(S, n)].op]

\* Mutant: the generation of the records is ignored.
ReplayAll(state, gen, lines) ==
  state \o OpsOf(lines, {i \in DOMAIN lines : \A j \in 1 .. i : lines[j].state = "ok"})

\* recover_locked: the valid records are replayed on the snapshot.
Replay(state, gen, lines) == state \o OpsOf(lines, Valid(gen, lines))

\* No snapshot: a new identity, or the error MissingSnapshot.
RecoverNothing ==
  /\ status = "down" /\ snap = {}
  /\ IF log = <<>> THEN /\ status' = "booting" /\ mem' = <<>> /\ generation' = 0
                   ELSE status' = "unrecoverable" /\ UNCHANGED <<mem, generation>>
  /\ UNCHANGED <<installed, commit, replacing, disk, begun, kinds, crashes>>

\* Mutant: a bad line is an error.
RecoverStrictly ==
  /\ status = "down"
  /\ \E s \in snap :
       IF \A i \in DOMAIN log : log[i].state = "ok"
       THEN /\ mem' = Replay(s.state, s.gen, log) /\ generation' = s.gen
            /\ status' = "running"
       ELSE status' = "unrecoverable" /\ UNCHANGED <<mem, generation>>
  /\ installed' = TRUE
  /\ UNCHANGED <<replacing, commit, disk, begun, kinds, crashes>>

\* The snapshot and the log.  A bad line makes recovery replace the snapshot by
\* what it recovered, before the replica is up.
Recover ==
  /\ status = "down"
  /\ \E s \in snap :
       LET state == Replay(s.state, s.gen, log)
       IN /\ mem' = state /\ generation' = s.gen
          /\ IF \A i \in DOMAIN log : log[i].state = "ok"
             THEN status' = "running" /\ UNCHANGED replacing
             ELSE /\ status' = "repairing"
                  /\ replacing' = {[gen |-> s.gen + 1, state |-> state, step |-> "write"]}
  /\ installed' = TRUE
  /\ UNCHANGED <<commit, disk, begun, kinds, crashes>>

-----------------------------------------------------------------------------
Init ==
  /\ status = "down" /\ mem = <<>> /\ installed = FALSE /\ generation = 0
  /\ commit = {} /\ replacing = {}
  /\ snap = {} /\ snapOld = {} /\ log = <<>> /\ logOld = {} /\ synced = 0
  /\ begun = 0 /\ kinds \in Crashes /\ crashes = 0

Progress ==
  Apply \/ Bootstrap \/ RenameSnapshot \/ ClearLog \/ Installed \/ RecoverNothing \/ Recover

Next ==
  \/ Progress
  \/ \E kind \in Kinds : AppendRecord(kind)
  \/ FailRecord
  \/ Crash

Spec == Init /\ [][Next]_vars /\ WF_vars(Progress)

-----------------------------------------------------------------------------
(* Properties.                                                             *)

Line == [gen : Nat, op : Ops, state : {"ok", "torn", "corrupt"}]

\* Type invariant of the journal.
TypeOK ==
  /\ status \in {"down", "booting", "repairing", "running", "poisoned", "unrecoverable"}
  /\ mem \in Seq(Ops \cup {Base}) /\ installed \in BOOLEAN /\ generation \in Nat
  /\ \A c \in commit : c.op \in Ops /\ c.before \in Seq(Line)
  /\ \A r \in replacing : r.gen \in Nat /\ r.step \in {"write", "rename", "truncate"}
  /\ \A s \in snap \cup snapOld : s.gen \in Nat /\ s.state \in Seq(Ops \cup {Base})
  /\ \A l \in logOld \cup {log} : l \in Seq(Line)
  /\ synced \in 0 .. Len(log)

\* The journal implements the promise of a durable replica: a restart, after
\* any crash, brings back every operation that was applied, in order, and at
\* most the one that was being committed.
Promise == INSTANCE DurableState WITH state <- mem
Durable == Promise!Spec

\* The weaker half of it: a restart loses no operation that was applied.
NothingLost == [][installed => \A i \in DOMAIN mem : \E j \in DOMAIN mem' : mem'[j] = mem[i]]_vars

\* A journal can always be recovered: no crash leaves records without the
\* snapshot they apply to.
AlwaysRecoverable == status # "unrecoverable"

\* Once crashes end, the replica comes up: recovery and the repair of a damaged
\* log terminate, and leave files that can be recovered.  (It may then run into
\* a failed write, which ends its run loop.)
ComesUp == <>[](status \in {"running", "poisoned"})
=============================================================================
