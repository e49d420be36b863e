------------------------------ MODULE Replica ------------------------------
(***************************************************************************)
(* The replicas of src/src/replica.rs: local mutations, pull-based         *)
(* anti-entropy, garbage-collection rounds coordinated through the         *)
(* membership directory, graceful departure and bootstrap of a new replica.*)
(*                                                                         *)
(* A replica has one run loop (Replica::run), which handles one event at a *)
(* time, and an HTTP data plane that mutates the CRDT beside it.  A handler*)
(* that awaits object storage between two effects other parties can        *)
(* observe is split there; pc says where the run loop is.                  *)
(*                                                                         *)
(* Abstractions.  A delta is its dot.  The value of the CRDT (the entries  *)
(* of ORSet) is the set of the dots applied to it.  Of the vector of GC    *)
(* markers only the last is ever read, so only it is kept.  Messages may   *)
(* be dropped when sent and are delivered in any order: two peers may      *)
(* share two connections.  A crash without restart is a replica that takes *)
(* no further step.  Options are sets with at most one element.            *)
(***************************************************************************)
EXTENDS VersionMatrix

CONSTANTS
  Founders,  \* replicas that bootstrapped together and know each other
  Joiners,   \* replicas that may start later
  Leavers,   \* replicas that may be shut down gracefully
  Mutators,  \* bound: replicas that receive client mutations
  Collectors,\* bound: replicas whose GC timer fires
  Pollers,   \* bound: replicas whose membership-poll timer fires
  Pulls,     \* bound: pairs <<p, q>> such that p pulls from q
  MaxOps,    \* bound: mutations acknowledged per replica
  MaxGc,     \* bound: GC counter
  MaxMsgs,   \* bound: messages in flight (a full queue drops the message)
  Faults     \* may object-storage operations fail or time out?

Pids == Founders \cup Joiners

ASSUME ConstantsAssumption ==
  /\ Founders # {} /\ Founders \cap Joiners = {}
  /\ UNION {Leavers, Mutators, Collectors, Pollers} \subseteq Pids /\ Stable \notin Pids
  /\ Pulls \subseteq Pids \X Pids
  /\ MaxOps \in Nat /\ MaxGc \in Nat /\ MaxMsgs \in Nat /\ Faults \in BOOLEAN

VARIABLES
  status,    \* "down", "booting", "running", "panicked", "stopping", "stopped"
  rep,       \* the CRDT and its CRDTWrapper
  acked,     \* mutations acknowledged to clients
  writers,   \* peers with an outgoing connection (ReplicaNetwork::writers)
  msgs,      \* replication messages in flight
  dir,       \* object storage: the membership directory
  payload,   \* object storage: the CRDT stored with a shutdown descriptor
  snapshot,  \* object storage: the shared persistent replica, or none
  cache,     \* ObjectStorageClient::membership_descriptors
  poll,      \* result of the background membership poll, or none
  fetched,   \* the snapshot read during bootstrap, or none yet
  todo,      \* shutdown descriptors a membership poll still has to handle
  round,     \* local variables of the GC round in progress, or none
  pc         \* where the run loop is

network == <<writers, msgs>>
storage == <<dir, payload, snapshot>>
control == <<cache, poll, fetched, todo, round, pc>>
vars == <<status, rep, acked, network, storage, control>>

-----------------------------------------------------------------------------
(* Descriptors.                                                            *)

\* ReplicaDescriptor; the address is determined by the identifier.
Active(p, gc) == [pid |-> p, gc |-> gc, final |-> {}]
IsShutdown(d) == d.final # {}

\* Replica::membership_gc_counters_by_pid
GcCounters(members) ==
  [p \in {d.pid : d \in members} |->
     Max({d.gc : d \in {e \in members : e.pid = p}})]

\* ReplicaNetwork::enqueue_members: the active peers and their GC counters.
Discovered(members, own) ==
  LET departed == {d.pid : d \in {e \in members : IsShutdown(e)}}
  IN [p \in {d.pid : d \in members} \ (departed \cup {own}) |->
        GcCounters(members)[p]]

-----------------------------------------------------------------------------
(* The CRDT and its wrapper.                                               *)

NoMarker == [counter |-> 0, stable |-> NewDotSet, departed |-> {}]

\* A new CRDT; with_config rebinds the matrix's own row to its empty vector.
NewRep(p) ==
  [vv      |-> NewDotSet,
   log     |-> [q \in Pids |-> {}],
   applied |-> [q \in Pids |-> {}],
   matrix  |-> [q \in {p} |-> [r \in {Stable} |-> 0]],
   finals  |-> NewDotSet,
   marker  |-> NoMarker]

\* The version vector a replica sends: stamped with its GC counter.
Outgoing(s) == SetCounter(s.vv, Stable, s.marker.counter)

\* refresh_own_version_vector, CRDTWrapper::update_own_version_vector
Refreshed(s, own) ==
  [s EXCEPT !.matrix = Update(s.matrix, own, own, Outgoing(s))]

\* PersistentReplica::rebind_own_pid: the rows of the writer are kept.
Rebound(s, own) ==
  [s EXCEPT !.matrix = [q \in DOMAIN s.matrix \cup {own} |->
                          IF q = own THEN Outgoing(s) ELSE s.matrix[q]]]

\* Mutant: the allocated dot is not recorded in the version vector.
MutatedUncounted(s, own) ==
  LET c == NextCounter(s.vv, own)
  IN [vv      |-> s.vv,
      log     |-> [s.log EXCEPT ![own] = @ \cup {c}],
      applied |-> [s.applied EXCEPT ![own] = @ \cup {c}],
      matrix  |-> s.matrix, finals |-> s.finals, marker |-> s.marker]

\* ORSet::mutate
Mutated(s, own) ==
  LET c == NextCounter(s.vv, own)
  IN [vv      |-> SetCounter(s.vv, own, c),
      log     |-> [s.log EXCEPT ![own] = @ \cup {c}],
      applied |-> [s.applied EXCEPT ![own] = @ \cup {c}],
      matrix  |-> s.matrix, finals |-> s.finals, marker |-> s.marker]

\* ORSet::merge_delta_group, when no assertion of DotSet::insert fails.
Merged(s, list) ==
  [vv      |-> MergedVector(s.vv, list),
   log     |-> MergedLog(s.log, s.vv, list),
   applied |-> MergedLog(s.applied, s.vv, list),
   matrix  |-> s.matrix, finals |-> s.finals, marker |-> s.marker]

\* Replica::apply_gc_marker: ORSet::gc, then CRDTWrapper::push_gc_marker.
AfterMarker(s, own, m) ==
  [vv      |-> RemovePids(s.vv, m.departed),
   log     |-> Retain(s.log, m.stable, m.departed),
   applied |-> s.applied,
   matrix  |-> ApplyMarker(s.matrix, s.finals, own, m),
   finals  |-> RemovePids(s.finals, Removable(s.matrix, s.finals, m.departed)),
   marker  |-> m]

\* Replica::observe_gc
Observed(s, own, m) ==
  IF m.counter > s.marker.counter THEN AfterMarker(s, own, m) ELSE s

-----------------------------------------------------------------------------
Idle(p) == status[p] = "running" /\ pc[p] = "loop"

\* try_send on a peer's writer: the message may be lost, and once the peer is
\* gone the writer is found closed and removed.
Send(p, q, remaining, m) ==
  \/ /\ status[q] = "running" /\ Cardinality(remaining) < MaxMsgs
     /\ msgs' = remaining \cup {m}
     /\ UNCHANGED writers
  \/ msgs' = remaining /\ UNCHANGED writers
  \/ /\ status[q] # "running"
     /\ msgs' = remaining
     /\ writers' = [writers EXCEPT ![p] = @ \ {q}]

\* merge_delta_group, or the panic of DotSet::insert, which ends the run loop
\* (nothing reads the half-merged state it leaves).
ApplyGroup(p, s, list) ==
  IF Insertable(s.vv, list)
  THEN /\ rep' = [rep EXCEPT ![p] = Refreshed(Merged(s, list), p)]
       /\ UNCHANGED status
  ELSE /\ status' = [status EXCEPT ![p] = "panicked"]
       /\ UNCHANGED rep

-----------------------------------------------------------------------------
(* The data plane.                                                         *)

\* The HTTP mutation handler.  The server is launched before bootstrap, and a
\* connection it accepted outlives the run loop and the shutdown.
Mutate(p) ==
  /\ status[p] # "down"
  /\ p \in Mutators /\ acked[p] < MaxOps
  /\ rep' = [rep EXCEPT ![p] = Mutated(rep[p], p)]
  /\ acked' = [acked EXCEPT ![p] = @ + 1]
  /\ UNCHANGED <<status, network, storage, control>>

-----------------------------------------------------------------------------
(* Anti-entropy.                                                           *)

\* A local mutation notice; also a GC tick that finds nothing to collect.
RefreshOwn(p) ==
  /\ Idle(p)
  /\ rep' = [rep EXCEPT ![p] = Refreshed(rep[p], p)]
  /\ UNCHANGED <<status, acked, network, storage, control>>

\* Replica::pull_delta, random_writer having chosen q.
PullDelta(p, q) ==
  /\ Idle(p) /\ q \in writers[p] /\ <<p, q>> \in Pulls
  /\ rep' = [rep EXCEPT ![p] = Refreshed(rep[p], p)]
  /\ Send(p, q, msgs, [kind |-> "vector", from |-> p, to |-> q,
                       vv |-> Outgoing(rep[p])])
  /\ UNCHANGED <<status, acked, storage, control>>

\* Replica::handle_version_vector
HandleVersionVector(p, m) ==
  /\ Idle(p) /\ m.kind = "vector" /\ m.to = p
  /\ LET s == [rep[p] EXCEPT !.matrix = Update(@, p, m.from, m.vv)]
     IN rep' = [rep EXCEPT ![p] = Refreshed(s, p)]
  /\ \/ /\ m.from \in writers[p]
        /\ Send(p, m.from, msgs \ {m},
                [kind |-> "delta", from |-> p, to |-> m.from,
                 list |-> GetAllGreater(rep[p].log, m.vv),
                 vv |-> Outgoing(rep[p]), gc |-> rep[p].marker])
     \/ /\ m.from \notin writers[p]
        /\ msgs' = msgs \ {m} /\ UNCHANGED writers
  /\ UNCHANGED <<status, acked, storage, control>>

\* Replica::handle_delta refuses a group from an older GC round ...
RefuseDelta(p, m) ==
  /\ Idle(p) /\ m.kind = "delta" /\ m.to = p
  /\ Get(m.vv, Stable) < rep[p].marker.counter
  /\ msgs' = msgs \ {m}
  /\ UNCHANGED <<status, rep, acked, writers, storage, control>>

\* ... and otherwise applies the sender's GC marker, then the group.
HandleDelta(p, m) ==
  /\ Idle(p) /\ m.kind = "delta" /\ m.to = p
  /\ Get(m.vv, Stable) >= rep[p].marker.counter
  /\ ApplyGroup(p, Observed(rep[p], p, m.gc), m.list)
  /\ msgs' = msgs \ {m}
  /\ UNCHANGED <<acked, writers, storage, control>>

\* A message whose receiver is gone is lost with its connection.
Discard(m) ==
  /\ status[m.to] # "running"
  /\ msgs' = msgs \ {m}
  /\ UNCHANGED <<status, rep, acked, writers, storage, control>>

\* The network manager hands over a writer for a connected peer.
Connect(p, q) ==
  /\ status[p] = "running" /\ status[q] = "running"
  /\ p # q /\ q \notin writers[p]
  /\ writers' = [writers EXCEPT ![p] = @ \cup {q}]
  /\ UNCHANGED <<status, rep, acked, msgs, storage, control>>

-----------------------------------------------------------------------------
(* Membership.                                                             *)

\* The background task lists the directory; it leaves the cache alone.  A new
\* one is started by the run loop, once the last result was consumed.
Poll(p) ==
  /\ status[p] = "running" /\ pc[p] # "departures" /\ p \in Pollers /\ poll[p] = {}
  /\ poll' = [poll EXCEPT ![p] = {dir}]
  /\ UNCHANGED <<status, rep, acked, network, storage, cache, fetched, todo, round, pc>>

\* Replica::apply_membership_poll up to its loop over shutdown descriptors.
ApplyPoll(p) ==
  /\ Idle(p)
  /\ \E members \in poll[p] :
       LET left == {d \in members : IsShutdown(d)}
       IN /\ cache' = [cache EXCEPT ![p] = members]
          /\ rep' = [rep EXCEPT ![p].matrix = InsertPids(@, Discovered(members, p))]
          /\ todo' = [todo EXCEPT ![p] = left]
          /\ pc' = [pc EXCEPT ![p] = IF left = {} THEN "loop" ELSE "departures"]
  /\ poll' = [poll EXCEPT ![p] = {}]
  /\ UNCHANGED <<status, acked, network, storage, fetched, round>>

\* Replica::handle_shutdown_descriptor: unless this final dot is already known,
\* the payload is read (if it still exists) and merged, the final dot recorded
\* and the writer dropped.
HandleShutdown(p, d) ==
  /\ status[p] = "running" /\ pc[p] = "departures" /\ d \in todo[p]
  /\ todo' = [todo EXCEPT ![p] = @ \ {d}]
  /\ pc' = [pc EXCEPT ![p] = IF todo[p] = {d} THEN "loop" ELSE @]
  /\ LET f == CHOOSE c \in d.final : TRUE
         known == d.pid \in DOMAIN rep[p].finals /\ rep[p].finals[d.pid] = f
         list == GetAllGreater(payload[d.pid].log, rep[p].vv)
         s == [rep[p] EXCEPT !.finals = SetCounter(@, d.pid, f)]
     IN \/ /\ known \/ d \notin dir \/ Faults
           /\ UNCHANGED <<status, rep, writers>>
        \/ /\ ~known /\ d \in dir
           /\ ApplyGroup(p, s, list)
           /\ writers' = [writers EXCEPT ![p] = @ \ {d.pid}]
  /\ UNCHANGED <<acked, msgs, storage, cache, poll, fetched, round>>

-----------------------------------------------------------------------------
(* Garbage collection: Replica::init_gc, split at its storage operations.  *)

\* change_own_gc_counter: create the descriptor with the next GC counter, upon
\* which the round r goes on.  The object may be present already, which ends the
\* round, and the write may fail with or without effect.
Publish(p, new, r) ==
  \/ /\ new \notin dir
     /\ dir' = dir \cup {new}
     /\ round' = [round EXCEPT ![p] = {r}]
     /\ pc' = [pc EXCEPT ![p] = "validate"]
  \/ /\ new \in dir \/ Faults
     /\ UNCHANGED <<dir, round, pc>>
  \/ /\ Faults /\ dir' = dir \cup {new}
     /\ UNCHANGED <<round, pc>>

\* If the frontier moved or a replica departed, begin a round.
InitGc(p) ==
  LET s        == Refreshed(rep[p], p)
      stable   == StableFrontier(s.matrix, s.finals, p)
      departed == DepartedPids(s.matrix, s.finals)
      new      == Active(p, s.marker.counter + 1)
  IN /\ Idle(p) /\ p \in Collectors /\ s.marker.counter < MaxGc
     /\ stable # s.marker.stable \/ departed # {}
     /\ rep' = [rep EXCEPT ![p] = s]
     /\ Publish(p, new,
          [marker   |-> [counter |-> new.gc, stable |-> stable, departed |-> departed],
           previous |-> GcCounters(cache[p]),
           old      |-> Active(p, s.marker.counter)])
     /\ UNCHANGED <<status, acked, network, payload, snapshot, cache, poll, fetched, todo>>

\* What validate_gc_membership requires of a listing: nobody joined and nobody
\* started a GC round since the cached listing.
Validated(own, previous, members) ==
  LET current == GcCounters(members)
  IN \A p \in DOMAIN current \ {own} :
       p \in DOMAIN previous /\ current[p] <= previous[p]

\* Replica::validate_gc_membership: list, decide.
ValidateGc(p) ==
  /\ status[p] = "running" /\ pc[p] = "validate"
  /\ \/ \E r \in round[p] :
          /\ cache' = [cache EXCEPT ![p] = dir]
          /\ pc' = [pc EXCEPT ![p] =
                      IF Validated(p, r.previous, dir) THEN "complete" ELSE "abort"]
     \/ /\ Faults
        /\ pc' = [pc EXCEPT ![p] = "withdraw"]
        /\ UNCHANGED cache
  /\ UNCHANGED <<status, rep, acked, network, storage, poll, fetched, todo, round>>

\* Mutant: the previous descriptor is deleted with the new one.
WithdrawGcOld(p) ==
  /\ status[p] = "running" /\ pc[p] \in {"abort", "withdraw"}
  /\ \E r \in round[p] : dir' = dir \ {r.old, Active(p, r.marker.counter)}
  /\ pc' = [pc EXCEPT ![p] = IF @ = "abort" THEN "relist" ELSE "loop"]
  /\ round' = [round EXCEPT ![p] = {}]
  /\ UNCHANGED <<status, rep, acked, network, payload, snapshot, cache, poll, fetched, todo>>

\* The round is given up: the new descriptor is deleted (or stays), and after a
\* validation that saw a change the directory is listed again.
WithdrawGc(p) ==
  /\ status[p] = "running" /\ pc[p] \in {"abort", "withdraw"}
  /\ \E r \in round[p] :
       dir' \in {dir \ {Active(p, r.marker.counter)}} \cup (IF Faults THEN {dir} ELSE {})
  /\ pc' = [pc EXCEPT ![p] = IF @ = "abort" THEN "relist" ELSE "loop"]
  /\ round' = [round EXCEPT ![p] = {}]
  /\ UNCHANGED <<status, rep, acked, network, payload, snapshot, cache, poll, fetched, todo>>

\* The second listing only updates the cache: enqueue_members is not called.
Relist(p) ==
  /\ status[p] = "running" /\ pc[p] = "relist"
  /\ cache' \in {[cache EXCEPT ![p] = dir]} \cup (IF Faults THEN {cache} ELSE {})
  /\ pc' = [pc EXCEPT ![p] = "loop"]
  /\ UNCHANGED <<status, rep, acked, network, storage, poll, fetched, todo, round>>

\* Replica::complete_local_gc: apply the marker, then write the shared
\* snapshot; a failed write ends the round with the marker applied.
CompleteGc(p) ==
  /\ status[p] = "running" /\ pc[p] = "complete"
  /\ \E r \in round[p] :
       LET s == AfterMarker(rep[p], p, r.marker)
       IN /\ rep' = [rep EXCEPT ![p] = s]
          /\ \/ /\ snapshot' = {s}
                /\ pc' = [pc EXCEPT ![p] =
                            IF r.marker.departed = {} THEN "old" ELSE "departed"]
                /\ UNCHANGED round
             \/ /\ Faults /\ snapshot' \in {snapshot, {s}}
                /\ pc' = [pc EXCEPT ![p] = "loop"]
                /\ round' = [round EXCEPT ![p] = {}]
  /\ UNCHANGED <<status, acked, network, dir, payload, cache, poll, fetched, todo>>

\* Mutant: the descriptors of the departed replicas stay.
DeleteDepartedNot(p) ==
  /\ status[p] = "running" /\ pc[p] = "departed"
  /\ pc' = [pc EXCEPT ![p] = "old"]
  /\ UNCHANGED <<status, rep, acked, network, storage, cache, poll, fetched, todo, round>>

\* Replica::gc_departed_pids: the cached descriptors of the departed replicas
\* are deleted concurrently, so one by one in any order.  A replica's are then
\* dropped from the cache, unless one of its deletions failed.
DeleteDeparted(p) ==
  /\ status[p] = "running" /\ pc[p] = "departed"
  /\ \E r \in round[p] :
       LET doomed == {d \in cache[p] : d.pid \in r.marker.departed}
       IN \/ /\ \E d \in doomed \cap dir : dir' = dir \ {d}
             /\ UNCHANGED <<cache, pc>>
          \/ \E failed \in SUBSET r.marker.departed :
             /\ failed = {} \/ Faults
             /\ \A d \in doomed \cap dir : d.pid \in failed
             /\ cache' = [cache EXCEPT ![p] = {d \in @ : d \in doomed => d.pid \in failed}]
             /\ pc' = [pc EXCEPT ![p] = "old"]
             /\ UNCHANGED dir
  /\ UNCHANGED <<status, rep, acked, network, payload, snapshot, poll, fetched, todo, round>>

\* Mutant: the new descriptor is deleted instead of the previous one.
DeleteOldNew(p) ==
  /\ status[p] = "running" /\ pc[p] = "old"
  /\ \E r \in round[p] : dir' = dir \ {Active(p, r.marker.counter)}
  /\ pc' = [pc EXCEPT ![p] = "loop"]
  /\ round' = [round EXCEPT ![p] = {}]
  /\ UNCHANGED <<status, rep, acked, network, payload, snapshot, cache, poll, fetched, todo>>

\* The last step of init_gc: delete the descriptor of the previous GC counter.
DeleteOld(p) ==
  /\ status[p] = "running" /\ pc[p] = "old"
  /\ \E r \in round[p] :
       dir' \in {dir \ {r.old}} \cup (IF Faults THEN {dir} ELSE {})
  /\ pc' = [pc EXCEPT ![p] = "loop"]
  /\ round' = [round EXCEPT ![p] = {}]
  /\ UNCHANGED <<status, rep, acked, network, payload, snapshot, cache, poll, fetched, todo>>

-----------------------------------------------------------------------------
(* Departure.                                                              *)

\* Replica::shutdown up to stopping the HTTP server: the CRDT is cloned and
\* stored with a descriptor that carries the last own counter.
Shutdown(p) ==
  /\ Idle(p) /\ p \in Leavers
  /\ status' = [status EXCEPT ![p] = "stopping"]
  /\ \/ /\ dir' = dir \cup {[pid |-> p, gc |-> rep[p].marker.counter,
                             final |-> {Get(rep[p].vv, p)}]}
        /\ payload' = [payload EXCEPT ![p] = rep[p]]
     \/ Faults /\ UNCHANGED <<dir, payload>>
  /\ poll' = [poll EXCEPT ![p] = {}]
  /\ UNCHANGED <<rep, acked, network, snapshot, cache, fetched, todo, round, pc>>

\* The rest: stop the HTTP server and the network.
StopHttp(p) ==
  /\ status[p] = "stopping"
  /\ status' = [status EXCEPT ![p] = "stopped"]
  /\ writers' = [writers EXCEPT ![p] = {}]
  /\ UNCHANGED <<rep, acked, msgs, storage, control>>

-----------------------------------------------------------------------------
(* Bootstrap of a new replica: with_config, bootstrap_from_object_storage. *)

\* The HTTP server is up before the replica registers.
Start(p) ==
  /\ status[p] = "down"
  /\ status' = [status EXCEPT ![p] = "booting"]
  /\ UNCHANGED <<rep, acked, network, storage, control>>

\* register_and_list_members, joined with the snapshot read ...
Register(p) ==
  /\ status[p] = "booting" /\ pc[p] = "register"
  /\ dir' = dir \cup {Active(p, rep[p].marker.counter)}
  /\ pc' = [pc EXCEPT ![p] = "list"]
  /\ UNCHANGED <<status, rep, acked, network, payload, snapshot, cache, poll, fetched, todo, round>>

ListMembers(p) ==
  /\ status[p] = "booting" /\ pc[p] = "list"
  /\ cache' = [cache EXCEPT ![p] = dir]
  /\ pc' = [pc EXCEPT ![p] = "install"]
  /\ UNCHANGED <<status, rep, acked, network, storage, poll, fetched, todo, round>>

\* ... read_persistent_replica, which may complete before or after either.
ReadSnapshot(p) ==
  /\ status[p] = "booting" /\ fetched[p] = {}
  /\ fetched' = [fetched EXCEPT ![p] = {snapshot}]
  /\ UNCHANGED <<status, rep, acked, network, storage, cache, poll, todo, round, pc>>

\* Install the snapshot under the new identity, or write the initial one; then
\* Replica::run enqueues the listed members and enters its loop.
Install(p) ==
  /\ status[p] = "booting" /\ pc[p] = "install"
  /\ \E read \in fetched[p] :
       LET s == IF read = {} THEN rep[p] ELSE Rebound(CHOOSE x \in read : TRUE, p)
       IN /\ rep' = [rep EXCEPT ![p] =
                [s EXCEPT !.matrix = InsertPids(@, Discovered(cache[p], p))]]
          /\ snapshot' = IF read = {} THEN {rep[p]} ELSE snapshot
  /\ status' = [status EXCEPT ![p] = "running"]
  /\ pc' = [pc EXCEPT ![p] = "loop"]
  /\ UNCHANGED <<acked, network, dir, payload, cache, poll, fetched, todo, round>>

-----------------------------------------------------------------------------
\* The founders started together on empty storage: each found no snapshot,
\* registered and wrote the initial one, and has applied a poll that listed
\* all of them.  The joiners are down.
Init ==
  /\ status = [p \in Pids |-> IF p \in Founders THEN "running" ELSE "down"]
  /\ rep = [p \in Pids |->
              IF p \in Founders
              THEN [NewRep(p) EXCEPT !.matrix =
                      InsertPids(@, [q \in Founders \ {p} |-> 0])]
              ELSE NewRep(p)]
  /\ acked = [p \in Pids |-> 0]
  /\ writers = [p \in Pids |-> IF p \in Founders THEN Founders \ {p} ELSE {}]
  /\ msgs = {}
  /\ dir = {Active(p, 0) : p \in Founders}
  /\ payload = [p \in Pids |-> NewRep(p)]
  /\ snapshot \in {{NewRep(p)} : p \in Founders}
  /\ cache = [p \in Pids |-> IF p \in Founders THEN dir ELSE {}]
  /\ poll = [p \in Pids |-> {}]
  /\ fetched = [p \in Pids |-> {}]
  /\ todo = [p \in Pids |-> {}]
  /\ round = [p \in Pids |-> {}]
  /\ pc = [p \in Pids |-> IF p \in Founders THEN "loop" ELSE "register"]

RunLoop(p) ==
  \/ RefreshOwn(p)
  \/ \E q \in writers[p] : PullDelta(p, q)
  \/ \E m \in msgs : HandleVersionVector(p, m) \/ RefuseDelta(p, m) \/ HandleDelta(p, m)
  \/ ApplyPoll(p)
  \/ \E d \in todo[p] : HandleShutdown(p, d)
  \/ InitGc(p) \/ ValidateGc(p) \/ WithdrawGc(p) \/ Relist(p)
  \/ CompleteGc(p) \/ DeleteDeparted(p) \/ DeleteOld(p)
  \/ Shutdown(p)

Bootstrap(p) ==
  Start(p) \/ Register(p) \/ ListMembers(p) \/ ReadSnapshot(p) \/ Install(p)

Next ==
  \/ \E p \in Pids : RunLoop(p) \/ Bootstrap(p) \/ Mutate(p) \/ Poll(p) \/ StopHttp(p)
  \/ \E p, q \in Pids : Connect(p, q)
  \/ \E m \in msgs : Discard(m)

Spec == Init /\ [][Next]_vars

-----------------------------------------------------------------------------
(* Types.                                                                  *)

Columns == Pids \cup {Stable}

IsDotSet(v) ==
  DOMAIN v \subseteq Columns /\ v \in [DOMAIN v -> {c \in Int : c >= -1}]

\* Of every replica, finitely many dots: none, or up to a last one.
IsDotMap(l) ==
  /\ l \in [Pids -> SUBSET Nat]
  /\ \A p \in Pids : l[p] # {} => \E c \in l[p] : \A e \in l[p] : e <= c

IsMarker(m) ==
  /\ m = [counter |-> m.counter, stable |-> m.stable, departed |-> m.departed]
  /\ m.counter \in 0 .. MaxGc /\ IsDotSet(m.stable) /\ m.departed \subseteq Pids

IsRep(s) ==
  /\ s = [vv |-> s.vv, log |-> s.log, applied |-> s.applied,
          matrix |-> s.matrix, finals |-> s.finals, marker |-> s.marker]
  /\ IsDotSet(s.vv) /\ IsDotMap(s.log) /\ IsDotMap(s.applied)
  /\ s.matrix = [p \in DOMAIN s.matrix |-> s.matrix[p]]
  /\ DOMAIN s.matrix \subseteq Columns
  /\ \A p \in DOMAIN s.matrix : IsDotSet(s.matrix[p])
  /\ IsDotSet(s.finals) /\ IsMarker(s.marker)

IsMessage(m) ==
  /\ m.kind \in {"vector", "delta"} /\ m.from \in Pids /\ m.to \in Pids
  /\ IsDotSet(m.vv)
  /\ m.kind = "delta" => IsDotMap(m.list) /\ IsMarker(m.gc)

IsDescriptor(d) ==
  d.pid \in Pids /\ d.gc \in 0 .. MaxGc /\ d.final \subseteq Int

IsRound(r) ==
  /\ IsMarker(r.marker) /\ IsDescriptor(r.old)
  /\ DOMAIN r.previous \subseteq Pids /\ r.previous \in [DOMAIN r.previous -> 0 .. MaxGc]

\* Type invariant of the replicas, the network and the object store.
TypeOK ==
  /\ status \in [Pids -> {"down", "booting", "running", "panicked", "stopping", "stopped"}]
  /\ pc \in [Pids -> {"register", "list", "install", "loop", "departures", "validate",
                      "abort", "withdraw", "relist", "complete", "departed", "old"}]
  /\ acked \in [Pids -> Nat] /\ writers \in [Pids -> SUBSET Pids]
  /\ Pids = DOMAIN rep /\ Pids = DOMAIN payload /\ Pids = DOMAIN cache
  /\ Pids = DOMAIN poll /\ Pids = DOMAIN fetched /\ Pids = DOMAIN todo
  /\ Pids = DOMAIN round
  /\ \A m \in msgs : IsMessage(m)
  /\ \A d \in dir : IsDescriptor(d)
  /\ \A s \in snapshot : IsRep(s)
  /\ \A p \in Pids :
       /\ IsRep(rep[p]) /\ IsRep(payload[p])
       /\ \A d \in cache[p] \cup todo[p] \cup UNION poll[p] : IsDescriptor(d)
       /\ \A s \in UNION fetched[p] : IsRep(s)
       /\ \A r \in round[p] : IsRound(r)

-----------------------------------------------------------------------------
(* Properties.                                                             *)

Running == {p \in Pids : status[p] = "running"}

\* The assertion "DotSet in invalid state" of DotSet::insert never fails: no
\* replica is ever handed a delta whose predecessor it lacks.
NoInvalidDotSet == \A p \in Pids : status[p] # "panicked"

\* A version vector never claims a delta that was not applied: what ORSet holds
\* of a replica in its vector is that replica's whole history up to the entry.
VectorHonest ==
  \A p \in Running : \A r \in DOMAIN rep[p].vv :
     rep[p].applied[r] = 0 .. rep[p].vv[r]

\* The dot of a replica's next mutation is new: nobody has a dot of a replica
\* that the replica itself does not have.
DotsUnique ==
  \A p, q \in Running : Get(rep[q].vv, p) <= Get(rep[p].vv, p)

\* Garbage collection keeps what somebody still needs: a delta one running
\* replica has applied and another has not is in the delta log of the former.
DeltasRetained ==
  \A p, q \in Running : \A r \in Pids :
     rep[p].applied[r] \ rep[q].applied[r] \subseteq rep[p].log[r]

\* Anti-entropy closes the gap: were p to answer a pull by q now, and q to
\* accept it, q would merge without a failed assertion and afterwards have
\* applied everything that p has.
PullCompletes ==
  \A p, q \in Running :
     rep[p].marker.counter >= rep[q].marker.counter =>
       LET s    == Observed(rep[q], q, rep[p].marker)
           list == GetAllGreater(rep[p].log, rep[q].vv)
       IN /\ Insertable(s.vv, list)
          /\ \A r \in Pids : rep[p].applied[r] \subseteq Merged(s, list).applied[r]

\* The markers a replica applied, was sent or is about to complete.
GcMarkers ==
  {rep[p].marker : p \in Running}
    \cup {m.gc : m \in {n \in msgs : n.kind = "delta"}}
    \cup {r.marker : r \in UNION {round[p] : p \in Running}}

\* A stable frontier is stable: every replica that runs has applied everything
\* that any GC marker declares collectable.
FrontierKnown ==
  \A m \in GcMarkers : \A q \in Running : \A r \in Pids :
     0 .. Get(m.stable, r) \subseteq rep[q].applied[r]

\* A delta is applied once: one that enters a delta log was not applied before,
\* although the version-vector entry that would tell is dropped with its
\* departed replica.  (ORSet would bring back elements removed since.)
AppliedOnce ==
  [][\A p, r \in Pids :
       (rep'[p].log[r] \ rep[p].log[r]) \cap rep[p].applied[r] = {}]_vars

\* A running replica stays discoverable: whatever becomes of its GC rounds and
\* of the deletions that go with them, an active descriptor of it is listed.
StaysRegistered ==
  \A p \in Running : \E d \in dir : d.pid = p /\ ~IsShutdown(d)

\* "Increment our GC marker in the Membership directory before GC": no replica
\* has applied a marker that the directory does not show.
GcPublished ==
  \A p \in Running : \E d \in dir : d.gc >= rep[p].marker.counter

\* An acknowledged mutation is applied by the replica (README, "Client
\* Requests") and stays applied: a running replica's own entry counts exactly
\* the mutations it acknowledged.
AckedKept ==
  \A p \in Running : Get(rep[p].vv, p) = acked[p] - 1

\* The README's rule for bootstrap: a persistent CRDT is installed if its epoch
\* is at least as new as the maximum epoch of the membership listing.
InstallsFreshSnapshot ==
  [][\A p \in Pids : Install(p) =>
       \A read \in fetched[p] : \A s \in read : \A d \in cache[p] :
          s.marker.counter >= d.gc]_vars

\* A replica that completed a GC round has removed its old membership
\* descriptor: outside init_gc it is registered under one GC counter.
OldDescriptorRemoved ==
  \A p \in Running : Idle(p) =>
     \A d, e \in {x \in dir : x.pid = p} : d = e

\* The departure of a replica loses nothing: its shutdown descriptor, with the
\* payload, is deleted only after every running replica has applied all of the
\* mutations the payload holds of it.
FinalStatePreserved ==
  [][\A d \in dir \ dir' : IsShutdown(d) =>
       \A p \in Running : payload[d.pid].applied[d.pid] \subseteq rep[p].applied[d.pid]]_vars

\* A final descriptor retires the entire identifier (network.rs): no version
\* matrix gets a row for a replica that has shut down.
RetiredForGood ==
  [][\A p, d \in Pids :
       status[d] = "stopped" /\ d \in DOMAIN rep'[p].matrix => d \in DOMAIN rep[p].matrix]_vars
=============================================================================
