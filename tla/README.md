# Gresse in TLA+

A model of Gresse, a runtime for delta-state CRDTs: replicas keep a CRDT in
memory, exchange deltas by pulling from each other, find each other through a
membership directory in object storage, collect delta logs in coordinated
rounds, and may keep a durability journal on disk. Source references are
relative to `src/`, so `src/replica.rs` is the crate's file of that name.

## 1. The system and its parts

| part | source | state and operations | modelled in |
|---|---|---|---|
| causality types | `src/dots.rs` | `DotSet` (version vector), `DotMap` (delta log), `VersionMatrix` (everybody's vectors, final dots, stable frontier) | `DotSets`, `VersionMatrix` |
| CRDT wrapper | `src/crdt.rs` | GC markers, stamped vectors, rebinding, messages | `Replica` |
| OR-set | `src/orset.rs` | `mutate`, `get_delta`, `merge_delta_group`, `gc` | `OrSet`, `AddWinsSet`; `Replica` (dots only) |
| replica | `src/replica.rs` | run loop: mutation notices, messages, pulls, polls, GC rounds, shutdown; bootstrap | `Replica`, `Restart` |
| configuration, descriptors | `src/replica_helpers.rs` | descriptors, addresses, lifecycle, timers | `Replica`, `Network` (partly) |
| object-storage client | `src/object_storage.rs` | directory, cache, background poll, snapshot, payloads | `Replica` |
| network | `src/network.rs` | manager (dial, accept, handshake, register), writers, bounded channels | `Network` |
| journal | `src/journal.rs` | snapshot file, log, recovery, repair | `Journal`, `DurableState`; what it gives back of a replica in `Restart` |
| HTTP server | `src/http_server.rs` | queries, mutations beside the run loop | the mutation path, in `Replica` and `Journal` |
| HTTP client | `src/http_client.rs` | requests with resends | no state of its own |
| views | `src/db/view.rs`, `src/db/composite_view.rs` | a map and its secondary indexes | `Views` |
| weighted tables | `src/db/ztable.rs` | shards shared by clones, parallel reductions | `ZTable`, `ZSet` |
| addresses, logging | `src/lib.rs`, `src/logging.rs` | order of addresses; log lines | order only |

How they interact. The run loop handles one event at a time. Beside it run the
HTTP server, which mutates the shared CRDT under the commit gate, the background
membership poll, and the network manager with its connection tasks. A replica
asks a random peer for what it lacks by sending its version vector; the peer
stores the vector in its matrix and answers with deltas and its last GC marker.
The minimum of the matrix's rows is the stable frontier. A GC round publishes a
descriptor with the next GC counter, lists the directory, and goes on only if
nobody joined or collected meanwhile; it then drops deltas below the frontier and
writes the shared snapshot from which new replicas start. A replica that leaves
stores its final state with a shutdown descriptor; its row is removed once a
completed round covers its last dot.

## 2. Modules

`DotSets`, `VersionMatrix`: operators, one per method. A `DotSet` is a function
whose domain is the set of keys present, because the code distinguishes a missing
key from a key at -1. A `DotMap` maps a replica to the set of retained counters;
the code keeps them in ascending order, so the set determines the sequence.

`Replica` (extends both): `rep[p]` is the CRDT with its wrapper (`vv`, `log`,
`applied`, `matrix`, `finals`, `marker`); `dir`, `payload`, `snapshot` are object
storage; `cache`, `poll`, `fetched`, `todo`, `round`, `pc` are the client's cache,
the poll in flight and the local variables of a handler that awaits storage.

| action | code |
|---|---|
| `Mutate` | mutation handler in `with_config`; `ORSet::mutate` |
| `RefreshOwn`, `PullDelta` | mutation notice; `pull_delta` |
| `HandleVersionVector`, `HandleDelta`, `RefuseDelta` | the handlers of those names; `RefuseDelta` is the early return |
| `Connect`, `Discard` | a writer handed over; a message lost with its receiver |
| `Poll`, `ApplyPoll`, `HandleShutdown` | `start_membership_poll`, `apply_membership_poll`, `handle_shutdown_descriptor` |
| `InitGc`, `ValidateGc`, `WithdrawGc`, `Relist`, `CompleteGc`, `DeleteDeparted`, `DeleteOld` | `init_gc` and what it calls, split where it awaits storage |
| `Shutdown`, `StopHttp` | `shutdown` |
| `Start`, `Register`, `ListMembers`, `ReadSnapshot`, `Install` | `with_config`, `bootstrap_from_object_storage` |

Abstractions of `Replica`. A delta is its dot, and the value of the CRDT is the
set of applied dots. Messages may be lost when sent and arrive in any order.
`Connect` over-approximates discovery, which `Network` has in detail. A failed
poll is no poll. A crash without restart is a replica that takes no more steps.
With `Faults`, a storage operation may fail with or without effect. A mutation may
in the code come between applying a marker and cloning the snapshot; in the model
it comes before or after both.

`FixedMembership`: the inductive invariant `FixedInv` of a membership in which
nobody joins or leaves. `Membership`: the weaker one, `MemberInv`, that survives
joins and departures.

`Restart` (extends `Replica`): kills at any point and `bootstrap_from_durability`.
It takes from `DurableState` that the CRDT and the last GC marker survive. Matrix
rows and final dots do not: they are the ones of the journal's snapshot, with the
markers of the log replayed on them, and `replayed` holds them. `Crash` leaves the
state as it is; `CrashInDelta` is the one handler that logs two records
(`handle_delta`: the sender's marker, then the group) and dies between them;
`Reregister` and `Rejoin` are the two storage operations of the restart, and
mutations are accepted before both.

`OrSet`: the value of the OR-set: `Insert`, `Remove`, `Answer` (`get_delta`),
`Merge` (`merge_delta_group`) and `Gc`. Deltas never change, so their contents are
in one function `change`, and entries, logs and messages hold dots. A message
carries the order in which the code lists the replicas of a group, which is the
order of a hash map. The frontier of `Gc` is any that all replicas cover, which
is what `ReplicaProofs` proves of the real one. `AddWinsSet` is the set it
promises: the value is a function of the known changes.

`Views`: `View` and `CompositeView`, one operator per method; `RangeQuery` gives the
possible outcomes of `range_query`, the panic of `BTreeMap::range` on a range that
starts after its end included. `ZTable`: shards are
cells of a heap; a clone and a task of `map_reduce_active` hold references, and a
write copies a cell that has another reference (`Arc::make_mut`). A task may
panic; then the call unwinds, and the tasks it did not await run on. `ZSet` is
what a table promises: its own weights and values. `MCTables` runs both side by
side; they do not interact.

`DurableState`: what a durable replica promises: its operations stay, in order.
`Journal` implements it. The replica's state is the sequence of operations that
formed it; a log line is whole, torn or corrupt; `snapOld` and `logOld` are what
the files may revert to in a power failure because the directory or the
truncation was not synced. Crashes come at any step: `Kill` leaves what the
operating system has, `PowerFailure` what was synced and any part of the rest. An
I/O error while a snapshot is replaced ends the process, which is a `Kill`. An
error in the run loop's append poisons the journal's lock (`"poisoned"`).

`Network`: `mgr[p]` are the manager's sets, `members` and `handover` the bounded
channels, `writers` the replica's writers, `link` the TCP connections with the
state of each end. The reader and writer tasks of an end are one state. A poll
lists the directory when it is applied; staleness is in the channel. The
back-off's length is abstracted to whether it has elapsed.

## 3. Runs

| run | instance | states | checks |
|---|---|---|---|
| `fixed` | 2 founders, both collect, one mutates twice and the other pulls, one kill and restart of either; GC counters to 1, 1 message in flight | 260k | `FixedInv`, `DotsUnique`, `StaysRegistered`, `AckedKept` |
| `depart` | 3 founders, one leaves after up to 2 mutations; one collects and polls, GC counters to 3 | 142k | `MemberInv`, `DeltasRetained`, `PullCompletes`, `AppliedOnce`, `FinalStatePreserved` |
| `depart_faults` | the same with storage faults, GC counters to 2; the collector pulls from the leaver too | 620k | `VectorHonest`, `FrontierKnown`, `StaysRegistered`, `FinalStatePreserved` |
| `join` | 1 founder, 1 joiner, both mutate and collect | 494k | `TypeOK`, `DotsUnique`, `StaysRegistered`, `GcPublished` |
| `journal` | 5 operations, 4 crashes, kills or power failures; failing appends of GC markers | 195k | `TypeOK`, `AlwaysRecoverable`, `Durable`, `ComesUp` |
| `orset` | 2 replicas, 1 element, 3 mutations in all, 2 messages in flight, one collects | 83k | `TypeOK`, `MergeNeverPanics`, `NoLostInsert`, `NoResurrection`, `AddWins`, `EventuallyConsistent` |
| `tables` | views: 2 keys, 2 values; tables: 2, with 2 shards, 1 key, weights from -1 to 2, 4 cells; symmetric in tables and cells | 81k | `ViewInverse`, `Complete`, `ViewAnswers`, `CompositeAnswers`, `ReduceExact`, `ReadersUndisturbed`, `OwnWeights` |
| `network_mesh` | 2 replicas, one starts late, both may leave, 2 failed dials | 11k | `NoMutualAttempts`, `DeadStayDead`, `Meshed`, `DepartedForgotten` |
| `network_reuse` | 3 replicas, an address reused, crash, failed handshake, lost connection | 61k | `TypeOK`, `OneConnectionPerPeer` |

Each property is stated where it is defined. Why the bounds suffice to meet the
interesting cases: the assertion of `DotSet::insert` can only fail above a known dot
and a gap, hence three mutations in `orset` (`MergeNeverPanics`), while `FixedInv`
excludes the gap itself, which takes two; a removal of a departed replica takes
two GC rounds after its departure, hence `MaxGc = 3` in `depart`; the races of a
bootstrap need one joiner and one collector; a repair that crashes takes three
crashes, hence `MaxCrashes = 4`; a concurrent insertion and removal of an element
take three mutations; two tables that share one shard and have each written the
other, while an abandoned task reads a third copy of it, take four cells. `MCFixed` and `MCDepart` use a view without the state only a
bootstrap reads (the snapshot in storage and in memory; in `MCFixed` also the final
payloads).

Larger instances checked once without a violation: `MCFixed` with GC counters to 2
(1.0 million states), and with three mutations and `NoInvalidDotSet` as well (583k);
`MCFixedPulls`, where both replicas pull
(1.3 million); `MCDepart` with two pollers (5.7 million); `MCJoin` with a poller
(3.1 million); `MCDepartRestart` with kills of the replica that does not collect
(3.0 million); `MCOrSetThree`, three replicas, safety only (184k);
`MCTablesValues`, two values in a table (35k).

Deadlock is checked except in `journal` (operations and crashes are bounded, and
a poisoned replica stops) and `network_mesh` (all replicas may have left).

Fairness. `Journal`: weak fairness of the process's own steps, which are
sequential code; crashes and client requests are not fair. `Network`: weak
fairness of every step of the event loops, of timers and of connection attempts:
`tokio::select!` picks among ready branches at random, ticks recur, attempts have
a timeout. Faults and departures are not fair. `OrSet`: strong fairness, for each
pair of replicas, of requests, answers and merges: pulls are periodic and pick a
random peer, and a connection loses some messages but not all of them for ever.
Clients, losses and GC are not fair. `Replica` and `Restart` have no liveness
property.

### Where code and documentation disagree

| run | what the model shows | stated at |
|---|---|---|
| `join_panic` | a new replica reads the snapshot while a round completes, installs it although it is older than the listed GC counters, and later panics in `DotSet::insert` | `src/dots.rs:114`, `README.md:231` |
| `network_restart` | a restarted replica stays in its peer's `connected_members` and is never connected again | `README.md:186` |
| `orset_order` | a delta group from one replica lists another's removal before the insertion it removes; the receiver keeps the element | `src/crdt.rs:170` |

Further counterexamples, each with its configuration: `MCOrSetDiverge` (what
`orset_order` leads to: three replicas with equal vectors and different sets),
`MCJoinAck` (a mutation acknowledged before bootstrap ends is overwritten by the
download, against `README.md:244`), `MCJoinEpoch` (the epoch rule of
`README.md:231` itself), `MCDepartReapply` (a failed deletion of a shutdown
descriptor makes the next poll apply its deltas again, against `src/dots.rs:347`),
`MCDepartRestart` (so does a kill between forgetting a departed replica and deleting
its descriptors), `MCJournalFailedAppend` (mutations acknowledged after a
half-written record are lost at the next restart, against `src/journal.rs:45`),
`MCDepartRetire` (a listing between two deletions
shows a departed replica as active), `MCFixedOld` (two replicas that complete the
same GC counter leave an old descriptor behind), `MCNetworkBreak` (a lost
connection is never replaced), `MCNetworkMutual` and `MCNetworkCrossed` (with a
wildcard bind address, as in `README.md:139`, two replicas dial each other and
each refuses the connection the other keeps), `MCJournalNoSnapshot` (a mutation
logged before the first snapshot), `MCJournalTwoCrashes` (a kill between rename
and directory sync, then a power failure).

## 4. Proofs

All proofs hold for any sets of replicas, elements, keys, tables and addresses and
any bounds. They rest on the named assumptions about constants
(`ConstantsAssumption` and the `ASSUME`s of `Restart`, `OrSet`, `Views`, `ZTable`,
`Journal` and `Network`), which say that the constants have their types. Where a
theorem needs more, the hypothesis is in its statement and its reason is below.

| module | about | extends |
|---|---|---|
| `ReplicaLemmas` | minima, vectors, logs, listings, published GC rounds | `FixedMembership`, `Membership` |
| `ReplicaProofs` | `Replica`, fixed membership | `ReplicaLemmas` |
| `RestartProofs` | `Restart`, fixed membership | `ReplicaProofs` |
| `MembershipProofs` | `Replica`, joins and departures | `ReplicaLemmas` |
| `OrSetProofs`, `TablesProofs`, `JournalProofs`, `NetworkProofs` | the component of that name | the component |

**Fixed membership** (`ReplicaProofs`), with or without storage faults, when nobody
joins or leaves (`Joiners = {}`, `Leavers = {}`): `FixedMembershipCorrect`
(`Spec => []FixedInv`), and from it `TypeCorrect`, `NoPanic`, `VectorsHonest`,
`DotsAreUnique`, `GcKeepsNeededDeltas`, `FrontiersAreStable`, `PullsComplete`.

None of these is inductive alone. A delta group merges without a panic because it
has no gap above the requester's vector at the time of the request, and that
vector only grew since; the group has no gap because a delta log holds everything
above the last frontier applied; a frontier is harmless because it is the minimum
over rows that lag behind their replicas. `FixedInv` says just this: every vector
in flight or in a matrix, and every frontier in a marker, a message or a round, is
behind the current vector of its replica (of every replica, for a frontier); logs
contain what is above their marker's frontier; groups in flight are without gaps.
The module first has one lemma per operator that changes a replica's state (it
leads from a state that fits the others' to one that fits, `Fine`), then regroups
the invariant by the variables it is about, with one lemma per action.

**Kills and restarts** (`RestartProofs`), under the same assumption: `RestartsAreSafe`
(`RSpec => []FixedInv`), `RestartsNeverPanic`, `RestartsKeepDotsUnique`,
`RestartsKeepNeededDeltas`, `PullsCompleteAfterRestart`, `AcknowledgedStays`,
`KilledStayRegistered`. `RInv` adds to `FixedInv` that recovery gives
no row but the replica's own and the stable one (`JournalOK`), that the directory
always lists every replica (`Listed`, so that a restart gives everybody a row and
its frontier waits for them), and that a replica's own entry counts the
mutations it acknowledged (`Counted`). `DeltasAreAppliedOnce` (the action property
`AppliedOnce`) follows from `RInv` without more: a merge skips what the vector
covers, and the vector covers all that was applied. `RoundsArePublished`
(`GcPublished`) needs `GcInv`: the counter of every marker, applied or in flight,
is shown by a descriptor that no replica may still withdraw, and a round's old
descriptor has a lower counter than its new one.

**Joins and departures** (`MembershipProofs`): `MembershipIsHonest`
(`Spec => []MemberInv`), `MemberTypes`, `DotsStayUnique` and
`TheRunningStayListed`, without any hypothesis about who joins, leaves, collects
or fails. `MemberInv` rests on two quantities that only grow: the replicas that
have begun to shut down (`Gone`), and the last dot that a replica has of its own
(`Own`). Everything that travels, in a message, a descriptor, a snapshot, a final
payload, a listing or a round, names only replicas in `Gone` as departed, and
holds no dot beyond `Own`. `Own` counts nothing before the bootstrap ends, since
the download overwrites what the HTTP server accepted until then. That a running
replica stays listed takes the round's program counter: while a round may be
withdrawn there is another descriptor than its own, after that there is its own
(`IsListed`).
`FoundersKeepWhatTheyAcknowledge` (`AckedKept`) excludes joiners, of whom it is
false (`MCJoinAck`). `JoinersFindRoundsPublished` (`GcPublished`) excludes leavers,
with good reason: a leaver that has completed rounds up to counter 3 takes its
descriptors along when a slower collector, at its own counter 2, removes it; the
survivors that adopted marker 3 are then ahead of everything the directory shows.
It takes two collectors, one of which leaves. With joiners the
markers in use (`InUse`) include those of the shared snapshot and of a snapshot
somebody has read and not yet installed.

Stronger statements do not carry over from the fixed membership: a joiner may
panic (`join_panic`), so vectors, frontiers and retained deltas are not what they
are for founders, and a departed replica's deltas can be applied twice after a
failed deletion or a kill (`MCDepartReapply`, `MCDepartRestart`).

**OR-set** (`OrSetProofs`): `OrSetTypes`, `OrSetCorrect` (`Spec => []OrSetInv`),
`MergesNeverPanic`, `AdditionsWin`, `KnowledgeIsCausal` and `NothingComesBack` for
any number of replicas. `ImplementsIfCausal` and `ConvergedIfCausal`: if every
delta group in a behaviour lists a removal after what it removes (`CausalGroups`),
the OR-set implements `AddWinsSet`, and replicas with equal vectors have equal
entries. `TwoReplicasImplement` and `TwoReplicasConverge`: two replicas need no such
condition, since a group then has the deltas of one replica only. With three the
condition fails (`orset_order`). `OrSetInv` adds to the properties that a vector
counts the dots that exist, that logs hold what some replica lacks, and that what
a replica knows is closed under what its removals name.

**Views and tables** (`TablesProofs`): `ViewIndexCorrect`, `CompositeComplete`, and
from them `ViewQueriesCorrect` and `CompositeQueriesCorrect` (every query, through
whichever index, answers what the map says; a range that starts after its end, on
which `BTreeMap::range` panics, is the one query that need not answer); `ReducesAreExact`,
`ReadersAreUndisturbed`, and `TablesOwnTheirWeights`, the refinement of `ZSet`. The
invariant behind the tables is that a cell is only ever the same shard of several
tables, and that a task which still has a caller reads the cell its caller's table
has.

**Journal** (`JournalProofs`): `JournalTypes`; `JournalRecoverable`
(`AlwaysRecoverable`); `JournalDurable`, the refinement of `DurableState`. The
invariant relates what memory, log and snapshot would recover to, in each of the
files' possible pasts. `JournalRecoverable` assumes `~Early`: no mutation is logged
before the first snapshot (`MCJournalNoSnapshot`), and `OneKindOfCrash`: a behaviour
has kills or power failures, not both (`MCJournalTwoCrashes`). `JournalDurable`
also assumes that a mutation's append does not fail (`MCJournalFailedAppend`). Each
exclusion is a counterexample that its configuration exhibits.

**Network** (`NetworkProofs`): `NetworkTypes`, `ConnectionsAreUnique`
(`OneConnectionPerPeer`), `TheDeadStayDead`, `WritersAreFaithful` (a writer for a
peer belongs to a connection with that peer), for any number of replicas,
connections, reused addresses and faults. `NoCrossedAttempts` assumes that no
replica advertises an address above the one it binds, the condition under which
the dial rule of `src/network.rs`, which compares a bound address with an
advertised one, decides the same way at both ends (`MCNetworkMutual`).

Only model-checked. All liveness properties (`ComesUp`, `EventuallyConsistent`,
`Meshed`, `DepartedForgotten`): fairness is beyond this prover, as are `ENABLED` and
induction over data. `FinalStatePreserved`, and with a departure
`AppliedOnce`, `DeltasRetained`, `PullCompletes`, `VectorHonest` and `FrontierKnown`:
what they need of the final dots holds only for the instances' one leaver and one
collector.

## 5. Not modelled

- Formats: serialization, the text of descriptors, environment variables, files of
  tables, log output.
- The HTTP client, routing and parsing of the HTTP server: pure I/O. A resent
  mutation is one more mutation, which every module takes.
- The process lock of the journal, latency emulation, timer jitter, the wait of
  the network manager for bootstrap.
- Queries and iterators that only read, apart from those of the views.
- `map_reduce_active` without a runtime or with one shard, which reads in place.
- `DotSet::merge`, `Ord::cmp` and `is_concurrent_with`, which nothing calls.
- A replica that returns under an identity that was shut down: no code defines
  what it is owed.

## 6. Open ends

An inductive invariant for departures: what a completed round proves of a departed
replica's last dot when a single replica collects and nothing fails
(`FinalStatePreserved`, `AppliedOnce`). Kills composed with joins and departures
are checked in `MCDepartRestart` only.
