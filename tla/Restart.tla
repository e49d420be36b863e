------------------------------ MODULE Restart ------------------------------
(***************************************************************************)
(* Replicas that are killed and restart from their durability journal:     *)
(* Replica composed with what DurableState promises of the journal.        *)
(*                                                                         *)
(* Mutations, delta groups and GC markers are logged before they are       *)
(* applied, and replayed in the same order.  So the CRDT and the last GC   *)
(* marker are after recovery what they were, and rep keeps them.  Nothing  *)
(* else is logged: the version matrix and the final dots start again from  *)
(* the journal's snapshot, and only GC markers are replayed on them.  What *)
(* replay would give is in replayed.                                       *)
(*                                                                         *)
(* A record is logged and applied in one step here.  A kill between the two*)
(* is a kill after both; for a mutation, acked then also counts one that   *)
(* was accepted and not answered.                                          *)
(*                                                                         *)
(* A replica that is down is one that takes no steps.  It may be connected *)
(* again by anybody; Network says who really is.  Nobody joins here.       *)
(***************************************************************************)
EXTENDS Replica

CONSTANTS Crashers,   \* replicas that may be killed
          MaxCrashes  \* bound on the number of kills

ASSUME CrashersArePids == Crashers \subseteq Pids

VARIABLES replayed,  \* matrix and finals that recovery would give
          boot,      \* "up", or where a restarting replica is
          crashes    \* kills so far

rvars == <<vars, replayed, boot, crashes>>

\* What the replay of a GC marker does to the wrapper w of p.
ReplayedMarker(w, p, m) ==
  [matrix |-> ApplyMarker(w.matrix, w.finals, p, m),
   finals |-> RemovePids(w.finals, Removable(w.matrix, w.finals, m.departed))]

\* append_gc_marker, by every replica that applies a marker in this step
Journaled ==
  replayed' = [p \in Pids |->
                 IF rep'[p].marker = rep[p].marker THEN replayed[p]
                 ELSE ReplayedMarker(replayed[p], p, rep'[p].marker)]

\* Mutant: the snapshot is recovered without the log behind it.
RecoveredUnlogged(p) ==
  Rebound([NewRep(p) EXCEPT !.marker = rep[p].marker], p)

\* with_config: the recovered replica, its own row rebound to its vector.  (Here
\* the row also has what clients mutated since; it is refreshed before it is
\* used.)
Recovered(p) ==
  LET crdt == [rep[p] EXCEPT !.matrix = replayed[p].matrix]
  IN Rebound([crdt EXCEPT !.finals = replayed[p].finals], p)

\* The process of p is killed: connections, the round in progress and everything
\* read from object storage are gone.
Killed(p) ==
  /\ p \in Crashers /\ crashes < MaxCrashes /\ status[p] = "running"
  /\ crashes' = crashes + 1
  /\ boot' = [boot EXCEPT ![p] = "register"]
  /\ writers' = [writers EXCEPT ![p] = {}]
  /\ poll' = [poll EXCEPT ![p] = {}]
  /\ todo' = [todo EXCEPT ![p] = {}]
  /\ round' = [round EXCEPT ![p] = {}]
  /\ pc' = [pc EXCEPT ![p] = "loop"]
  /\ UNCHANGED <<status, acked, msgs, storage, cache, fetched>>

\* ... wherever its run loop is, or before it has begun.
Crash(p) == Killed(p) /\ UNCHANGED <<rep, replayed>>

\* ... in handle_delta, with the sender's marker logged and the group not.
CrashInDelta(p, m) ==
  /\ boot[p] = "up" /\ Idle(p) /\ m.kind = "delta" /\ m.to = p
  /\ Get(m.vv, Stable) >= rep[p].marker.counter /\ m.gc.counter > rep[p].marker.counter
  /\ rep' = [rep EXCEPT ![p] = Observed(rep[p], p, m.gc)]
  /\ Journaled
  /\ Killed(p)

\* bootstrap_from_durability: put-if-absent of the descriptor with the recovered
\* GC counter ...
Reregister(p) ==
  /\ boot[p] = "register"
  /\ dir' = dir \cup {Active(p, rep[p].marker.counter)}
  /\ boot' = [boot EXCEPT ![p] = "list"]
  /\ UNCHANGED <<status, rep, acked, network, payload, snapshot, control, replayed, crashes>>

\* ... and a listing, whose members Replica::run gives a row each.  What was sent
\* to the process that was killed is lost.
Rejoin(p) ==
  /\ boot[p] = "list"
  /\ cache' = [cache EXCEPT ![p] = dir]
  /\ rep' = [rep EXCEPT ![p] =
       [Recovered(p) EXCEPT !.matrix = InsertPids(@, Discovered(dir, p))]]
  /\ msgs' = {m \in msgs : m.to # p}
  /\ boot' = [boot EXCEPT ![p] = "up"]
  /\ UNCHANGED <<status, acked, writers, storage, poll, fetched, todo, round, pc,
                 replayed, crashes>>

\* The connection to a killed peer breaks, and its writer is dropped.
LoseWriter(p, q) ==
  /\ boot[q] # "up" /\ q \in writers[p]
  /\ writers' = [writers EXCEPT ![p] = @ \ {q}]
  /\ UNCHANGED <<status, rep, acked, msgs, storage, control, replayed, boot, crashes>>

\* Steps of Replica, by replicas that are up; the HTTP server of a restarting
\* replica accepts mutations already.
Step ==
  \/ \E p \in Pids : boot[p] = "up" /\ (RunLoop(p) \/ Poll(p) \/ StopHttp(p))
  \/ \E p \in Pids : Mutate(p)
  \/ \E p, q \in Pids : boot[p] = "up" /\ boot[q] = "up" /\ Connect(p, q)
  \/ \E m \in msgs : Discard(m)

-----------------------------------------------------------------------------
\* The founders' journals hold the snapshot that each wrote at bootstrap.
RInit ==
  /\ Init
  /\ replayed = [p \in Pids |-> [matrix |-> NewRep(p).matrix, finals |-> NewRep(p).finals]]
  /\ boot = [p \in Pids |-> "up"]
  /\ crashes = 0

RNext ==
  \/ Step /\ Journaled /\ UNCHANGED <<boot, crashes>>
  \/ \E p \in Pids : Crash(p) \/ Reregister(p) \/ Rejoin(p)
  \/ \E p \in Pids : \E m \in msgs : CrashInDelta(p, m)
  \/ \E p, q \in Pids : LoseWriter(p, q)

RSpec == RInit /\ [][RNext]_rvars
=============================================================================
