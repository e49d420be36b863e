-------------------------- MODULE FixedMembership --------------------------
(***************************************************************************)
(* What keeps a cluster with a fixed membership correct: the inductive     *)
(* invariant behind the safety properties of Replica when nobody joins and *)
(* nobody leaves.  In one sentence: every statement one replica holds about*)
(* another (a row of its matrix, a vector or a delta group under way, a    *)
(* stable frontier) lags behind the version vector it speaks of, and       *)
(* version vectors only grow.                                              *)
(***************************************************************************)
EXTENDS Replica

\* Every replica's version vector covers the frontier.
Behind(frontier) ==
  \A q, r \in Pids : Get(frontier, r) <= Get(rep[q].vv, r)

\* A replica on its own: the vector counts what was applied, the log holds only
\* applied deltas, all members have a row and nobody has departed.
LocalOK(s) ==
  /\ DOMAIN s.vv \subseteq Pids
  /\ \A r \in Pids : s.applied[r] = 0 .. Get(s.vv, r) /\ s.log[r] \subseteq s.applied[r]
  /\ Pids \subseteq DOMAIN s.matrix
  /\ DOMAIN s.finals = {} /\ s.marker.departed = {}

\* A row of a version matrix lags behind the replica it describes.
RowsBehind ==
  \A p, q, r \in Pids : Get(rep[p].matrix[q], r) <= Get(rep[q].vv, r)

\* A version vector lags, in every entry, behind the replica of that entry.
EntriesBehind ==
  \A p, r \in Pids : Get(rep[p].vv, r) <= Get(rep[r].vv, r)

\* A delta that a replica has and no longer logs is known to everybody.
LogsCover ==
  \A p, q, r \in Pids : \A c \in 0 .. Get(rep[p].vv, r) :
     c \in rep[p].log[r] \/ c <= Get(rep[q].vv, r)

\* A vector under way lags behind its sender.  A delta group under way holds
\* only dots that exist, and has no gap above the receiver's vector.
Fits(m) ==
  /\ m.kind = "vector" =>
       \A r \in Pids : Get(m.vv, r) <= Get(rep[m.from].vv, r)
  /\ m.kind = "delta" =>
       /\ m.gc.departed = {} /\ Behind(m.gc.stable)
       /\ \A r \in Pids : \A e \in m.list[r] :
            /\ e <= Get(rep[r].vv, r)
            /\ \A c \in 0 .. e : c > Get(rep[m.to].vv, r) => c \in m.list[r]

\* Nobody starts, stops, panics or departs.
NobodyMoves ==
  /\ \A d \in dir : d.final = {}
  /\ \A p \in Pids :
       /\ status[p] = "running" /\ todo[p] = {}
       /\ pc[p] \notin {"register", "list", "install", "departures", "departed"}
       /\ \A d \in UNION poll[p] : d.final = {}
       /\ \A r \in round[p] : r.marker.departed = {} /\ Behind(r.marker.stable)

\* The inductive invariant of a fixed membership.
FixedInv ==
  /\ TypeOK /\ NobodyMoves
  /\ \A p \in Pids : LocalOK(rep[p]) /\ Behind(rep[p].marker.stable)
  /\ RowsBehind /\ EntriesBehind /\ LogsCover
  /\ \A m \in msgs : Fits(m)
=============================================================================
