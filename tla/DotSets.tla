------------------------------ MODULE DotSets ------------------------------
(***************************************************************************)
(* The causality data types of src/src/dots.rs.                            *)
(*                                                                         *)
(* A DotSet (a hash map from replica identifiers to counters) is a         *)
(* function whose domain is the set of keys present in the map: a missing  *)
(* key and a key at -1 are different values, as they are in the code.      *)
(*                                                                         *)
(* A DotMap (the delta log of a CRDT) is a function from identifiers to    *)
(* the set of counters whose delta is retained.  The code keeps, per       *)
(* identifier, a vector in ascending counter order; the order among one    *)
(* identifier's dots is thus determined by the set.  What a delta says is  *)
(* abstracted away here.                                                   *)
(***************************************************************************)
EXTENDS Integers, FiniteSetsExt

\* DotSet::new
NewDotSet == [p \in {} |-> -1]

\* DotSet::get: the first dot of a replica has counter 0, "nothing" is -1.
Get(vv, p) == IF p \in DOMAIN vv THEN vv[p] ELSE -1

\* DotSet::contains: a missing key contains no dot, not even counter -1.
Contains(vv, p, c) == p \in DOMAIN vv /\ vv[p] >= c

\* DotSet::set_counter
SetCounter(vv, p, c) ==
  [q \in DOMAIN vv \cup {p} |-> IF q = p THEN c ELSE vv[q]]

\* DotSet::remove_pid, for every identifier of D.
RemovePids(vv, D) == [q \in DOMAIN vv \ D |-> vv[q]]

\* Mutant: the first dot has the counter that stands for none.
NextCounterFromNone(vv, p) == IF p \in DOMAIN vv THEN vv[p] + 1 ELSE -1

\* Mutant: the first dot has counter 1.
NextCounterFromOne(vv, p) == IF p \in DOMAIN vv THEN vv[p] + 1 ELSE 1

\* DotSet::increment_and_get: the counter of the allocated dot.
NextCounter(vv, p) == IF p \in DOMAIN vv THEN vv[p] + 1 ELSE 0

-----------------------------------------------------------------------------
\* Mutant: replicas the requester does not know are left out.
GetAllGreaterKnown(log, vv) ==
  [p \in DOMAIN log |->
     IF p \in DOMAIN vv THEN {c \in log[p] : c > vv[p]} ELSE {}]

\* DotMap::get_all_greater_iter: for a key of vv the retained dots above it
\* (get_greater_iter), for any other key all of them.
GetAllGreater(log, vv) ==
  [p \in DOMAIN log |->
     IF p \in DOMAIN vv THEN {c \in log[p] : c > vv[p]} ELSE log[p]]

\* Mutant: the delta just above the frontier is dropped as well.
RetainAbove(log, stable, departed) ==
  [p \in DOMAIN log |->
     {c \in log[p] : ~Contains(stable, p, c - 1) /\ p \notin departed}]

\* DotMap::retain as ORSet::gc calls it: a delta survives when the stable
\* frontier does not cover it and its replica has not departed.
Retain(log, stable, departed) ==
  [p \in DOMAIN log |->
     {c \in log[p] : ~Contains(stable, p, c) /\ p \notin departed}]

\* The dots of a delta group that merge_delta_group does not skip.
Missing(vv, list, p) == {c \in list[p] : ~Contains(vv, p, c)}

\* DotSet::insert asserts that a dot follows its predecessor; a first dot of an
\* unknown replica is accepted whatever its counter.  The group is applied in
\* ascending order per replica, so the assertion holds throughout exactly when
\* every missing dot follows another one or the version vector's entry.
Insertable(vv, list) ==
  \A p \in DOMAIN list : \A c \in Missing(vv, list, p) :
     \/ c - 1 \in Missing(vv, list, p)
     \/ p \in DOMAIN vv /\ c = vv[p] + 1
     \/ p \notin DOMAIN vv /\ \A e \in Missing(vv, list, p) : c <= e

\* merge_delta_group on the version vector ...
MergedVector(vv, list) ==
  [p \in DOMAIN vv \cup {q \in DOMAIN list : Missing(vv, list, q) # {}} |->
     IF p \in DOMAIN list /\ Missing(vv, list, p) # {}
     THEN Max(Missing(vv, list, p)) ELSE vv[p]]

\* ... and on the delta log.
MergedLog(log, vv, list) ==
  [p \in DOMAIN log |->
     IF p \in DOMAIN list THEN log[p] \cup Missing(vv, list, p) ELSE log[p]]
=============================================================================
