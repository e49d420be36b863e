------------------------------- MODULE OrSet -------------------------------
(***************************************************************************)
(* The value of the OR-set of src/src/orset.rs: what insertions, removals, *)
(* delta groups and garbage collection do to the entries, next to the      *)
(* version vector and the delta log that Replica already knows.            *)
(*                                                                         *)
(* A delta never changes once it exists, and its dot identifies it.  So    *)
(* the contents of all deltas are in one function, change, and entries,    *)
(* logs and messages hold dots.  HashMap<T, Vec<Dot>>, which has no key    *)
(* without a dot, is the set of its dots.                                  *)
(*                                                                         *)
(* Messages may be lost, delayed and overtaken.  Of a GC round only the    *)
(* frontier matters here, and of the frontier only that every replica      *)
(* covers it (theorem FrontiersAreStable of ReplicaProofs).  Replicas do   *)
(* not depart here; gc with departed identifiers is in Replica.            *)
(***************************************************************************)
EXTENDS DotSets

CONSTANTS Pids,        \* replicas
          Elements,    \* what the set may hold
          Collectors,  \* replicas that collect garbage
          MaxOps,      \* bound on the mutations of one replica
          MaxTotal,    \* bound on the mutations of all of them
          MaxMsgs      \* bound on the messages under way

ASSUME PidsFinite == IsFiniteSet(Pids)
ASSUME MaxOpsNat == MaxOps \in Nat
ASSUME CollectorsArePids == Collectors \subseteq Pids

VARIABLES vector,    \* version_vector of each replica
          deltaLog,  \* delta_log of each replica
          entries,   \* entries of each replica: the dots in it
          change,    \* history: what the delta of each dot says
          msgs       \* messages under way

vars == <<vector, deltaLog, entries, change, msgs>>

Dots == Pids \X (0 .. MaxOps - 1)

\* p has applied the delta of dot d.
Knows(p, d) == Contains(vector[p], d[1], d[2])

\* OrSetQuery::Elements, and Contains(e) for each of them
Shown(p) == {change[d].element : d \in entries[p]}

\* The dots stored for element e.
Stored(p, e) == {d \in entries[p] : change[d].element = e}

-----------------------------------------------------------------------------
(* ORSet::mutate                                                           *)

\* next_dot
Allocated(p) == <<p, NextCounter(vector[p], p)>>

\* What every mutation does: allocate a dot, log the delta.
Mutate(p, x) ==
  LET d == Allocated(p)
  IN /\ d[2] < MaxOps /\ Cardinality(DOMAIN change) < MaxTotal
     /\ vector' = [vector EXCEPT ![p] = SetCounter(@, p, d[2])]
     /\ deltaLog' = [deltaLog EXCEPT ![p][p] = @ \cup {d[2]}]
     /\ change' = [c \in DOMAIN change \cup {d} |-> IF c = d THEN x ELSE change[c]]
     /\ UNCHANGED msgs

Insert(p, e) ==
  /\ Mutate(p, [kind |-> "insert", element |-> e, removed |-> {}])
  /\ entries' = [entries EXCEPT ![p] = @ \cup {Allocated(p)}]

\* The dots that the replica stores for the element are removed, and named in
\* the delta; there may be none.
Remove(p, e) ==
  /\ Mutate(p, [kind |-> "remove", element |-> e, removed |-> Stored(p, e)])
  /\ entries' = [entries EXCEPT ![p] = @ \ Stored(p, e)]

-----------------------------------------------------------------------------
(* Delta groups.                                                           *)

\* The orders in which get_all_greater_iter may list the replicas of a group:
\* those in the requester's vector first, each part as the hash map has it.
Orders(list, known) ==
  LET S == {q \in Pids : list[q] # {}}
  IN {o \in [S -> 1 .. Cardinality(S)] :
        /\ \A q, r \in S : o[q] = o[r] => q = r
        /\ \A q, r \in S : q \in known /\ r \notin known => o[q] < o[r]}

\* Delta i comes before delta r in group m; one replica's deltas are ascending.
Precedes(m, i, r) ==
  IF i[1] = r[1] THEN i[2] < r[2] ELSE m.order[i[1]] < m.order[r[1]]

\* Mutant: only the version vector skips what it contains.
NewsAll(p, m) == {d \in Dots : d[2] \in m.list[d[1]]}

\* The deltas of a group that merge_delta_group does not skip.
News(p, m) == {d \in Dots : d[2] \in Missing(vector[p], m.list, d[1])}

\* Mutant: an insertion of the group outlives a removal of the group.
MergedEntriesInsertsLast(p, m) ==
  LET new     == News(p, m)
      inserts == {d \in new : change[d].kind = "insert"}
      removes == new \ inserts
  IN {i \in entries[p] \cup inserts :
        \A r \in removes : i \in change[r].removed => i \in inserts}

\* Mutant: a removal takes away all the dots of its element.
MergedEntriesByElement(p, m) ==
  LET new     == News(p, m)
      inserts == {d \in new : change[d].kind = "insert"}
      removes == new \ inserts
  IN {i \in entries[p] \cup inserts :
        \A r \in removes : change[i].element # change[r].element}

\* merge_delta_group on the entries: a removal takes away what is there when
\* its turn comes, and an insertion later in the list stays.
MergedEntries(p, m) ==
  LET new     == News(p, m)
      inserts == {d \in new : change[d].kind = "insert"}
      removes == new \ inserts
  IN {i \in entries[p] \cup inserts :
        \A r \in removes :
           i \in change[r].removed => i \in inserts /\ Precedes(m, r, i)}

\* pull_delta: p sends its vector to q.
Request(p, q) ==
  /\ p # q /\ Cardinality(msgs) < MaxMsgs
  /\ msgs' = msgs \cup {[kind |-> "vector", from |-> p, to |-> q, vv |-> vector[p]]}
  /\ UNCHANGED <<vector, deltaLog, entries, change>>

\* get_delta, called by handle_version_vector
Answer(p, m) ==
  /\ m.kind = "vector" /\ m.to = p
  /\ LET list == GetAllGreater(deltaLog[p], m.vv)
     IN \E o \in Orders(list, DOMAIN m.vv) :
          msgs' = (msgs \ {m}) \cup
                    {[kind |-> "delta", from |-> p, to |-> m.from,
                      list |-> list, order |-> o]}
  /\ UNCHANGED <<vector, deltaLog, entries, change>>

\* merge_delta_group, as far as the assertion of DotSet::insert lets it.
Merge(p, m) ==
  /\ m.kind = "delta" /\ m.to = p /\ Insertable(vector[p], m.list)
  /\ vector' = [vector EXCEPT ![p] = MergedVector(@, m.list)]
  /\ deltaLog' = [deltaLog EXCEPT ![p] = MergedLog(@, vector[p], m.list)]
  /\ entries' = [entries EXCEPT ![p] = MergedEntries(p, m)]
  /\ msgs' = msgs \ {m}
  /\ UNCHANGED change

\* A full queue, a broken connection, a group of an older GC round.
Lose(m) ==
  /\ msgs' = msgs \ {m}
  /\ UNCHANGED <<vector, deltaLog, entries, change>>

\* ORSet::gc with a frontier that every replica covers and nobody departed.
Gc(p, stable) ==
  /\ \A q, r \in Pids : Get(stable, r) <= Get(vector[q], r)
  /\ deltaLog' = [deltaLog EXCEPT ![p] = Retain(@, stable, {})]
  /\ UNCHANGED <<vector, entries, change, msgs>>

-----------------------------------------------------------------------------
Init ==
  /\ vector = [p \in Pids |-> NewDotSet]
  /\ deltaLog = [p \in Pids |-> [q \in Pids |-> {}]]
  /\ entries = [p \in Pids |-> {}]
  /\ change = [d \in {} |-> d]
  /\ msgs = {}

Next ==
  \/ \E p \in Pids, e \in Elements : Insert(p, e) \/ Remove(p, e)
  \/ \E p, q \in Pids : Request(p, q)
  \/ \E m \in msgs : Answer(m.to, m)
  \/ \E m \in msgs : Merge(m.to, m)
  \/ \E m \in msgs : Lose(m)
  \/ \E p \in Collectors, stable \in [Pids -> -1 .. MaxOps - 1] : Gc(p, stable)

Spec == Init /\ [][Next]_vars

\* Anti-entropy is periodic and picks every peer again and again; connections
\* may lose messages, but not all of them forever.  Clients and GC owe nothing.
Fairness ==
  \A p \in Pids : \A q \in Pids \ {p} :
     /\ SF_vars(Request(p, q))
     /\ SF_vars(\E m \in msgs : m.from = q /\ Answer(p, m))
     /\ SF_vars(\E m \in msgs : m.from = q /\ Merge(p, m))

FairSpec == Spec /\ Fairness

-----------------------------------------------------------------------------
(* Properties.                                                             *)

Vector(f) == DOMAIN f \subseteq Pids /\ f \in [DOMAIN f -> 0 .. MaxOps - 1]

Deltas == [kind : {"insert", "remove"}, element : Elements, removed : SUBSET Dots]

MessageOK(m) ==
  /\ m.from \in Pids /\ m.to \in Pids
  /\ \/ DOMAIN m = {"kind", "from", "to", "vv"} /\ m.kind = "vector" /\ Vector(m.vv)
     \/ /\ DOMAIN m = {"kind", "from", "to", "list", "order"}
        /\ m.kind = "delta" /\ m.list \in [Pids -> SUBSET (0 .. MaxOps - 1)]
        /\ m.order \in [{q \in Pids : m.list[q] # {}} -> Nat]

\* Vectors, logs, entries, deltas and messages have their types.
TypeOK ==
  /\ DOMAIN vector = Pids /\ \A p \in Pids : Vector(vector[p])
  /\ deltaLog \in [Pids -> [Pids -> SUBSET (0 .. MaxOps - 1)]]
  /\ entries \in [Pids -> SUBSET Dots]
  /\ DOMAIN change \subseteq Dots /\ change \in [DOMAIN change -> Deltas]
  /\ \A m \in msgs : MessageOK(m)

\* The assertion of DotSet::insert holds for every delta group under way,
\* whatever was lost, delayed or collected since it was asked for.
MergeNeverPanics ==
  \A m \in msgs : m.kind = "delta" => Insertable(vector[m.to], m.list)

\* Additions win: a replica that has applied an insertion and does not store it
\* has applied a removal whose replica had seen that insertion.
NoLostInsert ==
  \A p \in Pids : \A i \in DOMAIN change :
     change[i].kind = "insert" /\ Knows(p, i) /\ i \notin entries[p] =>
        \E r \in DOMAIN change : Knows(p, r) /\ i \in change[r].removed

\* A dot that a replica applied and does not store any more never comes back,
\* whatever delta groups arrive late or twice.
NoResurrection ==
  [][\A p \in Pids : \A d \in entries'[p] \ entries[p] : ~Knows(p, d)]_vars

\* Replicas with the same version vector show the same set.
Converged ==
  \A p, q \in Pids :
     (\A r \in Pids : Get(vector[p], r) = Get(vector[q], r)) =>
        entries[p] = entries[q]

\* "Delta group is a set of Deltas that are causally ordered": among the deltas
\* that the receiver lacks, no removal precedes an insertion it names.
CausalGroups ==
  \A m \in msgs : m.kind = "delta" =>
     \A r \in News(m.to, m) : \A i \in change[r].removed \cap News(m.to, m) :
        Precedes(m, i, r)

\* The refinement mapping: the dots each replica's vector counts.
KnownDots == [p \in Pids |-> {d \in DOMAIN change : Knows(p, d)}]

\* The OR-set implements the add-wins set: what merging deltas one after the
\* other, from logs that are collected, gives is the set of live insertions
\* among all the changes the version vector counts.
Abstract == INSTANCE AddWinsSet WITH known <- KnownDots, value <- entries

AddWins == Abstract!Spec

\* Delta d is in group m.
Lists(m, d) == d[2] \in m.list[d[1]]

\* A replica's vector counts dots that exist, its own all of them.
VectorsCount ==
  /\ DOMAIN change = {d \in Dots : Knows(d[1], d)}
  /\ \A p \in Pids : \A d \in Dots : Knows(p, d) => Knows(d[1], d)

\* A log holds what its replica has applied, and all of it that another lacks.
LogsCover ==
  \A p \in Pids : \A d \in Dots :
     /\ d[2] \in deltaLog[p][d[1]] => Knows(p, d)
     /\ \A q \in Pids : Knows(p, d) /\ ~Knows(q, d) => d[2] \in deltaLog[p][d[1]]

\* Removals name insertions that were there before them.
RemovalsLater ==
  \A r \in DOMAIN change : \A i \in change[r].removed :
     /\ i \in DOMAIN change /\ change[i].kind = "insert"
     /\ i[1] = r[1] => i[2] < r[2]

\* Insertions remove nothing.
InsertsRemoveNothing ==
  \A d \in DOMAIN change : change[d].kind = "insert" => change[d].removed = {}

\* Entries are insertions that the replica has applied.
EntriesKnown ==
  \A p \in Pids : \A d \in entries[p] :
     d \in DOMAIN change /\ change[d].kind = "insert" /\ Knows(p, d)

\* A replica that has applied a removal has applied what it removes.
CausallyClosed ==
  \A p \in Pids : \A r \in DOMAIN change :
     Knows(p, r) => \A i \in change[r].removed : Knows(p, i)

\* A vector under way lags behind its sender.  What a delta group under way
\* builds on, its receiver has or the group holds.
Fits(m) ==
  /\ m.kind = "vector" =>
       \A d \in Dots : Contains(m.vv, d[1], d[2]) => Knows(m.from, d)
  /\ m.kind = "delta" =>
       \A d \in Dots : Lists(m, d) =>
          /\ Knows(m.from, d)
          /\ \A c \in 0 .. d[2] : Lists(m, <<d[1], c>>) \/ Knows(m.to, <<d[1], c>>)
          /\ \A i \in change[d].removed : Lists(m, i) \/ Knows(m.to, i)

\* The inductive invariant, for any number of replicas.
OrSetInv ==
  /\ TypeOK /\ VectorsCount /\ LogsCover
  /\ RemovalsLater /\ InsertsRemoveNothing
  /\ EntriesKnown /\ CausallyClosed /\ NoLostInsert
  /\ \A m \in msgs : Fits(m)

\* What a removal names is gone where the removal was applied: with NoLostInsert,
\* the entries are exactly the live insertions.
RemovalsEffective ==
  \A p \in Pids : \A r \in DOMAIN change :
     Knows(p, r) => change[r].removed \cap entries[p] = {}

\* When clients stop mutating (they do here: MaxTotal), all replicas come to
\* know every acknowledged mutation and to show the same set for good, although
\* messages are lost and deltas leave the logs once they are stable.
EventuallyConsistent ==
  <>[](\A p \in Pids : /\ \A d \in DOMAIN change : Knows(p, d)
                       /\ \A q \in Pids : Shown(p) = Shown(q))
=============================================================================
