--------------------------- MODULE ReplicaLemmas ---------------------------
(***************************************************************************)
(* Lemmas about the operators Replica is built from (minima and maxima,    *)
(* version vectors, delta logs and delta groups, listings) and about its   *)
(* membership directory: which GC rounds stay published.                   *)
(***************************************************************************)
EXTENDS FixedMembership, Membership, WellFoundedInduction, TLAPS

-----------------------------------------------------------------------------
(* Minima and maxima of sets of integers.                                  *)

\* Every non-empty set of natural numbers has a least element.
LEMMA NatLeast ==
  ASSUME NEW U \in SUBSET Nat, U # {}
  PROVE  \E x \in U : \A y \in U : x <= y
<1> DEFINE Below == {ss \in Nat \X Nat : ss[1] < ss[2]}
<1>1. \E x \in U : \A y \in U : ~(<<y, x>> \in OpToRel(<, Nat))
  BY NatLessThanWellFounded, WFMin, Zenon
<1>2. OpToRel(<, Nat) = Below
  BY Zenon DEF OpToRel
<1>3. \E x \in U : \A y \in U : ~(<<y, x>> \in Below)
  BY <1>1, <1>2, Zenon
<1>4. PICK x \in U : \A y \in U : ~(<<y, x>> \in Below)
  BY <1>3
<1>5. ASSUME NEW y \in U PROVE x <= y
  <2>1. <<y, x>> \notin Below
    BY <1>4
  <2>2. x \in Nat /\ y \in Nat
    OBVIOUS
  <2>. QED  BY <2>1, <2>2
<1>. QED  BY <1>5

\* Min, as the stable frontier uses it.
LEMMA MinProperty ==
  ASSUME NEW U \in SUBSET Int, U # {}, NEW b \in Int, \A x \in U : b <= x
  PROVE  Min(U) \in U /\ \A y \in U : Min(U) <= y
<1> DEFINE T == {x - b : x \in U}
<1>1. \A t \in T : t \in Nat
  OBVIOUS
<1>2. T \in SUBSET Nat /\ T # {}
  BY <1>1, Zenon
<1> HIDE DEF T
<1>3. PICK t \in T : \A u \in T : t <= u
  BY <1>2, NatLeast
<1>4. PICK x \in U : t = x - b
  BY <1>3 DEF T
<1>5. \A y \in U : x <= y
  BY <1>3, <1>4 DEF T
<1>. QED  BY <1>5, Zenon DEF Min

\* Max, as the merge of a delta group uses it.
LEMMA MaxProperty ==
  ASSUME NEW U \in SUBSET Int, U # {}, NEW b \in Int, \A x \in U : x <= b
  PROVE  Max(U) \in U /\ \A y \in U : y <= Max(U)
<1> DEFINE T == {b - x : x \in U}
<1>1. \A t \in T : t \in Nat
  OBVIOUS
<1>2. T \in SUBSET Nat /\ T # {}
  BY <1>1, Zenon
<1> HIDE DEF T
<1>3. PICK t \in T : \A u \in T : t <= u
  BY <1>2, NatLeast
<1>4. PICK x \in U : t = b - x
  BY <1>3 DEF T
<1>5. \A y \in U : y <= x
  BY <1>3, <1>4 DEF T
<1>. QED  BY <1>5, Zenon DEF Max

-----------------------------------------------------------------------------
(* The operators on vectors, logs and listings.                            *)

\* An entry of a well-typed DotSet is an integer, at least -1.
LEMMA GetType ==
  ASSUME NEW v, IsDotSet(v), NEW r
  PROVE  Get(v, r) \in Int /\ Get(v, r) >= -1
BY DEF IsDotSet, Get

\* The vector a replica sends is its own, with the GC counter added.
LEMMA OutgoingProperty ==
  ASSUME NEW s, IsRep(s)
  PROVE  IsDotSet(Outgoing(s)) /\ \A r \in Pids : Get(Outgoing(s), r) = Get(s.vv, r)
BY ConstantsAssumption, SMTT(30) DEF Outgoing, SetCounter, IsRep, IsMarker, IsDotSet, Get, Columns

\* What is left of a DotMap, or comes with a bound, is a DotMap.
LEMMA BoundedDotMap ==
  ASSUME NEW l \in [Pids -> SUBSET Nat],
         \A r \in Pids : \E b \in Int : \A e \in l[r] : e <= b
  PROVE  IsDotMap(l)
<1> SUFFICES ASSUME NEW r \in Pids, l[r] # {}
             PROVE  \E c \in l[r] : \A e \in l[r] : e <= c
  BY DEF IsDotMap
<1>1. PICK b \in Int : \A e \in l[r] : e <= b
  OBVIOUS
<1>2. l[r] \in SUBSET Int
  OBVIOUS
<1>. QED  BY <1>1, <1>2, MaxProperty, Zenon

\* DotMap::get_all_greater_iter: what the log has above the vector.
LEMMA GreaterProperty ==
  ASSUME NEW log, IsDotMap(log), NEW v, IsDotSet(v)
  PROVE  /\ GetAllGreater(log, v) \in [Pids -> SUBSET Nat]
         /\ \A r \in Pids : \A c : c \in GetAllGreater(log, v)[r] <=> c \in log[r] /\ c > Get(v, r)
<1>1. log \in [Pids -> SUBSET Nat]
  BY DEF IsDotMap
<1>2. ASSUME NEW r \in Pids
      PROVE  GetAllGreater(log, v)[r] = {c \in log[r] : c > Get(v, r)}
  <2>1. CASE r \in DOMAIN v
    BY <1>1, <2>1 DEF GetAllGreater, Get
  <2>2. CASE r \notin DOMAIN v
    BY <1>1, <2>2 DEF GetAllGreater, Get
  <2>. QED  BY <2>1, <2>2
<1>3. GetAllGreater(log, v) = [r \in Pids |-> GetAllGreater(log, v)[r]]
  BY <1>1 DEF GetAllGreater
<1>. QED  BY <1>1, <1>2, <1>3

\* Replica::membership_gc_counters_by_pid
LEMMA GcCountersType ==
  ASSUME NEW members, \A d \in members : IsDescriptor(d)
  PROVE  /\ DOMAIN GcCounters(members) \subseteq Pids
         /\ GcCounters(members) \in [DOMAIN GcCounters(members) -> 0 .. MaxGc]
<1> DEFINE gcs(p) == {d.gc : d \in {e \in members : e.pid = p}}
           ps == {d.pid : d \in members}
<1>1. ps \subseteq Pids
  BY DEF IsDescriptor
<1>2. ASSUME NEW p \in ps PROVE Max(gcs(p)) \in 0 .. MaxGc
  <2>1. gcs(p) # {} /\ gcs(p) \subseteq 0 .. MaxGc
    BY DEF IsDescriptor
  <2> HIDE DEF gcs
  <2>2. gcs(p) \in SUBSET Int /\ MaxGc \in Int /\ \A x \in gcs(p) : x <= MaxGc
    BY <2>1, ConstantsAssumption, SMTT(30)
  <2>. QED  BY <2>1, <2>2, MaxProperty, Zenon
<1>3. GcCounters(members) = [p \in ps |-> Max(gcs(p))]
  BY DEF GcCounters
<1> HIDE DEF ps, gcs
<1>. QED  BY <1>1, <1>2, <1>3

-----------------------------------------------------------------------------
(* The types of what Replica computes.                                     *)

\* The rows of a version matrix are vectors.
IsMatrix(M) ==
  /\ M = [q \in DOMAIN M |-> M[q]]
  /\ DOMAIN M \subseteq Columns /\ \A q \in DOMAIN M : IsDotSet(M[q])

\* DotSet::set_counter
LEMMA SetCounterType ==
  ASSUME NEW v, IsDotSet(v), NEW q \in Columns, NEW c \in Int, c >= -1
  PROVE  /\ IsDotSet(SetCounter(v, q, c)) /\ DOMAIN SetCounter(v, q, c) = DOMAIN v \cup {q}
         /\ \A r \in Pids : Get(SetCounter(v, q, c), r) = IF r = q THEN c ELSE Get(v, r)
BY SMTT(30) DEF SetCounter, IsDotSet, Get

\* DotSet::remove_pid
LEMMA RemovePidsType ==
  ASSUME NEW v, IsDotSet(v), NEW D
  PROVE  /\ IsDotSet(RemovePids(v, D)) /\ DOMAIN RemovePids(v, D) = DOMAIN v \ D
         /\ \A r \in Pids : Get(RemovePids(v, D), r) = IF r \in D THEN -1 ELSE Get(v, r)
BY SMTT(30) DEF RemovePids, IsDotSet, Get

\* VersionMatrix::update
LEMMA UpdateType ==
  ASSUME NEW M, IsMatrix(M), NEW p, NEW q \in Pids, NEW v, IsDotSet(v)
  PROVE  IsMatrix(Update(M, p, q, v))
<1>1. Update(M, p, q, v) = M
      \/ Update(M, p, q, v) = [x \in DOMAIN M \cup {q} |-> IF x = q THEN v ELSE M[x]]
  BY DEF Update
<1>. QED  BY <1>1 DEF IsMatrix, Columns

\* VersionMatrix::insert_pid
LEMMA InsertPidsType ==
  ASSUME NEW M, IsMatrix(M), NEW gcs, DOMAIN gcs \subseteq Pids,
         \A q \in DOMAIN gcs : gcs[q] \in Int /\ gcs[q] >= -1
  PROVE  IsMatrix(InsertPids(M, gcs))
<1>1. \A q \in DOMAIN gcs : IsDotSet(NewRow(q, gcs[q]))
  BY SMTT(30) DEF NewRow, IsDotSet, Columns
<1> DEFINE new(q) == NewRow(q, gcs[q])
<1>2. InsertPids(M, gcs) = [q \in DOMAIN M \cup DOMAIN gcs |->
                              IF q \in DOMAIN M THEN M[q] ELSE new(q)]
  BY DEF InsertPids
<1>3. \A q \in DOMAIN gcs : IsDotSet(new(q))
  BY <1>1
<1> HIDE DEF new
<1>. QED  BY <1>2, <1>3 DEF IsMatrix, Columns

\* VersionMatrix::apply_gc_marker
LEMMA ApplyMarkerType ==
  ASSUME NEW M, IsMatrix(M), NEW finals, NEW p, NEW m, IsMarker(m)
  PROVE  IsMatrix(ApplyMarker(M, finals, p, m))
<1> DEFINE D == Removable(M, finals, m.departed)
           rows == RemoveRows(M, D)
           stable == SetCounter(m.stable, Stable, m.counter)
           own(q) == SetCounter(rows[q], Stable, m.counter)
<1>1. Stable \in Columns /\ m.counter \in Int /\ m.counter >= -1 /\ IsDotSet(m.stable)
  BY ConstantsAssumption DEF IsMarker, Columns
<1>2. /\ DOMAIN rows = DOMAIN M \ D
      /\ \A q \in DOMAIN rows : rows[q] = RemovePids(M[q], D)
  BY DEF RemoveRows
<1> HIDE DEF rows, D
<1>3. ASSUME NEW q \in DOMAIN rows PROVE IsDotSet(rows[q])
  <2>1. q \in DOMAIN M /\ IsDotSet(M[q]) /\ rows[q] = RemovePids(M[q], D)
    BY <1>2 DEF IsMatrix
  <2>2. IsDotSet(RemovePids(M[q], D))
    BY <2>1, RemovePidsType, Zenon
  <2>. QED  BY <2>1, <2>2
<1>4. IsDotSet(stable) /\ \A q \in DOMAIN rows : IsDotSet(own(q))
  BY <1>1, <1>3, SetCounterType, Zenon
<1>5. ApplyMarker(M, finals, p, m)
        = [q \in DOMAIN rows \cup {Stable} |->
             IF q = Stable THEN stable ELSE IF q = p THEN own(q) ELSE rows[q]]
  BY Zenon DEF ApplyMarker, rows, D
<1> HIDE DEF stable, own
<1>6. DOMAIN rows \subseteq Columns
  BY <1>2 DEF IsMatrix
<1>. QED  BY <1>1, <1>3, <1>4, <1>5, <1>6 DEF IsMatrix

\* VersionMatrix::get_stable: without an observer the frontier is empty.
LEMMA FrontierType ==
  ASSUME NEW M, IsMatrix(M), NEW finals, NEW p
  PROVE  IsDotSet(StableFrontier(M, finals, p))
<1> DEFINE F == StableFrontier(M, finals, p)
           obs == ObserverRows(M, finals, p)
           cols == (obs \cup UNION {DOMAIN M[x] : x \in obs}) \ DepartedPids(M, finals)
           entries(q) == {Get(M[x], q) : x \in obs}
<1>1. F = [q \in cols |-> Min(entries(q))]
  BY DEF StableFrontier
<1>2. obs \subseteq DOMAIN M /\ \A x \in obs : IsDotSet(M[x])
  BY DEF ObserverRows, IsMatrix
<1>3. cols \subseteq Columns
  BY <1>2 DEF IsDotSet, IsMatrix
<1>4. ASSUME NEW q \in cols PROVE Min(entries(q)) \in Int /\ Min(entries(q)) >= -1
  <2>1. obs # {}
    OBVIOUS
  <2>2. \A x \in obs : Get(M[x], q) \in Int /\ Get(M[x], q) >= -1
    BY <1>2, GetType
  <2>3. entries(q) \in SUBSET Int /\ entries(q) # {} /\ \A e \in entries(q) : -1 <= e
    BY <2>1, <2>2
  <2> HIDE DEF entries
  <2>4. Min(entries(q)) \in entries(q)
    BY <2>3, MinProperty
  <2>. QED  BY <2>3, <2>4
<1> HIDE DEF cols, entries, F
<1>. QED  BY <1>1, <1>3, <1>4 DEF IsDotSet, F

\* A delta log has a last dot of every replica, or none.
LEMMA DotMapBound ==
  ASSUME NEW l, IsDotMap(l), NEW r \in Pids
  PROVE  \E b \in Int : \A e \in l[r] : e <= b
<1>1. CASE l[r] = {}
  BY <1>1
<1>2. CASE l[r] # {}
  BY <1>2 DEF IsDotMap
<1>. QED  BY <1>1, <1>2

\* ORSet::merge_delta_group on the version vector, of whatever group.
LEMMA MergedVectorType ==
  ASSUME NEW v, IsDotSet(v), NEW list, IsDotMap(list)
  PROVE  /\ IsDotSet(MergedVector(v, list))
         /\ \A r \in Pids :
              /\ Get(MergedVector(v, list), r) \in list[r] \cup {Get(v, r)}
              /\ (\A c \in list[r] : c <= Get(v, r)) => Get(MergedVector(v, list), r) = Get(v, r)
<1> DEFINE V == MergedVector(v, list)
           miss(r) == Missing(v, list, r)
<1>1. DOMAIN list = Pids /\ \A r \in Pids : list[r] \subseteq Nat
  BY DEF IsDotMap
<1>2. \A r \in Pids : Get(v, r) \in Int /\ Get(v, r) >= -1
  BY GetType
<1>3. \A r \in Pids : miss(r) = {c \in list[r] : c > Get(v, r)}
  BY <1>1, <1>2 DEF Missing, Contains, Get, IsDotSet
<1> HIDE DEF miss
<1>4. ASSUME NEW r \in Pids, miss(r) # {}
      PROVE  Max(miss(r)) \in list[r] /\ Max(miss(r)) \in Nat
  <2>1. PICK b \in Int : \A e \in list[r] : e <= b
    BY DotMapBound
  <2>2. miss(r) \in SUBSET Int /\ \A e \in miss(r) : e <= b
    BY <2>1, <1>1, <1>3
  <2>3. Max(miss(r)) \in miss(r)
    BY <2>2, <1>4, MaxProperty
  <2>. QED  BY <2>3, <1>1, <1>3
<1>5. V = [r \in DOMAIN v \cup {q \in Pids : miss(q) # {}} |->
             IF r \in Pids /\ miss(r) # {} THEN Max(miss(r)) ELSE v[r]]
  BY <1>1 DEF MergedVector, miss
<1> HIDE DEF V
<1>6. \A r \in Pids : Get(V, r) = IF miss(r) # {} THEN Max(miss(r)) ELSE Get(v, r)
  BY <1>5 DEF Get
<1>7. IsDotSet(V)
  <2>1. DOMAIN V \subseteq Columns
    BY <1>5 DEF IsDotSet, Columns
  <2>2. \A r \in DOMAIN V : V[r] \in Int /\ V[r] >= -1
    BY <1>4, <1>5 DEF IsDotSet
  <2>3. V = [r \in DOMAIN V |-> V[r]]
    BY <1>5
  <2>. QED  BY <2>1, <2>2, <2>3 DEF IsDotSet
<1>8. ASSUME NEW r \in Pids, \A c \in list[r] : c <= Get(v, r)
      PROVE  miss(r) = {}
  <2>1. Get(v, r) \in Int /\ list[r] \subseteq Nat
    BY <1>1, <1>2
  <2>. QED  BY <2>1, <1>3, <1>8
<1>9. ASSUME NEW r \in Pids
      PROVE  /\ Get(V, r) \in list[r] \cup {Get(v, r)}
             /\ (\A c \in list[r] : c <= Get(v, r)) => Get(V, r) = Get(v, r)
  BY <1>4, <1>6, <1>8
<1>. QED  BY <1>7, <1>9 DEF V

\* ORSet::merge_delta_group on a delta log.
LEMMA MergedLogType ==
  ASSUME NEW l, IsDotMap(l), NEW v, NEW list, IsDotMap(list)
  PROVE  /\ IsDotMap(MergedLog(l, v, list))
         /\ \A r \in Pids : MergedLog(l, v, list)[r] \subseteq l[r] \cup list[r]
<1> DEFINE L == MergedLog(l, v, list)
<1>1. /\ L \in [Pids -> SUBSET Nat]
      /\ \A r \in Pids : L[r] \subseteq l[r] \cup list[r]
  BY DEF MergedLog, IsDotMap, Missing
<1> HIDE DEF L
<1>2. ASSUME NEW r \in Pids PROVE \E b \in Int : \A e \in L[r] : e <= b
  <2>1. PICK b1 \in Int : \A e \in l[r] : e <= b1
    BY DotMapBound
  <2>2. PICK b2 \in Int : \A e \in list[r] : e <= b2
    BY DotMapBound
  <2>3. L[r] \subseteq Nat
    BY <1>1
  <2>4. CASE b1 <= b2
    <3>1. \A e \in L[r] : e <= b2
      BY <2>1, <2>2, <2>3, <2>4, <1>1
    <3>. QED  BY <3>1
  <2>5. CASE b2 <= b1
    <3>1. \A e \in L[r] : e <= b1
      BY <2>1, <2>2, <2>3, <2>5, <1>1
    <3>. QED  BY <3>1
  <2>. QED  BY <2>4, <2>5
<1>. QED  BY <1>1, <1>2, BoundedDotMap, Zenon DEF L

\* What DotMap::get_all_greater_iter selects is a delta group.
LEMMA GreaterType ==
  ASSUME NEW log, IsDotMap(log), NEW v, IsDotSet(v)
  PROVE  /\ IsDotMap(GetAllGreater(log, v))
         /\ \A r \in Pids : GetAllGreater(log, v)[r] \subseteq log[r]
<1> DEFINE G == GetAllGreater(log, v)
<1>1. G \in [Pids -> SUBSET Nat] /\ \A r \in Pids : G[r] \subseteq log[r]
  BY GreaterProperty
<1> HIDE DEF G
<1>2. ASSUME NEW r \in Pids PROVE \E b \in Int : \A e \in G[r] : e <= b
  <2>1. PICK b \in Int : \A e \in log[r] : e <= b
    BY DotMapBound
  <2>. QED  BY <2>1, <1>1
<1>. QED  BY <1>1, <1>2, BoundedDotMap DEF G

\* What ORSet::gc leaves of a delta log is one.
LEMMA RetainType ==
  ASSUME NEW log, IsDotMap(log), NEW stable, NEW D
  PROVE  /\ IsDotMap(Retain(log, stable, D))
         /\ \A r \in Pids : Retain(log, stable, D)[r] \subseteq log[r]
<1> DEFINE L == Retain(log, stable, D)
<1>1. L \in [Pids -> SUBSET Nat] /\ \A r \in Pids : L[r] \subseteq log[r]
  BY DEF Retain, IsDotMap
<1> HIDE DEF L
<1>2. ASSUME NEW r \in Pids PROVE \E b \in Int : \A e \in L[r] : e <= b
  <2>1. PICK b \in Int : \A e \in log[r] : e <= b
    BY DotMapBound
  <2>. QED  BY <2>1, <1>1
<1>. QED  BY <1>1, <1>2, BoundedDotMap, Zenon DEF L

-----------------------------------------------------------------------------
(* Published GC rounds.                                                    *)

\* d is the descriptor of a round of p that may still be given up.
Unfinished(p, d) ==
  /\ pc[p] \in {"validate", "abort", "withdraw"}
  /\ \E r \in round[p] : d = Active(p, r.marker.counter)

\* The directory shows GC counter c, and no replica is about to withdraw it.
PublishedFor(c) ==
  \E d \in dir : d.gc >= c /\ \A p \in Pids : ~Unfinished(p, d)

\* What is published stays so when nothing is deleted and no round begins.
LEMMA StillPublished ==
  ASSUME dir \subseteq dir',
         \A q \in Pids : \/ round'[q] = {}
                         \/ round'[q] = round[q] /\ pc'[q] = pc[q]
                         \/ pc'[q] \notin {"validate", "abort", "withdraw"}
  PROVE  \A c : PublishedFor(c) => PublishedFor(c)'
<1>1. \A q \in Pids : \A d : Unfinished(q, d)' => Unfinished(q, d)
  BY DEF Unfinished
<1>. QED  BY <1>1 DEF PublishedFor

\* No descriptor of another replica is one of p's rounds.
LEMMA OwnRound ==
  ASSUME NEW p \in Pids, NEW q \in Pids, NEW c, q # p
  PROVE  ~Unfinished(q, Active(p, c))
<1>1. \A x, e : Active(x, e).pid = x
  BY DEF Active
<1>. QED  BY <1>1 DEF Unfinished

\* The steps of a GC round withdraw nothing that anybody has applied.
LEMMA RoundKeepsPublished ==
  ASSUME Pids = DOMAIN round, Pids = DOMAIN pc, \A d \in dir : d.gc \in Int, NEW p \in Pids,
         \A r \in round[p] : r.marker.counter \in Int /\ r.old.gc < r.marker.counter,
         pc[p] = "old" => \A r \in round[p] : Active(p, r.marker.counter) \in dir,
         \/ \E r : Publish(p, Active(p, r.marker.counter), r)
         \/ ValidateGc(p) \/ WithdrawGc(p) \/ Relist(p) \/ CompleteGc(p) \/ DeleteOld(p)
  PROVE  \A c \in Int : PublishedFor(c) => PublishedFor(c)'
<1>1. \A c : Active(p, c).pid = p /\ Active(p, c).gc = c
  BY DEF Active
<1>2. ASSUME NEW r, Publish(p, Active(p, r.marker.counter), r)
      PROVE  \A c \in Int : PublishedFor(c) => PublishedFor(c)'
  <2> DEFINE new == Active(p, r.marker.counter)
  <2>1. Publish(p, new, r) /\ new = Active(p, r.marker.counter)
    BY <1>2
  <2> HIDE DEF new
  <2>2. CASE UNCHANGED <<round, pc>>
    <3>1. dir \subseteq dir'
      BY <2>1 DEF Publish
    <3>. QED  BY <2>2, <3>1, StillPublished
  <2>3. CASE /\ new \notin dir /\ dir' = dir \cup {new}
             /\ round' = [round EXCEPT ![p] = {r}] /\ pc' = [pc EXCEPT ![p] = "validate"]
    <3>1. /\ round'[p] = {r} /\ \A q \in Pids : q # p => round'[q] = round[q] /\ pc'[q] = pc[q]
      BY <2>3, Zenon
    <3>2. \A d \in dir : \A q \in Pids : Unfinished(q, d)' => Unfinished(q, d)
      BY <3>1, <2>1, <2>3, ZenonT(30) DEF Unfinished
    <3>. QED  BY <3>2, <2>3 DEF PublishedFor
  <2>. QED  BY <2>1, <2>2, <2>3, Zenon DEF Publish
<1>3. CASE ValidateGc(p)
  <2>1. UNCHANGED <<dir, round>> /\ pc[p] = "validate" /\ \E x : pc' = [pc EXCEPT ![p] = x]
    BY <1>3 DEF ValidateGc, storage
  <2>2. \A q \in Pids : \A d : Unfinished(q, d)' => Unfinished(q, d)
    BY <2>1, Zenon DEF Unfinished
  <2>. QED  BY <2>1, <2>2, Zenon DEF PublishedFor
<1>4. CASE WithdrawGc(p)
  <2>1. PICK r \in round[p] : dir' = dir \ {Active(p, r.marker.counter)} \/ dir' = dir
    BY <1>4 DEF WithdrawGc
  <2>2. /\ round'[p] = {} /\ pc[p] \in {"abort", "withdraw"}
        /\ \A q \in Pids : q # p => round'[q] = round[q] /\ pc'[q] = pc[q]
    BY <1>4, ZenonT(30) DEF WithdrawGc
  <2>3. \A q \in Pids : \A d : Unfinished(q, d)' => Unfinished(q, d)
    BY <2>2 DEF Unfinished
  <2>4. \A d \in dir : ~Unfinished(p, d) => d \in dir'
    BY <2>1, <2>2 DEF Unfinished
  <2>. QED  BY <2>2, <2>3, <2>4, ZenonT(30) DEF PublishedFor
<1>5. CASE Relist(p) \/ CompleteGc(p)
  <2>1. /\ UNCHANGED dir
        /\ UNCHANGED round \/ round' = [round EXCEPT ![p] = {}]
        /\ \E x \in {"loop", "old", "departed"} : pc' = [pc EXCEPT ![p] = x]
    BY <1>5 DEF Relist, CompleteGc, storage
  <2>2. /\ pc'[p] \in {"loop", "old", "departed"}
        /\ \A q \in Pids : q # p => round'[q] = round[q] /\ pc'[q] = pc[q]
    BY <2>1, Zenon
  <2>. QED  BY <2>1, <2>2, StillPublished, ZenonT(30)
<1>6. CASE DeleteOld(p)
  <2>1. PICK r \in round[p] : dir' = dir \ {r.old} \/ dir' = dir
    BY <1>6 DEF DeleteOld
  <2> DEFINE new == Active(p, r.marker.counter)
  <2>2. /\ round'[p] = {} /\ pc[p] = "old"
        /\ \A q \in Pids : q # p => round'[q] = round[q] /\ pc'[q] = pc[q]
    BY <1>6, Zenon DEF DeleteOld
  <2>3. \A q \in Pids : \A d : Unfinished(q, d)' => Unfinished(q, d)
    BY <2>2, ZenonT(30) DEF Unfinished
  <2>4. new \in dir' /\ new.gc = r.marker.counter /\ r.old.gc < r.marker.counter
    BY <2>1, <2>2, <1>1, SMT, Z3
  <2>5. \A q \in Pids : ~Unfinished(q, new)'
    <3>1. ~Unfinished(p, new)
      BY <2>2 DEF Unfinished
    <3>. QED  BY <3>1, <2>3, OwnRound, Zenon
  <2> HIDE DEF new
  <2>6. ASSUME NEW c \in Int, PublishedFor(c) PROVE PublishedFor(c)'
    <3>1. PICK d \in dir : d.gc >= c /\ \A q \in Pids : ~Unfinished(q, d)
      BY <2>6 DEF PublishedFor
    <3>2. CASE d \in dir'
      BY <3>1, <3>2, <2>3, Zenon DEF PublishedFor
    <3>3. CASE d = r.old
      <4>1. d.gc \in Int /\ r.marker.counter \in Int
        BY <2>1, ZenonT(30)
      <4>2. new.gc >= c
        BY <2>4, <3>1, <3>3, <4>1, SMT, Z3
      <4>. QED  BY <4>2, <2>4, <2>5, Zenon DEF PublishedFor
    <3>. QED  BY <2>1, <3>2, <3>3, ZenonT(30)
  <2>. QED  BY <2>6
<1>. QED  BY <1>2, <1>3, <1>4, <1>5, <1>6, ZenonT(30)

\* A replica that completes its round has published it, for good.
LEMMA OwnPublished ==
  ASSUME Pids = DOMAIN pc, NEW p \in Pids, CompleteGc(p), NEW r \in round[p],
         Active(p, r.marker.counter) \in dir, r.marker.counter \in Int
  PROVE  PublishedFor(r.marker.counter)'
<1> DEFINE new == Active(p, r.marker.counter)
<1>1. new \in dir' /\ new.gc >= r.marker.counter
  <2>1. dir' = dir
    BY DEF CompleteGc
  <2>2. new.gc = r.marker.counter
    BY DEF Active
  <2>. QED  BY <2>1, <2>2
<1>2. pc'[p] \notin {"validate", "abort", "withdraw"}
  <2>1. \E x \in {"loop", "old", "departed"} : pc' = [pc EXCEPT ![p] = x]
    BY DEF CompleteGc
  <2>. QED  BY <2>1
<1>3. \A q \in Pids : ~Unfinished(q, new)'
  <2>1. \A x, e : Active(x, e).pid = x
    BY DEF Active
  <2>. QED  BY <1>2, <2>1, SMTT(30) DEF Unfinished
<1> HIDE DEF new
<1>. QED  BY <1>1, <1>3 DEF PublishedFor

-----------------------------------------------------------------------------
(* Published GC rounds, when replicas join and nobody leaves.              *)

\* A GC counter that a replica has applied, or may yet apply: from a delta
\* group, or with the snapshot it bootstraps from.
InUse(c) ==
  \/ \E p \in Pids : c = rep[p].marker.counter
  \/ \E m \in msgs : m.kind = "delta" /\ c = m.gc.counter
  \/ \E s \in snapshot : c = s.marker.counter
  \/ \E p \in Pids : \E s \in UNION fetched[p] : c = s.marker.counter

\* A replica has completed its own round with counter c.
Completes(c) == \E p \in Pids : CompleteGc(p) /\ \E r \in round[p] : c = r.marker.counter

UsedPublished == Gone = {} /\ \A c \in Int : InUse(c) => PublishedFor(c)

\* A replica applies counters that were in use, or that of its own round.
LEMMA AppliedBefore ==
  ASSUME MemberInv, Next, NEW q \in Pids
  PROVE  InUse(rep'[q].marker.counter) \/ Completes(rep'[q].marker.counter)
<1>1. Shape /\ \A p \in Pids : IsRep(rep[p])
  BY DEF MemberInv, StatesGood, GoodState, GoodRep
<1>2. ASSUME rep'[q].marker = rep[q].marker
      PROVE  InUse(rep'[q].marker.counter)
  BY <1>2 DEF InUse
<1>3. ASSUME NEW p \in Pids, NEW s, rep' = [rep EXCEPT ![p] = s], s.marker = rep[p].marker
      PROVE  InUse(rep'[q].marker.counter)
  <2>1. rep'[q].marker = rep[q].marker
    BY <1>1, <1>3 DEF Shape
  <2>. QED  BY <2>1, <1>2
<1>4. \A p, s : IsRep(s) => Refreshed(s, p).marker = s.marker
  BY DEF Refreshed, IsRep
<1>5. \A p, s, list : Refreshed(Merged(s, list), p).marker = s.marker
  BY DEF Refreshed, Merged
<1>6. ASSUME NEW p \in Pids, RunLoop(p)
      PROVE  InUse(rep'[q].marker.counter) \/ Completes(rep'[q].marker.counter)
  <2>1. CASE RefreshOwn(p) \/ (\E x \in writers[p] : PullDelta(p, x)) \/ InitGc(p)
    <3>1. rep' = [rep EXCEPT ![p] = Refreshed(rep[p], p)]
      BY <2>1, Zenon DEF RefreshOwn, PullDelta, InitGc
    <3>. QED  BY <3>1, <1>1, <1>3, <1>4, Zenon
  <2>2. CASE \E m \in msgs : HandleVersionVector(p, m)
    <3>1. PICK M : rep' = [rep EXCEPT ![p] = Refreshed([rep[p] EXCEPT !.matrix = M], p)]
      BY <2>2, Zenon DEF HandleVersionVector
    <3>2. Refreshed([rep[p] EXCEPT !.matrix = M], p).marker = rep[p].marker
      BY <1>1 DEF IsRep, Refreshed
    <3>. QED  BY <3>1, <3>2, <1>3, Zenon
  <2>3. ASSUME NEW m \in msgs, HandleDelta(p, m)
        PROVE  InUse(rep'[q].marker.counter)
    <3> DEFINE s == Observed(rep[p], p, m.gc)
    <3>1. s.marker \in {rep[p].marker, m.gc} /\ m.kind = "delta"
      BY <2>3, Zenon DEF HandleDelta, Observed, AfterMarker
    <3> HIDE DEF s
    <3>2. PICK t : t.marker = s.marker /\ (UNCHANGED rep \/ rep' = [rep EXCEPT ![p] = t])
      <4>1. UNCHANGED rep \/ rep' = [rep EXCEPT ![p] = Refreshed(Merged(s, m.list), p)]
        BY <2>3 DEF HandleDelta, ApplyGroup, s
      <4>. QED  BY <1>5, <4>1, ZenonT(30)
    <3>3. rep'[q].marker \in {rep[q].marker, m.gc}
      BY <1>1, <3>1, <3>2, Zenon DEF Shape
    <3>. QED  BY <3>1, <3>3, Zenon DEF InUse
  <2>4. CASE ApplyPoll(p)
    <3>1. \E M : rep' = [rep EXCEPT ![p] = [rep[p] EXCEPT !.matrix = M]]
      BY <2>4, Zenon DEF ApplyPoll
    <3>2. \A M : [rep[p] EXCEPT !.matrix = M].marker = rep[p].marker
      BY <1>1 DEF IsRep
    <3>. QED  BY <3>1, <3>2, <1>3, Zenon
  <2>5. CASE \E d \in todo[p] : HandleShutdown(p, d)
    <3>1. \/ UNCHANGED rep
          \/ \E F, list : ApplyGroup(p, [rep[p] EXCEPT !.finals = F], list)
      BY <2>5, Zenon DEF HandleShutdown
    <3>2. \A F : [rep[p] EXCEPT !.finals = F].marker = rep[p].marker
      BY <1>1 DEF IsRep
    <3>3. \/ UNCHANGED rep
          \/ \E s, list : s.marker = rep[p].marker
                          /\ rep' = [rep EXCEPT ![p] = Refreshed(Merged(s, list), p)]
      BY <3>1, <3>2, Zenon DEF ApplyGroup
    <3>. QED  BY <3>3, <1>2, <1>3, <1>5
  <2>6. CASE CompleteGc(p)
    <3>1. PICK r \in round[p] : rep' = [rep EXCEPT ![p] = AfterMarker(rep[p], p, r.marker)]
      BY <2>6, ZenonT(30) DEF CompleteGc
    <3>2. AfterMarker(rep[p], p, r.marker).marker = r.marker
      BY DEF AfterMarker
    <3>3. rep'[q].marker \in {rep[q].marker, r.marker}
      BY <1>1, <3>1, <3>2 DEF Shape
    <3>. QED  BY <2>6, <3>3, <1>2 DEF Completes
  <2>7. CASE \/ \E m \in msgs : RefuseDelta(p, m)
             \/ ValidateGc(p) \/ WithdrawGc(p) \/ Relist(p) \/ DeleteDeparted(p) \/ DeleteOld(p)
             \/ Shutdown(p)
    BY <2>7, <1>2, Zenon DEF RefuseDelta, ValidateGc, WithdrawGc, Relist, DeleteDeparted, DeleteOld, Shutdown
  <2>. QED  BY <1>6, <2>1, <2>2, <2>3, <2>4, <2>5, <2>6, <2>7, ZenonT(30) DEF RunLoop
<1>7. ASSUME NEW p \in Pids, Install(p)
      PROVE  InUse(rep'[q].marker.counter)
  <2>1. PICK read \in fetched[p] : \E M :
          rep' = [rep EXCEPT ![p] = [(IF read = {} THEN rep[p]
                                      ELSE Rebound(CHOOSE x \in read : TRUE, p))
                                     EXCEPT !.matrix = M]]
    BY <1>7, Zenon DEF Install
  <2>2. CASE read = {}
    <3>1. \A M : [rep[p] EXCEPT !.matrix = M].marker = rep[p].marker
      BY <1>1 DEF IsRep
    <3>. QED  BY <2>1, <2>2, <3>1, <1>3, Zenon
  <2>3. CASE read # {}
    <3>1. PICK s \in read : s = CHOOSE x \in read : TRUE
      BY <2>3
    <3>2. IsRep(s)
      BY <2>1 DEF MemberInv, LocalsGood, GoodRep
    <3>3. \A M : [Rebound(s, p) EXCEPT !.matrix = M].marker = s.marker
      BY <3>2 DEF Rebound, IsRep
    <3>4. rep'[q].marker \in {rep[q].marker, s.marker}
      BY <1>1, <2>1, <2>3, <3>1, <3>3 DEF Shape
    <3>. QED  BY <2>1, <3>4, Zenon DEF InUse
  <2>. QED  BY <2>2, <2>3, Zenon
<1>8. ASSUME NEW p \in Pids, Mutate(p)
      PROVE  InUse(rep'[q].marker.counter)
  <2>1. Mutated(rep[p], p).marker = rep[p].marker
    BY ZenonT(30) DEF Mutated
  <2>. QED  BY <1>8, <2>1, <1>3, Zenon DEF Mutate
<1>9. CASE \/ \E p \in Pids : Start(p) \/ Register(p) \/ ListMembers(p) \/ ReadSnapshot(p)
                            \/ Poll(p) \/ StopHttp(p)
           \/ \E p, x \in Pids : Connect(p, x)
           \/ \E m \in msgs : Discard(m)
  BY <1>2, <1>9 DEF Start, Register, ListMembers, ReadSnapshot, Poll, StopHttp, Connect, Discard
<1>. QED  BY <1>6, <1>7, <1>8, <1>9, ZenonT(30) DEF Next, Bootstrap

\* The counters in use after a step were in use before it, but for that of a
\* round which the step completes.
LEMMA UsedBefore ==
  ASSUME MemberInv, Next, NEW c, InUse(c)'
  PROVE  InUse(c) \/ Completes(c)
<1>. DEFINE Goal == InUse(c) \/ Completes(c)
<1>1. Shape
  BY DEF MemberInv
<1>2. ASSUME \E q \in Pids : c = rep'[q].marker.counter
      PROVE  Goal
  BY <1>2, AppliedBefore
<1>3. ASSUME NEW m \in msgs', m.kind = "delta", c = m.gc.counter
      PROVE  Goal
  <2>1. CASE m \in msgs
    BY <1>3, <2>1, ZenonT(30) DEF InUse
  <2>2. CASE m \notin msgs
    <3>1. PICK p \in Pids : \/ \E q \in writers[p] : PullDelta(p, q)
                            \/ \E n \in msgs : HandleVersionVector(p, n)
      <4>1. ~\E p \in Pids : Bootstrap(p) \/ Mutate(p) \/ Poll(p) \/ StopHttp(p)
        BY <2>2, Zenon DEF Bootstrap, Start, Register, ListMembers, ReadSnapshot, Install, Mutate,
           Poll, StopHttp, network
      <4>2. ~(\E p, q \in Pids : Connect(p, q)) /\ ~\E n \in msgs : Discard(n)
        BY <2>2 DEF Connect, Discard
      <4>3. PICK p \in Pids : RunLoop(p)
        BY <4>1, <4>2 DEF Next
      <4>. QED  BY <2>2, <4>3, Zenon DEF RunLoop, RefreshOwn, RefuseDelta, HandleDelta, ApplyPoll,
              HandleShutdown, InitGc, ValidateGc, WithdrawGc, Relist, CompleteGc, DeleteDeparted,
              DeleteOld, Shutdown, network
    <3>2. CASE \E q \in writers[p] : PullDelta(p, q)
      <4>1. PICK q, v : Send(p, q, msgs, [kind |-> "vector", from |-> p, to |-> q, vv |-> v])
        BY <3>2, Zenon DEF PullDelta
      <4> DEFINE n == [kind |-> "vector", from |-> p, to |-> q, vv |-> v]
      <4>2. n.kind # "delta"
        OBVIOUS
      <4> HIDE DEF n
      <4>3. m = n
        BY <2>2, <4>1, Zenon DEF Send, n
      <4>. QED  BY <1>3, <4>2, <4>3, Zenon
    <3>3. CASE \E n \in msgs : HandleVersionVector(p, n)
      <4>1. \E q, l, v : m = [kind |-> "delta", from |-> p, to |-> q, list |-> l, vv |-> v,
                               gc |-> rep[p].marker]
        BY <2>2, <3>3 DEF HandleVersionVector, Send
      <4>2. m.gc = rep[p].marker
        BY <4>1, SMT, Z3
      <4>. QED  BY <1>3, <4>2, Zenon DEF InUse
    <3>. QED  BY <3>1, <3>2, <3>3
  <2>. QED  BY <2>1, <2>2
<1>4. ASSUME NEW s \in snapshot', c = s.marker.counter
      PROVE  Goal
  <2>1. CASE s \in snapshot
    BY <1>4, <2>1 DEF InUse
  <2>2. CASE s \notin snapshot
    <3>1. PICK p \in Pids : CompleteGc(p) \/ Install(p)
      <4>1. ~\E p \in Pids : Mutate(p) \/ Poll(p) \/ StopHttp(p)
        BY <1>4, <2>2, ZenonT(30) DEF Mutate, Poll, StopHttp, storage
      <4>2. ~(\E p, q \in Pids : Connect(p, q)) /\ ~\E n \in msgs : Discard(n)
        BY <1>4, <2>2 DEF Connect, Discard, storage
      <4>3. PICK p \in Pids : RunLoop(p) \/ Bootstrap(p)
        BY <4>1, <4>2 DEF Next
      <4>4. CASE RunLoop(p)
        BY <1>4, <2>2, <4>4, ZenonT(30) DEF RunLoop, RefreshOwn, PullDelta, HandleVersionVector,
           RefuseDelta, HandleDelta, ApplyPoll, HandleShutdown, InitGc, ValidateGc, WithdrawGc,
           Relist, DeleteDeparted, DeleteOld, Shutdown, storage
      <4>5. CASE Bootstrap(p)
        BY <1>4, <2>2, <4>5, Zenon DEF Bootstrap, Start, Register, ListMembers, ReadSnapshot, storage
      <4>. QED  BY <4>3, <4>4, <4>5, Zenon
    <3>2. CASE CompleteGc(p)
      <4>1. \E r \in round[p] : s = AfterMarker(rep[p], p, r.marker)
        BY <1>4, <2>2, <3>2, ZenonT(30) DEF CompleteGc
      <4>2. \A m : AfterMarker(rep[p], p, m).marker = m
        BY DEF AfterMarker
      <4>. QED  BY <1>4, <3>2, <4>1, <4>2, Zenon DEF Completes
    <3>3. CASE Install(p)
      BY <1>4, <2>2, <3>3 DEF Install, InUse
    <3>. QED  BY <3>1, <3>2, <3>3
  <2>. QED  BY <2>1, <2>2
<1>5. ASSUME NEW q \in Pids, NEW s \in UNION fetched'[q], c = s.marker.counter
      PROVE  Goal
  <2>1. CASE s \in UNION fetched[q]
    BY <1>5, <2>1 DEF InUse
  <2>2. CASE s \notin UNION fetched[q]
    <3>1. PICK p \in Pids : fetched' = [fetched EXCEPT ![p] = {snapshot}]
      <4>1. ~\E p \in Pids : Mutate(p) \/ Poll(p) \/ StopHttp(p)
        BY <1>5, <2>2, Zenon DEF Mutate, Poll, StopHttp, control
      <4>2. ~(\E p, x \in Pids : Connect(p, x)) /\ ~\E n \in msgs : Discard(n)
        BY <1>5, <2>2, Zenon DEF Connect, Discard, control
      <4>3. ASSUME NEW p \in Pids, RunLoop(p)
            PROVE  FALSE
        <5>1. UNCHANGED fetched
          BY <4>3, Zenon DEF RunLoop, RefreshOwn, PullDelta, HandleVersionVector, RefuseDelta,
             HandleDelta, ApplyPoll, HandleShutdown, InitGc, ValidateGc, WithdrawGc,
             Relist, CompleteGc, DeleteDeparted, DeleteOld, Shutdown, control
        <5>. QED  BY <1>5, <2>2, <5>1
      <4>4. PICK p \in Pids : Bootstrap(p)
        BY <4>1, <4>2, <4>3, Zenon DEF Next
      <4>. QED  BY <1>5, <2>2, <4>4 DEF Bootstrap, Start, Register, ListMembers, ReadSnapshot,
              Install, control
    <3>2. s \in snapshot
      BY <1>1, <1>5, <2>2, <3>1, Zenon DEF Shape
    <3>. QED  BY <1>5, <3>2, Zenon DEF InUse
  <2>. QED  BY <2>1, <2>2, Zenon
<1>. QED  BY <1>2, <1>3, <1>4, <1>5, Zenon DEF InUse

\* No step deletes the descriptor that shows a counter, unless a higher one is
\* left: a departed replica's descriptors would be, but nobody departs.
LEMMA MemberKeepsPublished ==
  ASSUME MemberInv, Gone = {}, Leavers = {}, Next
  PROVE  \A c \in Int : PublishedFor(c) => PublishedFor(c)'
<1>. DEFINE Goal == \A c \in Int : PublishedFor(c) => PublishedFor(c)'
<1>1. Pids = DOMAIN round /\ Pids = DOMAIN pc
  BY DEF MemberInv, Shape
<1>2. ASSUME UNCHANGED <<dir, round, pc>>
      PROVE  Goal
  BY <1>2, StillPublished
<1>3. ASSUME NEW p \in Pids, dir \subseteq dir', UNCHANGED round,
             \E x \in {"loop", "departures", "old", "register", "list", "install"} :
               pc' = [pc EXCEPT ![p] = x]
      PROVE  Goal
  <2>1. \A q \in Pids : pc'[q] = pc[q] \/ pc'[q] \notin {"validate", "abort", "withdraw"}
    BY <1>1, <1>3
  <2>. QED  BY <1>3, <2>1, StillPublished
<1>4. ASSUME NEW p \in Pids, RunLoop(p)
      PROVE  Goal
  <2>1. CASE \/ RefreshOwn(p) \/ \E q \in writers[p] : PullDelta(p, q)
             \/ \E m \in msgs : HandleVersionVector(p, m) \/ RefuseDelta(p, m) \/ HandleDelta(p, m)
    BY <2>1, <1>2, Zenon DEF RefreshOwn, PullDelta, HandleVersionVector, RefuseDelta, HandleDelta,
       storage, control
  <2>2. CASE ApplyPoll(p)
    BY <2>2, <1>3, Zenon DEF ApplyPoll, storage
  <2>3. CASE \E d \in todo[p] : HandleShutdown(p, d)
    <3>1. /\ UNCHANGED <<dir, round>>
          /\ \E x \in {"loop", "departures"} : pc' = [pc EXCEPT ![p] = x]
      BY <2>3, Zenon DEF HandleShutdown, storage
    <3>. QED  BY <3>1, <1>3, Zenon
  <2>4. CASE InitGc(p) \/ ValidateGc(p) \/ WithdrawGc(p) \/ Relist(p) \/ CompleteGc(p) \/ DeleteOld(p)
    <3>1. \A d \in dir : d.gc \in Int
      <4>1. \A d \in dir : d.gc \in 0 .. MaxGc
        BY Zenon DEF MemberInv, StoreGood, GoodDescriptor, IsDescriptor
      <4>. QED  BY <4>1, SMT, Z3
    <3>2. \A r \in round[p] : r.marker.counter \in Int /\ r.old.gc < r.marker.counter
      <4>1. \A r \in round[p] : r.marker.counter \in 0 .. MaxGc /\ r.old.gc < r.marker.counter
        BY Zenon DEF MemberInv, LocalsGood, GoodRound, GoodMarker, IsMarker
      <4>. QED  BY <4>1
    <3>3. status[p] = "running"
      BY <2>4, Zenon DEF InitGc, Idle, ValidateGc, WithdrawGc, Relist, CompleteGc, DeleteOld
    <3>4. pc[p] = "old" => \A r \in round[p] : Active(p, r.marker.counter) \in dir
      BY <3>3, Zenon DEF MemberInv, IsListed
    <3>5. InitGc(p) => \E r : Publish(p, Active(p, r.marker.counter), r)
      <4>. DEFINE s == Refreshed(rep[p], p)
                  g == s.marker.counter + 1
                  m == [counter |-> g, stable |-> StableFrontier(s.matrix, s.finals, p),
                        departed |-> DepartedPids(s.matrix, s.finals)]
                  r == [marker |-> m, previous |-> GcCounters(cache[p]),
                        old |-> Active(p, s.marker.counter)]
      <4>1. Active(p, g).gc = g
        BY DEF Active
      <4>2. InitGc(p) => Publish(p, Active(p, g), r)
        BY <4>1, ZenonT(30) DEF InitGc
      <4>3. r.marker.counter = g
        OBVIOUS
      <4>. HIDE DEF r, g
      <4>. QED  BY <4>2, <4>3, Zenon
    <3>. QED  BY <1>1, <2>4, <3>1, <3>2, <3>4, <3>5, RoundKeepsPublished, ZenonT(30)
  <2>5. CASE DeleteDeparted(p)
    <3>1. \A r \in round[p] : r.marker.departed = {}
      BY DEF MemberInv, LocalsGood, GoodRound, GoodMarker
    <3>2. UNCHANGED <<dir, round>> /\ pc' = [pc EXCEPT ![p] = "old"]
      BY <2>5, <3>1 DEF DeleteDeparted
    <3>. QED  BY <3>2, <1>3, ZenonT(30)
  <2>6. ~Shutdown(p)
    BY DEF Shutdown
  <2>. HIDE DEF Goal
  <2>. QED  BY <1>4, <2>1, <2>2, <2>3, <2>4, <2>5, <2>6, ZenonT(30) DEF RunLoop
<1>5. ASSUME NEW p \in Pids, Bootstrap(p)
      PROVE  Goal
  <2>1. CASE Start(p) \/ ReadSnapshot(p)
    BY <2>1, <1>2 DEF Start, ReadSnapshot, storage, control
  <2>2. CASE Register(p) \/ ListMembers(p) \/ Install(p)
    <3>1. /\ dir \subseteq dir' /\ UNCHANGED round
          /\ \E x \in {"list", "install", "loop"} : pc' = [pc EXCEPT ![p] = x]
      BY <2>2, ZenonT(30) DEF Register, ListMembers, Install, storage
    <3>. QED  BY <3>1, <1>3, Zenon
  <2>. HIDE DEF Goal
  <2>. QED  BY <1>5, <2>1, <2>2, Zenon DEF Bootstrap
<1>6. CASE \/ \E p \in Pids : Mutate(p) \/ Poll(p) \/ StopHttp(p)
           \/ \E p, q \in Pids : Connect(p, q)
           \/ \E m \in msgs : Discard(m)
  BY <1>6, <1>2 DEF Mutate, Poll, StopHttp, Connect, Discard, storage, control
<1>. HIDE DEF Goal
<1>7. CASE \E p \in Pids : RunLoop(p) \/ Bootstrap(p)
  BY <1>4, <1>5, <1>7 DEF Goal
<1>. QED  BY <1>6, <1>7 DEF Next

\* Nobody departs, and what is in use stays published.
LEMMA UsedStep ==
  ASSUME MemberInv, UsedPublished, Leavers = {}, [Next]_vars
  PROVE  UsedPublished'
<1>1. Shape /\ Gone = {}
  BY DEF MemberInv, UsedPublished
<1>2. CASE Next
  <2>1. ASSUME NEW p \in Pids, RunLoop(p)
        PROVE  UNCHANGED status \/ status' = [status EXCEPT ![p] = "panicked"]
    BY <2>1, Zenon DEF RunLoop, RefreshOwn, PullDelta, HandleVersionVector, RefuseDelta, HandleDelta,
       ApplyGroup, ApplyPoll, HandleShutdown, InitGc, ValidateGc, WithdrawGc, Relist, CompleteGc,
       DeleteDeparted, DeleteOld, Shutdown
  <2>2. ASSUME NEW p \in Pids, Bootstrap(p) \/ Mutate(p) \/ Poll(p)
        PROVE  \/ UNCHANGED status
               \/ \E x \in {"booting", "running"} : status' = [status EXCEPT ![p] = x]
    BY <2>2 DEF Bootstrap, Start, Register, ListMembers, ReadSnapshot, Install, Mutate, Poll
  <2>3. ASSUME NEW p \in Pids
        PROVE  ~StopHttp(p)
    BY <1>1 DEF StopHttp, Gone
  <2>4. ASSUME (\E p, q \in Pids : Connect(p, q)) \/ (\E m \in msgs : Discard(m))
        PROVE  UNCHANGED status
    BY <2>4 DEF Connect, Discard
  <2>5. \/ UNCHANGED status
        \/ \E p \in Pids : \E x \in {"panicked", "booting", "running"} :
             status' = [status EXCEPT ![p] = x]
    BY <1>2, <2>1, <2>2, <2>3, <2>4, ZenonT(30) DEF Next
  <2>6. Gone' = {}
    BY <1>1, <2>5 DEF Gone, Shape
  <2>7. \A c \in Int : PublishedFor(c) => PublishedFor(c)'
    BY <1>1, <1>2, MemberKeepsPublished, Zenon
  <2>8. ASSUME NEW c \in Int, Completes(c)
        PROVE  PublishedFor(c)'
    <3>1. PICK p \in Pids : CompleteGc(p) /\ \E r \in round[p] : c = r.marker.counter
      BY <2>8 DEF Completes
    <3>2. PICK r \in round[p] : c = r.marker.counter
      BY <3>1, Zenon
    <3>3. pc[p] = "complete" /\ status[p] = "running"
      BY <3>1, Zenon DEF CompleteGc
    <3>4. Active(p, r.marker.counter) \in dir
      BY <3>3 DEF MemberInv, IsListed
    <3>. QED  BY <1>1, <2>8, <3>1, <3>2, <3>4, OwnPublished, ZenonT(30) DEF Shape
  <2>9. \A c \in Int : InUse(c)' => PublishedFor(c)'
    BY <1>2, <2>7, <2>8, UsedBefore DEF UsedPublished
  <2>. QED  BY <2>6, <2>9 DEF UsedPublished
<1>3. CASE UNCHANGED vars
  <2>1. UNCHANGED <<status, rep, msgs, snapshot, fetched, dir, round, pc>>
    BY <1>3, ZenonT(30) DEF vars, network, storage, control
  <2>2. \A c : (InUse(c)' <=> InUse(c)) /\ (PublishedFor(c)' <=> PublishedFor(c))
    BY <2>1 DEF InUse, PublishedFor, Unfinished
  <2>3. Gone' = Gone
    BY <2>1 DEF Gone
  <2>. QED  BY <2>2, <2>3 DEF UsedPublished
<1>. QED  BY <1>2, <1>3

\* At first every marker is the empty one, and the founders are listed.
LEMMA UsedInit ==
  ASSUME Init
  PROVE  UsedPublished
<1>1. \A p : NewRep(p).marker.counter = 0
  BY DEF NewRep, NoMarker
<1>2. \A p \in Pids : rep[p].marker.counter = 0
  <2>. SUFFICES ASSUME NEW p \in Pids PROVE rep[p].marker.counter = 0
    OBVIOUS
  <2>1. \E M : rep[p] = [NewRep(p) EXCEPT !.matrix = M] \/ rep[p] = NewRep(p)
    BY Zenon DEF Init
  <2>2. \A M : [NewRep(p) EXCEPT !.matrix = M].marker = NewRep(p).marker
    BY DEF NewRep
  <2>. QED  BY <1>1, <2>1, <2>2, Zenon
<1>3. \A c : InUse(c) => c = 0
  BY <1>1, <1>2 DEF Init, InUse
<1>4. PICK f \in Founders : Active(f, 0) \in dir
  BY ConstantsAssumption DEF Init
<1>5. PublishedFor(0)
  <2>1. \A p \in Pids : \A d : ~Unfinished(p, d)
    BY DEF Init, Unfinished
  <2>2. Active(f, 0).gc >= 0
    BY DEF Active
  <2>. QED  BY <1>4, <2>1, <2>2 DEF PublishedFor
<1>6. Gone = {}
  BY DEF Gone, Init
<1>. QED  BY <1>3, <1>5, <1>6, ZenonT(30) DEF UsedPublished
=============================================================================
