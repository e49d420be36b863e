--------------------------- MODULE ReplicaProofs ---------------------------
(***************************************************************************)
(* Theorems about Replica for a fixed membership: any number of founders,  *)
(* mutations, GC rounds, messages, polls and storage faults, no joiner and *)
(* no leaver.                                                              *)
(***************************************************************************)
EXTENDS ReplicaLemmas

-----------------------------------------------------------------------------
(* What Replica does to the state of one replica, for a fixed membership:  *)
(* each transformation takes a state that fits the others' (Fine) to one   *)
(* that fits.                                                              *)

\* A delta group without a gap above the vector merges without a panic, and the
\* new entry is the last dot of the group that was missing.
LEMMA MergedVectorProperty ==
  ASSUME NEW v, IsDotSet(v), NEW list, IsDotMap(list),
         \A r \in Pids : \A e \in list[r] : \A c \in 0 .. e : c > Get(v, r) => c \in list[r]
  PROVE  /\ Insertable(v, list)
         /\ IsDotSet(MergedVector(v, list)) /\ DOMAIN MergedVector(v, list) \subseteq DOMAIN v \cup Pids
         /\ \A r \in Pids :
              /\ Get(v, r) <= Get(MergedVector(v, list), r)
              /\ 0 .. Get(MergedVector(v, list), r) = (0 .. Get(v, r)) \cup Missing(v, list, r)
              /\ Get(MergedVector(v, list), r) \in list[r] \cup {Get(v, r)}
<1> DEFINE V == MergedVector(v, list)
           miss(r) == Missing(v, list, r)
<1>1. DOMAIN list = Pids /\ \A r \in Pids : list[r] \subseteq Nat
  BY DEF IsDotMap
<1>2. \A r \in Pids : Get(v, r) \in Int /\ Get(v, r) >= -1
  BY GetType
<1>3. \A r \in Pids : miss(r) = {c \in list[r] : c > Get(v, r)}
  BY <1>1, <1>2 DEF Missing, Contains, Get, IsDotSet
<1> HIDE DEF miss
<1>4. Insertable(v, list)
  <2> SUFFICES ASSUME NEW r \in Pids, NEW c \in miss(r)
               PROVE  \/ c - 1 \in miss(r)
                      \/ r \in DOMAIN v /\ c = v[r] + 1
                      \/ r \notin DOMAIN v /\ \A e \in miss(r) : c <= e
    BY <1>1 DEF Insertable, miss
  <2>1. c \in Nat /\ c \in list[r] /\ c > Get(v, r)
    BY <1>1, <1>3
  <2>2. CASE c = Get(v, r) + 1
    BY <2>1, <2>2, <1>1, <1>3, SMTT(30) DEF Get
  <2>3. CASE c # Get(v, r) + 1
    <3>1. c - 1 \in 0 .. c /\ c - 1 > Get(v, r)
      BY <2>1, <2>3, <1>2
    <3>. QED  BY <3>1, <2>1, <1>3
  <2>. QED  BY <2>2, <2>3
<1>5. ASSUME NEW r \in Pids, miss(r) # {}
      PROVE  /\ Max(miss(r)) \in miss(r) /\ Max(miss(r)) \in Nat
             /\ Max(miss(r)) > Get(v, r) /\ Max(miss(r)) \in list[r]
             /\ 0 .. Max(miss(r)) = (0 .. Get(v, r)) \cup miss(r)
  <2>1. PICK b \in list[r] : \A e \in list[r] : e <= b
    BY <1>3, <1>5 DEF IsDotMap
  <2>2. /\ miss(r) \in SUBSET Int /\ \A e \in miss(r) : e <= b
        /\ b \in Int
    BY <2>1, <1>1, <1>3
  <2>3. Max(miss(r)) \in miss(r) /\ \A e \in miss(r) : e <= Max(miss(r))
    BY <2>2, <1>5, MaxProperty, Zenon
  <2> DEFINE mx == Max(miss(r))
  <2> HIDE DEF mx
  <2>4. mx \in miss(r) /\ (\A e \in miss(r) : e <= mx) /\ mx \in Nat /\ mx > Get(v, r) /\ mx \in list[r]
    BY <2>3, <1>1, <1>3 DEF mx
  <2>5. \A c \in 0 .. mx : c > Get(v, r) => c \in miss(r)
    BY <2>4, <1>3
  <2>6. 0 .. mx = (0 .. Get(v, r)) \cup miss(r)
    BY <2>4, <2>5, <1>1, <1>2, <1>3, SMTT(30), Z3T(30)
  <2>. QED  BY <2>4, <2>6 DEF mx
<1>6. V = [r \in DOMAIN v \cup {q \in Pids : miss(q) # {}} |->
             IF r \in Pids /\ miss(r) # {} THEN Max(miss(r)) ELSE v[r]]
  BY <1>1 DEF MergedVector, miss
<1> HIDE DEF V
<1>7. \A r \in Pids : Get(V, r) = IF miss(r) # {} THEN Max(miss(r)) ELSE Get(v, r)
  BY <1>6 DEF Get
<1>8. IsDotSet(V) /\ DOMAIN V \subseteq DOMAIN v \cup Pids
  <2>1. DOMAIN V \subseteq Columns /\ DOMAIN V \subseteq DOMAIN v \cup Pids
    BY <1>6 DEF IsDotSet, Columns
  <2>2. \A r \in DOMAIN V : V[r] \in Int /\ V[r] >= -1
    BY <1>5, <1>6 DEF IsDotSet
  <2>3. V = [r \in DOMAIN V |-> V[r]]
    BY <1>6
  <2>. QED  BY <2>1, <2>2, <2>3 DEF IsDotSet
<1>9. ASSUME NEW r \in Pids
      PROVE  /\ Get(v, r) <= Get(V, r)
             /\ 0 .. Get(V, r) = (0 .. Get(v, r)) \cup miss(r)
             /\ Get(V, r) \in list[r] \cup {Get(v, r)}
  <2>1. CASE miss(r) = {}
    BY <2>1, <1>2, <1>7, SMTT(30)
  <2>2. CASE miss(r) # {}
    BY <2>2, <1>2, <1>5, <1>7, SMTT(30)
  <2>. QED  BY <2>1, <2>2
<1>. QED  BY <1>4, <1>8, <1>9 DEF V, miss

\* What a state s that p moves to must satisfy for the invariant to survive.
Fine(p, s) ==
  /\ IsRep(s) /\ LocalOK(s) /\ Behind(s.marker.stable)
  /\ \A r \in Pids : Get(rep[p].vv, r) <= Get(s.vv, r)
  /\ \A r \in Pids : Get(s.vv, r) <= Get(IF r = p THEN s.vv ELSE rep[r].vv, r)
  /\ \A q, r \in Pids :
       Get(s.matrix[q], r) <= Get(IF q = p THEN s.vv ELSE rep[q].vv, r)
  /\ \A q, r \in Pids : \A c \in 0 .. Get(s.vv, r) :
       c \in s.log[r] \/ c <= Get(rep[q].vv, r)

\* The version vectors of the replicas, in particular.
LEMMA VectorType ==
  ASSUME TypeOK, NEW q \in Pids, NEW r
  PROVE  IsDotSet(rep[q].vv) /\ Get(rep[q].vv, r) \in Int /\ Get(rep[q].vv, r) >= -1
BY GetType, Zenon DEF TypeOK, IsRep

\* The current state of a replica is fine.
LEMMA CurrentFine ==
  ASSUME FixedInv, NEW p \in Pids
  PROVE  Fine(p, rep[p])
<1>1. IsRep(rep[p]) /\ LocalOK(rep[p]) /\ Behind(rep[p].marker.stable)
  BY DEF FixedInv, TypeOK
<1>2. \A r \in Pids : Get(rep[p].vv, r) <= Get(rep[p].vv, r)
  BY <1>1, GetType, SMTT(30) DEF IsRep
<1>3. \A q, r \in Pids :
        Get(rep[p].matrix[q], r) <= Get(IF q = p THEN rep[p].vv ELSE rep[q].vv, r)
  BY DEF FixedInv, RowsBehind
<1>4. \A q, r \in Pids : \A c \in 0 .. Get(rep[p].vv, r) :
        c \in rep[p].log[r] \/ c <= Get(rep[q].vv, r)
  BY DEF FixedInv, LogsCover
<1>5. \A r \in Pids : Get(rep[p].vv, r) <= Get(IF r = p THEN rep[p].vv ELSE rep[r].vv, r)
  BY DEF FixedInv, EntriesBehind
<1>. QED  BY <1>1, <1>2, <1>3, <1>4, <1>5, Zenon DEF Fine

\* Replacing one row of the matrix by a vector that lags behind its replica.
LEMMA UpdateFine ==
  ASSUME FixedInv, NEW p \in Pids, NEW s, Fine(p, s), NEW q \in Pids,
         NEW v, IsDotSet(v),
         \A r \in Pids : Get(v, r) <= Get(IF q = p THEN s.vv ELSE rep[q].vv, r)
  PROVE  Fine(p, [s EXCEPT !.matrix = Update(s.matrix, p, q, v)])
<1> DEFINE t == [s EXCEPT !.matrix = Update(s.matrix, p, q, v)]
           M == Update(s.matrix, p, q, v)
<1>1. /\ t = [vv |-> s.vv, log |-> s.log, applied |-> s.applied,
              matrix |-> M, finals |-> s.finals, marker |-> s.marker]
      /\ t.vv = s.vv /\ t.log = s.log /\ t.applied = s.applied
      /\ t.matrix = M /\ t.finals = s.finals /\ t.marker = s.marker
  BY DEF Fine, IsRep
<1>2. M = s.matrix \/ M = [x \in DOMAIN s.matrix \cup {q} |-> IF x = q THEN v ELSE s.matrix[x]]
  BY DEF Update
<1>3. /\ M = [x \in DOMAIN M |-> M[x]]
      /\ DOMAIN M \subseteq Columns /\ Pids \subseteq DOMAIN M
      /\ \A x \in DOMAIN M : IsDotSet(M[x]) /\ M[x] \in {v, s.matrix[x]} /\ (x # q => M[x] = s.matrix[x])
  BY <1>2, ZenonT(30) DEF Fine, IsRep, LocalOK, Columns
<1> HIDE DEF t, M
<1>4. IsRep(t)
  BY <1>1, <1>3, Zenon DEF Fine, IsRep
<1>5. LocalOK(t) /\ Behind(t.marker.stable)
  BY <1>1, <1>3 DEF Fine, LocalOK
<1>6. \A x, r \in Pids : Get(M[x], r) <= Get(IF x = p THEN s.vv ELSE rep[x].vv, r)
  BY <1>3, Zenon DEF Fine
<1>7. Fine(p, t)
  BY <1>1, <1>4, <1>5, <1>6 DEF Fine
<1>. QED  BY <1>7 DEF t

\* refresh_own_version_vector
LEMMA RefreshedFine ==
  ASSUME FixedInv, NEW p \in Pids, NEW s, Fine(p, s)
  PROVE  Fine(p, Refreshed(s, p))
<1>1. IsRep(s) /\ IsDotSet(s.vv)
  BY DEF Fine, IsRep
<1>2. \A r \in Pids : Get(Outgoing(s), r) <= Get(IF p = p THEN s.vv ELSE rep[p].vv, r)
  BY <1>1, OutgoingProperty, GetType
<1>. QED  BY <1>1, <1>2, OutgoingProperty, UpdateFine, Zenon DEF Refreshed

\* ORSet::mutate
LEMMA MutatedFine ==
  ASSUME FixedInv, NEW p \in Pids, NEW s, Fine(p, s)
  PROVE  Fine(p, Mutated(s, p))
<1> DEFINE c == NextCounter(s.vv, p)
           V == SetCounter(s.vv, p, c)
           L == [s.log EXCEPT ![p] = @ \cup {c}]
           A == [s.applied EXCEPT ![p] = @ \cup {c}]
           t == Mutated(s, p)
<1>1. /\ t = [vv |-> V, log |-> L, applied |-> A,
              matrix |-> s.matrix, finals |-> s.finals, marker |-> s.marker]
      /\ t.vv = V /\ t.log = L /\ t.applied = A
      /\ t.matrix = s.matrix /\ t.finals = s.finals /\ t.marker = s.marker
  BY DEF Mutated
<1>2. /\ IsRep(s) /\ LocalOK(s) /\ Behind(s.marker.stable)
      /\ IsDotSet(s.vv) /\ IsDotMap(s.log) /\ IsDotMap(s.applied)
  BY DEF Fine, IsRep
<1>3. c = Get(s.vv, p) + 1 /\ c \in Nat
  BY <1>2, SMT, Z3 DEF NextCounter, Get, IsDotSet
<1>4. /\ IsDotSet(V) /\ DOMAIN V \subseteq Pids
      /\ \A r \in Pids : Get(V, r) = IF r = p THEN c ELSE Get(s.vv, r)
  BY <1>2, <1>3, SMTT(30), Z3T(30) DEF SetCounter, IsDotSet, Get, LocalOK, Columns
<1> HIDE DEF c, V
<1>5. \A r \in Pids : A[r] = 0 .. Get(V, r) /\ L[r] \subseteq A[r]
  <2> TAKE r \in Pids
  <2>1. CASE r = p
    <3>1. s.applied[p] = 0 .. c - 1 /\ s.log[p] \subseteq s.applied[p]
      BY <1>2, <1>3, GetType DEF LocalOK
    <3>2. A[p] = s.applied[p] \cup {c} /\ L[p] = s.log[p] \cup {c}
      BY <1>2 DEF IsDotMap
    <3>3. Get(V, p) = c
      BY <1>4
    <3> HIDE DEF L, A
    <3>4. A[p] = 0 .. c
      BY <3>1, <3>2, <1>3, SMT, Z3
    <3>. QED  BY <2>1, <3>1, <3>2, <3>3, <3>4, Zenon
  <2>2. CASE r # p
    BY <2>2, <1>2, <1>4 DEF LocalOK, IsDotMap
  <2>. QED  BY <2>1, <2>2
<1>6. IsDotMap(L) /\ IsDotMap(A)
  <2>1. L \in [Pids -> SUBSET Nat] /\ A \in [Pids -> SUBSET Nat]
    BY <1>2, <1>3 DEF IsDotMap
  <2>2. \A e \in A[p] : e <= c
    <3> HIDE DEF A
    <3>. QED  BY <1>3, <1>4, <1>5, SMT, Z3
  <2>3. c \in L[p] /\ c \in A[p]
    BY <2>1, <1>2 DEF IsDotMap
  <2>4. \A r \in Pids : r # p => L[r] = s.log[r] /\ A[r] = s.applied[r]
    BY <1>2 DEF IsDotMap
  <2>. QED  BY <2>1, <2>2, <2>3, <2>4, <1>2, <1>5, ZenonT(30) DEF IsDotMap
<1>7. \A q, r \in Pids : \A e \in 0 .. Get(V, r) : e \in L[r] \/ e <= Get(rep[q].vv, r)
  <2> TAKE q, r \in Pids
  <2> TAKE e \in 0 .. Get(V, r)
  <2>1. CASE r = p /\ e = c
    BY <2>1, <1>2, Zenon DEF IsDotMap
  <2>2. CASE ~(r = p /\ e = c)
    <3>1. e \in 0 .. Get(s.vv, r)
      BY <2>2, <1>2, <1>3, <1>4, GetType, SMTT(30), Z3T(30)
    <3>2. e \in s.log[r] \/ e <= Get(rep[q].vv, r)
      BY <3>1 DEF Fine
    <3>. QED  BY <3>2, <1>2, Zenon DEF IsDotMap
  <2>. QED  BY <2>1, <2>2
<1>8. \A r \in Pids : Get(s.vv, r) <= Get(V, r) /\ Get(V, r) \in Int /\ Get(s.vv, r) \in Int
  BY <1>2, <1>3, <1>4, GetType, SMT, Z3
<1>9. \A q, r \in Pids : Get(s.matrix[q], r) <= Get(IF q = p THEN V ELSE rep[q].vv, r)
  <2> TAKE q, r \in Pids
  <2>1. Get(s.matrix[q], r) <= Get(IF q = p THEN s.vv ELSE rep[q].vv, r)
    BY DEF Fine
  <2>2. Get(s.matrix[q], r) \in Int
    BY <1>2, GetType, Zenon DEF IsRep, LocalOK
  <2>. QED  BY <2>1, <2>2, <1>8
<1>14. \A r \in Pids : Get(V, r) <= Get(IF r = p THEN V ELSE rep[r].vv, r)
  BY <1>3, <1>4, <1>8, SMTT(30), Z3T(30) DEF Fine
<1>10. \A r \in Pids : Get(rep[p].vv, r) <= Get(V, r)
  <2> TAKE r \in Pids
  <2>1. Get(rep[p].vv, r) \in Int
    BY GetType, Zenon DEF FixedInv, TypeOK, IsRep
  <2>2. Get(rep[p].vv, r) <= Get(s.vv, r)
    BY DEF Fine
  <2>. QED  BY <2>1, <2>2, <1>8
<1> HIDE DEF L, A, t
<1>11. IsRep(t)
  BY <1>1, <1>2, <1>4, <1>6, Zenon DEF IsRep
<1>12. LocalOK(t) /\ Behind(t.marker.stable)
  BY <1>1, <1>2, <1>4, <1>5, Zenon DEF LocalOK
<1>13. Fine(p, t)
  BY <1>1, <1>7, <1>9, <1>10, <1>11, <1>12, <1>14, ZenonT(30) DEF Fine
<1>. QED  BY <1>13, ZenonT(30) DEF t

\* ApplyMarker with no departed replica: the marker becomes the stable row, and
\* rows of replicas change only in the Stable column.
LEMMA ApplyMarkerRows ==
  ASSUME NEW s, IsRep(s), LocalOK(s), NEW p \in Pids, NEW m, IsMarker(m), m.departed = {}
  PROVE  LET M == ApplyMarker(s.matrix, s.finals, p, m)
         IN /\ M = [q \in DOMAIN M |-> M[q]]
            /\ DOMAIN M \subseteq Columns /\ Pids \subseteq DOMAIN M
            /\ \A q \in DOMAIN M : IsDotSet(M[q])
            /\ \A q, r \in Pids : Get(M[q], r) = Get(s.matrix[q], r)
<1> DEFINE M == ApplyMarker(s.matrix, s.finals, p, m)
           row(q) == IF q = Stable THEN SetCounter(m.stable, Stable, m.counter)
                     ELSE IF q = p THEN SetCounter(s.matrix[q], Stable, m.counter)
                     ELSE s.matrix[q]
<1>1. Removable(s.matrix, s.finals, m.departed) = {}
  BY DEF Removable
<1>2. \A q \in DOMAIN s.matrix : RemovePids(s.matrix[q], {}) = s.matrix[q]
  BY DEF RemovePids, IsRep, IsDotSet
<1>3. RemoveRows(s.matrix, {}) = s.matrix
  BY <1>2, Zenon DEF RemoveRows, IsRep
<1>4. M = [q \in DOMAIN s.matrix \cup {Stable} |-> row(q)]
  BY <1>1, <1>3 DEF ApplyMarker
<1>5. m.counter \in Int /\ m.counter >= -1 /\ IsDotSet(m.stable)
  BY ConstantsAssumption, SMT, Z3 DEF IsMarker
<1>6. \A v : IsDotSet(v) => /\ IsDotSet(SetCounter(v, Stable, m.counter))
                            /\ \A r \in Pids : Get(SetCounter(v, Stable, m.counter), r) = Get(v, r)
  BY <1>5, ConstantsAssumption DEF IsDotSet, SetCounter, Get, Columns
<1>7. DOMAIN s.matrix \subseteq Columns /\ Pids \subseteq DOMAIN s.matrix
      /\ \A q \in DOMAIN s.matrix : IsDotSet(s.matrix[q])
  BY DEF IsRep, LocalOK
<1>8. \A q \in DOMAIN s.matrix \cup {Stable} : IsDotSet(row(q))
  BY <1>5, <1>6, <1>7, Zenon
<1>9. \A q, r \in Pids : Get(row(q), r) = Get(s.matrix[q], r)
  BY <1>6, <1>7, ConstantsAssumption, Zenon
<1> HIDE DEF M, row
<1>10. DOMAIN M = DOMAIN s.matrix \cup {Stable} /\ \A q \in DOMAIN M : M[q] = row(q)
  BY <1>4
<1>11. M = [q \in DOMAIN M |-> M[q]]
  BY <1>4
<1>12. \A q, r \in Pids : Get(M[q], r) = Get(s.matrix[q], r)
  BY <1>7, <1>9, <1>10, Zenon
<1>13. QED
  BY <1>7, <1>8, <1>10, <1>11, <1>12, Zenon DEF Columns, M

\* Replica::apply_gc_marker, for a marker whose frontier everybody covers.
LEMMA AfterMarkerFine ==
  ASSUME FixedInv, NEW p \in Pids, NEW s, Fine(p, s),
         NEW m, IsMarker(m), m.departed = {}, Behind(m.stable)
  PROVE  /\ Fine(p, AfterMarker(s, p, m))
         /\ AfterMarker(s, p, m).vv = s.vv /\ AfterMarker(s, p, m).marker = m
<1> DEFINE t == AfterMarker(s, p, m)
           M == ApplyMarker(s.matrix, s.finals, p, m)
           L == Retain(s.log, m.stable, m.departed)
<1>1. IsRep(s) /\ LocalOK(s)
  BY DEF Fine
<1>2. RemovePids(s.vv, m.departed) = s.vv
  BY <1>1 DEF RemovePids, IsRep, IsDotSet
<1>3. RemovePids(s.finals, Removable(s.matrix, s.finals, m.departed)) = s.finals
  BY <1>1, Zenon DEF RemovePids, Removable, IsRep, IsDotSet
<1>4. /\ t = [vv |-> s.vv, log |-> L, applied |-> s.applied,
              matrix |-> M, finals |-> s.finals, marker |-> m]
      /\ t.vv = s.vv /\ t.log = L /\ t.applied = s.applied
      /\ t.matrix = M /\ t.finals = s.finals /\ t.marker = m
  BY <1>2, <1>3, Zenon DEF AfterMarker
<1>5. /\ L \in [Pids -> SUBSET Nat]
      /\ \A r \in Pids : L[r] \subseteq s.log[r]
      /\ \A r \in Pids : \A c \in s.log[r] : c \in L[r] \/ Contains(m.stable, r, c)
  BY <1>1, ZenonT(30) DEF Retain, IsRep, IsDotMap
<1>6. IsDotMap(L)
  BY <1>1, <1>5, BoundedDotMap, SMTT(30), Z3T(30) DEF IsRep, IsDotMap
<1>7. /\ M = [q \in DOMAIN M |-> M[q]]
      /\ DOMAIN M \subseteq Columns /\ Pids \subseteq DOMAIN M
      /\ \A q \in DOMAIN M : IsDotSet(M[q])
      /\ \A q, r \in Pids : Get(M[q], r) = Get(s.matrix[q], r)
  BY <1>1, ApplyMarkerRows, SMTT(30), Z3T(30)
<1>8. \A q, r \in Pids : \A c \in 0 .. Get(s.vv, r) : c \in L[r] \/ c <= Get(rep[q].vv, r)
  <2> TAKE q, r \in Pids
  <2> TAKE c \in 0 .. Get(s.vv, r)
  <2>1. CASE c \in s.log[r] /\ Contains(m.stable, r, c)
    <3>1. c <= Get(m.stable, r)
      BY <2>1 DEF Contains, Get
    <3>2. Get(m.stable, r) <= Get(rep[q].vv, r)
      BY Zenon DEF Behind
    <3>3. Get(m.stable, r) \in Int /\ Get(rep[q].vv, r) \in Int /\ Get(s.vv, r) \in Int
      BY <1>1, VectorType, GetType, Zenon DEF FixedInv, IsRep, IsMarker
    <3>. QED  BY <3>1, <3>2, <3>3, SMTT(30), Z3T(30)
  <2>2. CASE ~(c \in s.log[r] /\ Contains(m.stable, r, c))
    BY <2>2, <1>5, Zenon DEF Fine
  <2>. QED  BY <2>1, <2>2, Zenon
<1> HIDE DEF t, M, L
<1>9. IsRep(t)
  BY <1>1, <1>4, <1>6, <1>7, Zenon DEF IsRep
<1>10. LocalOK(t) /\ Behind(t.marker.stable)
  <2>1. \A r \in Pids : L[r] \subseteq s.applied[r]
    BY <1>1, <1>5 DEF LocalOK
  <2>. QED  BY <2>1, <1>1, <1>4, <1>7, Zenon DEF LocalOK
<1>11. \A q, r \in Pids : Get(M[q], r) <= Get(IF q = p THEN s.vv ELSE rep[q].vv, r)
  BY <1>7, Zenon DEF Fine
<1>12. Fine(p, t)
  BY <1>4, <1>8, <1>9, <1>10, <1>11, ZenonT(30) DEF Fine
<1>. QED  BY <1>4, <1>12, Zenon DEF t

\* Replica::observe_gc: the marker is applied when it is newer.
LEMMA ObservedFine ==
  ASSUME FixedInv, NEW p \in Pids, NEW m, IsMarker(m), m.departed = {}, Behind(m.stable)
  PROVE  Fine(p, Observed(rep[p], p, m)) /\ Observed(rep[p], p, m).vv = rep[p].vv
<1>1. Fine(p, rep[p])
  BY CurrentFine
<1>2. Fine(p, AfterMarker(rep[p], p, m)) /\ AfterMarker(rep[p], p, m).vv = rep[p].vv
  BY <1>1, AfterMarkerFine, SMT, Z3
<1>. QED  BY <1>1, <1>2 DEF Observed

\* ORSet::merge_delta_group, for a group without a gap.
LEMMA MergedFine ==
  ASSUME FixedInv, NEW p \in Pids, NEW s, Fine(p, s), NEW list, IsDotMap(list),
         \A r \in Pids : \A e \in list[r] :
            /\ e <= Get(rep[r].vv, r)
            /\ \A c \in 0 .. e : c > Get(s.vv, r) => c \in list[r]
  PROVE  Insertable(s.vv, list) /\ Fine(p, Merged(s, list))
<1> DEFINE V == MergedVector(s.vv, list)
           L == MergedLog(s.log, s.vv, list)
           A == MergedLog(s.applied, s.vv, list)
           t == Merged(s, list)
<1>1. /\ t = [vv |-> V, log |-> L, applied |-> A,
              matrix |-> s.matrix, finals |-> s.finals, marker |-> s.marker]
      /\ t.vv = V /\ t.log = L /\ t.applied = A
      /\ t.matrix = s.matrix /\ t.finals = s.finals /\ t.marker = s.marker
  BY Zenon DEF Merged
<1>2. /\ IsRep(s) /\ LocalOK(s) /\ Behind(s.marker.stable)
      /\ IsDotSet(s.vv) /\ IsDotMap(s.log) /\ IsDotMap(s.applied)
  BY Zenon DEF Fine, IsRep
<1>3. /\ Insertable(s.vv, list)
      /\ IsDotSet(V) /\ DOMAIN V \subseteq Pids
      /\ \A r \in Pids :
           /\ Get(s.vv, r) <= Get(V, r)
           /\ 0 .. Get(V, r) = (0 .. Get(s.vv, r)) \cup Missing(s.vv, list, r)
           /\ Get(V, r) \in list[r] \cup {Get(s.vv, r)}
  BY <1>2, MergedVectorProperty, ZenonT(30) DEF LocalOK
<1> HIDE DEF V
<1>4. /\ L \in [Pids -> SUBSET Nat] /\ A \in [Pids -> SUBSET Nat]
      /\ \A r \in Pids : /\ L[r] = s.log[r] \cup Missing(s.vv, list, r)
                         /\ A[r] = s.applied[r] \cup Missing(s.vv, list, r)
  BY <1>2 DEF MergedLog, IsDotMap, Missing
<1> HIDE DEF L, A
<1>5. \A r \in Pids : A[r] = 0 .. Get(V, r) /\ L[r] \subseteq A[r]
  BY <1>2, <1>3, <1>4, Zenon DEF LocalOK
<1>6. \A r \in Pids : /\ Get(V, r) \in Int /\ Get(s.vv, r) \in Int
                      /\ Get(rep[p].vv, r) \in Int /\ Get(rep[r].vv, r) \in Int
  BY <1>2, <1>3, GetType, VectorType, Zenon DEF FixedInv
<1>7. IsDotMap(L) /\ IsDotMap(A)
  <2>1. ASSUME NEW r \in Pids
        PROVE  (\A e \in A[r] : e <= Get(V, r)) /\ (\A e \in L[r] : e <= Get(V, r))
    <3>1. A[r] = 0 .. Get(V, r) /\ L[r] \subseteq A[r] /\ Get(V, r) \in Int
      BY <1>5, <1>6, Zenon
    <3>. QED  BY ONLY <3>1, SMT, Z3
  <2>. QED  BY <2>1, <1>4, <1>6, BoundedDotMap, Zenon
<1>8. \A q, r \in Pids : \A c \in 0 .. Get(V, r) : c \in L[r] \/ c <= Get(rep[q].vv, r)
  <2> TAKE q, r \in Pids
  <2> TAKE c \in 0 .. Get(V, r)
  <2>1. c \in 0 .. Get(s.vv, r) \/ c \in Missing(s.vv, list, r)
    BY <1>3, Zenon
  <2>2. CASE c \in 0 .. Get(s.vv, r)
    <3>1. c \in s.log[r] \/ c <= Get(rep[q].vv, r)
      BY <2>2, Zenon DEF Fine
    <3>. QED  BY <3>1, <1>4, Zenon
  <2>3. CASE c \in Missing(s.vv, list, r)
    BY <2>3, <1>4, Zenon
  <2>. QED  BY <2>1, <2>2, <2>3, Zenon
<1>9. \A q, r \in Pids : Get(s.matrix[q], r) <= Get(IF q = p THEN V ELSE rep[q].vv, r)
  <2> TAKE q, r \in Pids
  <2>1. Get(s.matrix[q], r) <= Get(IF q = p THEN s.vv ELSE rep[q].vv, r)
    BY Zenon DEF Fine
  <2>2. Get(s.matrix[q], r) \in Int
    BY <1>2, GetType, Zenon DEF IsRep, LocalOK
  <2>3. Get(s.vv, r) <= Get(V, r) /\ Get(V, r) \in Int /\ Get(s.vv, r) \in Int
    BY <1>3, <1>6, Zenon
  <2>4. CASE q = p
    <3>1. Get(s.matrix[q], r) <= Get(s.vv, r)
      BY <2>1, <2>4
    <3>2. Get(s.matrix[q], r) <= Get(V, r)
      BY ONLY <3>1, <2>2, <2>3, SMT, Z3
    <3>. QED  BY <3>2, <2>4, Zenon
  <2>5. CASE q # p
    BY <2>1, <2>5
  <2>. QED  BY <2>4, <2>5, Zenon
<1>10. \A r \in Pids : Get(rep[p].vv, r) <= Get(V, r)
  <2> TAKE r \in Pids
  <2>1. Get(rep[p].vv, r) <= Get(s.vv, r)
    BY Zenon DEF Fine
  <2>2. Get(s.vv, r) <= Get(V, r) /\ Get(V, r) \in Int /\ Get(s.vv, r) \in Int /\ Get(rep[p].vv, r) \in Int
    BY <1>3, <1>6, Zenon
  <2>. QED  BY ONLY <2>1, <2>2, SMT, Z3
<1>11. \A r \in Pids : Get(V, r) <= Get(IF r = p THEN V ELSE rep[r].vv, r)
  <2> TAKE r \in Pids
  <2>1. CASE r = p
    <3>1. Get(V, r) \in Int
      BY <1>6
    <3>2. Get(V, r) <= Get(V, r)
      BY ONLY <3>1, SMT, Z3
    <3>. QED  BY <3>2, <2>1, Zenon
  <2>2. CASE r # p
    <3>1. Get(s.vv, r) <= Get(rep[r].vv, r)
      BY <2>2, Zenon DEF Fine
    <3>2. Get(V, r) \in list[r] \/ Get(V, r) = Get(s.vv, r)
      BY <1>3, Zenon
    <3>3. Get(V, r) <= Get(rep[r].vv, r)
      BY <3>1, <3>2, Zenon
    <3>. QED  BY <3>3, <2>2, Zenon
  <2>. QED  BY <2>1, <2>2
<1> HIDE DEF t
<1>12. IsRep(t)
  BY <1>1, <1>2, <1>3, <1>7, Zenon DEF IsRep
<1>13. LocalOK(t) /\ Behind(t.marker.stable)
  BY <1>1, <1>2, <1>3, <1>5, Zenon DEF LocalOK
<1>14. Fine(p, t)
  BY <1>1, <1>8, <1>9, <1>10, <1>11, <1>12, <1>13, ZenonT(30) DEF Fine
<1>. QED  BY <1>3, <1>14, Zenon DEF t

-----------------------------------------------------------------------------
(* The invariant in five parts, one per group of variables.                *)

RepsOK ==
  /\ Pids = DOMAIN rep
  /\ \A p \in Pids : IsRep(rep[p]) /\ LocalOK(rep[p]) /\ Behind(rep[p].marker.stable)
  /\ RowsBehind /\ EntriesBehind /\ LogsCover

MsgsOK == \A m \in msgs : IsMessage(m) /\ Fits(m)

RoundsOK ==
  /\ Pids = DOMAIN round
  /\ \A p \in Pids : \A r \in round[p] :
       IsRound(r) /\ r.marker.departed = {} /\ Behind(r.marker.stable)

StoreOK ==
  /\ Pids = DOMAIN payload /\ \A p \in Pids : IsRep(payload[p])
  /\ \A s \in snapshot : IsRep(s)
  /\ \A d \in dir : IsDescriptor(d) /\ d.final = {}

Steps == {"loop", "validate", "abort", "withdraw", "relist", "complete", "old"}

LoopOK ==
  /\ status \in [Pids -> {"running"}] /\ pc \in [Pids -> Steps]
  /\ acked \in [Pids -> Nat] /\ writers \in [Pids -> SUBSET Pids]
  /\ Pids = DOMAIN cache /\ Pids = DOMAIN poll /\ Pids = DOMAIN fetched /\ Pids = DOMAIN todo
  /\ \A p \in Pids :
       /\ todo[p] = {}
       /\ \A d \in cache[p] : IsDescriptor(d)
       /\ \A d \in UNION poll[p] : IsDescriptor(d) /\ d.final = {}
       /\ \A s \in UNION fetched[p] : IsRep(s)

\* The invariant, regrouped by the part of the state each conjunct is about.
LEMMA Parts == FixedInv <=> RepsOK /\ MsgsOK /\ RoundsOK /\ StoreOK /\ LoopOK
<1>1. FixedInv => RepsOK
  BY Zenon DEF FixedInv, TypeOK, RepsOK
<1>2. FixedInv => MsgsOK /\ RoundsOK /\ StoreOK
  BY Zenon DEF FixedInv, TypeOK, NobodyMoves, MsgsOK, RoundsOK, StoreOK
<1>3. FixedInv => LoopOK
  <2> SUFFICES ASSUME FixedInv PROVE LoopOK
    BY ZenonT(30)
  <2>1. status \in [Pids -> {"running"}] /\ pc \in [Pids -> Steps]
    BY DEF FixedInv, TypeOK, NobodyMoves, Steps
  <2>. QED  BY <2>1, Zenon DEF FixedInv, TypeOK, NobodyMoves, LoopOK
<1>4. RepsOK /\ MsgsOK /\ RoundsOK /\ StoreOK /\ LoopOK => FixedInv
  <2> SUFFICES ASSUME RepsOK, MsgsOK, RoundsOK, StoreOK, LoopOK PROVE FixedInv
    BY Zenon
  <2>1. NobodyMoves
    BY DEF RoundsOK, StoreOK, LoopOK, Steps, NobodyMoves
  <2>2. /\ status \in [Pids -> {"down", "booting", "running", "panicked", "stopping", "stopped"}]
        /\ pc \in [Pids -> {"register", "list", "install", "loop", "departures", "validate",
                            "abort", "withdraw", "relist", "complete", "departed", "old"}]
    BY ZenonT(30) DEF LoopOK, Steps
  <2>3. TypeOK
    BY <2>2 DEF RepsOK, MsgsOK, RoundsOK, StoreOK, LoopOK, TypeOK
  <2>. QED  BY <2>1, <2>3 DEF RepsOK, MsgsOK, FixedInv
<1>. QED  BY <1>1, <1>2, <1>3, <1>4, Zenon

\* The same after a step.
LEMMA PartsPrime == RepsOK' /\ MsgsOK' /\ RoundsOK' /\ StoreOK' /\ LoopOK' => FixedInv'
BY Parts, PTL

\* A replica moves to a fine state: vectors grow, and every statement about
\* them that was behind them still is.
LEMMA RepStep ==
  ASSUME FixedInv, NEW p \in Pids, NEW s, Fine(p, s), rep' = [rep EXCEPT ![p] = s]
  PROVE  /\ RepsOK' /\ rep'[p] = s
         /\ \A f : IsDotSet(f) /\ Behind(f) => Behind(f)'
         /\ \A m : IsMessage(m) /\ Fits(m) => Fits(m)'
<1> DEFINE R(q) == IF q = p THEN s ELSE rep[q]
<1>1. DOMAIN rep = Pids /\ DOMAIN rep' = Pids /\ rep'[p] = s /\ \A q \in Pids : rep'[q] = R(q)
  BY Zenon DEF FixedInv, TypeOK
<1>2. \A q \in Pids : IsRep(rep'[q]) /\ LocalOK(rep'[q])
  BY <1>1 DEF Fine, FixedInv, TypeOK
<1>3. \A q, r \in Pids : /\ Get(rep[q].vv, r) \in Int /\ Get(rep'[q].vv, r) \in Int
                         /\ Get(rep[q].vv, r) <= Get(rep'[q].vv, r)
  <2> TAKE q, r \in Pids
  <2>1. Get(rep[q].vv, r) \in Int
    BY VectorType DEF FixedInv
  <2>2. Get(rep'[q].vv, r) \in Int
    BY <1>2, GetType, ZenonT(30) DEF IsRep
  <2>3. Get(rep[q].vv, r) <= Get(rep'[q].vv, r)
    BY <2>1, <1>1, SMT, Z3 DEF Fine
  <2>. QED  BY <2>1, <2>2, <2>3, Zenon
<1>4. ASSUME NEW f, IsDotSet(f), Behind(f) PROVE Behind(f)'
  <2> SUFFICES ASSUME NEW q \in Pids, NEW r \in Pids PROVE Get(f, r) <= Get(rep'[q].vv, r)
    BY DEF Behind
  <2>1. Get(f, r) \in Int /\ Get(f, r) <= Get(rep[q].vv, r)
    BY <1>4, GetType, Zenon DEF Behind
  <2>. QED  BY <2>1, <1>3
<1>5. \A q \in Pids : Behind(rep[q].marker.stable)'
  <2> TAKE q \in Pids
  <2>1. /\ IsDotSet(R(q).marker.stable) /\ Behind(R(q).marker.stable)
    BY Zenon DEF Fine, IsRep, IsMarker, FixedInv, TypeOK
  <2>2. \A x : IsDotSet(x) /\ Behind(x) => \A y, r \in Pids : Get(x, r) <= Get(rep'[y].vv, r)
    BY <1>4, Zenon DEF Behind
  <2>3. \A y, r \in Pids : Get(rep'[q].marker.stable, r) <= Get(rep'[y].vv, r)
    BY <2>1, <2>2, <1>1, Zenon
  <2>. QED  BY <2>3 DEF Behind
<1>6. RowsBehind'
  <2> SUFFICES ASSUME NEW x \in Pids, NEW q \in Pids, NEW r \in Pids
               PROVE  Get(rep'[x].matrix[q], r) <= Get(rep'[q].vv, r)
    BY Zenon DEF RowsBehind
  <2>1. CASE x = p
    BY <2>1, <1>1, ZenonT(30) DEF Fine
  <2>2. CASE x # p
    <3>1. Get(rep[x].matrix[q], r) <= Get(rep[q].vv, r)
      BY DEF FixedInv, RowsBehind
    <3>2. Get(rep[x].matrix[q], r) \in Int
      BY GetType, ZenonT(30) DEF FixedInv, TypeOK, IsRep, LocalOK
    <3>. QED  BY <2>2, <3>1, <3>2, <1>1, <1>3, SMT, Z3
  <2>. QED  BY <2>1, <2>2, Zenon
<1>7. EntriesBehind'
  <2> SUFFICES ASSUME NEW x \in Pids, NEW r \in Pids
               PROVE  Get(rep'[x].vv, r) <= Get(rep'[r].vv, r)
    BY Zenon DEF EntriesBehind
  <2>1. CASE x = p
    BY <2>1, <1>1, Zenon DEF Fine
  <2>2. CASE x # p
    <3>1. Get(rep[x].vv, r) <= Get(rep[r].vv, r)
      BY Zenon DEF FixedInv, EntriesBehind
    <3>. QED  BY <2>2, <3>1, <1>1, <1>3, SMT, Z3
  <2>. QED  BY <2>1, <2>2
<1>8. LogsCover'
  <2> SUFFICES ASSUME NEW x \in Pids, NEW q \in Pids, NEW r \in Pids,
                      NEW c \in 0 .. Get(rep'[x].vv, r)
               PROVE  c \in rep'[x].log[r] \/ c <= Get(rep'[q].vv, r)
    BY Zenon DEF LogsCover
  <2>1. c \in rep'[x].log[r] \/ c <= Get(rep[q].vv, r)
    <3>1. CASE x = p
      BY <3>1, <1>1, Zenon DEF Fine
    <3>2. CASE x # p
      BY <3>2, <1>1, ZenonT(30) DEF FixedInv, LogsCover
    <3>. QED  BY <3>1, <3>2, Zenon
  <2>2. c \in Int
    BY <1>3, SMT, Z3
  <2>. QED  BY <2>1, <2>2, <1>3, SMT, Z3
<1>9. ASSUME NEW m, IsMessage(m), Fits(m) PROVE Fits(m)'
  <2>1. ASSUME m.kind = "vector", NEW r \in Pids PROVE Get(m.vv, r) <= Get(rep'[m.from].vv, r)
    <3>1. Get(m.vv, r) <= Get(rep[m.from].vv, r) /\ Get(m.vv, r) \in Int /\ m.from \in Pids
      BY <1>9, <2>1, GetType, Zenon DEF Fits, IsMessage
    <3>. QED  BY <3>1, <1>3, SMTT(30), Z3T(30)
  <2>2. ASSUME m.kind = "delta"
        PROVE  m.gc.departed = {} /\ \A q, r \in Pids : Get(m.gc.stable, r) <= Get(rep'[q].vv, r)
    <3>1. m.gc.departed = {} /\ Behind(m.gc.stable) /\ IsDotSet(m.gc.stable)
      BY <1>9, <2>2, ZenonT(30) DEF Fits, IsMessage, IsMarker
    <3>. QED  BY <3>1, <1>4, Zenon DEF Behind
  <2>3. ASSUME m.kind = "delta", NEW r \in Pids, NEW e \in m.list[r]
        PROVE  /\ e <= Get(rep'[r].vv, r)
               /\ \A c \in 0 .. e : c > Get(rep'[m.to].vv, r) => c \in m.list[r]
    <3>1. /\ e <= Get(rep[r].vv, r) /\ e \in Int /\ m.to \in Pids
          /\ \A c \in 0 .. e : c > Get(rep[m.to].vv, r) => c \in m.list[r]
      BY <1>9, <2>3, SMTT(30), Z3T(30) DEF Fits, IsMessage, IsDotMap
    <3>. QED  BY <3>1, <1>3, SMTT(30), Z3T(30)
  <2>. QED  BY <2>1, <2>2, <2>3, ZenonT(30) DEF Fits, Behind
<1>. QED  BY <1>1, <1>2, <1>4, <1>5, <1>6, <1>7, <1>8, <1>9, ZenonT(30) DEF RepsOK

\* The same for the whole state, when nothing is sent and no round begins.
LEMMA RepMoves ==
  ASSUME FixedInv, NEW p \in Pids, NEW s, Fine(p, s), rep' = [rep EXCEPT ![p] = s]
  PROVE  /\ RepsOK'
         /\ \A m \in msgs : IsMessage(m) /\ Fits(m)'
         /\ msgs' \subseteq msgs => MsgsOK'
         /\ UNCHANGED round => RoundsOK'
<1>1. /\ RepsOK'
      /\ \A f : IsDotSet(f) /\ Behind(f) => Behind(f)'
      /\ \A m : IsMessage(m) /\ Fits(m) => Fits(m)'
  BY RepStep, Zenon
<1>2. MsgsOK /\ RoundsOK
  BY Parts
<1>3. \A m \in msgs : IsMessage(m) /\ Fits(m)'
  BY <1>1, <1>2 DEF MsgsOK
<1>4. msgs' \subseteq msgs => MsgsOK'
  BY <1>3, ZenonT(30) DEF MsgsOK
<1>5. ASSUME UNCHANGED round PROVE RoundsOK'
  <2>1. \A q \in Pids : \A r \in round[q] : IsDotSet(r.marker.stable) /\ Behind(r.marker.stable)
    BY <1>2, Zenon DEF RoundsOK, IsRound, IsMarker
  <2>2. \A q \in Pids : \A r \in round[q] : \A x, y \in Pids :
          Get(r.marker.stable, y) <= Get(rep'[x].vv, y)
    BY <2>1, <1>1, Zenon DEF Behind
  <2>. QED  BY <2>2, <1>2, <1>5 DEF RoundsOK, Behind
<1>. QED  BY <1>1, <1>3, <1>4, <1>5, Zenon

\* A step that leaves the replicas' states alone and sends nothing.
LEMMA RepStays ==
  ASSUME FixedInv, UNCHANGED rep
  PROVE  /\ RepsOK'
         /\ msgs' \subseteq msgs => MsgsOK'
         /\ \A f : Behind(f) => Behind(f)'
         /\ UNCHANGED round => RoundsOK'
<1>1. RepsOK /\ MsgsOK /\ RoundsOK
  BY Parts, ZenonT(30)
<1>2. RepsOK'
  BY <1>1, SMTT(30), Z3T(30) DEF RepsOK, RowsBehind, EntriesBehind, LogsCover, Behind
<1>3. msgs' \subseteq msgs => MsgsOK'
  BY <1>1, Zenon DEF MsgsOK, Fits, Behind
<1>4. UNCHANGED round => RoundsOK'
  BY <1>1, ZenonT(30) DEF RoundsOK, Behind
<1>5. \A f : Behind(f) => Behind(f)'
  BY DEF Behind
<1>. QED  BY <1>2, <1>3, <1>4, <1>5, ZenonT(30)

-----------------------------------------------------------------------------
(* One lemma per action.                                                   *)

\* A client mutation: the new dot follows the last, and the log keeps it.
LEMMA MutateStep ==
  ASSUME FixedInv, NEW p \in Pids, Mutate(p)
  PROVE  FixedInv'
<1>1. RepsOK /\ MsgsOK /\ RoundsOK /\ StoreOK /\ LoopOK
  BY Parts
<1>2. Fine(p, Mutated(rep[p], p))
  BY CurrentFine, MutatedFine
<1>3. RepsOK' /\ MsgsOK' /\ RoundsOK'
  BY <1>2, RepMoves, Zenon DEF Mutate, network, control
<1>4. StoreOK' /\ LoopOK'
  <2>1. /\ UNCHANGED <<status, writers, dir, payload, snapshot>>
        /\ UNCHANGED <<cache, poll, fetched, todo, pc>>
        /\ acked' = [acked EXCEPT ![p] = @ + 1]
    BY Zenon DEF Mutate, network, storage, control
  <2>2. acked \in [Pids -> Nat]
    BY <1>1, Zenon DEF LoopOK
  <2>3. acked' \in [Pids -> Nat]
    BY ONLY <2>1, <2>2, SMT, Z3
  <2>4. StoreOK'
    BY <1>1, <2>1, ZenonT(30) DEF StoreOK
  <2>. QED  BY <1>1, <2>1, <2>3, <2>4, ZenonT(30) DEF LoopOK
<1>. QED  BY <1>3, <1>4, PartsPrime, Zenon

\* The own row of the matrix catches up with the version vector.
LEMMA RefreshOwnStep ==
  ASSUME FixedInv, NEW p \in Pids, RefreshOwn(p)
  PROVE  FixedInv'
<1>1. RepsOK /\ MsgsOK /\ RoundsOK /\ StoreOK /\ LoopOK
  BY Parts
<1>2. Fine(p, Refreshed(rep[p], p))
  BY CurrentFine, RefreshedFine
<1>3. RepsOK' /\ MsgsOK' /\ RoundsOK'
  BY <1>2, RepMoves, Zenon DEF RefreshOwn, network, control
<1>4. StoreOK' /\ LoopOK'
  BY <1>1, Zenon DEF RefreshOwn, network, storage, control, StoreOK, LoopOK
<1>. QED  BY <1>3, <1>4, PartsPrime

\* try_send: whatever the outcome, the messages stay good and so do the writers.
LEMMA SendStep ==
  ASSUME LoopOK, NEW p \in Pids, NEW q \in Pids, NEW m, NEW remaining, Send(p, q, remaining, m),
         \A n \in remaining \cup {m} : IsMessage(n) /\ Fits(n)'
  PROVE  MsgsOK' /\ writers' \in [Pids -> SUBSET Pids]
<1>1. msgs' \subseteq remaining \cup {m}
  BY DEF Send
<1>2. MsgsOK'
  BY <1>1, Zenon DEF MsgsOK
<1>3. writers' = writers \/ writers' = [writers EXCEPT ![p] = @ \ {q}]
  BY ZenonT(30) DEF Send
<1>4. writers \in [Pids -> SUBSET Pids]
  BY DEF LoopOK
<1>5. writers' \in [Pids -> SUBSET Pids]
  BY ONLY <1>3, <1>4, ZenonT(30)
<1>. QED  BY <1>2, <1>5, Zenon

\* A pull sends a vector the sender has reached, so it stays behind it.
LEMMA PullDeltaStep ==
  ASSUME FixedInv, NEW p \in Pids, NEW q \in writers[p], PullDelta(p, q)
  PROVE  FixedInv'
<1> PICK m : m = [kind |-> "vector", from |-> p, to |-> q, vv |-> Outgoing(rep[p])]
  BY Zenon
<1>1. RepsOK /\ MsgsOK /\ RoundsOK /\ StoreOK /\ LoopOK
  BY Parts
<1>2. Fine(p, Refreshed(rep[p], p)) /\ rep' = [rep EXCEPT ![p] = Refreshed(rep[p], p)]
  BY CurrentFine, RefreshedFine, Zenon DEF PullDelta
<1>3. /\ RepsOK' /\ RoundsOK' /\ \A n \in msgs : IsMessage(n) /\ Fits(n)'
  BY <1>2, RepMoves, Zenon DEF PullDelta, control
<1>4. q \in Pids
  BY <1>1, Zenon DEF LoopOK
<1>5. IsMessage(m) /\ Fits(m)
  <2>1. IsDotSet(Outgoing(rep[p])) /\ \A r \in Pids : Get(Outgoing(rep[p]), r) = Get(rep[p].vv, r)
    BY <1>1, OutgoingProperty, Zenon DEF RepsOK
  <2>2. \A r \in Pids : Get(rep[p].vv, r) <= Get(rep[p].vv, r)
    <3>1. TypeOK
      BY ZenonT(30) DEF FixedInv
    <3>2. \A r \in Pids : Get(rep[p].vv, r) \in Int
      BY <3>1, VectorType
    <3>. QED  BY ONLY <3>2, SMT, Z3
  <2>. QED  BY <2>1, <2>2, <1>4, Zenon DEF IsMessage, Fits
<1>6. Fits(m)'
  BY <1>2, <1>5, RepStep, Zenon
<1>7. Send(p, q, msgs, m)
  BY Zenon DEF PullDelta
<1>8. MsgsOK' /\ writers' \in [Pids -> SUBSET Pids]
  BY <1>1, <1>3, <1>4, <1>5, <1>6, <1>7, SendStep, ZenonT(30)
<1>9. StoreOK' /\ LoopOK'
  BY <1>1, <1>8, Zenon DEF PullDelta, storage, control, StoreOK, LoopOK
<1>. QED  BY <1>3, <1>8, <1>9, PartsPrime

\* A stored row is behind its replica, and the group sent in answer has no gap
\* above the requester's vector.
LEMMA HandleVersionVectorStep ==
  ASSUME FixedInv, NEW p \in Pids, NEW m \in msgs, HandleVersionVector(p, m)
  PROVE  FixedInv'
<1> DEFINE s == [rep[p] EXCEPT !.matrix = Update(rep[p].matrix, p, m.from, m.vv)]
           answer == [kind |-> "delta", from |-> p, to |-> m.from,
                      list |-> GetAllGreater(rep[p].log, m.vv),
                      vv |-> Outgoing(rep[p]), gc |-> rep[p].marker]
<1> PICK n : n = answer
  BY Zenon
<1>1. RepsOK /\ MsgsOK /\ RoundsOK /\ StoreOK /\ LoopOK
  BY Parts
<1>2. /\ m.kind = "vector" /\ m.from \in Pids /\ IsDotSet(m.vv)
      /\ \A r \in Pids : Get(m.vv, r) <= Get(rep[m.from].vv, r)
  BY <1>1 DEF HandleVersionVector, MsgsOK, IsMessage, Fits
<1>3. Fine(p, s)
  BY <1>2, CurrentFine, UpdateFine, Zenon
<1>4. rep' = [rep EXCEPT ![p] = Refreshed(s, p)]
  BY Zenon DEF HandleVersionVector
<1>5. Fine(p, Refreshed(s, p))
  <2> HIDE DEF s
  <2>. QED  BY <1>3, RefreshedFine, Zenon
<1>6. /\ RepsOK' /\ RoundsOK' /\ \A x \in msgs : IsMessage(x) /\ Fits(x)'
      /\ msgs' \subseteq msgs => MsgsOK'
  BY <1>4, <1>5, RepMoves, Zenon DEF HandleVersionVector, control
<1> HIDE DEF s
<1>7. IsMessage(n) /\ Fits(n)
  <2> DEFINE L == GetAllGreater(rep[p].log, m.vv)
  <2>1. IsDotSet(Outgoing(rep[p])) /\ IsDotMap(rep[p].log) /\ IsMarker(rep[p].marker)
    BY <1>1, OutgoingProperty, ZenonT(30) DEF RepsOK, IsRep
  <2>2. L \in [Pids -> SUBSET Nat] /\ \A r \in Pids : \A c : c \in L[r] <=> c \in rep[p].log[r] /\ c > Get(m.vv, r)
    BY <1>2, <2>1, GreaterProperty, ZenonT(30)
  <2> HIDE DEF L
  <2> HIDE DEF answer
  <2>7. \A r \in Pids : rep[p].log[r] \subseteq 0 .. Get(rep[p].vv, r) /\ Get(rep[p].vv, r) \in Int
    <3>1. \A r \in Pids : Get(rep[p].vv, r) \in Int
      BY VectorType DEF FixedInv
    <3>2. LocalOK(rep[p])
      BY <1>1, Zenon DEF RepsOK
    <3>. QED  BY <3>1, <3>2, ZenonT(30) DEF LocalOK
  <2>8. \A r \in Pids : L[r] \subseteq 0 .. Get(rep[p].vv, r)
    BY <2>2, <2>7, Zenon
  <2>3. IsDotMap(L)
    <3>1. \A r \in Pids : \A e \in L[r] : e <= Get(rep[p].vv, r)
      BY <2>7, <2>8, SMTT(30), Z3T(30)
    <3>. QED  BY <3>1, <2>2, <2>7, BoundedDotMap, ZenonT(30)
  <2>4. ASSUME NEW r \in Pids, NEW e \in L[r]
        PROVE  /\ e <= Get(rep[r].vv, r)
               /\ \A c \in 0 .. e : c > Get(rep[m.from].vv, r) => c \in L[r]
    <3>1. Get(rep[p].vv, r) \in Int /\ Get(rep[r].vv, r) \in Int /\ Get(rep[m.from].vv, r) \in Int
          /\ Get(m.vv, r) \in Int
      BY <1>2, VectorType, GetType, Zenon DEF FixedInv
    <3>2. e \in 0 .. Get(rep[p].vv, r)
      BY <2>8, Zenon
    <3>3. Get(rep[p].vv, r) <= Get(rep[r].vv, r)
      BY <1>1, Zenon DEF RepsOK, EntriesBehind
    <3>4. ASSUME NEW c \in 0 .. e, c > Get(rep[m.from].vv, r) PROVE c \in L[r]
      <4>1. c \in 0 .. Get(rep[p].vv, r) /\ ~(c <= Get(rep[m.from].vv, r)) /\ c > Get(m.vv, r)
        <5>1. Get(m.vv, r) <= Get(rep[m.from].vv, r) /\ c \in 0 .. e /\ c > Get(rep[m.from].vv, r)
          BY <3>4, <1>2, Zenon
        <5>. QED  BY ONLY <5>1, <3>1, <3>2, SMTT(30), Z3T(30)
      <4>2. c \in rep[p].log[r]
        BY <4>1, <1>1, <1>2, ZenonT(30) DEF RepsOK, LogsCover
      <4>. QED  BY <4>1, <4>2, <2>2, ZenonT(30)
    <3>5. e <= Get(rep[r].vv, r)
      BY ONLY <3>1, <3>2, <3>3, SMT, Z3
    <3>. QED  BY <3>4, <3>5, Zenon
  <2>5. rep[p].marker.departed = {} /\ Behind(rep[p].marker.stable)
    BY <1>1, ZenonT(30) DEF RepsOK, LocalOK
  <2>6. n.kind = "delta" /\ n.from = p /\ n.to = m.from /\ n.list = L /\ n.vv = Outgoing(rep[p])
        /\ n.gc = rep[p].marker
    BY DEF L, answer
  <2>. QED  BY <2>1, <2>3, <2>4, <2>5, <2>6, <1>2, ZenonT(30) DEF IsMessage, Fits
<1> HIDE DEF answer
<1>8. Fits(n)'
  BY <1>4, <1>5, <1>7, RepStep, ZenonT(30)
<1>9. MsgsOK' /\ writers' \in [Pids -> SUBSET Pids]
  <2>1. CASE Send(p, m.from, msgs \ {m}, n)
    <3>1. \A x \in (msgs \ {m}) \cup {n} : IsMessage(x) /\ Fits(x)'
      BY <1>6, <1>7, <1>8, Zenon
    <3>. QED  BY <2>1, <3>1, <1>1, <1>2, SendStep, Zenon
  <2>2. CASE msgs' = msgs \ {m} /\ UNCHANGED writers
    BY <2>2, <1>1, <1>6, Zenon DEF LoopOK
  <2>. QED  BY <2>1, <2>2 DEF HandleVersionVector, answer
<1>10. StoreOK' /\ LoopOK'
  BY <1>1, <1>9, Zenon DEF HandleVersionVector, storage, control, StoreOK, LoopOK
<1>. QED  BY <1>6, <1>9, <1>10, PartsPrime, Zenon

\* A refused delta group changes nothing but the network.
LEMMA RefuseDeltaStep ==
  ASSUME FixedInv, NEW p \in Pids, NEW m \in msgs, RefuseDelta(p, m)
  PROVE  FixedInv'
<1>1. StoreOK /\ LoopOK
  BY Parts
<1>2. RepsOK' /\ MsgsOK' /\ RoundsOK'
  BY RepStays, Zenon DEF RefuseDelta, control
<1>3. StoreOK' /\ LoopOK'
  BY <1>1, Zenon DEF RefuseDelta, storage, control, StoreOK, LoopOK
<1>. QED  BY <1>2, <1>3, PartsPrime, Zenon

\* The marker is applied first, then a group without a gap is merged.
LEMMA HandleDeltaStep ==
  ASSUME FixedInv, NEW p \in Pids, NEW m \in msgs, HandleDelta(p, m)
  PROVE  FixedInv'
<1> DEFINE s == Observed(rep[p], p, m.gc)
<1>1. StoreOK /\ LoopOK /\ MsgsOK
  BY Parts
<1>2. /\ m.to = p /\ IsDotMap(m.list) /\ IsMarker(m.gc) /\ m.gc.departed = {} /\ Behind(m.gc.stable)
      /\ \A r \in Pids : \A e \in m.list[r] :
           /\ e <= Get(rep[r].vv, r)
           /\ \A c \in 0 .. e : c > Get(rep[p].vv, r) => c \in m.list[r]
  BY <1>1, Zenon DEF HandleDelta, MsgsOK, IsMessage, Fits
<1>3. Fine(p, s) /\ s.vv = rep[p].vv
  BY <1>2, ObservedFine, Zenon
<1> HIDE DEF s
<1>4. Insertable(s.vv, m.list) /\ Fine(p, Merged(s, m.list))
  BY <1>2, <1>3, MergedFine, Zenon
<1>5. Fine(p, Refreshed(Merged(s, m.list), p))
  BY <1>4, RefreshedFine
<1>6. rep' = [rep EXCEPT ![p] = Refreshed(Merged(s, m.list), p)] /\ UNCHANGED status
  BY <1>4, Zenon DEF HandleDelta, ApplyGroup, s
<1>7. RepsOK' /\ MsgsOK' /\ RoundsOK'
  BY <1>5, <1>6, RepMoves, Zenon DEF HandleDelta, control
<1>8. StoreOK' /\ LoopOK'
  BY <1>1, <1>6, Zenon DEF HandleDelta, storage, control, StoreOK, LoopOK
<1>. QED  BY <1>7, <1>8, PartsPrime

\* A new writer changes no replica.
LEMMA ConnectStep ==
  ASSUME FixedInv, NEW p \in Pids, NEW q \in Pids, Connect(p, q)
  PROVE  FixedInv'
<1>1. StoreOK /\ LoopOK
  BY Parts
<1>2. RepsOK' /\ MsgsOK' /\ RoundsOK'
  BY RepStays, Zenon DEF Connect, control
<1>3. StoreOK' /\ LoopOK'
  BY <1>1, Zenon DEF Connect, storage, control, StoreOK, LoopOK
<1>. QED  BY <1>2, <1>3, PartsPrime

\* The background listing only stores what the directory holds.
LEMMA PollStep ==
  ASSUME FixedInv, NEW p \in Pids, Poll(p)
  PROVE  FixedInv'
<1>1. StoreOK /\ LoopOK
  BY Parts, ZenonT(30)
<1>2. RepsOK' /\ MsgsOK' /\ RoundsOK'
  BY RepStays DEF Poll, network
<1>3. StoreOK' /\ LoopOK'
  BY <1>1, ZenonT(30) DEF Poll, network, storage, StoreOK, LoopOK
<1>. QED  BY <1>2, <1>3, PartsPrime

\* Every member has a row already, so that a listing adds none.
LEMMA ApplyPollStep ==
  ASSUME FixedInv, NEW p \in Pids, ApplyPoll(p)
  PROVE  FixedInv'
<1>1. RepsOK /\ StoreOK /\ LoopOK
  BY Parts
<1>2. PICK members \in poll[p] :
        LET left == {d \in members : IsShutdown(d)}
        IN /\ cache' = [cache EXCEPT ![p] = members]
           /\ rep' = [rep EXCEPT ![p].matrix = InsertPids(@, Discovered(members, p))]
           /\ todo' = [todo EXCEPT ![p] = left]
           /\ pc' = [pc EXCEPT ![p] = IF left = {} THEN "loop" ELSE "departures"]
  BY Zenon DEF ApplyPoll
<1>3. \A d \in members : IsDescriptor(d) /\ d.final = {}
  BY <1>1, Zenon DEF LoopOK
<1>4. {d \in members : IsShutdown(d)} = {}
  BY <1>3 DEF IsShutdown
<1>5. InsertPids(rep[p].matrix, Discovered(members, p)) = rep[p].matrix
  <2> DEFINE g == Discovered(members, p)
  <2>1. DOMAIN g \subseteq Pids
    BY <1>3, Zenon DEF Discovered, IsDescriptor
  <2> HIDE DEF g
  <2>2. DOMAIN rep[p].matrix \cup DOMAIN g = DOMAIN rep[p].matrix
    BY <2>1, <1>1, Zenon DEF RepsOK, LocalOK
  <2>3. rep[p].matrix = [q \in DOMAIN rep[p].matrix |-> rep[p].matrix[q]]
    BY <1>1, ZenonT(30) DEF RepsOK, IsRep
  <2>4. InsertPids(rep[p].matrix, g) = rep[p].matrix
    BY <2>2, <2>3 DEF InsertPids
  <2>. QED  BY <2>4, Zenon DEF g
<1>6. Fine(p, rep[p]) /\ rep' = [rep EXCEPT ![p] = rep[p]]
  <2>1. rep[p] = [rep[p] EXCEPT !.matrix = rep[p].matrix]
    BY <1>1, ZenonT(30) DEF RepsOK, IsRep
  <2>2. rep' = [rep EXCEPT ![p] = [rep[p] EXCEPT !.matrix = rep[p].matrix]]
    BY <1>2, <1>5
  <2>. QED  BY <2>1, <2>2, CurrentFine, Zenon
<1>7. RepsOK' /\ MsgsOK' /\ RoundsOK'
  BY <1>6, RepMoves, Zenon DEF ApplyPoll, network
<1>8. /\ todo' = [todo EXCEPT ![p] = {}] /\ pc' = [pc EXCEPT ![p] = "loop"]
      /\ cache' = [cache EXCEPT ![p] = members] /\ poll' = [poll EXCEPT ![p] = {}]
  BY <1>2, <1>4, Zenon DEF ApplyPoll
<1>9. StoreOK' /\ LoopOK'
  <2>1. pc' \in [Pids -> Steps]
    BY <1>1, <1>8, Zenon DEF LoopOK, Steps
  <2>. QED  BY <2>1, <1>1, <1>3, <1>8, Zenon DEF ApplyPoll, network, storage, StoreOK, LoopOK
<1>. QED  BY <1>7, <1>9, PartsPrime

\* VersionMatrix::get_stable: the frontier is behind every replica, because the
\* matrix has a row of every replica and the rows are behind.
LEMMA FrontierBehind ==
  ASSUME FixedInv, NEW p \in Pids, NEW s, Fine(p, s), s.vv = rep[p].vv
  PROVE  /\ DepartedPids(s.matrix, s.finals) = {}
         /\ IsDotSet(StableFrontier(s.matrix, s.finals, p))
         /\ Behind(StableFrontier(s.matrix, s.finals, p))
<1> DEFINE F == StableFrontier(s.matrix, s.finals, p)
           entries(q) == {Get(s.matrix[x], q) : x \in Pids}
           cols == Pids \cup UNION {DOMAIN s.matrix[x] : x \in Pids}
<1>1. /\ DOMAIN s.finals = {} /\ DOMAIN s.matrix \subseteq Columns /\ Pids \subseteq DOMAIN s.matrix
      /\ \A x \in Pids : IsDotSet(s.matrix[x])
  BY Zenon DEF Fine, IsRep, LocalOK
<1>2. DepartedPids(s.matrix, s.finals) = {}
  BY <1>1, Zenon DEF DepartedPids
<1>3. ObserverRows(s.matrix, s.finals, p) = Pids
  BY <1>1, ConstantsAssumption, Zenon DEF ObserverRows, Columns
<1>4. F = [q \in cols |-> Min(entries(q))]
  BY <1>2, <1>3, Zenon DEF StableFrontier
<1>5. \A x \in Pids : \A q : Get(s.matrix[x], q) \in Int /\ Get(s.matrix[x], q) >= -1
  BY <1>1, GetType, Zenon
<1>6. \A q : /\ Min(entries(q)) \in Int /\ Min(entries(q)) >= -1
             /\ \A x \in Pids : Min(entries(q)) <= Get(s.matrix[x], q)
  <2> TAKE q
  <2>1. entries(q) \in SUBSET Int /\ entries(q) # {} /\ \A e \in entries(q) : -1 <= e
    BY <1>5
  <2>2. \A x \in Pids : Get(s.matrix[x], q) \in entries(q)
    OBVIOUS
  <2> HIDE DEF entries
  <2>3. Min(entries(q)) \in entries(q) /\ \A e \in entries(q) : Min(entries(q)) <= e
    BY <2>1, MinProperty, SMT, Z3
  <2>. QED  BY <2>1, <2>2, <2>3, ZenonT(30)
<1>7. cols \subseteq Columns
  BY <1>1, Zenon DEF IsDotSet, Columns
<1>8. Pids \subseteq cols
  BY Zenon
<1> HIDE DEF F, entries, cols
<1>9. IsDotSet(F)
  BY <1>4, <1>6, <1>7, Zenon DEF IsDotSet
<1>10. Behind(F)
  <2> SUFFICES ASSUME NEW q \in Pids, NEW r \in Pids PROVE Get(F, r) <= Get(rep[q].vv, r)
    BY DEF Behind
  <2>1. Get(F, r) = Min(entries(r))
    BY <1>4, <1>8, Zenon DEF Get
  <2>2. Min(entries(r)) <= Get(s.matrix[q], r) /\ Min(entries(r)) \in Int
    BY <1>6, Zenon
  <2>3. Get(s.matrix[q], r) <= Get(rep[q].vv, r)
    BY Zenon DEF Fine
  <2>4. Get(rep[q].vv, r) \in Int /\ Get(s.matrix[q], r) \in Int
    BY <1>5, VectorType, ZenonT(30) DEF FixedInv
  <2>5. Min(entries(r)) <= Get(rep[q].vv, r)
    BY ONLY <2>2, <2>3, <2>4, SMTT(30), Z3T(30)
  <2>. QED  BY <2>1, <2>5, ZenonT(30)
<1>. QED  BY <1>2, <1>9, <1>10, Zenon DEF F

\* A round begins with a frontier that every member is past.
LEMMA InitGcStep ==
  ASSUME FixedInv, NEW p \in Pids, InitGc(p)
  PROVE  FixedInv'
<1> DEFINE s == Refreshed(rep[p], p)
           stable == StableFrontier(s.matrix, s.finals, p)
           departed == DepartedPids(s.matrix, s.finals)
           new == Active(p, s.marker.counter + 1)
           marker == [counter |-> new.gc, stable |-> stable, departed |-> departed]
           begun == [marker |-> marker, previous |-> GcCounters(cache[p]),
                     old |-> Active(p, s.marker.counter)]
<1>1. RepsOK /\ StoreOK /\ LoopOK /\ RoundsOK
  BY Parts
<1>2. Fine(p, s)
  BY CurrentFine, RefreshedFine, Zenon
<1>3. s.vv = rep[p].vv /\ s.marker = rep[p].marker
  BY <1>1 DEF Refreshed, RepsOK, IsRep
<1>4. rep' = [rep EXCEPT ![p] = s] /\ s.marker.counter < MaxGc
  BY Zenon DEF InitGc
<1>5. \/ dir' = dir \cup {new} /\ round' = [round EXCEPT ![p] = {begun}]
            /\ pc' = [pc EXCEPT ![p] = "validate"]
      \/ dir' \in {dir, dir \cup {new}} /\ UNCHANGED <<round, pc>>
  BY Zenon DEF InitGc, Publish
<1>6. s.marker.counter \in 0 .. MaxGc
  BY <1>2, Zenon DEF Fine, IsRep, IsMarker
<1> HIDE DEF s
<1>7. departed = {} /\ IsDotSet(stable) /\ Behind(stable)
  BY <1>2, <1>3, FrontierBehind, ZenonT(30)
<1>8. /\ IsDescriptor(new) /\ new.final = {} /\ new.gc \in 0 .. MaxGc
      /\ IsDescriptor(Active(p, s.marker.counter))
  <2>1. s.marker.counter + 1 \in 0 .. MaxGc
    <3>1. MaxGc \in Nat
      BY ConstantsAssumption, Zenon
    <3>2. s.marker.counter < MaxGc /\ s.marker.counter \in 0 .. MaxGc
      BY <1>4, <1>6
    <3>. QED  BY ONLY <3>1, <3>2
  <2>. QED  BY <2>1, <1>6, Zenon DEF Active, IsDescriptor
<1> HIDE DEF stable, departed, new
<1>9. RepsOK' /\ MsgsOK' /\ (UNCHANGED round => RoundsOK')
  BY <1>2, <1>4, RepMoves, Zenon DEF InitGc, network
<1>10. \A f : IsDotSet(f) /\ Behind(f) => \A x, y \in Pids : Get(f, y) <= Get(rep'[x].vv, y)
  BY <1>2, <1>4, RepStep, Zenon DEF Behind
<1>11. IsRound(begun) /\ begun.marker.departed = {} /\ begun.marker.stable = stable
  <2>1. /\ DOMAIN GcCounters(cache[p]) \subseteq Pids
        /\ GcCounters(cache[p]) \in [DOMAIN GcCounters(cache[p]) -> 0 .. MaxGc]
    BY <1>1, GcCountersType, Zenon DEF LoopOK
  <2>. QED  BY <2>1, <1>7, <1>8, Zenon DEF IsRound, IsMarker
<1> HIDE DEF begun
<1>12. RoundsOK'
  <2>1. CASE UNCHANGED round
    BY <2>1, <1>9, ZenonT(30)
  <2>2. CASE round' = [round EXCEPT ![p] = {begun}]
    <3>1. ASSUME NEW q \in Pids, NEW r \in round'[q]
          PROVE  IsRound(r) /\ r.marker.departed = {} /\ IsDotSet(r.marker.stable) /\ Behind(r.marker.stable)
      <4>1. CASE r = begun
        BY <4>1, <1>7, <1>11, Zenon
      <4>2. CASE r # begun
        BY <4>2, <2>2, <1>1, Zenon DEF RoundsOK, IsRound, IsMarker
      <4>. QED  BY <4>1, <4>2, Zenon
    <3>2. Pids = DOMAIN round'
      BY <2>2, <1>1, ZenonT(30) DEF RoundsOK
    <3>3. ASSUME NEW q \in Pids, NEW r \in round'[q]
          PROVE  IsRound(r) /\ r.marker.departed = {}
                 /\ \A x, y \in Pids : Get(r.marker.stable, y) <= Get(rep'[x].vv, y)
      BY <3>1, <1>10
    <3>. QED  BY <3>2, <3>3 DEF RoundsOK, Behind
  <2>. QED  BY <2>1, <2>2, <1>5, Zenon
<1>13. StoreOK'
  BY <1>1, <1>5, <1>8, Zenon DEF InitGc, StoreOK
<1>14. LoopOK'
  <2>1. pc' \in [Pids -> Steps]
    BY <1>1, <1>5, ZenonT(30) DEF LoopOK, Steps
  <2>. QED  BY <2>1, <1>1, Zenon DEF InitGc, network, LoopOK
<1>. QED  BY <1>9, <1>12, <1>13, <1>14, PartsPrime, ZenonT(30)

\* Validation decides how the round goes on and keeps its marker.
LEMMA ValidateGcStep ==
  ASSUME FixedInv, NEW p \in Pids, ValidateGc(p)
  PROVE  FixedInv'
<1>1. StoreOK /\ LoopOK
  BY Parts
<1>2. RepsOK' /\ MsgsOK' /\ RoundsOK'
  BY RepStays, Zenon DEF ValidateGc, network
<1>3. /\ \E x \in {"complete", "abort", "withdraw"} : pc' = [pc EXCEPT ![p] = x]
      /\ cache' = cache \/ cache' = [cache EXCEPT ![p] = dir]
  BY Zenon DEF ValidateGc
<1>4. pc' \in [Pids -> Steps]
  BY <1>1, <1>3, Zenon DEF LoopOK, Steps
<1>5. Pids = DOMAIN cache' /\ \A q \in Pids : \A d \in cache'[q] : IsDescriptor(d)
  <2>1. CASE cache' = cache
    BY <2>1, <1>1, Zenon DEF LoopOK
  <2>2. CASE cache' = [cache EXCEPT ![p] = dir]
    BY <2>2, <1>1, Zenon DEF LoopOK, StoreOK
  <2>. QED  BY <2>1, <2>2, <1>3, Zenon
<1>6. StoreOK' /\ LoopOK'
  BY <1>1, <1>4, <1>5, ZenonT(30) DEF ValidateGc, network, storage, StoreOK, LoopOK
<1>. QED  BY <1>2, <1>6, PartsPrime

\* The rounds that are left when one is given up or done.
LEMMA RoundEnds ==
  ASSUME FixedInv, NEW p \in Pids, round' = [round EXCEPT ![p] = {}],
         \A f : IsDotSet(f) /\ Behind(f) => Behind(f)'
  PROVE  RoundsOK'
<1>1. RoundsOK
  BY Parts, Zenon
<1>2. Pids = DOMAIN round' /\ \A q \in Pids : round'[q] \subseteq round[q]
  BY <1>1, Zenon DEF RoundsOK
<1>3. \A f : IsDotSet(f) /\ Behind(f) => \A x, y \in Pids : Get(f, y) <= Get(rep'[x].vv, y)
  BY Zenon DEF Behind
<1>4. ASSUME NEW q \in Pids, NEW r \in round'[q]
      PROVE  IsRound(r) /\ r.marker.departed = {} /\ IsDotSet(r.marker.stable) /\ Behind(r.marker.stable)
  BY <1>1, <1>2, ZenonT(30) DEF RoundsOK, IsRound, IsMarker
<1>. QED  BY <1>2, <1>3, <1>4, SMTT(30), Z3T(30) DEF RoundsOK, Behind

\* A round given up leaves the replicas as they were.
LEMMA WithdrawGcStep ==
  ASSUME FixedInv, NEW p \in Pids, WithdrawGc(p)
  PROVE  FixedInv'
<1>1. StoreOK /\ LoopOK
  BY Parts
<1>2. RepsOK' /\ MsgsOK' /\ RoundsOK'
  BY RepStays, RoundEnds, ZenonT(30) DEF WithdrawGc, network
<1>3. dir' \subseteq dir
  BY DEF WithdrawGc
<1>4. pc' \in [Pids -> Steps]
  BY <1>1, Zenon DEF WithdrawGc, LoopOK, Steps
<1>5. StoreOK' /\ LoopOK'
  BY <1>1, <1>3, <1>4, ZenonT(30) DEF WithdrawGc, network, StoreOK, LoopOK
<1>. QED  BY <1>2, <1>5, PartsPrime

\* The second listing only refreshes the cache.
LEMMA RelistStep ==
  ASSUME FixedInv, NEW p \in Pids, Relist(p)
  PROVE  FixedInv'
<1>1. StoreOK /\ LoopOK
  BY Parts
<1>2. RepsOK' /\ MsgsOK' /\ RoundsOK'
  BY RepStays, Zenon DEF Relist, network
<1>3. cache' = cache \/ cache' = [cache EXCEPT ![p] = dir]
  BY Zenon DEF Relist
<1>4. pc' \in [Pids -> Steps]
  BY <1>1 DEF Relist, LoopOK, Steps
<1>5. Pids = DOMAIN cache' /\ \A q \in Pids : \A d \in cache'[q] : IsDescriptor(d)
  BY <1>1, <1>3, ZenonT(30) DEF LoopOK, StoreOK
<1>6. StoreOK' /\ LoopOK'
  BY <1>1, <1>4, <1>5, Zenon DEF Relist, network, storage, StoreOK, LoopOK
<1>. QED  BY <1>2, <1>6, PartsPrime

\* The marker is applied: what is dropped is covered by everybody's vector.
LEMMA CompleteGcStep ==
  ASSUME FixedInv, NEW p \in Pids, CompleteGc(p)
  PROVE  FixedInv'
<1>1. StoreOK /\ LoopOK /\ RoundsOK
  BY Parts
<1>2. PICK r \in round[p] :
        LET s == AfterMarker(rep[p], p, r.marker)
        IN /\ rep' = [rep EXCEPT ![p] = s]
           /\ \/ /\ snapshot' = {s}
                 /\ pc' = [pc EXCEPT ![p] = IF r.marker.departed = {} THEN "old" ELSE "departed"]
                 /\ UNCHANGED round
              \/ /\ Faults /\ snapshot' \in {snapshot, {s}}
                 /\ pc' = [pc EXCEPT ![p] = "loop"]
                 /\ round' = [round EXCEPT ![p] = {}]
  BY ZenonT(30) DEF CompleteGc
<1>3. IsMarker(r.marker) /\ r.marker.departed = {} /\ Behind(r.marker.stable)
  BY <1>1 DEF RoundsOK, IsRound
<1> DEFINE s == AfterMarker(rep[p], p, r.marker)
<1>4. Fine(p, s) /\ rep' = [rep EXCEPT ![p] = s]
  BY <1>2, <1>3, CurrentFine, AfterMarkerFine, ZenonT(30)
<1>5. /\ snapshot' \in {snapshot, {s}}
      /\ \E x \in {"loop", "old"} : pc' = [pc EXCEPT ![p] = x]
      /\ UNCHANGED round \/ round' = [round EXCEPT ![p] = {}]
  BY <1>2, <1>3
<1> HIDE DEF s
<1>6. RepsOK' /\ MsgsOK' /\ RoundsOK'
  BY <1>4, <1>5, RepMoves, RepStep, RoundEnds, ZenonT(30) DEF CompleteGc, network
<1>7. pc' \in [Pids -> Steps]
  BY <1>1, <1>5, Zenon DEF LoopOK, Steps
<1>8. IsRep(s)
  BY <1>4, Zenon DEF Fine
<1>9. StoreOK' /\ LoopOK'
  BY <1>1, <1>5, <1>7, <1>8, ZenonT(30) DEF CompleteGc, network, StoreOK, LoopOK
<1>. QED  BY <1>6, <1>9, PartsPrime

\* The end of a round removes a descriptor and nothing else.
LEMMA DeleteOldStep ==
  ASSUME FixedInv, NEW p \in Pids, DeleteOld(p)
  PROVE  FixedInv'
<1>1. StoreOK /\ LoopOK
  BY Parts
<1>2. RepsOK' /\ MsgsOK' /\ RoundsOK'
  BY RepStays, RoundEnds, Zenon DEF DeleteOld, network
<1>3. dir' \subseteq dir
  BY ZenonT(30) DEF DeleteOld
<1>4. pc' \in [Pids -> Steps]
  BY <1>1 DEF DeleteOld, LoopOK, Steps
<1>5. StoreOK' /\ LoopOK'
  BY <1>1, <1>3, <1>4, Zenon DEF DeleteOld, network, StoreOK, LoopOK
<1>. QED  BY <1>2, <1>5, PartsPrime

\* With everybody running and nobody allowed to leave, the actions of
\* bootstrap, shutdown and departed replicas are disabled.
LEMMA NobodyJoinsOrLeaves ==
  ASSUME FixedInv, Leavers = {}, NEW p \in Pids
  PROVE  /\ ~Bootstrap(p) /\ ~StopHttp(p) /\ ~Shutdown(p) /\ ~DeleteDeparted(p)
         /\ \A d \in todo[p] : ~HandleShutdown(p, d)
         /\ \A m \in msgs : ~Discard(m)
<1>1. LoopOK /\ MsgsOK
  BY Parts
<1>2. status[p] = "running" /\ pc[p] \in Steps /\ todo[p] = {}
  BY <1>1, Zenon DEF LoopOK
<1>3. pc[p] \notin {"register", "list", "install", "departures", "departed"}
  BY <1>2, Zenon DEF Steps
<1>4. ~Bootstrap(p) /\ ~StopHttp(p)
  BY <1>2 DEF Bootstrap, Start, Register, ListMembers, ReadSnapshot, Install, StopHttp
<1>5. ~Shutdown(p) /\ ~DeleteDeparted(p) /\ \A d \in todo[p] : ~HandleShutdown(p, d)
  BY <1>2, <1>3, Zenon DEF Shutdown, DeleteDeparted, HandleShutdown
<1>6. \A m \in msgs : ~Discard(m)
  BY <1>1, Zenon DEF MsgsOK, IsMessage, LoopOK, Discard
<1>. QED  BY <1>4, <1>5, <1>6, Zenon

-----------------------------------------------------------------------------
(* The initial state.                                                      *)

\* The founders' initial state satisfies the invariant.
LEMMA InitHolds ==
  ASSUME Init, Joiners = {}
  PROVE  FixedInv
<1> DEFINE M(p) == InsertPids([q \in {p} |-> [r \in {Stable} |-> 0]], [q \in Founders \ {p} |-> 0])
           none == [q \in Pids |-> {}]
<1>1. Pids = Founders
  BY DEF Pids
<1>2. ASSUME NEW p \in Pids
      PROVE  /\ rep[p] = [vv |-> rep[p].vv, log |-> rep[p].log, applied |-> rep[p].applied,
                          matrix |-> rep[p].matrix, finals |-> rep[p].finals,
                          marker |-> rep[p].marker]
             /\ rep[p].vv = NewDotSet /\ rep[p].log = none /\ rep[p].applied = none
             /\ rep[p].matrix = M(p) /\ rep[p].finals = NewDotSet /\ rep[p].marker = NoMarker
  <2>1. rep[p] = [vv |-> NewDotSet, log |-> none, applied |-> none,
                  matrix |-> M(p), finals |-> NewDotSet, marker |-> NoMarker]
    BY <1>1, ZenonT(30) DEF Init, NewRep
  <2> HIDE DEF M, none
  <2>2. rep[p].vv = NewDotSet /\ rep[p].log = none /\ rep[p].applied = none
    BY <2>1, SMTT(30), Z3T(30)
  <2>3. rep[p].matrix = M(p) /\ rep[p].finals = NewDotSet /\ rep[p].marker = NoMarker
    BY <2>1
  <2>4. rep[p] = [vv |-> rep[p].vv, log |-> rep[p].log, applied |-> rep[p].applied,
                  matrix |-> rep[p].matrix, finals |-> rep[p].finals, marker |-> rep[p].marker]
    BY <2>1, <2>2, <2>3, ZenonT(30)
  <2>. QED  BY <2>2, <2>3, <2>4, ZenonT(30)
<1>3. IsDotSet(NewDotSet) /\ DOMAIN NewDotSet = {} /\ \A r : Get(NewDotSet, r) = -1
  BY SMTT(30) DEF NewDotSet, IsDotSet, Get
<1>4. IsDotMap(none) /\ \A r \in Pids : none[r] = {} /\ none[r] = 0 .. -1
  BY DEF IsDotMap
<1>5. IsMarker(NoMarker) /\ NoMarker.departed = {} /\ NoMarker.stable = NewDotSet
  <2>1. NoMarker.counter = 0 /\ NoMarker.stable = NewDotSet /\ NoMarker.departed = {}
    BY DEF NoMarker
  <2>2. 0 \in 0 .. MaxGc
    BY ConstantsAssumption, SMT, Z3
  <2>3. NoMarker = [counter |-> NoMarker.counter, stable |-> NoMarker.stable,
                    departed |-> NoMarker.departed]
    BY Zenon DEF NoMarker
  <2>. QED  BY <1>3, <2>1, <2>2, <2>3, ZenonT(30) DEF IsMarker
<1>6. ASSUME NEW p \in Pids
      PROVE  /\ M(p) = [q \in DOMAIN M(p) |-> M(p)[q]] /\ DOMAIN M(p) = Pids
             /\ \A q \in Pids : IsDotSet(M(p)[q]) /\ \A r \in Pids : Get(M(p)[q], r) = -1
  <2>1. M(p) = [q \in Pids |-> IF q = p THEN [r \in {Stable} |-> 0] ELSE NewRow(q, 0)]
    BY <1>1, ZenonT(30) DEF InsertPids
  <2>2. \A q \in Pids : IsDotSet(NewRow(q, 0)) /\ \A r \in Pids : Get(NewRow(q, 0), r) = -1
    BY ConstantsAssumption, SMT, Z3 DEF NewRow, IsDotSet, Get, Columns
  <2>3. LET row == [r \in {Stable} |-> 0]
        IN  IsDotSet(row) /\ \A r \in Pids : Get(row, r) = -1
    BY ConstantsAssumption DEF IsDotSet, Get, Columns
  <2>. QED  BY <2>1, <2>2, <2>3, ZenonT(30)
<1> HIDE DEF M, none
<1>7. \A p \in Pids : IsRep(rep[p]) /\ LocalOK(rep[p]) /\ rep[p].vv = NewDotSet
                      /\ rep[p].marker.stable = NewDotSet /\ rep[p].matrix = M(p)
  <2> TAKE p \in Pids
  <2>2. DOMAIN M(p) \subseteq Columns
    BY <1>6, Zenon DEF Columns
  <2>3. IsRep(rep[p])
    BY <2>2, <1>2, <1>3, <1>4, <1>5, <1>6, ZenonT(30) DEF IsRep
  <2>4. LocalOK(rep[p])
    BY <1>2, <1>3, <1>4, <1>5, <1>6, Zenon DEF LocalOK
  <2>. QED  BY <2>3, <2>4, <1>2, <1>5, ZenonT(30)
<1>8. RepsOK
  <2>1. Pids = DOMAIN rep
    BY DEF Init
  <2>2. Behind(NewDotSet)
    <3>1. \A p, r \in Pids : Get(rep[p].vv, r) = -1 /\ Get(NewDotSet, r) = -1
      BY <1>3, <1>7, ZenonT(30)
    <3>. QED  BY <3>1 DEF Behind
  <2>3. RowsBehind /\ EntriesBehind
    BY <1>3, <1>6, <1>7, SMT, Z3 DEF RowsBehind, EntriesBehind
  <2>4. LogsCover
    BY <1>3, <1>7, SMTT(30), Z3T(30) DEF LogsCover
  <2>. QED  BY <2>1, <2>2, <2>3, <2>4, <1>7, Zenon DEF RepsOK
<1>9. MsgsOK /\ RoundsOK
  <2>1. msgs = {} /\ round = [p \in Pids |-> {}]
    BY ZenonT(30) DEF Init
  <2>. QED  BY <2>1 DEF MsgsOK, RoundsOK
<1>10. ASSUME NEW p \in Pids PROVE IsRep(NewRep(p))
  <2> DEFINE row == [r \in {Stable} |-> 0]
             mat == [q \in {p} |-> row]
  <2>1. NewRep(p) = [vv |-> NewDotSet, log |-> none, applied |-> none,
                     matrix |-> mat, finals |-> NewDotSet, marker |-> NoMarker]
    BY DEF NewRep, none
  <2>2. IsDotSet(row)
    BY DEF IsDotSet, Columns
  <2>3. /\ DOMAIN mat \subseteq Columns /\ mat = [q \in DOMAIN mat |-> mat[q]]
        /\ \A q \in DOMAIN mat : IsDotSet(mat[q])
    BY <2>2 DEF Columns
  <2> HIDE DEF mat, row
  <2>. QED  BY <2>1, <2>3, <1>3, <1>4, <1>5, SMTT(30), Z3T(30) DEF IsRep
<1>11. StoreOK
  <2>1. \A d \in dir : IsDescriptor(d) /\ d.final = {}
    BY <1>1, ConstantsAssumption DEF Init, Active, IsDescriptor
  <2>. QED  BY <2>1, <1>1, <1>10, ZenonT(30) DEF Init, StoreOK
<1>12. LoopOK
  BY <1>1, <1>11 DEF Init, StoreOK, LoopOK, Steps
<1>. QED  BY <1>8, <1>9, <1>11, <1>12, Parts, ZenonT(30)

-----------------------------------------------------------------------------
(* The theorems.                                                           *)

\* No step of any replica breaks the invariant of a fixed membership.
LEMMA NextKeeps ==
  ASSUME FixedInv, Leavers = {}, [Next]_vars
  PROVE  FixedInv'
<1>1. CASE UNCHANGED vars
  <2>1. StoreOK /\ LoopOK
    BY Parts, Zenon
  <2>2. RepsOK' /\ MsgsOK' /\ RoundsOK'
    BY <1>1, RepStays DEF vars, network, control
  <2>3. StoreOK' /\ LoopOK'
    BY <1>1, <2>1, Zenon DEF vars, network, storage, control, StoreOK, LoopOK
  <2>. QED  BY <2>2, <2>3, PartsPrime, Zenon
<1>2. ASSUME NEW p \in Pids, RunLoop(p) PROVE FixedInv'
  <2>1. CASE RefreshOwn(p)
    BY <2>1, RefreshOwnStep, Zenon
  <2>2. CASE \E q \in writers[p] : PullDelta(p, q)
    BY <2>2, PullDeltaStep, Zenon
  <2>3. CASE \E m \in msgs : HandleVersionVector(p, m) \/ RefuseDelta(p, m) \/ HandleDelta(p, m)
    BY <2>3, HandleVersionVectorStep, RefuseDeltaStep, HandleDeltaStep, ZenonT(30)
  <2>4. CASE ApplyPoll(p)
    BY <2>4, ApplyPollStep
  <2>5. CASE InitGc(p)
    BY <2>5, InitGcStep
  <2>6. CASE ValidateGc(p) \/ WithdrawGc(p) \/ Relist(p)
    BY <2>6, ValidateGcStep, WithdrawGcStep, RelistStep, Zenon
  <2>7. CASE CompleteGc(p) \/ DeleteOld(p)
    BY <2>7, CompleteGcStep, DeleteOldStep, Zenon
  <2>. QED  BY <1>2, <2>1, <2>2, <2>3, <2>4, <2>5, <2>6, <2>7, NobodyJoinsOrLeaves, ZenonT(30) DEF RunLoop
<1>3. ASSUME NEW p \in Pids, Mutate(p) \/ Poll(p) PROVE FixedInv'
  BY <1>3, MutateStep, PollStep, Zenon
<1>4. ASSUME NEW p \in Pids, NEW q \in Pids, Connect(p, q) PROVE FixedInv'
  BY <1>4, ConnectStep
<1>5. \A m \in msgs : ~Discard(m)
  BY NobodyJoinsOrLeaves, ConstantsAssumption, Zenon DEF Pids
<1>. QED  BY <1>1, <1>2, <1>3, <1>4, <1>5, NobodyJoinsOrLeaves, ZenonT(30) DEF Next

\* A delta that a member lacks is still in the log of every other that has it.
LEMMA KeepsNeeded == FixedInv => DeltasRetained
<1> SUFFICES ASSUME FixedInv, NEW p \in Pids, NEW q \in Pids, NEW r \in Pids,
                    NEW c \in rep[p].applied[r], c \notin rep[q].applied[r]
             PROVE  c \in rep[p].log[r]
  BY DEF DeltasRetained, Running
<1>1. c \in 0 .. Get(rep[p].vv, r) /\ c \notin 0 .. Get(rep[q].vv, r)
  BY ZenonT(30) DEF FixedInv, LocalOK
<1>2. Get(rep[p].vv, r) \in Int /\ Get(rep[q].vv, r) \in Int
  BY VectorType, Zenon DEF FixedInv
<1>3. ~(c <= Get(rep[q].vv, r))
  BY <1>1, <1>2, SMTT(30), Z3T(30)
<1>. QED  BY <1>1, <1>3, ZenonT(30) DEF FixedInv, LogsCover

\* Everybody has applied what any marker declares stable.
LEMMA FrontierApplied == FixedInv => FrontierKnown
<1> SUFFICES ASSUME FixedInv, NEW m \in GcMarkers, NEW q \in Pids, NEW r \in Pids
             PROVE  0 .. Get(m.stable, r) \subseteq rep[q].applied[r]
  BY DEF FrontierKnown, Running
<1>1. RepsOK /\ MsgsOK /\ RoundsOK
  BY Parts, Zenon
<1>2. IsDotSet(m.stable) /\ Behind(m.stable)
  <2>1. CASE \E p \in Pids : m = rep[p].marker
    BY <2>1, <1>1, Zenon DEF RepsOK, IsRep, IsMarker
  <2>2. CASE \E n \in msgs : n.kind = "delta" /\ m = n.gc
    BY <2>2, <1>1, Zenon DEF MsgsOK, IsMessage, IsMarker, Fits
  <2>3. CASE \E p \in Pids : \E x \in round[p] : m = x.marker
    BY <2>3, <1>1, Zenon DEF RoundsOK, IsRound, IsMarker
  <2>. QED  BY <2>1, <2>2, <2>3, Zenon DEF GcMarkers, Running
<1>3. Get(m.stable, r) <= Get(rep[q].vv, r) /\ Get(m.stable, r) \in Int
  BY <1>2, GetType, ZenonT(30) DEF Behind
<1>4. rep[q].applied[r] = 0 .. Get(rep[q].vv, r) /\ Get(rep[q].vv, r) \in Int
  BY <1>1, VectorType, ZenonT(30) DEF RepsOK, LocalOK, FixedInv
<1>. QED  BY <1>3, <1>4, SMTT(30), Z3T(30)

\* The answer to a pull has everything the receiver lacks, and no gap.
LEMMA PullClosesGap == FixedInv => PullCompletes
<1> SUFFICES ASSUME FixedInv, NEW p \in Pids, NEW q \in Pids
             PROVE  LET s    == Observed(rep[q], q, rep[p].marker)
                        list == GetAllGreater(rep[p].log, rep[q].vv)
                    IN /\ Insertable(s.vv, list)
                       /\ \A r \in Pids : rep[p].applied[r] \subseteq Merged(s, list).applied[r]
  BY Zenon DEF PullCompletes, Running
<1> DEFINE s == Observed(rep[q], q, rep[p].marker)
           L == GetAllGreater(rep[p].log, rep[q].vv)
<1>1. RepsOK
  BY Parts
<1>2. /\ IsMarker(rep[p].marker) /\ rep[p].marker.departed = {} /\ Behind(rep[p].marker.stable)
      /\ IsDotMap(rep[p].log) /\ LocalOK(rep[p]) /\ LocalOK(rep[q]) /\ IsDotSet(rep[q].vv)
  BY <1>1, Zenon DEF RepsOK, IsRep, LocalOK
<1>3. Fine(q, s) /\ s.vv = rep[q].vv
  BY <1>2, ObservedFine, ZenonT(30)
<1>4. \A r \in Pids : Get(rep[p].vv, r) \in Int /\ Get(rep[q].vv, r) \in Int /\ Get(rep[r].vv, r) \in Int
  BY VectorType DEF FixedInv
<1>5. L \in [Pids -> SUBSET Nat] /\ \A r \in Pids : \A c : c \in L[r] <=> c \in rep[p].log[r] /\ c > Get(rep[q].vv, r)
  BY <1>2, GreaterProperty, Zenon
<1> HIDE DEF s, L
<1>6. \A r \in Pids : rep[p].log[r] \subseteq 0 .. Get(rep[p].vv, r)
  BY <1>2, Zenon DEF LocalOK
<1>7. \A r \in Pids : L[r] \subseteq 0 .. Get(rep[p].vv, r)
  BY <1>5, <1>6, Zenon
<1>8. IsDotMap(L)
  <2>1. \A r \in Pids : \A e \in L[r] : e <= Get(rep[p].vv, r)
    BY <1>4, <1>7, SMT, Z3
  <2>. QED  BY <2>1, <1>4, <1>5, BoundedDotMap, ZenonT(30)
<1>9. ASSUME NEW r \in Pids, NEW c \in 0 .. Get(rep[p].vv, r), c > Get(rep[q].vv, r)
      PROVE  c \in L[r]
  <2>1. ~(c <= Get(rep[q].vv, r))
    BY <1>4, <1>9, SMTT(30), Z3T(30)
  <2>2. c \in rep[p].log[r]
    BY <2>1, <1>1, ZenonT(30) DEF RepsOK, LogsCover
  <2>. QED  BY <2>2, <1>5, <1>9, ZenonT(30)
<1>10. \A r \in Pids : \A e \in L[r] :
         /\ e <= Get(rep[r].vv, r)
         /\ \A c \in 0 .. e : c > Get(s.vv, r) => c \in L[r]
  <2> TAKE r \in Pids
  <2> TAKE e \in L[r]
  <2>1. e \in 0 .. Get(rep[p].vv, r) /\ Get(rep[p].vv, r) <= Get(rep[r].vv, r)
    BY <1>1, <1>7, Zenon DEF RepsOK, EntriesBehind
  <2>. QED  BY <2>1, <1>3, <1>4, <1>9, SMTT(60), Z3T(60)
<1>11. Insertable(s.vv, L) /\ Fine(q, Merged(s, L))
  BY <1>3, <1>8, <1>10, MergedFine, ZenonT(30)
<1>12. ASSUME NEW r \in Pids, NEW c \in rep[p].applied[r]
       PROVE  c \in Merged(s, L).applied[r]
  <2>1. /\ Merged(s, L).applied = MergedLog(s.applied, s.vv, L)
        /\ c \in 0 .. Get(rep[p].vv, r) /\ s.applied[r] = 0 .. Get(rep[q].vv, r)
        /\ IsDotMap(s.applied)
    BY <1>2, <1>3, Zenon DEF Merged, Fine, IsRep, LocalOK
  <2>2. Merged(s, L).applied[r] = s.applied[r] \cup Missing(s.vv, L, r)
    BY <2>1, <1>5, Zenon DEF MergedLog, IsDotMap
  <2>3. CASE c <= Get(rep[q].vv, r)
    <3>1. c \in 0 .. Get(rep[p].vv, r) /\ Get(rep[q].vv, r) \in Int
      BY <2>1, <1>4, ZenonT(30)
    <3>2. c \in 0 .. Get(rep[q].vv, r)
      BY ONLY <3>1, <2>3, SMTT(30), Z3T(30)
    <3>. QED  BY <3>2, <2>1, <2>2, Zenon
  <2>4. CASE c > Get(rep[q].vv, r)
    <3>1. c \in L[r] /\ ~Contains(s.vv, r, c)
      <4>1. c \in L[r]
        BY <2>1, <2>4, <1>9, ZenonT(30)
      <4>2. ~Contains(rep[q].vv, r, c)
        <5>1. c \in Int
          BY <2>1, SMTT(30), Z3T(30)
        <5>2. Contains(rep[q].vv, r, c) => Get(rep[q].vv, r) >= c
          BY DEF Contains, Get
        <5>. QED  BY <5>1, <5>2, <2>4, <1>4, SMTT(30), Z3T(30)
      <4>. QED  BY <4>1, <4>2, <1>3, Zenon
    <3>. QED  BY <3>1, <2>2, Zenon DEF Missing
  <2>. QED  BY <2>1, <2>3, <2>4, <1>4, SMTT(60), Z3T(60)
<1>. QED  BY <1>11, <1>12, Zenon DEF s, L

\* For any number of replicas, mutations, GC rounds, messages and storage
\* faults, the inductive invariant of a fixed membership always holds.
THEOREM FixedMembershipCorrect ==
  ASSUME Joiners = {}, Leavers = {}
  PROVE  Spec => []FixedInv
<1>1. Init => FixedInv
  BY InitHolds
<1>2. FixedInv /\ [Next]_vars => FixedInv'
  BY NextKeeps
<1>. QED  BY <1>1, <1>2, PTL DEF Spec

\* The types of the replicas, the network and the object store.
THEOREM TypeCorrect ==
  ASSUME Joiners = {}, Leavers = {}
  PROVE  Spec => []TypeOK
<1>1. FixedInv => TypeOK
  BY ZenonT(30) DEF FixedInv
<1>. QED  BY <1>1, FixedMembershipCorrect, PTL

\* DotSet::insert never panics: no replica of a fixed membership is handed a
\* delta whose predecessor it lacks.
THEOREM NoPanic ==
  ASSUME Joiners = {}, Leavers = {}
  PROVE  Spec => []NoInvalidDotSet
<1>1. FixedInv => NoInvalidDotSet
  BY ZenonT(30) DEF FixedInv, NobodyMoves, NoInvalidDotSet
<1>. QED  BY <1>1, FixedMembershipCorrect, PTL

\* The version vector of a replica counts exactly the deltas ORSet has applied.
THEOREM VectorsHonest ==
  ASSUME Joiners = {}, Leavers = {}
  PROVE  Spec => []VectorHonest
<1>1. FixedInv => VectorHonest
  <2> SUFFICES ASSUME FixedInv, NEW p \in Running, NEW r \in DOMAIN rep[p].vv
               PROVE  rep[p].applied[r] = 0 .. rep[p].vv[r]
    BY Zenon DEF VectorHonest
  <2>1. p \in Pids /\ LocalOK(rep[p])
    BY ZenonT(30) DEF Running, FixedInv
  <2>. QED  BY <2>1, Zenon DEF LocalOK, Get
<1>. QED  BY <1>1, FixedMembershipCorrect, PTL

\* The next dot of a replica is new: nobody knows a later one of it.
THEOREM DotsAreUnique ==
  ASSUME Joiners = {}, Leavers = {}
  PROVE  Spec => []DotsUnique
<1>1. FixedInv => DotsUnique
  BY DEF FixedInv, EntriesBehind, DotsUnique, Running
<1>. QED  BY <1>1, FixedMembershipCorrect, PTL

\* Garbage collection never drops a delta that a member still lacks.
THEOREM GcKeepsNeededDeltas ==
  ASSUME Joiners = {}, Leavers = {}
  PROVE  Spec => []DeltasRetained
BY KeepsNeeded, FixedMembershipCorrect, PTL

\* Everything a GC marker declares stable has been applied by every member.
THEOREM FrontiersAreStable ==
  ASSUME Joiners = {}, Leavers = {}
  PROVE  Spec => []FrontierKnown
BY FrontierApplied, FixedMembershipCorrect, PTL

\* A pull closes the gap: the answer merges without a panic, and afterwards the
\* receiver has applied everything the sender has.
THEOREM PullsComplete ==
  ASSUME Joiners = {}, Leavers = {}
  PROVE  Spec => []PullCompletes
BY PullClosesGap, FixedMembershipCorrect, PTL
=============================================================================
