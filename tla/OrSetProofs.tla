---------------------------- MODULE OrSetProofs ----------------------------
(***************************************************************************)
(* Proofs about OrSet, for any number of replicas, elements, mutations and *)
(* messages.                                                               *)
(***************************************************************************)
EXTENDS OrSet, WellFoundedInduction, FiniteSetTheorems, TLAPS

\* A vector of the right type contains natural numbers only.
LEMMA VectorEntry ==
  ASSUME NEW f, Vector(f), NEW q, q \in DOMAIN f
  PROVE  f[q] \in Nat /\ f[q] < MaxOps /\ f[q] \in 0 .. MaxOps - 1 /\ q \in Pids
BY MaxOpsNat DEF Vector

\* Initially the invariant holds.
LEMMA InitInv == Init => OrSetInv
<1> SUFFICES ASSUME Init PROVE OrSetInv
  OBVIOUS
<1>1. \A p \in Pids : \A d : ~Knows(p, d)
  BY DEF Init, Knows, Contains, NewDotSet
<1>2. TypeOK
  BY DEF Init, TypeOK, NewDotSet, Vector
<1>3. VectorsCount /\ CausallyClosed /\ NoLostInsert
  BY <1>1 DEF Init, VectorsCount, CausallyClosed, NoLostInsert, Dots
<1>4. LogsCover /\ RemovalsLater /\ InsertsRemoveNothing /\ EntriesKnown
  BY <1>1 DEF Init, LogsCover, RemovalsLater, InsertsRemoveNothing, EntriesKnown, Dots
<1>. QED  BY <1>2, <1>3, <1>4 DEF OrSetInv, Init

-----------------------------------------------------------------------------
(* Delta groups without gaps.                                              *)

\* Every non-empty set of natural numbers has a least element.
LEMMA NatLeast ==
  ASSUME NEW U \in SUBSET Nat, U # {}
  PROVE  \E x \in U : \A y \in U : x <= y
<1> DEFINE Below == {ss \in Nat \X Nat : ss[1] < ss[2]}
<1>1. \E x \in U : \A y \in U : ~(<<y, x>> \in OpToRel(<, Nat))
  BY NatLessThanWellFounded, WFMin, Zenon
<1>2. OpToRel(<, Nat) = Below
  BY Zenon DEF OpToRel
<1>3. \E x \in U : \A y \in U : ~(<<y, x>> \in Below)
  BY <1>1, <1>2, Zenon
<1>4. PICK x \in U : \A y \in U : ~(<<y, x>> \in Below)
  BY <1>3
<1>5. ASSUME NEW y \in U PROVE x <= y
  <2>1. <<y, x>> \notin Below
    BY <1>4
  <2>2. x \in Nat /\ y \in Nat
    OBVIOUS
  <2>. QED  BY <2>1, <2>2
<1>. QED  BY <1>5

\* Max, as the merge of a delta group uses it.
LEMMA MaxProperty ==
  ASSUME NEW U \in SUBSET Int, U # {}, NEW b \in Int, \A x \in U : x <= b
  PROVE  Max(U) \in U /\ \A y \in U : y <= Max(U)
<1> DEFINE T == {b - x : x \in U}
<1>1. \A t \in T : t \in Nat
  OBVIOUS
<1>2. T \in SUBSET Nat /\ T # {}
  BY <1>1, Zenon
<1> HIDE DEF T
<1>3. PICK t \in T : \A u \in T : t <= u
  BY <1>2, NatLeast
<1>4. PICK x \in U : t = b - x
  BY <1>3 DEF T
<1>5. \A y \in U : y <= x
  BY <1>3, <1>4 DEF T
<1>. QED  BY <1>5, Zenon DEF Max

\* Whatever a delta of the group builds on is in the group or contained already.
Gapless(vv, list, q) ==
  \A e \in list[q] : \A c \in 0 .. e : c \in list[q] \/ Contains(vv, q, c)

\* DotSet::insert asserts nothing false on a group without gaps.
LEMMA GaplessInsertable ==
  ASSUME NEW vv, NEW list,
         \A q \in DOMAIN list :
            /\ q \in DOMAIN vv => vv[q] \in Nat
            /\ list[q] \in SUBSET Nat /\ Gapless(vv, list, q)
  PROVE  Insertable(vv, list)
<1> SUFFICES ASSUME NEW q \in DOMAIN list, NEW c \in Missing(vv, list, q)
             PROVE  \/ c - 1 \in Missing(vv, list, q)
                    \/ q \in DOMAIN vv /\ c = vv[q] + 1
                    \/ q \notin DOMAIN vv /\ \A e \in Missing(vv, list, q) : c <= e
  BY DEF Insertable
<1>1. c \in list[q] /\ c \in Nat /\ ~Contains(vv, q, c)
  BY DEF Missing
<1>2. CASE c = 0
  BY <1>1, <1>2 DEF Missing, Contains
<1>3. CASE c # 0
  <2>1. c - 1 \in 0 .. c
    BY <1>1, <1>3
  <2>2. c - 1 \in list[q] \/ Contains(vv, q, c - 1)
    BY <1>1, <2>1 DEF Gapless
  <2>3. CASE Contains(vv, q, c - 1)
    BY <1>1, <2>3 DEF Contains
  <2>4. CASE ~Contains(vv, q, c - 1)
    BY <2>2, <2>4 DEF Missing
  <2>. QED  BY <2>3, <2>4
<1>. QED  BY <1>2, <1>3

\* After the merge of a group without gaps the version vector contains what it
\* contained and what the group lists, and nothing else.
LEMMA MergedContains ==
  ASSUME NEW vv, NEW list, NEW q \in DOMAIN list, NEW b \in Int,
         q \in DOMAIN vv => vv[q] \in Nat,
         list[q] \in SUBSET Nat, \A c \in list[q] : c <= b,
         Gapless(vv, list, q)
  PROVE  /\ q \in DOMAIN MergedVector(vv, list) =>
              \/ MergedVector(vv, list)[q] \in list[q]
              \/ q \in DOMAIN vv /\ MergedVector(vv, list)[q] = vv[q]
         /\ \A c \in Nat : Contains(MergedVector(vv, list), q, c)
                            <=> Contains(vv, q, c) \/ c \in list[q]
<1> DEFINE N == Missing(vv, list, q)
<1>1. CASE N = {}
  <2>1. \A c \in list[q] : Contains(vv, q, c)
    BY <1>1 DEF Missing
  <2>2. /\ q \in DOMAIN MergedVector(vv, list) <=> q \in DOMAIN vv
        /\ q \in DOMAIN vv => MergedVector(vv, list)[q] = vv[q]
    BY <1>1 DEF MergedVector
  <2>. QED  BY <2>1, <2>2 DEF Contains
<1>2. CASE N # {}
  <2>1. N \in SUBSET Int /\ \A c \in N : c \in list[q] /\ c <= b
    BY DEF Missing
  <2>2. Max(N) \in N /\ \A c \in N : c <= Max(N)
    BY <1>2, <2>1, MaxProperty
  <2>3. q \in DOMAIN MergedVector(vv, list) /\ MergedVector(vv, list)[q] = Max(N)
    BY <1>2 DEF MergedVector
  <2> DEFINE x == Max(N)
  <2>4. x \in list[q] /\ x \in Nat /\ ~Contains(vv, q, x)
    BY <2>1, <2>2 DEF Missing
  <2> HIDE DEF x
  <2>5. ASSUME NEW c \in Nat
        PROVE  x >= c <=> Contains(vv, q, c) \/ c \in list[q]
    <3>1. ASSUME x >= c PROVE Contains(vv, q, c) \/ c \in list[q]
      <4>1. c \in 0 .. x
        BY <2>4, <3>1
      <4>. QED  BY <2>4, <4>1 DEF Gapless
    <3>2. ASSUME Contains(vv, q, c) PROVE x >= c
      BY <2>4, <3>2 DEF Contains
    <3>3. ASSUME c \in list[q], ~Contains(vv, q, c) PROVE x >= c
      <4>1. c \in N
        BY <3>3 DEF Missing
      <4>. QED  BY <2>2, <2>4, <4>1 DEF x
    <3>. QED  BY <3>1, <3>2, <3>3
  <2>. QED  BY <2>3, <2>4, <2>5 DEF x, Contains
<1>. QED  BY <1>1, <1>2

-----------------------------------------------------------------------------
(* Mutations.                                                              *)

\* What every mutation does to what the replicas know.
LEMMA MutateKnows ==
  ASSUME OrSetInv, NEW p \in Pids, NEW x \in Deltas, Mutate(p, x)
  PROVE  LET d == Allocated(p)
         IN /\ d \in Dots /\ d \notin DOMAIN change
            /\ d[1] = p /\ d[2] \in 0 .. MaxOps - 1
            /\ \A i \in Dots : i[1] = p /\ Knows(p, i) => i[2] < d[2]
            /\ \A q \in Pids : \A e \in Dots : Knows(q, e)' <=> Knows(q, e) \/ (q = p /\ e = d)
            /\ DOMAIN vector' = Pids /\ \A q \in Pids : Vector(vector'[q])
            /\ DOMAIN change' = DOMAIN change \cup {d}
            /\ change' \in [DOMAIN change' -> Deltas]
            /\ change'[d] = x /\ \A e \in DOMAIN change : change'[e] = change[e]
<1> DEFINE d == Allocated(p)
           c == NextCounter(vector[p], p)
           v == SetCounter(vector[p], p, c)
<1>1. TypeOK /\ VectorsCount
  BY DEF OrSetInv
<1>2. /\ DOMAIN vector = Pids /\ \A q \in Pids : Vector(vector[q])
      /\ DOMAIN change \subseteq Dots /\ change \in [DOMAIN change -> Deltas]
  BY <1>1 DEF TypeOK
<1>3. c \in Nat /\ (p \in DOMAIN vector[p] => vector[p][p] \in Nat /\ c = vector[p][p] + 1)
      /\ (p \notin DOMAIN vector[p] => c = 0)
  BY <1>2, VectorEntry DEF NextCounter
<1>4. c < MaxOps /\ d = <<p, c>>
  BY DEF Mutate, Allocated
<1>5. d \in Dots /\ d[1] = p /\ d[2] = c /\ c \in 0 .. MaxOps - 1
  BY <1>3, <1>4, MaxOpsNat DEF Dots
<1>6. vector' = [vector EXCEPT ![p] = v]
  BY DEF Mutate, Allocated
<1>7. v = [q \in DOMAIN vector[p] \cup {p} |-> IF q = p THEN c ELSE vector[p][q]]
  BY DEF SetCounter
<1>8. ~Contains(vector[p], p, c)
  BY <1>3 DEF Contains
<1>9. d \notin DOMAIN change
  BY <1>1, <1>5, <1>8 DEF VectorsCount, Knows
<1>10. \A i \in Dots : i[1] = p /\ Knows(p, i) => i[2] < c
  BY <1>3, MaxOpsNat DEF Knows, Contains, Dots
<1> HIDE DEF c, d
<1>11. ASSUME NEW e \in Dots
       PROVE  Contains(v, e[1], e[2]) <=> Contains(vector[p], e[1], e[2]) \/ e = d
  <2>1. e = <<e[1], e[2]>> /\ e[1] \in Pids /\ e[2] \in Nat
    BY MaxOpsNat DEF Dots
  <2>2. CASE e[1] # p
    BY <2>1, <2>2, <1>4, <1>7 DEF Contains
  <2>3. CASE e[1] = p
    <3>1. Contains(v, p, e[2]) <=> c >= e[2]
      BY <1>7 DEF Contains
    <3>2. Contains(vector[p], p, e[2]) <=> c > e[2]
      BY <1>3, <2>1 DEF Contains
    <3>3. e = d <=> e[2] = c
      BY <2>1, <2>3, <1>4
    <3>. QED  BY <1>3, <2>1, <2>3, <3>1, <3>2, <3>3
  <2>. QED  BY <2>2, <2>3
<1>12. \A q \in Pids : \A e \in Dots : Knows(q, e)' <=> Knows(q, e) \/ (q = p /\ e = d)
  BY <1>2, <1>6, <1>11 DEF Knows
<1>13. Vector(v)
  BY <1>2, <1>5, <1>7 DEF Vector
<1>14. DOMAIN vector' = Pids /\ \A q \in Pids : Vector(vector'[q])
  BY <1>2, <1>6, <1>13
<1>15. change' = [e \in DOMAIN change \cup {d} |-> IF e = d THEN x ELSE change[e]]
  BY DEF Mutate, d
<1>16. /\ DOMAIN change' = DOMAIN change \cup {d}
       /\ change' \in [DOMAIN change' -> Deltas]
       /\ change'[d] = x /\ \A e \in DOMAIN change : change'[e] = change[e]
  BY <1>2, <1>9, <1>15
<1>. QED  BY <1>5, <1>9, <1>10, <1>12, <1>14, <1>16 DEF d

\* A mutation that removes only what its replica stores leaves everything but
\* the entries in order.
LEMMA MutateInv ==
  ASSUME OrSetInv, NEW p \in Pids, NEW x \in Deltas, Mutate(p, x),
         x.removed \subseteq entries[p], x.kind = "insert" => x.removed = {}
  PROVE  /\ deltaLog' \in [Pids -> [Pids -> SUBSET (0 .. MaxOps - 1)]]
         /\ \A m \in msgs' : MessageOK(m)' /\ Fits(m)'
         /\ VectorsCount' /\ LogsCover' /\ RemovalsLater' /\ InsertsRemoveNothing'
         /\ CausallyClosed'
<1> DEFINE d == Allocated(p)
<1>1. /\ d \in Dots /\ d \notin DOMAIN change
      /\ d[1] = p /\ d[2] \in 0 .. MaxOps - 1
      /\ \A i \in Dots : i[1] = p /\ Knows(p, i) => i[2] < d[2]
      /\ \A q \in Pids : \A e \in Dots : Knows(q, e)' <=> Knows(q, e) \/ (q = p /\ e = d)
      /\ DOMAIN change' = DOMAIN change \cup {d}
      /\ change'[d] = x /\ \A e \in DOMAIN change : change'[e] = change[e]
  BY MutateKnows, Zenon
<1>2. /\ deltaLog' = [deltaLog EXCEPT ![p][p] = @ \cup {d[2]}]
      /\ msgs' = msgs
  BY DEF Mutate
<1> HIDE DEF d
<1>3. /\ TypeOK /\ VectorsCount /\ LogsCover /\ RemovalsLater /\ InsertsRemoveNothing
      /\ EntriesKnown /\ CausallyClosed /\ \A m \in msgs : Fits(m)
  BY DEF OrSetInv
<1>4. \A e \in Dots : e = <<e[1], e[2]>> /\ e[1] \in Pids /\ e[2] \in 0 .. MaxOps - 1
  BY DEF Dots
<1>5. DOMAIN change \subseteq Dots /\ \A e \in DOMAIN change : change[e] \in Deltas
  BY <1>3 DEF TypeOK
<1>6. /\ deltaLog' \in [Pids -> [Pids -> SUBSET (0 .. MaxOps - 1)]]
      /\ \A q \in Pids : \A e \in Dots :
           e[2] \in deltaLog'[q][e[1]] <=> e[2] \in deltaLog[q][e[1]] \/ (q = p /\ e = d)
  <2>1. deltaLog \in [Pids -> [Pids -> SUBSET (0 .. MaxOps - 1)]]
    BY <1>3 DEF TypeOK
  <2>2. d = <<p, d[2]>>
    BY <1>1, <1>4
  <2>. QED  BY <1>1, <1>2, <1>4, <2>1, <2>2
<1>7. VectorsCount'
  <2>1. \A e \in Dots : e \in DOMAIN change' <=> Knows(e[1], e)'
    BY <1>1, <1>3, <1>4 DEF VectorsCount
  <2>2. \A q \in Pids : \A e \in Dots : Knows(q, e)' => Knows(e[1], e)'
    BY <1>1, <1>3, <1>4 DEF VectorsCount
  <2>3. DOMAIN change' \subseteq Dots
    BY <1>1, <1>5
  <2>. QED  BY <2>1, <2>2, <2>3, Zenon DEF VectorsCount, Dots
<1>8. LogsCover'
  BY <1>1, <1>3, <1>6 DEF LogsCover, Dots
<1>9. \A i \in x.removed : i \in DOMAIN change /\ change[i].kind = "insert" /\ Knows(p, i)
  BY <1>3 DEF EntriesKnown
<1>10. RemovalsLater'
  <2> SUFFICES ASSUME NEW r \in DOMAIN change', NEW i \in change'[r].removed
               PROVE  /\ i \in DOMAIN change' /\ change'[i].kind = "insert"
                      /\ i[1] = r[1] => i[2] < r[2]
    BY DEF RemovalsLater
  <2>1. CASE r = d
    BY <1>1, <1>5, <1>9, <2>1
  <2>2. CASE r # d
    BY <1>1, <1>3, <2>2 DEF RemovalsLater
  <2>. QED  BY <2>1, <2>2
<1>11. InsertsRemoveNothing'
  BY <1>1, <1>3 DEF InsertsRemoveNothing
<1>12. CausallyClosed'
  <2> SUFFICES ASSUME NEW q \in Pids, NEW r \in DOMAIN change', Knows(q, r)',
                      NEW i \in change'[r].removed
               PROVE  Knows(q, i)'
    BY DEF CausallyClosed
  <2>1. r \in Dots
    BY <1>1, <1>5
  <2>2. CASE r = d
    <3>1. ~Knows(q, d)
      BY <1>1, <1>3 DEF VectorsCount
    <3>2. q = p
      BY <1>1, <2>1, <2>2, <3>1
    <3>. QED  BY <1>1, <1>5, <1>9, <2>2, <3>2
  <2>3. CASE r # d
    <3>1. r \in DOMAIN change /\ Knows(q, r) /\ i \in change[r].removed
      BY <1>1, <2>1, <2>3
    <3>2. Knows(q, i) /\ i \in Dots
      BY <1>3, <1>5, <3>1 DEF CausallyClosed, RemovalsLater
    <3>. QED  BY <1>1, <3>2
  <2>. QED  BY <2>2, <2>3
<1>13. ASSUME NEW m \in msgs PROVE MessageOK(m)' /\ Fits(m)'
  <2>1. MessageOK(m) /\ Fits(m)
    BY <1>3 DEF TypeOK
  <2>2. MessageOK(m)'
    BY <2>1 DEF MessageOK, Vector
  <2>3. m.from \in Pids /\ m.to \in Pids
    BY <2>1 DEF MessageOK
  <2>4. ASSUME m.kind = "vector", NEW e \in Dots, Contains(m.vv, e[1], e[2])
        PROVE  Knows(m.from, e)'
    BY <1>1, <2>1, <2>3, <2>4, ZenonT(30) DEF Fits
  <2>5. ASSUME m.kind = "delta", NEW e \in Dots, Lists(m, e)
        PROVE  /\ Knows(m.from, e)'
               /\ \A c \in 0 .. e[2] : Lists(m, <<e[1], c>>) \/ Knows(m.to, <<e[1], c>>)'
               /\ \A i \in change'[e].removed : Lists(m, i) \/ Knows(m.to, i)'
    <3>1. /\ Knows(m.from, e)
          /\ \A c \in 0 .. e[2] : Lists(m, <<e[1], c>>) \/ Knows(m.to, <<e[1], c>>)
          /\ \A i \in change[e].removed : Lists(m, i) \/ Knows(m.to, i)
      BY <2>1, <2>5, Zenon DEF Fits
    <3>2. e \in DOMAIN change /\ e # d
      BY <1>1, <1>3, <2>3, <3>1 DEF VectorsCount
    <3>3. \A c \in 0 .. e[2] : <<e[1], c>> \in Dots
      BY <1>4, MaxOpsNat DEF Dots
    <3>4. \A i \in change[e].removed : i \in Dots
      BY <1>3, <1>5, <3>2, Zenon DEF RemovalsLater
    <3>. QED  BY <1>1, <2>3, <3>1, <3>2, <3>3, <3>4
  <2>6. Fits(m)'
    BY <2>4, <2>5 DEF Fits, Lists, Dots
  <2>. QED  BY <2>2, <2>6
<1>. QED  BY <1>2, <1>6, <1>7, <1>8, <1>10, <1>11, <1>12, <1>13

\* ... and the entries, when they change by what the mutation says.
LEMMA MutateEntries ==
  ASSUME OrSetInv, NEW p \in Pids, NEW x \in Deltas, Mutate(p, x),
         x.removed \subseteq entries[p], x.kind = "insert" => x.removed = {},
         NEW E, entries' = [entries EXCEPT ![p] = E],
         E \subseteq entries[p] \cup {Allocated(p)},
         Allocated(p) \in E <=> x.kind = "insert",
         entries[p] \ E \subseteq x.removed
  PROVE  OrSetInv'
<1> DEFINE d == Allocated(p)
<1>1. /\ d \in Dots /\ d \notin DOMAIN change
      /\ \A q \in Pids : \A e \in Dots : Knows(q, e)' <=> Knows(q, e) \/ (q = p /\ e = d)
      /\ DOMAIN vector' = Pids /\ \A q \in Pids : Vector(vector'[q])
      /\ DOMAIN change' = DOMAIN change \cup {d}
      /\ change' \in [DOMAIN change' -> Deltas]
      /\ change'[d] = x /\ \A e \in DOMAIN change : change'[e] = change[e]
  BY MutateKnows, Zenon
<1> HIDE DEF d
<1>2. /\ TypeOK /\ VectorsCount /\ EntriesKnown /\ NoLostInsert
  BY DEF OrSetInv
<1>3. entries \in [Pids -> SUBSET Dots] /\ DOMAIN change \subseteq Dots
  BY <1>2 DEF TypeOK
<1>4. E \subseteq entries[p] \cup {d} /\ (d \in E <=> x.kind = "insert")
  BY DEF d
<1>5. TypeOK'
  <2>1. entries' \in [Pids -> SUBSET Dots]
    BY <1>1, <1>3, <1>4
  <2>2. deltaLog' \in [Pids -> [Pids -> SUBSET (0 .. MaxOps - 1)]] /\ \A m \in msgs' : MessageOK(m)'
    BY MutateInv
  <2>3. \A q \in Pids : Vector(vector[q])'
    BY <1>1 DEF Vector
  <2>. QED  BY <1>1, <1>3, <2>1, <2>2, <2>3 DEF TypeOK, Dots, Deltas
<1>6. EntriesKnown'
  <2> SUFFICES ASSUME NEW q \in Pids, NEW e \in entries'[q]
               PROVE  e \in DOMAIN change' /\ change'[e].kind = "insert" /\ Knows(q, e)'
    BY DEF EntriesKnown
  <2>1. CASE e = d
    <3>1. d \notin entries[q]
      BY <1>1, <1>2 DEF EntriesKnown
    <3>2. q = p
      BY <1>3, <2>1, <3>1
    <3>. QED  BY <1>1, <1>3, <1>4, <2>1, <3>2
  <2>2. CASE e # d
    <3>1. e \in entries[q]
      BY <1>3, <1>4, <2>2
    <3>. QED  BY <1>1, <1>2, <1>3, <3>1 DEF EntriesKnown
  <2>. QED  BY <2>1, <2>2
<1>7. NoLostInsert'
  <2> SUFFICES ASSUME NEW q \in Pids, NEW i \in DOMAIN change',
                      change'[i].kind = "insert", Knows(q, i)', i \notin entries'[q]
               PROVE  \E r \in DOMAIN change' : Knows(q, r)' /\ i \in change'[r].removed
    BY DEF NoLostInsert
  <2>1. i \in Dots
    BY <1>1, <1>3
  <2>2. CASE i = d
    <3>1. ~Knows(q, d)
      BY <1>1, <1>2 DEF VectorsCount
    <3>. QED  BY <1>1, <1>3, <1>4, <2>1, <2>2, <3>1
  <2>3. CASE i # d /\ i \notin entries[q]
    <3>1. i \in DOMAIN change /\ change[i].kind = "insert" /\ Knows(q, i)
      BY <1>1, <2>1, <2>3, ZenonT(30)
    <3>2. PICK r \in DOMAIN change : Knows(q, r) /\ i \in change[r].removed
      BY <1>2, <2>3, <3>1 DEF NoLostInsert
    <3>. QED  BY <1>1, <1>3, <3>2
  <2>4. CASE i # d /\ i \in entries[q]
    <3>1. q = p /\ i \in x.removed
      BY <1>3, <2>4
    <3>. QED  BY <1>1, <3>1
  <2>. QED  BY <2>2, <2>3, <2>4
<1>8. /\ VectorsCount' /\ LogsCover' /\ RemovalsLater' /\ InsertsRemoveNothing'
      /\ CausallyClosed' /\ \A m \in msgs' : Fits(m)'
  BY MutateInv
<1>. QED  BY <1>5, <1>6, <1>7, <1>8 DEF OrSetInv

\* ORSet::mutate with OrSetMutation::Insert
LEMMA InsertInv ==
  ASSUME OrSetInv, NEW p \in Pids, NEW e \in Elements, Insert(p, e)
  PROVE  OrSetInv'
<1> DEFINE x == [kind |-> "insert", element |-> e, removed |-> {}]
           E == entries[p] \cup {Allocated(p)}
<1>1. x \in Deltas /\ x.removed = {} /\ x.kind = "insert"
  BY DEF Deltas
<1>2. Mutate(p, x) /\ entries' = [entries EXCEPT ![p] = E]
  BY DEF Insert
<1>. QED  BY <1>1, <1>2, MutateEntries, Zenon

\* ORSet::mutate with OrSetMutation::Remove
LEMMA RemoveInv ==
  ASSUME OrSetInv, NEW p \in Pids, NEW e \in Elements, Remove(p, e)
  PROVE  OrSetInv'
<1> DEFINE x == [kind |-> "remove", element |-> e, removed |-> Stored(p, e)]
           E == entries[p] \ Stored(p, e)
<1>1. entries[p] \in SUBSET Dots
  BY DEF OrSetInv, TypeOK
<1>2. x \in Deltas /\ x.removed = Stored(p, e) /\ x.kind = "remove"
  BY <1>1 DEF Deltas, Stored
<1>3. Mutate(p, x) /\ entries' = [entries EXCEPT ![p] = E]
  BY DEF Remove
<1>4. Allocated(p) \notin entries[p]
  <2>1. Allocated(p) \notin DOMAIN change
    BY <1>2, <1>3, MutateKnows, Zenon
  <2>. QED  BY <2>1 DEF OrSetInv, EntriesKnown
<1>5. Stored(p, e) \subseteq entries[p]
  BY DEF Stored
<1> HIDE DEF x, E
<1>6. E \subseteq entries[p] /\ entries[p] \ E \subseteq x.removed
  BY <1>2 DEF E
<1>. QED  BY <1>2, <1>3, <1>4, <1>5, <1>6, MutateEntries, Zenon

-----------------------------------------------------------------------------
(* Requests, answers, losses and garbage collection.                       *)

\* Steps that only add messages that fit.
LEMMA MessagesInv ==
  ASSUME OrSetInv, UNCHANGED <<vector, deltaLog, entries, change>>,
         \A m \in msgs' : m \in msgs \/ (MessageOK(m) /\ Fits(m))
  PROVE  OrSetInv'
<1>1. \A m \in msgs' : MessageOK(m) /\ Fits(m)
  BY DEF OrSetInv, TypeOK
<1>2. \A m : Fits(m)' <=> Fits(m)
  BY DEF Fits, Knows, Lists, Dots
<1>3. \A m : MessageOK(m)' <=> MessageOK(m)
  BY DEF MessageOK, Vector
<1>4. TypeOK'
  BY <1>1, <1>3, Zenon DEF OrSetInv, TypeOK, Vector, Dots, Deltas
<1>5. VectorsCount' /\ LogsCover' /\ EntriesKnown' /\ CausallyClosed' /\ NoLostInsert'
  BY ZenonT(30) DEF OrSetInv, VectorsCount, LogsCover, EntriesKnown, CausallyClosed, NoLostInsert,
         Knows, Dots
<1>6. RemovalsLater' /\ InsertsRemoveNothing'
  BY DEF OrSetInv, RemovalsLater, InsertsRemoveNothing
<1>. QED  BY <1>1, <1>2, <1>4, <1>5, <1>6 DEF OrSetInv

\* Replica::pull_delta
LEMMA RequestInv ==
  ASSUME OrSetInv, NEW p \in Pids, NEW q \in Pids, Request(p, q)
  PROVE  OrSetInv'
<1> DEFINE m == [kind |-> "vector", from |-> p, to |-> q, vv |-> vector[p]]
<1>1. MessageOK(m)
  BY DEF MessageOK, OrSetInv, TypeOK
<1>2. Fits(m)
  BY DEF Fits, Knows
<1>. QED  BY <1>1, <1>2, MessagesInv, Zenon DEF Request

\* What the answer to a request leaves out, the requester has.
LEMMA AnswerFits ==
  ASSUME OrSetInv, NEW p \in Pids, NEW m \in msgs, m.kind = "vector", m.to = p,
         NEW list, list = GetAllGreater(deltaLog[p], m.vv),
         NEW o \in [{q \in Pids : list[q] # {}} -> Nat],
         NEW n, n = [kind |-> "delta", from |-> p, to |-> m.from, list |-> list, order |-> o]
  PROVE  MessageOK(n) /\ Fits(n)
<1>1. TypeOK /\ VectorsCount /\ LogsCover /\ CausallyClosed /\ RemovalsLater /\ Fits(m)
  BY DEF OrSetInv
<1>2. MessageOK(m) /\ deltaLog[p] \in [Pids -> SUBSET (0 .. MaxOps - 1)]
  BY <1>1 DEF TypeOK
<1>3. m.from \in Pids /\ Vector(m.vv)
  BY <1>2, Zenon DEF MessageOK
<1>4. /\ list \in [Pids -> SUBSET (0 .. MaxOps - 1)]
      /\ \A q \in Pids : \A c \in 0 .. MaxOps - 1 :
           c \in list[q] <=> c \in deltaLog[p][q] /\ ~Contains(m.vv, q, c)
  BY <1>2, <1>3, VectorEntry, MaxOpsNat, SMT, Z3 DEF GetAllGreater, Contains
<1>5. MessageOK(n)
  BY <1>3, <1>4, Zenon DEF MessageOK
<1>6. \A e \in Dots : e = <<e[1], e[2]>> /\ e[1] \in Pids /\ e[2] \in 0 .. MaxOps - 1 /\ e[2] \in Nat
  BY MaxOpsNat DEF Dots
<1>7. ASSUME NEW e \in Dots, Knows(p, e)
      PROVE  Lists(n, e) \/ Knows(m.from, e)
  BY <1>1, <1>3, <1>4, <1>6, <1>7, Zenon DEF Lists, LogsCover, Fits
<1>8. ASSUME NEW e \in Dots, Lists(n, e)
      PROVE  /\ Knows(n.from, e)
             /\ \A c \in 0 .. e[2] : Lists(n, <<e[1], c>>) \/ Knows(n.to, <<e[1], c>>)
             /\ \A i \in change[e].removed : Lists(n, i) \/ Knows(n.to, i)
  <2>1. Knows(p, e)
    BY <1>1, <1>4, <1>6, <1>8, Zenon DEF Lists, LogsCover
  <2>2. ASSUME NEW c \in 0 .. e[2]
        PROVE  Lists(n, <<e[1], c>>) \/ Knows(n.to, <<e[1], c>>)
    <3>1. <<e[1], c>> \in Dots
      BY <1>6, MaxOpsNat DEF Dots
    <3>2. Knows(p, <<e[1], c>>)
      <4>1. Vector(vector[p])
        BY <1>1, Zenon DEF TypeOK
      <4>. QED  BY <1>6, <2>1, <4>1, VectorEntry DEF Knows, Contains
    <3>. QED  BY <1>7, <3>1, <3>2, Zenon
  <2>3. e \in DOMAIN change
    BY <1>1, <2>1 DEF VectorsCount
  <2>4. \A i \in change[e].removed : i \in Dots /\ Knows(p, i)
    BY <1>1, <2>1, <2>3, Zenon DEF CausallyClosed, RemovalsLater, TypeOK
  <2>. QED  BY <1>7, <2>1, <2>2, <2>4, Zenon
<1>9. Fits(n)
  BY <1>8, Zenon DEF Fits
<1>. QED  BY <1>5, <1>9

\* ORSet::get_delta
LEMMA AnswerInv ==
  ASSUME OrSetInv, NEW m \in msgs, Answer(m.to, m)
  PROVE  OrSetInv'
<1>1. m.to \in Pids /\ m.kind = "vector"
  BY Zenon DEF OrSetInv, TypeOK, MessageOK, Answer
<1> DEFINE list == GetAllGreater(deltaLog[m.to], m.vv)
<1>2. PICK o \in Orders(list, DOMAIN m.vv) :
        msgs' = (msgs \ {m}) \cup
                  {[kind |-> "delta", from |-> m.to, to |-> m.from, list |-> list, order |-> o]}
  BY DEF Answer
<1>3. o \in [{q \in Pids : list[q] # {}} -> Nat]
  <2> DEFINE S == {q \in Pids : list[q] # {}}
  <2>1. o \in [S -> 1 .. Cardinality(S)]
    BY Zenon DEF Orders
  <2>2. S \subseteq Pids
    OBVIOUS
  <2> HIDE DEF S
  <2>3. Cardinality(S) \in Nat
    BY <2>2, PidsFinite, FS_Subset, FS_CardinalityType, Zenon
  <2>4. 1 .. Cardinality(S) \subseteq Nat
    BY <2>3, SMT, Z3
  <2>. QED  BY <2>1, <2>4, Zenon DEF S
<1> DEFINE n == [kind |-> "delta", from |-> m.to, to |-> m.from, list |-> list, order |-> o]
<1>4. MessageOK(n) /\ Fits(n)
  BY <1>1, <1>3, AnswerFits, Zenon
<1> HIDE DEF n
<1>5. \A k \in msgs' : k \in msgs \/ k = n
  BY <1>2 DEF n
<1>6. UNCHANGED <<vector, deltaLog, entries, change>>
  BY DEF Answer
<1>. QED  BY <1>4, <1>5, <1>6, MessagesInv

\* A message that is dropped.
LEMMA LoseInv ==
  ASSUME OrSetInv, NEW m \in msgs, Lose(m)
  PROVE  OrSetInv'
BY MessagesInv DEF Lose

\* ORSet::gc: only deltas that every replica has leave a log.
LEMMA GcInv ==
  ASSUME OrSetInv, NEW p \in Pids, NEW stable \in [Pids -> -1 .. MaxOps - 1], Gc(p, stable)
  PROVE  OrSetInv'
<1> DEFINE L == Retain(deltaLog[p], stable, {})
<1>1. TypeOK /\ LogsCover
  BY DEF OrSetInv
<1>2. deltaLog \in [Pids -> [Pids -> SUBSET (0 .. MaxOps - 1)]]
  BY <1>1 DEF TypeOK
<1>3. /\ L \in [Pids -> SUBSET (0 .. MaxOps - 1)]
      /\ \A q \in Pids : \A c \in 0 .. MaxOps - 1 :
           c \in L[q] <=> c \in deltaLog[p][q] /\ ~(stable[q] >= c)
  BY <1>2 DEF Retain, Contains
<1> HIDE DEF L
<1>4. deltaLog' = [deltaLog EXCEPT ![p] = L] /\ UNCHANGED <<vector, entries, change, msgs>>
  BY DEF Gc, L
<1>5. ASSUME NEW q \in Pids, NEW e \in Dots, stable[e[1]] >= e[2]
      PROVE  Knows(q, e)
  <2>1. e[1] \in Pids /\ e[2] \in Nat
    BY MaxOpsNat, SMT, Z3 DEF Dots
  <2>2. stable[e[1]] <= Get(vector[q], e[1]) /\ stable[e[1]] \in Int
    BY <2>1, MaxOpsNat DEF Gc, Get
  <2>3. e[1] \in DOMAIN vector[q] => vector[q][e[1]] \in Nat
    BY <1>1, VectorEntry DEF TypeOK
  <2>. QED  BY <1>5, <2>1, <2>2, <2>3 DEF Get, Knows, Contains
<1>6. LogsCover'
  <2> SUFFICES ASSUME NEW r \in Pids, NEW e \in Dots
               PROVE  /\ e[2] \in deltaLog'[r][e[1]] => Knows(r, e)
                      /\ \A q \in Pids : Knows(r, e) /\ ~Knows(q, e) => e[2] \in deltaLog'[r][e[1]]
    BY <1>4 DEF LogsCover, Knows, Dots
  <2>1. e[1] \in Pids /\ e[2] \in 0 .. MaxOps - 1
    BY Zenon DEF Dots
  <2>2. CASE r = p
    <3>1. deltaLog'[r] = L
      BY <1>2, <1>4, <2>2
    <3>. QED  BY <1>1, <1>3, <1>5, <2>1, <2>2, <3>1 DEF LogsCover
  <2>3. CASE r # p
    <3>1. deltaLog'[r] = deltaLog[r]
      BY <1>2, <1>4, <2>3
    <3>. QED  BY <1>1, <3>1 DEF LogsCover
  <2>. QED  BY <2>2, <2>3
<1>7. TypeOK'
  BY <1>1, <1>2, <1>3, <1>4, ZenonT(30) DEF TypeOK, Vector, MessageOK, Dots, Deltas
<1>8. VectorsCount' /\ EntriesKnown' /\ CausallyClosed' /\ NoLostInsert'
  BY <1>4 DEF OrSetInv, VectorsCount, EntriesKnown, CausallyClosed, NoLostInsert, Knows, Dots
<1>9. RemovalsLater' /\ InsertsRemoveNothing'
  BY <1>4, Zenon DEF OrSetInv, RemovalsLater, InsertsRemoveNothing
<1>10. \A m \in msgs' : Fits(m)'
  BY <1>4, ZenonT(30) DEF OrSetInv, Fits, Knows, Lists, Dots
<1>. QED  BY <1>6, <1>7, <1>8, <1>9, <1>10 DEF OrSetInv

-----------------------------------------------------------------------------
(* Merging a delta group.                                                  *)

\* A group under way has no gap above its receiver's vector.
LEMMA GroupGapless ==
  ASSUME OrSetInv, NEW m \in msgs, m.kind = "delta", NEW q \in Pids
  PROVE  /\ m.to \in Pids /\ m.from \in Pids
         /\ m.list \in [Pids -> SUBSET (0 .. MaxOps - 1)]
         /\ m.list[q] \in SUBSET Nat /\ \A c \in m.list[q] : c <= MaxOps
         /\ q \in DOMAIN vector[m.to] => vector[m.to][q] \in Nat
         /\ Gapless(vector[m.to], m.list, q)
<1>1. MessageOK(m) /\ Fits(m) /\ TypeOK
  BY DEF OrSetInv, TypeOK
<1>2. /\ m.to \in Pids /\ m.from \in Pids
      /\ m.list \in [Pids -> SUBSET (0 .. MaxOps - 1)]
  BY <1>1 DEF MessageOK
<1>3. q \in DOMAIN vector[m.to] => vector[m.to][q] \in Nat
  BY <1>1, <1>2, VectorEntry DEF TypeOK
<1>4. \A c \in m.list[q] : c \in Nat /\ c <= MaxOps /\ c \in 0 .. MaxOps - 1
  BY <1>2, MaxOpsNat
<1>5. ASSUME NEW e \in m.list[q], NEW c \in 0 .. e
      PROVE  c \in m.list[q] \/ Contains(vector[m.to], q, c)
  <2>1. <<q, e>> \in Dots /\ Lists(m, <<q, e>>)
    BY <1>4 DEF Dots, Lists
  <2>2. Lists(m, <<q, c>>) \/ Knows(m.to, <<q, c>>)
    BY <1>1, <2>1, Zenon DEF Fits
  <2>. QED  BY <2>2 DEF Lists, Knows
<1>. QED  BY <1>2, <1>3, <1>4, <1>5, Zenon DEF Gapless

\* After a merge the receiver knows what it knew and what the group lists.
LEMMA MergeKnows ==
  ASSUME OrSetInv, NEW m \in msgs, Merge(m.to, m)
  PROVE  /\ m.to \in Pids /\ m.from \in Pids
         /\ \A q \in Pids : \A e \in Dots :
              Knows(q, e)' <=> Knows(q, e) \/ (q = m.to /\ Lists(m, e))
         /\ DOMAIN vector' = Pids /\ \A q \in Pids : Vector(vector'[q])
         /\ News(m.to, m) = {e \in Dots : Lists(m, e) /\ ~Knows(m.to, e)}
<1> DEFINE p == m.to
           v == MergedVector(vector[p], m.list)
<1>1. m.kind = "delta" /\ vector' = [vector EXCEPT ![p] = v]
  BY DEF Merge
<1>2. MessageOK(m) /\ TypeOK
  BY DEF OrSetInv, TypeOK
<1>3. /\ p \in Pids /\ m.from \in Pids
      /\ m.list \in [Pids -> SUBSET (0 .. MaxOps - 1)]
  BY <1>1, <1>2 DEF MessageOK
<1>4. DOMAIN vector = Pids /\ \A q \in Pids : Vector(vector[q])
  BY <1>2, ZenonT(30) DEF TypeOK
<1>5. ASSUME NEW q \in Pids
      PROVE  /\ q \in DOMAIN v =>
                  \/ v[q] \in m.list[q]
                  \/ q \in DOMAIN vector[p] /\ v[q] = vector[p][q]
             /\ \A c \in Nat : Contains(v, q, c)
                               <=> Contains(vector[p], q, c) \/ c \in m.list[q]
  <2>1. DOMAIN m.list = Pids /\ MaxOps \in Int
    BY <1>3, MaxOpsNat
  <2>2. /\ m.list[q] \in SUBSET Nat /\ \A c \in m.list[q] : c <= MaxOps
        /\ q \in DOMAIN vector[p] => vector[p][q] \in Nat
        /\ Gapless(vector[p], m.list, q)
    BY <1>1, GroupGapless, ZenonT(30)
  <2> HIDE DEF p
  <2>. QED  BY <2>1, <2>2, MergedContains
<1>6. v = [q \in DOMAIN v |-> v[q]] /\ DOMAIN v \subseteq Pids
  <2>1. DOMAIN m.list = Pids /\ DOMAIN vector[p] \subseteq Pids
    BY <1>3, <1>4 DEF Vector
  <2>. QED  BY <2>1 DEF MergedVector
<1>7. \A e \in Dots : e[1] \in Pids /\ e[2] \in Nat
  BY MaxOpsNat DEF Dots
<1> HIDE DEF p, v
<1>8. Vector(v)
  <2>1. \A q \in DOMAIN v : v[q] \in 0 .. MaxOps - 1
    BY <1>3, <1>4, <1>5, <1>6, VectorEntry, ZenonT(30)
  <2>. QED  BY <1>6, <2>1 DEF Vector
<1>9. \A q \in Pids : \A e \in Dots :
        Knows(q, e)' <=> Knows(q, e) \/ (q = p /\ Lists(m, e))
  BY <1>1, <1>3, <1>4, <1>5, <1>7 DEF Knows, Lists
<1>10. DOMAIN vector' = Pids /\ \A q \in Pids : Vector(vector'[q])
  BY <1>1, <1>3, <1>4, <1>8, Zenon
<1>11. News(p, m) = {e \in Dots : Lists(m, e) /\ ~Knows(p, e)}
  BY Zenon DEF News, Missing, Lists, Knows
<1>. QED  BY <1>3, <1>9, <1>10, <1>11 DEF p

\* What merge_delta_group makes of the entries, in terms of what is known.
LEMMA MergeEntries ==
  ASSUME OrSetInv, NEW m \in msgs, Merge(m.to, m)
  PROVE  /\ entries' = [entries EXCEPT ![m.to] = MergedEntries(m.to, m)]
         /\ \A i : i \in MergedEntries(m.to, m) <=>
              /\ \/ i \in entries[m.to]
                 \/ i \in News(m.to, m) /\ change[i].kind = "insert"
              /\ \A r \in News(m.to, m) : i \in change[r].removed =>
                   i \in News(m.to, m) /\ Precedes(m, r, i)
<1> DEFINE p == m.to
           new == News(p, m)
           inserts == {d \in new : change[d].kind = "insert"}
<1>1. p \in Pids /\ new = {e \in Dots : Lists(m, e) /\ ~Knows(p, e)}
  BY MergeKnows
<1>2. VectorsCount /\ Fits(m) /\ InsertsRemoveNothing /\ RemovalsLater /\ TypeOK
  BY DEF OrSetInv
<1>3. m.kind = "delta"
  BY Zenon DEF Merge
<1>4. \A r \in new : r \in DOMAIN change
  BY <1>1, <1>2, <1>3, MergeKnows, Zenon DEF Fits, VectorsCount
<1>5. \A r \in inserts : change[r].removed = {}
  BY <1>2, <1>4 DEF InsertsRemoveNothing
<1>6. \A r \in new : \A i \in change[r].removed : i \in inserts <=> i \in new
  BY <1>2, <1>4, Zenon DEF RemovalsLater
<1>7. MergedEntries(p, m) =
        {i \in entries[p] \cup inserts :
           \A r \in new \ inserts :
              i \in change[r].removed => i \in inserts /\ Precedes(m, r, i)}
  BY DEF MergedEntries
<1>8. entries' = [entries EXCEPT ![p] = MergedEntries(p, m)]
  BY Zenon DEF Merge
<1> HIDE DEF p, new
<1>9. ASSUME NEW i
      PROVE  i \in MergedEntries(p, m) <=>
              /\ i \in entries[p] \/ (i \in new /\ change[i].kind = "insert")
              /\ \A r \in new : i \in change[r].removed => i \in new /\ Precedes(m, r, i)
  BY <1>5, <1>6, <1>7
<1>. QED  BY <1>8, <1>9, Zenon DEF p, new

\* ORSet::merge_delta_group
LEMMA MergeInv ==
  ASSUME OrSetInv, NEW m \in msgs, Merge(m.to, m)
  PROVE  OrSetInv'
<1> DEFINE p == m.to
<1>1. /\ p \in Pids /\ m.from \in Pids
      /\ \A q \in Pids : \A e \in Dots :
           Knows(q, e)' <=> Knows(q, e) \/ (q = p /\ Lists(m, e))
      /\ DOMAIN vector' = Pids /\ \A q \in Pids : Vector(vector'[q])
      /\ News(p, m) = {e \in Dots : Lists(m, e) /\ ~Knows(p, e)}
  BY MergeKnows
<1>2. /\ m.kind = "delta" /\ msgs' = msgs \ {m} /\ change' = change
      /\ deltaLog' = [deltaLog EXCEPT ![p] = MergedLog(deltaLog[p], vector[p], m.list)]
  BY DEF Merge
<1>3. /\ TypeOK /\ VectorsCount /\ LogsCover /\ RemovalsLater /\ InsertsRemoveNothing
      /\ EntriesKnown /\ CausallyClosed /\ NoLostInsert /\ \A n \in msgs : Fits(n)
  BY Zenon DEF OrSetInv
<1>4. /\ entries' = [entries EXCEPT ![p] = MergedEntries(p, m)]
      /\ \A i : i \in MergedEntries(p, m) <=>
           /\ i \in entries[p] \/ (i \in News(p, m) /\ change[i].kind = "insert")
           /\ \A r \in News(p, m) : i \in change[r].removed =>
                i \in News(p, m) /\ Precedes(m, r, i)
  BY MergeEntries
<1>5. \A e \in Dots : e = <<e[1], e[2]>> /\ e[1] \in Pids /\ e[2] \in 0 .. MaxOps - 1
  BY DEF Dots
<1>6. DOMAIN change \subseteq Dots /\ entries \in [Pids -> SUBSET Dots]
  BY <1>3 DEF TypeOK
<1>7. ASSUME NEW e \in Dots, Lists(m, e)
      PROVE  /\ e \in DOMAIN change /\ Knows(m.from, e) /\ Knows(e[1], e)
             /\ \A i \in change[e].removed : Lists(m, i) \/ Knows(p, i)
  BY <1>1, <1>2, <1>3, <1>7, Zenon DEF Fits, VectorsCount
<1> HIDE DEF p
<1>8. VectorsCount'
  <2>1. \A e \in Dots : Knows(e[1], e)' <=> Knows(e[1], e)
    BY <1>1, <1>5, <1>7
  <2>2. \A q \in Pids : \A e \in Dots : Knows(q, e)' => Knows(e[1], e)'
    BY <1>1, <1>3, <1>5, <1>7, <2>1, Zenon DEF VectorsCount
  <2>. QED  BY <1>2, <1>3, <2>1, <2>2, Zenon DEF VectorsCount, Dots
<1>9. /\ deltaLog' \in [Pids -> [Pids -> SUBSET (0 .. MaxOps - 1)]]
      /\ \A q \in Pids : \A e \in Dots :
           e[2] \in deltaLog'[q][e[1]] <=>
              e[2] \in deltaLog[q][e[1]] \/ (q = p /\ Lists(m, e) /\ ~Knows(p, e))
  <2>1. deltaLog \in [Pids -> [Pids -> SUBSET (0 .. MaxOps - 1)]] /\ MessageOK(m)
    BY <1>3 DEF TypeOK
  <2>2. m.list \in [Pids -> SUBSET (0 .. MaxOps - 1)]
    BY <1>2, <2>1, ZenonT(30) DEF MessageOK
  <2> DEFINE L == MergedLog(deltaLog[p], vector[p], m.list)
  <2>3. /\ L \in [Pids -> SUBSET (0 .. MaxOps - 1)]
        /\ \A q \in Pids : L[q] = deltaLog[p][q] \cup {c \in m.list[q] : ~Contains(vector[p], q, c)}
    BY <1>1, <2>1, <2>2, SMT, Z3 DEF MergedLog, Missing
  <2> HIDE DEF L
  <2>4. deltaLog' = [deltaLog EXCEPT ![p] = L]
    BY <1>2, Zenon DEF L
  <2>. QED  BY <1>1, <1>5, <2>1, <2>3, <2>4 DEF Lists, Knows
<1>10. LogsCover'
  <2>1. \A q \in Pids : \A e \in Dots : e[2] \in deltaLog'[q][e[1]] => Knows(q, e)'
    BY <1>1, <1>3, <1>9, ZenonT(30) DEF LogsCover
  <2>2. \A q, r \in Pids : \A e \in Dots :
          Knows(q, e)' /\ ~Knows(r, e)' => e[2] \in deltaLog'[q][e[1]]
    BY <1>1, <1>3, <1>9, SMT, Z3 DEF LogsCover
  <2>. QED  BY <2>1, <2>2, Zenon DEF LogsCover, Dots
<1>11. RemovalsLater' /\ InsertsRemoveNothing'
  BY <1>2, <1>3, Zenon DEF RemovalsLater, InsertsRemoveNothing
<1>12. \A r \in DOMAIN change : \A i \in change[r].removed : i \in Dots
  BY <1>3, <1>6, Zenon DEF RemovalsLater
<1>13. CausallyClosed'
  <2> SUFFICES ASSUME NEW q \in Pids, NEW r \in DOMAIN change, Knows(q, r)',
                      NEW i \in change[r].removed
               PROVE  Knows(q, i)'
    BY <1>2 DEF CausallyClosed
  <2>1. r \in Dots /\ i \in Dots
    BY <1>6, <1>12, Zenon
  <2>2. CASE Knows(q, r)
    BY <1>1, <1>3, <2>1, <2>2, Zenon DEF CausallyClosed
  <2>3. CASE q = p /\ Lists(m, r)
    BY <1>1, <1>7, <2>1, <2>3, Zenon
  <2>. QED  BY <1>1, <2>1, <2>2, <2>3, Zenon
<1>14. EntriesKnown'
  <2> SUFFICES ASSUME NEW q \in Pids, NEW e \in entries'[q]
               PROVE  e \in DOMAIN change /\ change[e].kind = "insert" /\ Knows(q, e)'
    BY <1>2, Zenon DEF EntriesKnown
  <2>1. CASE e \in entries[q]
    BY <1>1, <1>3, <1>6, <2>1, Zenon DEF EntriesKnown
  <2>2. CASE e \notin entries[q]
    <3>1. q = p /\ e \in News(p, m) /\ change[e].kind = "insert"
      BY <1>4, <1>6, <2>2, Zenon
    <3>. QED  BY <1>1, <1>7, <3>1, Zenon
  <2>. QED  BY <2>1, <2>2
<1>15. NoLostInsert'
  <2> SUFFICES ASSUME NEW q \in Pids, NEW i \in DOMAIN change, change[i].kind = "insert",
                      Knows(q, i)', i \notin entries'[q]
               PROVE  \E r \in DOMAIN change : Knows(q, r)' /\ i \in change[r].removed
    BY <1>2, Zenon DEF NoLostInsert
  <2>1. i \in Dots
    BY <1>6, Zenon
  <2>2. CASE Knows(q, i) /\ i \notin entries[q]
    <3>1. PICK r \in DOMAIN change : Knows(q, r) /\ i \in change[r].removed
      BY <1>3, <2>2, Zenon DEF NoLostInsert
    <3>. QED  BY <1>1, <1>6, <3>1, Zenon
  <2>3. CASE ~(Knows(q, i) /\ i \notin entries[q])
    <3>1. q = p /\ (i \in entries[p] \/ i \in News(p, m))
      BY <1>1, <1>4, <1>6, <2>1, <2>3, Zenon
    <3>2. i \notin MergedEntries(p, m)
      BY <1>1, <1>4, <1>6, <3>1, ZenonT(30)
    <3>3. PICK r \in News(p, m) : i \in change[r].removed
      BY <1>4, <3>1, <3>2
    <3>. QED  BY <1>1, <1>7, <3>1, <3>3, Zenon
  <2>. QED  BY <2>2, <2>3, Zenon
<1>16. ASSUME NEW n \in msgs' PROVE MessageOK(n)' /\ Fits(n)'
  <2>1. n \in msgs /\ MessageOK(n) /\ Fits(n)
    BY <1>2, <1>3 DEF TypeOK
  <2>2. MessageOK(n)' /\ n.from \in Pids /\ n.to \in Pids
    BY <2>1, Zenon DEF MessageOK, Vector
  <2>3. \A q \in Pids : \A e \in Dots : Knows(q, e) => Knows(q, e)'
    BY <1>1, Zenon
  <2>4. ASSUME n.kind = "vector", NEW e \in Dots, Contains(n.vv, e[1], e[2])
        PROVE  Knows(n.from, e)'
    BY <2>1, <2>2, <2>3, <2>4, Zenon DEF Fits
  <2>5. ASSUME n.kind = "delta", NEW e \in Dots, Lists(n, e)
        PROVE  /\ Knows(n.from, e)'
               /\ \A c \in 0 .. e[2] : Lists(n, <<e[1], c>>) \/ Knows(n.to, <<e[1], c>>)'
               /\ \A i \in change[e].removed : Lists(n, i) \/ Knows(n.to, i)'
    <3>1. /\ Knows(n.from, e)
          /\ \A c \in 0 .. e[2] : Lists(n, <<e[1], c>>) \/ Knows(n.to, <<e[1], c>>)
          /\ \A i \in change[e].removed : Lists(n, i) \/ Knows(n.to, i)
      BY <2>1, <2>5, Zenon DEF Fits
    <3>2. e \in DOMAIN change
      BY <1>3, <2>2, <3>1 DEF VectorsCount
    <3>3. \A c \in 0 .. e[2] : <<e[1], c>> \in Dots
      BY <1>5, MaxOpsNat, SMT, Z3 DEF Dots
    <3>. QED  BY <1>12, <2>2, <2>3, <3>1, <3>2, <3>3, Zenon
  <2>6. Fits(n)'
    BY <1>2, <2>4, <2>5, Zenon DEF Fits, Lists, Dots
  <2>. QED  BY <2>2, <2>6
<1>17. TypeOK'
  <2>1. entries' \in [Pids -> SUBSET Dots]
    <3>1. MergedEntries(p, m) \subseteq Dots
      BY <1>1, <1>4, <1>6, Zenon
    <3>. QED  BY <1>1, <1>4, <1>6, <3>1, Zenon
  <2>2. \A q \in Pids : Vector(vector[q])'
    BY <1>1 DEF Vector
  <2>. QED  BY <1>1, <1>2, <1>3, <1>9, <1>16, <2>1, <2>2, Zenon DEF TypeOK, Dots, Deltas
<1>. QED  BY <1>8, <1>10, <1>11, <1>13, <1>14, <1>15, <1>16, <1>17, ZenonT(30) DEF OrSetInv

-----------------------------------------------------------------------------
(* Safety, for any number of replicas.                                     *)

\* Every step preserves the invariant.
LEMMA NextInv == OrSetInv /\ [Next]_vars => OrSetInv'
<1> SUFFICES ASSUME OrSetInv, [Next]_vars PROVE OrSetInv'
  OBVIOUS
<1>1. CASE \E p \in Pids, e \in Elements : Insert(p, e) \/ Remove(p, e)
  BY <1>1, InsertInv, RemoveInv, Zenon
<1>2. CASE \E p, q \in Pids : Request(p, q)
  BY <1>2, RequestInv
<1>3. CASE \E m \in msgs : Answer(m.to, m)
  BY <1>3, AnswerInv
<1>4. CASE \E m \in msgs : Merge(m.to, m)
  BY <1>4, MergeInv
<1>5. CASE \E m \in msgs : Lose(m)
  BY <1>5, LoseInv
<1>6. CASE \E p \in Collectors, stable \in [Pids -> -1 .. MaxOps - 1] : Gc(p, stable)
  BY <1>6, GcInv, CollectorsArePids
<1>7. CASE UNCHANGED vars
  BY <1>7, MessagesInv DEF vars
<1>. QED  BY <1>1, <1>2, <1>3, <1>4, <1>5, <1>6, <1>7 DEF Next

\* The inductive invariant of the OR-set holds, whatever insert, remove,
\* get_delta, merge_delta_group and gc do in whatever order.
THEOREM OrSetCorrect == Spec => []OrSetInv
<1>1. Init => OrSetInv
  BY InitInv
<1>2. OrSetInv /\ [Next]_vars => OrSetInv'
  BY NextInv
<1>. QED  BY <1>1, <1>2, PTL DEF Spec

\* Vectors, delta logs, entries and messages keep their types: a dot's counter is
\* one that was given out, and a delta group lists what can be inserted.
THEOREM OrSetTypes == Spec => []TypeOK
<1>1. OrSetInv => TypeOK
  BY Zenon DEF OrSetInv
<1>. QED  BY <1>1, OrSetCorrect, PTL

\* DotSet::insert never fails its assertion on a delta group under way.
THEOREM MergesNeverPanic == Spec => []MergeNeverPanics
<1>1. OrSetInv => MergeNeverPanics
  <2> SUFFICES ASSUME OrSetInv, NEW m \in msgs, m.kind = "delta"
               PROVE  Insertable(vector[m.to], m.list)
    BY Zenon DEF MergeNeverPanics
  <2>1. \A q \in Pids :
          /\ m.list \in [Pids -> SUBSET (0 .. MaxOps - 1)]
          /\ m.list[q] \in SUBSET Nat
          /\ q \in DOMAIN vector[m.to] => vector[m.to][q] \in Nat
          /\ Gapless(vector[m.to], m.list, q)
    BY GroupGapless
  <2>2. DOMAIN m.list = Pids
    BY Zenon DEF OrSetInv, TypeOK, MessageOK
  <2>. QED  BY <2>1, <2>2, GaplessInsertable
<1>. QED  BY <1>1, OrSetCorrect, PTL

\* An insertion that a replica has applied is stored, or was removed by a
\* removal that had seen it.
THEOREM AdditionsWin == Spec => []NoLostInsert
<1>1. OrSetInv => NoLostInsert
  BY DEF OrSetInv
<1>. QED  BY <1>1, OrSetCorrect, PTL

\* A replica that has applied a removal has applied every insertion it removes,
\* although delta groups are not ordered causally.
THEOREM KnowledgeIsCausal == Spec => []CausallyClosed
<1>1. OrSetInv => CausallyClosed
  BY DEF OrSetInv
<1>. QED  BY <1>1, OrSetCorrect, PTL

\* No step brings back a dot that its replica had applied and removed.
THEOREM NothingComesBack == Spec => NoResurrection
<1>1. OrSetInv /\ [Next]_vars =>
        [\A p \in Pids : \A d \in entries'[p] \ entries[p] : ~Knows(p, d)]_vars
  <2> SUFFICES ASSUME OrSetInv, Next, NEW q \in Pids, NEW e \in entries'[q], e \notin entries[q]
               PROVE  ~Knows(q, e)
    OBVIOUS
  <2>0. entries \in [Pids -> SUBSET Dots] /\ VectorsCount
    BY DEF OrSetInv, TypeOK
  <2>1. ASSUME NEW p \in Pids, NEW x \in Elements, Insert(p, x) PROVE ~Knows(q, e)
    <3> DEFINE y == [kind |-> "insert", element |-> x, removed |-> {}]
    <3>1. y \in Deltas /\ Mutate(p, y) /\ entries' = [entries EXCEPT ![p] = @ \cup {Allocated(p)}]
      BY <2>1 DEF Deltas, Insert
    <3>2. Allocated(p) \notin DOMAIN change /\ Allocated(p) \in Dots
      BY <3>1, MutateKnows, Zenon
    <3>3. e = Allocated(p)
      BY <2>0, <3>1
    <3>. QED  BY <2>0, <3>2, <3>3, ZenonT(30) DEF VectorsCount
  <2>2. ASSUME NEW p \in Pids, NEW x \in Elements, Remove(p, x) PROVE FALSE
    BY <2>0, <2>2, ZenonT(30) DEF Remove
  <2>3. ASSUME NEW m \in msgs, Merge(m.to, m) PROVE ~Knows(q, e)
    BY <2>0, <2>3, MergeKnows, MergeEntries, SMTT(30), Z3T(30)
  <2>4. CASE UNCHANGED entries
    BY <2>4, Zenon
  <2>. QED  BY <2>1, <2>2, <2>3, <2>4 DEF Next, Request, Answer, Lose, Gc
<1>. QED  BY <1>1, OrSetCorrect, PTL DEF Spec, NoResurrection

-----------------------------------------------------------------------------
(* Convergence, when delta groups are causally ordered.                    *)

\* Removals stay effective as long as the groups that are merged are causal.
LEMMA EffectiveStep ==
  ASSUME OrSetInv, CausalGroups, RemovalsEffective, [Next]_vars
  PROVE  RemovalsEffective'
<1>0. /\ TypeOK /\ entries \in [Pids -> SUBSET Dots] /\ DOMAIN change \subseteq Dots
      /\ VectorsCount /\ RemovalsLater /\ EntriesKnown /\ CausallyClosed
  BY DEF OrSetInv, TypeOK
<1>1. ASSUME NEW p \in Pids, NEW x \in Deltas, Mutate(p, x), NEW E,
             entries' = [entries EXCEPT ![p] = E], E \subseteq entries[p] \cup {Allocated(p)},
             x.removed \subseteq entries[p], x.removed \cap E = {}
      PROVE  RemovalsEffective'
  <2> DEFINE d == Allocated(p)
  <2>1. /\ d \in Dots /\ d \notin DOMAIN change
        /\ \A q \in Pids : \A e \in Dots : Knows(q, e)' <=> Knows(q, e) \/ (q = p /\ e = d)
        /\ DOMAIN change' = DOMAIN change \cup {d}
        /\ change'[d] = x /\ \A e \in DOMAIN change : change'[e] = change[e]
    BY <1>1, MutateKnows
  <2>2. \A q \in Pids : entries'[q] \subseteq entries[q] \cup {d}
    BY <1>0, <1>1, Zenon
  <2> HIDE DEF d
  <2> SUFFICES ASSUME NEW q \in Pids, NEW r \in DOMAIN change', Knows(q, r)',
                      NEW i \in change'[r].removed, i \in entries'[q]
               PROVE  FALSE
    BY Zenon DEF RemovalsEffective
  <2>3. CASE r = d
    <3>1. ~Knows(q, d)
      BY <1>0, <2>1, Zenon DEF VectorsCount
    <3>2. q = p
      BY <2>1, <2>3, <3>1, Zenon
    <3>. QED  BY <1>0, <1>1, <2>1, <2>3, <3>2, Zenon
  <2>4. CASE r # d
    <3>1. r \in DOMAIN change /\ Knows(q, r) /\ i \in change[r].removed
      BY <1>0, <2>1, <2>4, ZenonT(30)
    <3>2. i # d
      BY <1>0, <2>1, <3>1 DEF RemovalsLater
    <3>. QED  BY <2>2, <3>1, <3>2, Zenon DEF RemovalsEffective
  <2>. QED  BY <2>3, <2>4, Zenon
<1>2. ASSUME NEW p \in Pids, NEW e \in Elements, Insert(p, e) PROVE RemovalsEffective'
  <2> DEFINE x == [kind |-> "insert", element |-> e, removed |-> {}]
             E == entries[p] \cup {Allocated(p)}
  <2>1. x \in Deltas /\ Mutate(p, x) /\ entries' = [entries EXCEPT ![p] = E] /\ x.removed = {}
    BY <1>2 DEF Deltas, Insert
  <2>. QED  BY <1>1, <2>1, Zenon
<1>3. ASSUME NEW p \in Pids, NEW e \in Elements, Remove(p, e) PROVE RemovalsEffective'
  <2> DEFINE x == [kind |-> "remove", element |-> e, removed |-> Stored(p, e)]
             E == entries[p] \ Stored(p, e)
  <2>1. Stored(p, e) \subseteq entries[p] /\ Stored(p, e) \in SUBSET Dots
    BY <1>0, Zenon DEF Stored
  <2>2. x \in Deltas /\ Mutate(p, x) /\ entries' = [entries EXCEPT ![p] = E]
        /\ x.removed = Stored(p, e)
    BY <1>3, <2>1, Zenon DEF Deltas, Remove
  <2> HIDE DEF x, E
  <2>3. E \subseteq entries[p] /\ x.removed \cap E = {}
    BY <2>2, Zenon DEF E
  <2>. QED  BY <1>1, <2>1, <2>2, <2>3, Zenon
<1>4. ASSUME NEW m \in msgs, Merge(m.to, m) PROVE RemovalsEffective'
  <2> DEFINE p == m.to
  <2>1. /\ p \in Pids
        /\ \A q \in Pids : \A e \in Dots :
             Knows(q, e)' <=> Knows(q, e) \/ (q = p /\ Lists(m, e))
        /\ News(p, m) = {e \in Dots : Lists(m, e) /\ ~Knows(p, e)}
    BY <1>4, MergeKnows, ZenonT(30)
  <2>2. /\ entries' = [entries EXCEPT ![p] = MergedEntries(p, m)]
        /\ \A i : i \in MergedEntries(p, m) <=>
             /\ i \in entries[p] \/ (i \in News(p, m) /\ change[i].kind = "insert")
             /\ \A r \in News(p, m) : i \in change[r].removed =>
                  i \in News(p, m) /\ Precedes(m, r, i)
    BY <1>4, MergeEntries
  <2>3. change' = change /\ m.kind = "delta"
    BY <1>4, Zenon DEF Merge
  <2>4. \A r \in News(p, m) : \A i \in change[r].removed \cap News(p, m) : Precedes(m, i, r)
    BY <2>3 DEF CausalGroups
  <2>5. m.list \in [Pids -> SUBSET (0 .. MaxOps - 1)] /\ m.order \in [{q \in Pids : m.list[q] # {}} -> Nat]
    BY <1>0, <2>3, Zenon DEF TypeOK, MessageOK
  <2> HIDE DEF p
  <2> SUFFICES ASSUME NEW q \in Pids, NEW r \in DOMAIN change, Knows(q, r)',
                      NEW i \in change[r].removed, i \in entries'[q]
               PROVE  FALSE
    BY <2>3, Zenon DEF RemovalsEffective
  <2>6. i \in Dots /\ r \in Dots
    BY <1>0, Zenon DEF RemovalsLater
  <2>7. CASE Knows(q, r)
    <3>1. Knows(q, i) /\ i \notin entries[q]
      BY <1>0, <2>7, Zenon DEF CausallyClosed, RemovalsEffective
    <3>. QED  BY <1>0, <2>1, <2>2, <3>1, SMTT(30), Z3T(30)
  <2>8. CASE ~Knows(q, r)
    <3>1. q = p /\ r \in News(p, m) /\ i \in MergedEntries(p, m)
      BY <1>0, <2>1, <2>2, <2>6, <2>8, Zenon
    <3>2. i \in News(p, m) /\ Precedes(m, r, i) /\ Precedes(m, i, r)
      BY <2>2, <2>4, <3>1, ZenonT(30)
    <3>3. /\ i[1] \in Pids /\ r[1] \in Pids /\ i[2] \in Nat /\ r[2] \in Nat
          /\ m.list[i[1]] # {} /\ m.list[r[1]] # {}
      BY <2>1, <2>6, <3>1, <3>2, MaxOpsNat, SMTT(30), Z3T(30) DEF Lists, Dots
    <3>4. m.order[i[1]] \in Nat /\ m.order[r[1]] \in Nat
      BY <2>5, <3>3, Zenon
    <3>. QED  BY <3>2, <3>3, <3>4, SMT, Z3 DEF Precedes
  <2>. QED  BY <2>7, <2>8, Zenon
<1>5. CASE UNCHANGED <<vector, entries, change>>
  BY <1>5 DEF RemovalsEffective, Knows
<1>. QED  BY <1>2, <1>3, <1>4, <1>5, Zenon DEF Next, Request, Answer, Lose, Gc, vars

\* Entries that are exactly the live insertions depend on the vector alone.
LEMMA EffectiveConverged ==
  ASSUME OrSetInv, RemovalsEffective
  PROVE  Converged
<1> DEFINE Same(p, q) == \A r \in Pids : Get(vector[p], r) = Get(vector[q], r)
<1> SUFFICES ASSUME NEW p \in Pids, NEW q \in Pids, Same(p, q), NEW d \in entries[p]
             PROVE  d \in entries[q]
  <2>1. \A p, q \in Pids : Same(p, q) => \A d \in entries[p] : d \in entries[q]
    OBVIOUS
  <2>2. \A p, q \in Pids : Same(p, q) => Same(q, p)
    OBVIOUS
  <2>3. \A p, q \in Pids : Same(p, q) => entries[p] = entries[q]
    <3> SUFFICES ASSUME NEW p \in Pids, NEW q \in Pids, Same(p, q)
                 PROVE  entries[p] = entries[q]
      OBVIOUS
    <3> HIDE DEF Same
    <3>1. entries[p] \in SUBSET Dots /\ entries[q] \in SUBSET Dots
      BY DEF OrSetInv, TypeOK
    <3>2. \A d : d \in entries[p] <=> d \in entries[q]
      BY <2>1, <2>2, Zenon
    <3>. QED  BY <3>1, <3>2
  <2>. QED  BY <2>3, Zenon DEF Converged
<1>1. /\ EntriesKnown /\ NoLostInsert /\ DOMAIN change \subseteq Dots
      /\ Vector(vector[p]) /\ Vector(vector[q])
  BY Zenon DEF OrSetInv, TypeOK
<1>2. ASSUME NEW e \in Dots PROVE Knows(p, e) <=> Knows(q, e)
  <2>1. e[1] \in Pids /\ e[2] \in Nat
    BY MaxOpsNat, SMT, Z3 DEF Dots
  <2>2. /\ e[1] \in DOMAIN vector[p] => vector[p][e[1]] \in Nat
        /\ e[1] \in DOMAIN vector[q] => vector[q][e[1]] \in Nat
    BY <1>1, VectorEntry, Zenon
  <2>3. Get(vector[p], e[1]) = Get(vector[q], e[1])
    BY <2>1, Zenon
  <2>. QED  BY <2>1, <2>2, <2>3, SMTT(30), Z3T(30) DEF Knows, Contains, Get
<1>3. d \in DOMAIN change /\ change[d].kind = "insert" /\ Knows(q, d)
  BY <1>1, <1>2, Zenon DEF EntriesKnown
<1>4. ASSUME d \notin entries[q] PROVE FALSE
  <2>1. PICK r \in DOMAIN change : Knows(q, r) /\ d \in change[r].removed
    BY <1>1, <1>3, <1>4, Zenon DEF NoLostInsert
  <2>. QED  BY <1>1, <1>2, <2>1, Zenon DEF RemovalsEffective
<1>. QED  BY <1>4, Zenon

\* Initially there is nothing to remove.
LEMMA InitEffective == Init => RemovalsEffective
BY DEF Init, RemovalsEffective

\* If every delta group is causally ordered, as crdt.rs says, replicas with the
\* same version vector hold the same entries.
THEOREM ConvergedIfCausal == Spec /\ []CausalGroups => []Converged
<1>1. OrSetInv /\ CausalGroups /\ RemovalsEffective /\ [Next]_vars => RemovalsEffective'
  BY EffectiveStep
<1>2. OrSetInv /\ RemovalsEffective => Converged
  BY EffectiveConverged, Zenon
<1>. QED  BY <1>1, <1>2, InitEffective, OrSetCorrect, PTL DEF Spec

\* With two replicas a group holds nothing the receiver lacks but the sender's
\* own deltas, and those are listed in the order they were made.
LEMMA TwoReplicasCausal ==
  ASSUME NEW CONSTANT a, NEW CONSTANT b, Pids = {a, b}, OrSetInv
  PROVE  CausalGroups
<1> SUFFICES ASSUME NEW m \in msgs, m.kind = "delta", NEW r \in News(m.to, m),
                    NEW i \in change[r].removed, i \in News(m.to, m)
             PROVE  Precedes(m, i, r)
  BY DEF CausalGroups
<1>1. MessageOK(m) /\ Fits(m) /\ VectorsCount /\ RemovalsLater
  BY Zenon DEF OrSetInv, TypeOK
<1>2. m.to \in Pids /\ m.from \in Pids
  BY <1>1, Zenon DEF MessageOK
<1>3. \A d \in News(m.to, m) : d \in Dots /\ d[1] \in Pids /\ Lists(m, d) /\ ~Knows(m.to, d)
  BY Zenon DEF News, Missing, Lists, Knows, Dots
<1>4. \A d \in News(m.to, m) : d \in DOMAIN change /\ Knows(d[1], d)
  BY <1>1, <1>2, <1>3, Zenon DEF Fits, VectorsCount
<1>5. r[1] # m.to /\ i[1] # m.to /\ r[1] \in {a, b} /\ i[1] \in {a, b} /\ m.to \in {a, b}
  BY <1>2, <1>3, <1>4, Zenon
<1>6. i[1] = r[1]
  BY <1>5, Zenon
<1>7. i[2] < r[2]
  BY <1>1, <1>4, <1>6 DEF RemovalsLater
<1>. QED  BY <1>6, <1>7, Zenon DEF Precedes

\* Two replicas converge.
THEOREM TwoReplicasConverge ==
  ASSUME NEW CONSTANT a, NEW CONSTANT b, Pids = {a, b}
  PROVE  Spec => []Converged
<1>1. OrSetInv => CausalGroups
  BY TwoReplicasCausal
<1>. QED  BY <1>1, OrSetCorrect, ConvergedIfCausal, PTL

-----------------------------------------------------------------------------
(* The OR-set implements the add-wins set.                                 *)

\* Entries, known dots and live insertions agree.
LEMMA EntriesLive ==
  ASSUME OrSetInv, RemovalsEffective, NEW p \in Pids
  PROVE  entries[p] = Abstract!Live(change, KnownDots[p])
<1>1. EntriesKnown /\ NoLostInsert /\ entries[p] \in SUBSET Dots
  BY DEF OrSetInv, TypeOK
<1>2. KnownDots[p] = {d \in DOMAIN change : Knows(p, d)}
  BY DEF KnownDots
<1>3. Abstract!Live(change, KnownDots[p]) =
        {d \in KnownDots[p] : change[d].kind = "insert"
                              /\ \A r \in KnownDots[p] : d \notin change[r].removed}
  BY Zenon DEF Abstract!Live
<1>4. \A d \in entries[p] : d \in Abstract!Live(change, KnownDots[p])
  BY <1>1, <1>2, <1>3, Zenon DEF EntriesKnown, RemovalsEffective
<1>5. \A d \in Abstract!Live(change, KnownDots[p]) : d \in entries[p]
  BY <1>1, <1>2, <1>3, Zenon DEF NoLostInsert
<1>. QED  BY <1>4, <1>5, Zenon

\* A mutation is a mutation of the abstract set.
LEMMA MutateImplements ==
  ASSUME OrSetInv, NEW p \in Pids, NEW x \in Deltas, Mutate(p, x)
  PROVE  Abstract!Mutate(p, Allocated(p), x) /\ Allocated(p) \in Dots
<1> DEFINE d == Allocated(p)
<1>1. /\ d \in Dots /\ d \notin DOMAIN change
      /\ \A q \in Pids : \A e \in Dots : Knows(q, e)' <=> Knows(q, e) \/ (q = p /\ e = d)
      /\ DOMAIN change' = DOMAIN change \cup {d}
  BY MutateKnows, Zenon
<1>2. change' = [c \in DOMAIN change \cup {d} |-> IF c = d THEN x ELSE change[c]]
  BY DEF Mutate
<1>3. VectorsCount /\ DOMAIN change \subseteq Dots
  BY Zenon DEF OrSetInv, TypeOK
<1> HIDE DEF d
<1>4. \A q \in Pids : ~Knows(q, d)
  BY <1>1, <1>3, Zenon DEF VectorsCount
<1>5. ASSUME NEW q \in Pids
      PROVE  KnownDots'[q] = IF q = p THEN KnownDots[q] \cup {d} ELSE KnownDots[q]
  <2>1. /\ KnownDots'[q] = {e \in DOMAIN change' : Knows(q, e)'}
        /\ KnownDots[q] = {e \in DOMAIN change : Knows(q, e)}
    BY DEF KnownDots
  <2>. QED  BY <1>1, <1>3, <1>4, <2>1
<1>6. KnownDots' = [KnownDots EXCEPT ![p] = @ \cup {d}]
  <2>1. /\ KnownDots = [q \in Pids |-> KnownDots[q]] /\ DOMAIN KnownDots = Pids
        /\ KnownDots' = [q \in Pids |-> KnownDots'[q]] /\ DOMAIN KnownDots' = Pids
    BY DEF KnownDots
  <2>. QED  BY <1>5, <2>1
<1>. QED  BY <1>1, <1>2, <1>6 DEF Abstract!Mutate, d

\* A merge teaches the receiver the deltas of the group.
LEMMA MergeImplements ==
  ASSUME OrSetInv, OrSetInv', RemovalsEffective', NEW m \in msgs, Merge(m.to, m)
  PROVE  \E D \in SUBSET KnownDots[m.from] : Abstract!Learn(m.to, m.from, D)
<1> DEFINE p == m.to
           D == {d \in Dots : Lists(m, d)}
<1>1. /\ p \in Pids /\ m.from \in Pids
      /\ \A q \in Pids : \A e \in Dots :
           Knows(q, e)' <=> Knows(q, e) \/ (q = p /\ Lists(m, e))
  BY MergeKnows
<1>2. /\ entries' = [entries EXCEPT ![p] = MergedEntries(p, m)] /\ change' = change
      /\ m.kind = "delta"
  BY DEF Merge
<1>3. /\ VectorsCount /\ Fits(m) /\ DOMAIN change \subseteq Dots /\ DOMAIN entries = Pids
      /\ CausallyClosed' /\ RemovalsLater'
  BY Zenon DEF OrSetInv, TypeOK
<1>4. \A d \in D : Knows(m.from, d) /\ d \in DOMAIN change
  BY <1>1, <1>2, <1>3 DEF Fits, VectorsCount
<1> HIDE DEF p, D
<1>5. /\ KnownDots = [q \in Pids |-> {d \in DOMAIN change : Knows(q, d)}]
      /\ KnownDots' = [q \in Pids |-> {d \in DOMAIN change : Knows(q, d)'}]
  BY <1>2 DEF KnownDots
<1>6. D \in SUBSET KnownDots[m.from]
  BY <1>1, <1>4, <1>5, Zenon
<1>7. ASSUME NEW q \in Pids
      PROVE  KnownDots'[q] = IF q = p THEN KnownDots[q] \cup D ELSE KnownDots[q]
  <2>1. \A d \in Dots : d \in D <=> Lists(m, d)
    BY DEF D
  <2>. QED  BY <1>1, <1>3, <1>4, <1>5, <2>1, Zenon
<1>8. KnownDots' = [KnownDots EXCEPT ![p] = @ \cup D]
  <2>1. /\ KnownDots = [q \in Pids |-> KnownDots[q]] /\ DOMAIN KnownDots = Pids
        /\ KnownDots' = [q \in Pids |-> KnownDots'[q]] /\ DOMAIN KnownDots' = Pids
    BY <1>5
  <2>. QED  BY <1>7, <2>1
<1>9. \A r \in KnownDots[p] \cup D : change[r].removed \subseteq KnownDots[p] \cup D
  <2>1. KnownDots'[p] = KnownDots[p] \cup D
    BY <1>1, <1>7, Zenon
  <2>2. \A r \in KnownDots'[p] : \A i \in change[r].removed : i \in KnownDots'[p]
    BY <1>1, <1>2, <1>3, <1>5, Zenon DEF CausallyClosed, RemovalsLater
  <2>. QED  BY <2>1, <2>2
<1>10. entries'[p] = Abstract!Live(change, KnownDots[p] \cup D)
  <2>1. KnownDots'[p] = KnownDots[p] \cup D
    BY <1>1, <1>7, ZenonT(30)
  <2>2. /\ EntriesKnown' /\ NoLostInsert'
    BY DEF OrSetInv
  <2>3. KnownDots'[p] = {d \in DOMAIN change : Knows(p, d)'}
    BY <1>1, <1>5
  <2>4. Abstract!Live(change, KnownDots'[p]) =
          {d \in KnownDots'[p] : change[d].kind = "insert"
                                 /\ \A r \in KnownDots'[p] : d \notin change[r].removed}
    BY Zenon DEF Abstract!Live
  <2>5. \A d \in entries'[p] : d \in Abstract!Live(change, KnownDots'[p])
    BY <1>1, <1>2, <2>2, <2>3, <2>4, Zenon DEF EntriesKnown, RemovalsEffective
  <2>6. \A d \in Abstract!Live(change, KnownDots'[p]) : d \in entries'[p]
    BY <1>1, <1>2, <2>2, <2>3, <2>4, Zenon DEF NoLostInsert
  <2>7. entries'[p] \in SUBSET Dots
    BY <1>1, Zenon DEF OrSetInv, TypeOK, Dots
  <2>8. entries'[p] = Abstract!Live(change, KnownDots'[p])
    BY <2>5, <2>6, <2>7
  <2>. QED  BY <2>1, <2>8, Zenon
<1>11. entries' = [entries EXCEPT ![p] = Abstract!Live(change, KnownDots[p] \cup D)]
  BY <1>1, <1>2, <1>3, <1>10, Zenon
<1>12. Abstract!Learn(p, m.from, D)
  BY <1>2, <1>8, <1>9, <1>11, Zenon DEF Abstract!Learn
<1>. QED  BY <1>6, <1>12, Zenon DEF p

\* Every step of the OR-set is a step of the abstract set, or changes nothing
\* that the abstract set shows.
LEMMA NextImplements ==
  ASSUME OrSetInv, OrSetInv', RemovalsEffective', [Next]_vars
  PROVE  [Abstract!Next]_<<change, KnownDots, entries>>
<1>1. ASSUME NEW p \in Pids, NEW e \in Elements, Insert(p, e) PROVE Abstract!Next
  <2> DEFINE x == [kind |-> "insert", element |-> e, removed |-> {}]
  <2>1. x \in Deltas /\ Mutate(p, x) /\ entries' = [entries EXCEPT ![p] = @ \cup {Allocated(p)}]
    BY <1>1, Zenon DEF Deltas, Insert
  <2>2. Abstract!Mutate(p, Allocated(p), x) /\ Allocated(p) \in Dots
    BY <2>1, MutateImplements, Zenon
  <2>3. Abstract!Insert(p, Allocated(p), e)
    BY <2>1, <2>2, Zenon DEF Abstract!Insert
  <2>. QED  BY <2>2, <2>3, Zenon DEF Abstract!Next
<1>2. ASSUME NEW p \in Pids, NEW e \in Elements, Remove(p, e) PROVE Abstract!Next
  <2> DEFINE x == [kind |-> "remove", element |-> e, removed |-> Stored(p, e)]
  <2>0. Stored(p, e) \in SUBSET Dots
    BY Zenon DEF OrSetInv, TypeOK, Stored
  <2>1. x \in Deltas /\ Mutate(p, x) /\ entries' = [entries EXCEPT ![p] = @ \ Stored(p, e)]
    BY <1>2, <2>0, Zenon DEF Deltas, Remove
  <2>2. Abstract!Mutate(p, Allocated(p), x) /\ Allocated(p) \in Dots
    BY <2>1, MutateImplements, Zenon
  <2>3. Abstract!Remove(p, Allocated(p), e)
    BY <2>1, <2>2, Zenon DEF Abstract!Remove, Stored
  <2>. QED  BY <2>2, <2>3, Zenon DEF Abstract!Next
<1>3. ASSUME NEW m \in msgs, Merge(m.to, m) PROVE Abstract!Next
  <2>1. m.to \in Pids /\ m.from \in Pids
    BY <1>3, MergeKnows, Zenon
  <2>. QED  BY <1>3, <2>1, MergeImplements, Zenon DEF Abstract!Next
<1>4. CASE UNCHANGED <<vector, entries, change>>
  BY <1>4 DEF KnownDots, Knows
<1>. QED  BY <1>1, <1>2, <1>3, <1>4, Zenon DEF Next, Request, Answer, Lose, Gc, vars

\* If every delta group is causally ordered, the OR-set implements the add-wins
\* set, with any number of replicas.
THEOREM ImplementsIfCausal == Spec /\ []CausalGroups => AddWins
<1>1. Init => Abstract!Init
  <2> SUFFICES ASSUME Init PROVE Abstract!Init
    OBVIOUS
  <2>1. KnownDots = [p \in Pids |-> {}]
    BY DEF Init, KnownDots
  <2>. QED  BY <2>1 DEF Init, Abstract!Init
<1>2. OrSetInv /\ CausalGroups /\ RemovalsEffective /\ [Next]_vars => RemovalsEffective'
  BY EffectiveStep
<1>3. OrSetInv /\ OrSetInv' /\ RemovalsEffective' /\ [Next]_vars
        => [Abstract!Next]_<<change, KnownDots, entries>>
  BY NextImplements
<1>. QED  BY <1>1, <1>2, <1>3, InitEffective, OrSetCorrect, PTL DEF Spec, AddWins, Abstract!Spec

\* Two replicas implement the add-wins set.
THEOREM TwoReplicasImplement ==
  ASSUME NEW CONSTANT a, NEW CONSTANT b, Pids = {a, b}
  PROVE  Spec => AddWins
<1>1. OrSetInv => CausalGroups
  BY TwoReplicasCausal
<1>. QED  BY <1>1, OrSetCorrect, ImplementsIfCausal, PTL
=============================================================================
