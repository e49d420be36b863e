--------------------------- MODULE JournalProofs ---------------------------
(***************************************************************************)
(* Proofs about the durability journal, for any kinds of records, any      *)
(* number of operations and any number of crashes.                         *)
(***************************************************************************)
EXTENDS Journal, FiniteSetTheorems, TLAPS

States == Seq(Ops \cup {Base})

-----------------------------------------------------------------------------
(* What replaying a log gives.                                             *)

Ok(gen, op) == [gen |-> gen, op |-> op, state |-> "ok"]
Half(gen, op) == [gen |-> gen, op |-> op, state |-> "torn"]

AllOk(l) == \A i \in DOMAIN l : l[i].state = "ok"
UpTo(l, gen) == \A i \in DOMAIN l : l[i].gen <= gen

\* What is on disk of an append to a log: nothing, half of the line or all of it.
Endings(l, gen, op) == {l, Append(l, Half(gen, op)), Append(l, Ok(gen, op))}


Rank(S, i) == Cardinality({j \in S : j <= i})

\* The ranks of two elements differ, so every number up to the size of the set is
\* the rank of one.
LEMMA NthElement ==
  ASSUME NEW S \in SUBSET Nat, IsFiniteSet(S), NEW n \in 1 .. Cardinality(S)
  PROVE  Nth(S, n) \in S /\ Rank(S, Nth(S, n)) = n
<1> DEFINE below(m) == {j \in S : j <= m}
           c == Cardinality(S)
           f == [i \in S |-> Rank(S, i)]
<1>1. c \in Nat
  BY FS_CardinalityType
<1>2. ASSUME NEW i \in S PROVE /\ IsFiniteSet(below(i)) /\ Rank(S, i) \in 1 .. c
  <2>1. /\ IsFiniteSet(below(i)) /\ Cardinality(below(i)) <= c
        /\ Cardinality(below(i)) \in Nat
    BY FS_Subset, FS_CardinalityType
  <2>2. Cardinality(below(i)) # 0
    BY <2>1, FS_EmptySet
  <2> QED
    BY <1>1, <2>1, <2>2 DEF Rank
<1>3. ASSUME NEW i \in S, NEW k \in S, i < k PROVE Rank(S, i) # Rank(S, k)
  <2>0. i \in Nat /\ k \in Nat /\ S \subseteq Nat
    OBVIOUS
  <2>4. (\A j \in S : j <= i => j <= k) /\ k <= k /\ ~(k <= i)
    BY <1>3, <2>0
  <2>1. below(i) \subseteq below(k) /\ k \in below(k) /\ k \notin below(i)
    BY <2>4, Zenon
  <2>2. IsFiniteSet(below(k))
    BY <1>2
  <2> HIDE DEF below
  <2>3. Cardinality(below(k)) # Cardinality(below(i))
    BY <2>1, <2>2, FS_Subset
  <2> QED
    BY <2>3 DEF Rank, below
<1>4. f \in [S -> 1 .. c]
  BY <1>2, Zenon
<1>5. ASSUME NEW i \in S, NEW k \in S, f[i] = f[k] PROVE i = k
  BY <1>3, <1>5
<1>6. f \in Injection(S, 1 .. c)
  BY <1>4, <1>5 DEF Injection, IsInjective
<1>7. IsFiniteSet(1 .. c) /\ Cardinality(1 .. c) = c
  BY <1>1, FS_Interval
<1>8. f \in Surjection(S, 1 .. c)
  BY <1>6, <1>7, FS_Injection
<1>9. \E i \in S : Rank(S, i) = n
  BY <1>8, Zenon DEF Surjection
<1> QED
  BY <1>9, Zenon DEF Nth, Rank

\* The valid lines of a log are lines of it.
LEMMA ValidLines ==
  ASSUME NEW l \in Seq(Line), NEW gen
  PROVE  /\ Valid(gen, l) \in SUBSET Nat /\ Valid(gen, l) \subseteq DOMAIN l
         /\ IsFiniteSet(Valid(gen, l)) /\ Cardinality(Valid(gen, l)) \in Nat
<1>1. Len(l) \in Nat /\ DOMAIN l = 1 .. Len(l)
  OBVIOUS
<1>2. IsFiniteSet(1 .. Len(l))
  BY <1>1, FS_Interval
<1>3. Valid(gen, l) \in SUBSET (1 .. Len(l))
  BY <1>1 DEF Valid
<1>4. IsFiniteSet(Valid(gen, l))
  BY <1>2, <1>3, FS_Subset
<1> QED
  BY <1>1, <1>3, <1>4, FS_CardinalityType

\* Replaying a log gives a state.
LEMMA OpsOfType ==
  ASSUME NEW l \in Seq(Line), NEW gen
  PROVE  OpsOf(l, Valid(gen, l)) \in Seq(Ops) /\ Len(OpsOf(l, Valid(gen, l))) = Cardinality(Valid(gen, l))
<1> DEFINE V == Valid(gen, l)
           c == Cardinality(V)
<1>1. V \in SUBSET Nat /\ V \subseteq DOMAIN l /\ IsFiniteSet(V) /\ c \in Nat
  BY ValidLines
<1> HIDE DEF V
<1>2. \A n \in 1 .. c : Nth(V, n) \in DOMAIN l
  BY <1>1, NthElement, Zenon
<1>3. \A n \in 1 .. c : l[Nth(V, n)] \in Line
  BY <1>2
<1>4. \A n \in 1 .. c : l[Nth(V, n)].op \in Ops
  BY <1>3 DEF Line
<1>5. OpsOf(l, V) \in [1 .. c -> Ops]
  BY <1>4 DEF OpsOf
<1> HIDE DEF c
<1>6. OpsOf(l, V) \in Seq(Ops) /\ Len(OpsOf(l, V)) = c
  BY <1>1, <1>5
<1> QED
  BY <1>6 DEF V, c

\* Replaying a log over a state gives a sequence of operations.
LEMMA ReplayType ==
  ASSUME NEW state \in States, NEW l \in Seq(Line), NEW gen
  PROVE  Replay(state, gen, l) \in States
<1> DEFINE x == OpsOf(l, Valid(gen, l))
<1>1. x \in Seq(Ops \cup {Base})
  <2>1. x \in Seq(Ops)
    BY OpsOfType
  <2> HIDE DEF x
  <2> QED
    BY <2>1
<1> HIDE DEF x
<1>2. state \o x \in Seq(Ops \cup {Base})
  BY <1>1 DEF States
<1> QED
  BY <1>2 DEF Replay, States, x

\* A line appended to a log without bad lines.
LEMMA AppendedLine ==
  ASSUME NEW l \in Seq(Line), NEW line \in Line
  PROVE  /\ Append(l, line) \in Seq(Line) /\ Len(Append(l, line)) = Len(l) + 1
         /\ Len(l) \in Nat /\ DOMAIN l = 1 .. Len(l)
         /\ DOMAIN Append(l, line) = 1 .. Len(l) + 1
         /\ Append(l, line)[Len(l) + 1] = line
         /\ \A i \in 1 .. Len(l) : Append(l, line)[i] = l[i]
OBVIOUS

\* Elements beyond the others do not change the ranks of those.
LEMMA NthOfLarger ==
  ASSUME NEW S \in SUBSET Nat, IsFiniteSet(S), NEW m \in Nat, \A i \in S : i < m
  PROVE  /\ Cardinality(S \cup {m}) = Cardinality(S) + 1
         /\ \A n \in 1 .. Cardinality(S) : Nth(S \cup {m}, n) = Nth(S, n)
         /\ Nth(S \cup {m}, Cardinality(S) + 1) = m
<1> DEFINE T == S \cup {m}
           c == Cardinality(S)
<1>1. c \in Nat /\ Cardinality(T) = c + 1
  BY FS_CardinalityType, FS_AddElement
<1>2. ASSUME NEW i \in S PROVE Rank(T, i) = Rank(S, i) /\ Rank(S, i) <= c
  <2>0. i \in Nat /\ i < m
    OBVIOUS
  <2>1. ~(m <= i)
    BY <2>0
  <2>2. {j \in T : j <= i} = {j \in S : j <= i}
    BY <2>1, Zenon
  <2>3. Cardinality({j \in S : j <= i}) <= c
    BY FS_Subset
  <2> QED
    BY <2>2, <2>3 DEF Rank
<1>3. Rank(T, m) = c + 1
  <2>1. \A j \in T : j <= m
    OBVIOUS
  <2>2. {j \in T : j <= m} = T
    BY <2>1, Zenon
  <2> QED
    BY <1>1, <2>2 DEF Rank
<1>4. ASSUME NEW n \in 1 .. c PROVE Nth(T, n) = Nth(S, n)
  <2>2. Rank(T, m) # n
    <3> HIDE DEF c
    <3> QED
      BY <1>1, <1>3
  <2>1. \A i : (i \in T /\ Rank(T, i) = n) <=> (i \in S /\ Rank(S, i) = n)
    BY <1>2, <2>2, Zenon
  <2> QED
    BY <2>1, Zenon DEF Nth, Rank
<1>5. Nth(T, c + 1) = m
  <2>1. \A i \in T : Rank(T, i) = c + 1 <=> i = m
    <3>1. ASSUME NEW i \in S PROVE Rank(T, i) # c + 1 /\ i # m
      <4>1. Rank(S, i) \in Nat
        BY FS_Subset, FS_CardinalityType DEF Rank
      <4>2. i \in Nat /\ i < m
        OBVIOUS
      <4> QED
        BY <1>1, <1>2, <4>1, <4>2
    <3> QED
      BY <1>3, <3>1
  <2> QED
    BY <2>1 DEF Nth, Rank
<1> QED
  BY <1>1, <1>4, <1>5

\* Replaying a record of the snapshot's generation performs its operation.
LEMMA ReplayOk ==
  ASSUME NEW state \in States, NEW gen \in Nat, NEW l \in Seq(Line), NEW op \in Ops, AllOk(l)
  PROVE  Replay(state, gen, Append(l, Ok(gen, op))) = Append(Replay(state, gen, l), op)
<1> DEFINE k == Append(l, Ok(gen, op))
           V == Valid(gen, l)
           m == Len(l) + 1
           c == Cardinality(V)
           x == OpsOf(l, V)
<1>0. Ok(gen, op) \in Line
  BY DEF Ok, Line
<1>1. /\ Len(l) \in Nat /\ m \in Nat /\ DOMAIN l = 1 .. Len(l) /\ DOMAIN k = 1 .. m
      /\ k[m] = Ok(gen, op) /\ \A i \in 1 .. Len(l) : k[i] = l[i]
  BY <1>0, AppendedLine
<1>2. /\ V \in SUBSET Nat /\ V \subseteq DOMAIN l /\ IsFiniteSet(V) /\ c \in Nat
      /\ x \in Seq(Ops) /\ Len(x) = c
  BY ValidLines, OpsOfType
<1>3. Valid(gen, k) = V \cup {m}
  <2>1. \A i \in 1 .. m : k[i].state = "ok"
    BY <1>1 DEF AllOk, Ok
  <2>2. \A i \in 1 .. Len(l) : l[i].state = "ok"
    BY <1>1 DEF AllOk
  <2>3. \A i : i \in 1 .. m <=> i \in 1 .. Len(l) \/ i = m
    BY <1>1
  <2>4. \A i : i \in 1 .. Len(l) => \A j \in 1 .. i : j \in 1 .. Len(l)
    BY <1>1
  <2>5. \A j \in 1 .. m : j \in 1 .. m
    OBVIOUS
  <2>6. \A i : i \in Valid(gen, k) <=> i \in 1 .. m /\ k[i].gen = gen
    <3>1. \A i \in 1 .. m : \A j \in 1 .. i : j \in 1 .. m
      BY <1>1
    <3> HIDE DEF k, m
    <3> QED
      BY <1>1, <2>1, <3>1 DEF Valid
  <2>7. \A i : i \in V <=> i \in 1 .. Len(l) /\ l[i].gen = gen
    BY <1>1, <2>2, <2>4 DEF Valid
  <2>8. k[m].gen = gen
    BY <1>1 DEF Ok
  <2> HIDE DEF k, m, V
  <2>9. \A i : i \in Valid(gen, k) <=> i \in V \cup {m}
    BY <1>1, <2>3, <2>6, <2>7, <2>8
  <2> QED
    BY <2>9
<1> HIDE DEF k, V
<1>4. \A i \in V : i < m
  BY <1>1, <1>2
<1> HIDE DEF m, c
<1>5. /\ Cardinality(V \cup {m}) = c + 1
      /\ \A n \in 1 .. c : Nth(V \cup {m}, n) = Nth(V, n)
      /\ Nth(V \cup {m}, c + 1) = m
  BY <1>1, <1>2, <1>4, NthOfLarger, Zenon DEF c
<1>6. \A n \in 1 .. c : Nth(V, n) \in 1 .. Len(l)
  BY <1>1, <1>2, NthElement, Zenon DEF c
<1>7. OpsOf(k, V \cup {m}) = Append(x, op)
  <2>1. \A n \in 1 .. c : k[Nth(V \cup {m}, n)].op = x[n]
    BY <1>1, <1>5, <1>6, Zenon DEF OpsOf, c
  <2>2. k[Nth(V \cup {m}, c + 1)].op = op
    BY <1>1, <1>5 DEF Ok
  <2>3. OpsOf(k, V \cup {m}) = [n \in 1 .. c + 1 |-> k[Nth(V \cup {m}, n)].op]
    BY <1>5 DEF OpsOf
  <2>4. Append(x, op) = [n \in 1 .. c + 1 |-> IF n = c + 1 THEN op ELSE x[n]]
    <3> HIDE DEF x
    <3>1. /\ Append(x, op) \in Seq(Ops) /\ Len(Append(x, op)) = c + 1
          /\ \A n \in 1 .. c + 1 : Append(x, op)[n] = IF n = c + 1 THEN op ELSE x[n]
      BY <1>2
    <3>2. Append(x, op) \in [1 .. c + 1 -> Ops]
      <4> DEFINE y == Append(x, op)
      <4> HIDE DEF y
      <4>1. y \in Seq(Ops) /\ Len(y) = c + 1
        BY <3>1 DEF y
      <4>2. y \in [1 .. c + 1 -> Ops]
        BY <4>1
      <4> QED
        BY <4>2 DEF y
    <3> QED
      BY <3>1, <3>2, Zenon
  <2>5. \A n \in 1 .. c + 1 : n \in 1 .. c \/ n = c + 1
    BY <1>2
  <2>6. ~(c + 1 \in 1 .. c)
    BY <1>2
  <2>7. \A n \in 1 .. c + 1 : k[Nth(V \cup {m}, n)].op = IF n = c + 1 THEN op ELSE x[n]
    BY <2>1, <2>2, <2>5, <2>6, Zenon
  <2> QED
    BY <2>3, <2>4, <2>7, Zenon
<1> HIDE DEF x
<1>8. state \o Append(x, op) = Append(state \o x, op)
  BY <1>2 DEF States
<1> QED
  BY <1>3, <1>7, <1>8, Zenon DEF Replay, k, x, V

\* Replaying ends at a torn line.
LEMMA ReplayHalf ==
  ASSUME NEW state \in States, NEW gen \in Nat, NEW l \in Seq(Line), NEW op \in Ops
  PROVE  Replay(state, gen, Append(l, Half(gen, op))) = Replay(state, gen, l)
<1> DEFINE k == Append(l, Half(gen, op))
           V == Valid(gen, l)
           m == Len(l) + 1
           c == Cardinality(V)
<1>0. Half(gen, op) \in Line
  BY DEF Half, Line
<1>1. /\ Len(l) \in Nat /\ m \in Nat /\ DOMAIN l = 1 .. Len(l) /\ DOMAIN k = 1 .. m
      /\ k[m] = Half(gen, op) /\ \A i \in 1 .. Len(l) : k[i] = l[i]
  BY <1>0, AppendedLine
<1>2. /\ V \in SUBSET Nat /\ V \subseteq DOMAIN l /\ IsFiniteSet(V)
  BY ValidLines
<1>3. Valid(gen, k) = V
  <2>1. k[m].state # "ok"
    BY <1>1 DEF Half
  <2>2. \A i : i \in 1 .. m <=> i \in 1 .. Len(l) \/ i = m
    BY <1>1
  <2>3. m \in 1 .. m
    BY <1>1
  <2>4. \A i \in 1 .. Len(l) : \A j \in 1 .. i : j \in 1 .. Len(l)
    BY <1>1
  <2> HIDE DEF k, m
  <2>5. \A i : i \in Valid(gen, k) <=> i \in V
    BY <1>1, <2>1, <2>2, <2>3, <2>4 DEF Valid
  <2> QED
    BY <2>5, Zenon
<1> HIDE DEF k, V
<1>4. \A n \in 1 .. c : Nth(V, n) \in 1 .. Len(l)
  BY <1>1, <1>2, NthElement, Zenon
<1>5. \A n \in 1 .. c : k[Nth(V, n)].op = l[Nth(V, n)].op
  BY <1>1, <1>4
<1>6. OpsOf(k, V) = OpsOf(l, V)
  BY <1>5 DEF OpsOf
<1> QED
  BY <1>3, <1>6 DEF Replay, k, V

\* Records of another generation are ignored.
LEMMA ReplayNone ==
  ASSUME NEW state \in States, NEW gen \in Nat, NEW l \in Seq(Line),
         \A i \in DOMAIN l : l[i].gen # gen
  PROVE  Replay(state, gen, l) = state
<1>1. Valid(gen, l) = {}
  BY DEF Valid
<1>2. OpsOf(l, {}) = <<>>
  BY FS_EmptySet DEF OpsOf
<1>3. state \o <<>> = state
  BY DEF States
<1> QED
  BY <1>1, <1>2, <1>3, Zenon DEF Replay

\* Whatever is on disk of an append, a restart gives the state without or with the
\* operation.
LEMMA ReplayEnding ==
  ASSUME NEW state \in States, NEW gen \in Nat, NEW l \in Seq(Line), NEW op \in Ops,
         AllOk(l), NEW k \in Endings(l, gen, op)
  PROVE  \/ Replay(state, gen, k) = Replay(state, gen, l)
         \/ Replay(state, gen, k) = Append(Replay(state, gen, l), op)
<1>1. Replay(state, gen, Append(l, Ok(gen, op))) = Append(Replay(state, gen, l), op)
  BY ReplayOk
<1>2. Replay(state, gen, Append(l, Half(gen, op))) = Replay(state, gen, l)
  BY ReplayHalf
<1> QED
  BY <1>1, <1>2, Zenon DEF Endings

-----------------------------------------------------------------------------
(* Types.                                                                  *)

Snapshots == [gen : Nat, state : States]
Steps == {"write", "rename", "truncate"}

\* The types in full.  A record being written follows what is known to be synced,
\* and no snapshot is replaced meanwhile.
Types ==
  /\ status \in {"down", "booting", "repairing", "running", "poisoned", "unrecoverable"}
  /\ mem \in States /\ installed \in BOOLEAN /\ generation \in Nat
  /\ commit \in SUBSET [op : Ops, before : Seq(Line)]
  /\ replacing \in SUBSET [gen : Nat, state : States, step : Steps]
  /\ snap \in SUBSET Snapshots /\ snapOld \in SUBSET Snapshots
  /\ log \in Seq(Line) /\ logOld \in SUBSET Seq(Line)
  /\ synced \in 0 .. Len(log)
  /\ \A c \in commit : log # <<>> /\ synced <= Len(c.before)
  /\ commit # {} => replacing = {} /\ status # "down"
  /\ begun \in 0 .. MaxOps /\ kinds \in Crashes

\* A write never shortens the log.
LEMMA WrittenType ==
  ASSUME NEW l \in Seq(Line), NEW gen \in Nat, NEW op \in Ops
  PROVE  /\ Written(l, gen, op) \in Seq(Line) /\ Written(l, gen, op) # <<>>
         /\ Len(Written(l, gen, op)) >= Len(l)
<1>1. CASE Torn(l)
  <2> DEFINE k == SubSeq(l, 1, Len(l) - 1)
             x == [gen |-> gen, op |-> op, state |-> "corrupt"]
  <2>1. x \in Line
    BY DEF Line
  <2>5. Len(l) \in Nat /\ Len(l) # 0
    BY <1>1 DEF Torn
  <2>6. \A n \in 0 .. Len(l) : SubSeq(l, 1, n) \in Seq(Line) /\ Len(SubSeq(l, 1, n)) = n
    OBVIOUS
  <2>7. Len(l) - 1 \in 0 .. Len(l)
    BY <2>5
  <2>2. k \in Seq(Line) /\ Len(k) = Len(l) - 1
    BY <2>6, <2>7, Zenon
  <2> HIDE DEF x, k
  <2>3. Append(k, x) \in Seq(Line) /\ Len(Append(k, x)) = Len(l)
    BY <2>1, <2>2
  <2>4. Append(k, x) # <<>>
    BY <2>1, <2>2
  <2> QED
    BY <1>1, <2>3, <2>4 DEF Written, x, k
<1>2. CASE ~Torn(l)
  <2> DEFINE x == [gen |-> gen, op |-> op, state |-> "ok"]
  <2>1. x \in Line
    BY DEF Line
  <2> HIDE DEF x
  <2>2. Append(l, x) \in Seq(Line) /\ Len(Append(l, x)) = Len(l) + 1
    BY <2>1
  <2>3. Append(l, x) # <<>>
    <3>1. Len(<<>>) = 0 /\ Len(l) + 1 # 0
      OBVIOUS
    <3> QED
      BY <2>2, <3>1, Zenon
  <2> QED
    BY <1>2, <2>2, <2>3 DEF Written, x
<1> QED
  BY <1>1, <1>2

\* A line written in part makes the log longer, and it stays a log.
LEMMA PartlyType ==
  ASSUME NEW l \in Seq(Line), NEW line \in Line
  PROVE  Partly(l, line) \in Seq(Line) /\ Len(Partly(l, line)) >= Len(l)
<1> DEFINE x == [line EXCEPT !.state = "torn"]
<1>1. x \in Line
  BY DEF Line
<1> HIDE DEF x
<1>2. Append(l, x) \in Seq(Line) /\ Len(Append(l, x)) = Len(l) + 1
  BY <1>1
<1> QED
  BY <1>2 DEF Partly, x

\* What a power failure leaves of a log is a log.
LEMMA SurvivorsType ==
  ASSUME NEW l \in Seq(Line), NEW n \in Nat
  PROVE  Survivors(l, n) \subseteq Seq(Line)
<1>1. \A k \in n .. Len(l) : SubSeq(l, 1, k) \in Seq(Line)
  OBVIOUS
<1>2. ASSUME NEW k \in n + 1 .. Len(l) PROVE Partly(SubSeq(l, 1, k - 1), l[k]) \in Seq(Line)
  <2>1. SubSeq(l, 1, k - 1) \in Seq(Line) /\ l[k] \in Line
    OBVIOUS
  <2> QED
    BY <2>1, PartlyType, Zenon
<1> QED
  BY <1>1, <1>2, Zenon DEF Survivors

\* A log whose last append was interrupted is a log, no shorter than what is synced.
LEMMA InterruptedType ==
  ASSUME Types, NEW l \in Interrupted
  PROVE  l \in Seq(Line) /\ synced \in 0 .. Len(l)
<1>1. ASSUME NEW c \in commit
      PROVE  LET k == Partly(c.before, log[Len(log)])
             IN  /\ c.before \in Seq(Line) /\ synced <= Len(c.before)
                 /\ k \in Seq(Line) /\ synced <= Len(k)
  <2>1. c.before \in Seq(Line) /\ synced <= Len(c.before)
    BY DEF Types
  <2>2. log \in Seq(Line) /\ log # <<>> /\ synced \in Nat
    BY DEF Types
  <2>3. log[Len(log)] \in Line
    BY <2>2
  <2> DEFINE k == Partly(c.before, log[Len(log)])
  <2>4. k \in Seq(Line) /\ Len(k) >= Len(c.before)
    BY <2>1, <2>3, PartlyType
  <2> HIDE DEF k
  <2>5. Len(k) \in Nat /\ Len(c.before) \in Nat
    BY <2>1, <2>4
  <2>6. synced <= Len(k)
    BY <2>1, <2>2, <2>4, <2>5
  <2> QED
    BY <2>1, <2>4, <2>6 DEF k
<1>2. \/ l = log
      \/ \E c \in commit : l = c.before \/ l = Partly(c.before, log[Len(log)])
  BY DEF Interrupted
<1>3. log \in Seq(Line) /\ synced \in Nat /\ synced <= Len(log)
  BY DEF Types
<1>4. l \in Seq(Line) /\ synced <= Len(l)
  BY <1>1, <1>2, <1>3
<1> QED
  BY <1>3, <1>4

\* Every action keeps the types.
LEMMA TypesStep == Types /\ [Next]_vars => Types'
<1> SUFFICES ASSUME Types, [Next]_vars PROVE Types'
  OBVIOUS
<1>1. CASE UNCHANGED vars
  BY <1>1 DEF vars, disk, Types
<1>2. ASSUME NEW kind \in Kinds, AppendRecord(kind) PROVE Types'
  <2> DEFINE op == [kind |-> kind, id |-> begun + 1]
  <2>1. op \in Ops /\ begun + 1 \in 0 .. MaxOps
    BY <1>2, JournalAssumption DEF AppendRecord, Types, Ops
  <2> HIDE DEF op
  <2>2. /\ log \in Seq(Line) /\ generation \in Nat /\ synced \in 0 .. Len(log)
    BY DEF Types
  <2>3. /\ commit' = {[op |-> op, before |-> log]} /\ log' = Written(log, generation, op)
        /\ begun' = begun + 1
    BY <1>2 DEF AppendRecord, op
  <2>4. log' \in Seq(Line) /\ log' # <<>> /\ Len(log') >= Len(log)
    BY <2>1, <2>2, <2>3, WrittenType
  <2>5. synced \in 0 .. Len(log')
    BY <2>2, <2>4
  <2>6. commit' \in SUBSET [op : Ops, before : Seq(Line)]
    BY <2>1, <2>2, <2>3
  <2>7. \A c \in commit' : log' # <<>> /\ synced <= Len(c.before)
    BY <2>2, <2>3, <2>4
  <2> QED
    BY <1>2, <2>1, <2>3, <2>4, <2>5, <2>6, <2>7, ZenonT(30) DEF AppendRecord, GateFree, Types
<1>3. CASE Apply
  <2>1. PICK c \in commit : mem' = Append(mem, c.op)
    BY <1>3 DEF Apply
  <2>2. c.op \in Ops /\ mem \in States
    BY DEF Types
  <2>3. mem' \in States
    BY <2>1, <2>2 DEF States
  <2>4. Len(log) \in 0 .. Len(log)
    BY DEF Types
  <2> QED
    BY <1>3, <2>3, <2>4 DEF Apply, Types
<1>4. CASE FailRecord
  <2>1. log' \in Seq(Line) /\ synced \in 0 .. Len(log')
    BY <1>4, InterruptedType, Zenon DEF FailRecord
  <2> QED
    BY <1>4, <2>1 DEF FailRecord, Types
<1>5. CASE Bootstrap
  <2>1. <<Base>> \in States
    BY DEF States
  <2>2. replacing' \in SUBSET [gen : Nat, state : States, step : Steps]
    BY <1>5, <2>1 DEF Bootstrap, Types, Steps
  <2> QED
    BY <1>5, <2>2 DEF Bootstrap, GateFree, Types, disk
<1>6. CASE RenameSnapshot
  <2>1. PICK r \in replacing : /\ snap' = {[gen |-> r.gen, state |-> r.state]}
                               /\ replacing' = {[r EXCEPT !.step = "rename"]}
    BY <1>6 DEF RenameSnapshot
  <2>2. r \in [gen : Nat, state : States, step : Steps]
    BY DEF Types
  <2>3. /\ snap' \in SUBSET Snapshots
        /\ replacing' \in SUBSET [gen : Nat, state : States, step : Steps]
    BY <2>1, <2>2 DEF Snapshots, Steps
  <2> QED
    BY <1>6, <2>3 DEF RenameSnapshot, Types
<1>7. CASE ClearLog
  <2>1. PICK r \in replacing : replacing' = {[r EXCEPT !.step = "truncate"]}
    BY <1>7 DEF ClearLog
  <2>2. r \in [gen : Nat, state : States, step : Steps]
    BY DEF Types
  <2>3. replacing' \in SUBSET [gen : Nat, state : States, step : Steps]
    BY <2>1, <2>2 DEF Steps
  <2>4. log \in Seq(Line) /\ synced \in Nat
    BY DEF Types
  <2>5. logOld' \in SUBSET Seq(Line)
    BY <1>7, <2>4, SurvivorsType DEF ClearLog, Types
  <2>6. log' \in Seq(Line) /\ synced' \in 0 .. Len(log') /\ synced' = 0
    BY <1>7 DEF ClearLog
  <2>7. commit' = {}
    BY <1>7, ZenonT(30) DEF ClearLog, Types
  <2> QED
    BY <1>7, <2>3, <2>5, <2>6, <2>7 DEF ClearLog, Types
<1>8. CASE Installed
  BY <1>8 DEF Installed, Types
<1>9. CASE Crash
  <2>1. CASE Kill
    <3>1. log' \in Seq(Line) /\ synced \in 0 .. Len(log')
      BY <2>1, InterruptedType DEF Kill
    <3> QED
      BY <1>9, <2>1, <3>1 DEF Crash, Kill, Types
  <2>2. CASE PowerFailure
    <3>1. log' \in Seq(Line)
      <4>1. ASSUME NEW l \in Interrupted PROVE Survivors(l, synced) \subseteq Seq(Line)
        BY InterruptedType, SurvivorsType, SMT, Z3
      <4> QED
        BY <2>2, <4>1 DEF PowerFailure, Types
    <3>2. synced' \in 0 .. Len(log')
      BY <2>2, <3>1, SMT, Z3 DEF PowerFailure
    <3> QED
      BY <1>9, <2>2, <3>1, <3>2 DEF Crash, PowerFailure, Types
  <2> QED
    BY <1>9, <2>1, <2>2 DEF Crash
<1>10. CASE RecoverNothing
  <2>1. <<>> \in States
    BY SMT, Z3 DEF States
  <2> QED
    BY <1>10, <2>1 DEF RecoverNothing, Types, disk
<1>11. CASE Recover
  <2>1. PICK s \in snap :
          LET state == Replay(s.state, s.gen, log)
          IN /\ mem' = state /\ generation' = s.gen
             /\ \/ status' = "running" /\ replacing' = replacing
                \/ /\ status' = "repairing"
                   /\ replacing' = {[gen |-> s.gen + 1, state |-> state, step |-> "write"]}
    BY <1>11 DEF Recover
  <2>2. s.state \in States /\ s.gen \in Nat /\ log \in Seq(Line)
    BY DEF Types, Snapshots
  <2>3. mem' \in States /\ generation' \in Nat
    BY <2>1, <2>2, ReplayType
  <2>4. replacing' \in SUBSET [gen : Nat, state : States, step : Steps]
    BY <2>1, <2>2, <2>3 DEF Types, Steps
  <2> QED
    BY <1>11, <2>1, <2>3, <2>4, ZenonT(30) DEF Recover, Types, disk
<1> QED
  BY <1>1, <1>2, <1>3, <1>4, <1>5, <1>6, <1>7, <1>8, <1>9, <1>10, <1>11, Zenon DEF Next, Progress

\* The initial state is well typed.
LEMMA TypesInit == Init => Types
<1> SUFFICES ASSUME Init PROVE Types
  OBVIOUS
<1>1. <<>> \in States /\ <<>> \in Seq(Line) /\ Len(<<>>) = 0
  BY DEF States
<1>2. synced \in 0 .. Len(log) /\ begun \in 0 .. MaxOps
  BY <1>1, JournalAssumption DEF Init
<1>3. mem \in States /\ log \in Seq(Line)
  BY <1>1 DEF Init
<1> QED
  BY <1>2, <1>3, Zenon DEF Init, Types

\* The journal's variables have their types: in particular, no more of the log is
\* taken to be synced than there is, whatever failed, crashed or was replaced.
THEOREM JournalTypes == Spec => []TypeOK
<1>1. Types => TypeOK
  BY Zenon DEF Types, TypeOK, Snapshots, States, Steps
<1> QED
  BY <1>1, TypesInit, TypesStep, PTL DEF Spec

-----------------------------------------------------------------------------
(* The snapshot comes first.                                               *)

Power == "power" \in kinds

\* Kills and power failures do not meet in one behaviour.
OneKindOfCrash == \A K \in Crashes : ~({"kill", "power"} \subseteq K)

\* Before the bootstrap is complete: no record, and a snapshot of nothing or of
\* what was downloaded.
Fresh == ~installed =>
  /\ mem = <<>> /\ log = <<>> /\ commit = {} /\ logOld \subseteq {<<>>}
  /\ \A s \in snap \cup snapOld \cup replacing : s.state \in {<<>>, <<Base>>}

\* Which steps are under way when; after the bootstrap there is a snapshot.
Phases ==
  /\ status \in {"down", "booting", "repairing", "running", "poisoned"}
  /\ status \in {"repairing", "running", "poisoned"} => installed
  /\ status = "booting" => ~installed
  /\ status # "running" => commit = {}
  /\ status \in {"down", "running", "poisoned"} => replacing = {}
  /\ status = "repairing" => replacing # {}
  /\ status = "down" => (Power => snapOld = snap)
  /\ \A r \in replacing : /\ r.step # "write" => snap # {}
                          /\ r.step = "truncate" => (Power => snapOld # {})
  /\ installed => snap # {} /\ (Power => snapOld # {})

\* Every action keeps that, if no mutation comes before the bootstrap is complete.
LEMMA PhasesStep ==
  ASSUME ~Early, OneKindOfCrash, Types, Fresh, Phases, [Next]_vars
  PROVE  Fresh' /\ Phases'
<1>1. CASE UNCHANGED vars
  BY <1>1, Zenon DEF vars, disk, Fresh, Phases, Power
<1>2. ASSUME NEW kind \in Kinds, AppendRecord(kind) PROVE Fresh' /\ Phases'
  BY <1>2 DEF AppendRecord, Fresh, Phases, Power
<1>3. CASE Apply
  BY <1>3 DEF Apply, Fresh, Phases, Power
<1>4. CASE FailRecord
  BY <1>4, Zenon DEF FailRecord, Fresh, Phases, Power
<1>5. CASE Bootstrap
  BY <1>5 DEF Bootstrap, GateFree, Fresh, Phases, Power, disk
<1>6. CASE RenameSnapshot
  <2>1. PICK r \in replacing : /\ snap' = {[gen |-> r.gen, state |-> r.state]}
                               /\ replacing' = {[r EXCEPT !.step = "rename"]}
    BY <1>6 DEF RenameSnapshot
  <2>2. r \in [gen : Nat, state : States, step : Steps]
    BY DEF Types
  <2>3. \A q \in replacing' : q.state = r.state /\ q.step = "rename"
    BY <2>1, <2>2
  <2>4. snap' # {} /\ \A s \in snap' : s.state = r.state
    BY <2>1
  <2>5. Fresh'
    BY <1>6, <2>3, <2>4, Zenon DEF RenameSnapshot, Fresh
  <2> QED
    BY <1>6, <2>3, <2>4, <2>5 DEF RenameSnapshot, Phases, Power
<1>7. CASE ClearLog
  <2>1. PICK r \in replacing : /\ r.step = "rename"
                               /\ replacing' = {[r EXCEPT !.step = "truncate"]}
    BY <1>7 DEF ClearLog
  <2>2. r \in [gen : Nat, state : States, step : Steps]
    BY DEF Types
  <2>3. \A q \in replacing' : q.state = r.state /\ q.step = "truncate"
    BY <2>1, <2>2
  <2>4. snap # {} /\ snap' = snap /\ snapOld' = snap /\ log' = <<>>
    BY <1>7, <2>1 DEF ClearLog, Phases
  <2>5. ~installed => logOld' \subseteq {<<>>}
    <3>1. ASSUME NEW k \in Survivors(<<>>, 0) PROVE k = <<>>
      BY DEF Survivors
    <3>2. ~installed => log = <<>> /\ synced = 0
      BY DEF Fresh, Types
    <3> QED
      BY <1>7, <3>1, <3>2 DEF ClearLog, Fresh
  <2>6. Fresh'
    BY <1>7, <2>3, <2>4, <2>5, ZenonT(30) DEF ClearLog, Fresh
  <2> QED
    BY <1>7, <2>3, <2>4, <2>6 DEF ClearLog, Phases, Power
<1>8. CASE Installed
  BY <1>8 DEF Installed, Fresh, Phases, Power, Types
<1>9. CASE Crash
  <2>1. Kill => ~Power
    BY DEF Kill, Power, OneKindOfCrash, Types
  <2>2. ~installed => log' = <<>>
    <3>1. ~installed => Interrupted = {<<>>} /\ synced = 0
      BY DEF Fresh, Types, Interrupted
    <3>2. ASSUME NEW k \in Survivors(<<>>, 0) PROVE k = <<>>
      BY DEF Survivors
    <3> QED
      BY <1>9, <3>1, <3>2 DEF Crash, Kill, PowerFailure, Fresh
  <2>3. snap' \in {snap, snapOld} /\ (snap' # snap => Power)
    BY <1>9 DEF Crash, Kill, PowerFailure, Power
  <2>4. (Power => snapOld' = snap') /\ snapOld' \in {snap, snapOld}
    BY <1>9, <2>1, Zenon DEF Crash, Kill, PowerFailure, Power
  <2>5. Fresh'
    <3>1. ~installed => logOld' \subseteq {<<>>}
      BY <1>9 DEF Crash, Kill, PowerFailure, Fresh
    <3> QED
      BY <1>9, <2>2, <2>3, <2>4, <3>1, Zenon DEF Crash, Fresh
  <2> QED
    BY <1>9, <2>3, <2>4, <2>5 DEF Crash, Phases, Power
<1>10. CASE RecoverNothing
  BY <1>10 DEF RecoverNothing, Fresh, Phases, Power, disk
<1>11. CASE Recover
  BY <1>11, Zenon DEF Recover, Fresh, Phases, Power, disk
<1> QED
  BY <1>1, <1>2, <1>3, <1>4, <1>5, <1>6, <1>7, <1>8, <1>9, <1>10, <1>11, ZenonT(30) DEF Next, Progress

\* A journal can always be recovered, if no mutation is accepted before the
\* bootstrap is complete and the crashes of one behaviour are of one kind: no
\* crash, at any step of a commit, of a snapshot replacement or of a recovery,
\* leaves records without the snapshot they apply to.
THEOREM JournalRecoverable ==
  ASSUME ~Early, OneKindOfCrash
  PROVE  Spec => []AlwaysRecoverable
<1>1. Init => Fresh /\ Phases
  BY DEF Init, Fresh, Phases
<1>2. Types /\ Fresh /\ Phases /\ [Next]_vars => Fresh' /\ Phases'
  BY PhasesStep
<1>3. Phases => AlwaysRecoverable
  BY DEF Phases, AlwaysRecoverable
<1> QED
  BY <1>1, <1>2, <1>3, TypesInit, TypesStep, PTL DEF Spec

-----------------------------------------------------------------------------
(* What the files give.                                                    *)

\* What a power failure would leave is what is there.
Synced == Power => snapOld = snap /\ logOld = {} /\ synced = Len(log)

\* A restart from the snapshots S and the log l gives the state m.
Give(S, l, m) == \A s \in S : s.gen = generation /\ Replay(s.state, s.gen, l) = m

\* A restart from the snapshots S and the log l gives the state in memory, or it
\* and the operation under way.
Restores(S, l) == \A s \in S :
  /\ UpTo(l, s.gen)
  /\ \/ Replay(s.state, s.gen, l) = mem
     \/ \E op \in Ops : Replay(s.state, s.gen, l) = Append(mem, op)

\* There is at most one snapshot.
Single == (\A s, t \in snap : s = t) /\ (\A s, t \in snapOld : s = t)

Booting == status = "booting" /\ replacing = {} => Synced

Down == status = "down" => Synced /\ (installed => Restores(snap, log))

\* Running: snapshot and log give the state, as it was before the commit under way.
Running == status = "running" =>
  /\ commit = {} => Synced /\ AllOk(log) /\ UpTo(log, generation) /\ Give(snap, log, mem)
  /\ \A c \in commit :
       /\ log = Append(c.before, Ok(generation, c.op))
       /\ AllOk(c.before) /\ UpTo(c.before, generation) /\ Give(snap, c.before, mem)
       /\ Power => snapOld = snap /\ logOld = {} /\ synced = Len(c.before)

\* After a failed append: what is on disk is the log before it, or with half or
\* all of the record.
Poisoned == status = "poisoned" =>
  \E l \in Seq(Line), op \in Ops :
    /\ log \in Endings(l, generation, op)
    /\ AllOk(l) /\ UpTo(l, generation) /\ Give(snap, l, mem)
    /\ Power => snapOld = snap /\ logOld = {} /\ synced = Len(l)

\* Replacing the snapshot: before the rename the old files give the state, after
\* it the new snapshot has it and ignores every record of the old log.
Replacing == \A r \in replacing :
  /\ r.gen = generation + 1
  /\ installed => r.state = mem
  /\ UpTo(log, generation)
  /\ r.step = "write" => Synced /\ (installed => Give(snap, log, mem))
  /\ r.step # "write" => snap = {[gen |-> r.gen, state |-> r.state]}
  /\ r.step = "rename" =>
       (Power => logOld = {} /\ synced = Len(log) /\ (installed => Give(snapOld, log, mem)))
  /\ r.step = "truncate" =>
       /\ log = <<>>
       /\ Power => snapOld = snap /\ synced = 0 /\ \A l \in logOld : UpTo(l, generation)

Files == Single /\ Booting /\ Down /\ Running /\ Poisoned /\ Replacing

\* A power failure leaves a synced log as it is.
LEMMA SurvivorsSynced ==
  ASSUME NEW l \in Seq(Line) PROVE Survivors(l, Len(l)) = {l}
<1>1. Len(l) \in Nat /\ SubSeq(l, 1, Len(l)) = l
  OBVIOUS
<1>2. Len(l) .. Len(l) = {Len(l)} /\ Len(l) + 1 .. Len(l) = {}
  BY <1>1
<1> QED
  BY <1>1, <1>2, Zenon DEF Survivors

\* A record appended to good ones, as it is on disk.
LEMMA EndingType ==
  ASSUME NEW l \in Seq(Line), NEW gen \in Nat, NEW op \in Ops, NEW k \in Endings(l, gen, op)
  PROVE  /\ k \in Seq(Line) /\ (UpTo(l, gen) => UpTo(k, gen))
         /\ \/ k = l
            \/ /\ Len(k) = Len(l) + 1 /\ SubSeq(k, 1, Len(l)) = l
               /\ k[Len(l) + 1] \in {Ok(gen, op), Half(gen, op)}
<1>1. ASSUME NEW line \in {Ok(gen, op), Half(gen, op)}, k = Append(l, line)
      PROVE  /\ k \in Seq(Line) /\ (UpTo(l, gen) => UpTo(k, gen))
             /\ Len(k) = Len(l) + 1 /\ SubSeq(k, 1, Len(l)) = l /\ k[Len(l) + 1] = line
  <2>1. line \in Line /\ line.gen = gen
    BY SMT, Z3 DEF Ok, Half, Line
  <2>2. /\ k \in Seq(Line) /\ Len(k) = Len(l) + 1 /\ Len(l) \in Nat
        /\ k[Len(l) + 1] = line /\ \A i \in 1 .. Len(l) : k[i] = l[i]
        /\ DOMAIN l = 1 .. Len(l) /\ DOMAIN k = 1 .. Len(l) + 1
    BY <1>1, <2>1, AppendedLine, Zenon
  <2>3. SubSeq(k, 1, Len(l)) = l
    BY <2>2
  <2>4. UpTo(l, gen) => UpTo(k, gen)
    <3>1. \A i \in 1 .. Len(l) + 1 : i \in 1 .. Len(l) \/ i = Len(l) + 1
      BY <2>2
    <3>2. gen <= gen
      OBVIOUS
    <3> QED
      BY <2>1, <2>2, <3>1, <3>2 DEF UpTo
  <2> QED
    BY <2>2, <2>3, <2>4
<1> QED
  BY <1>1 DEF Endings

\* A power failure during an append, when the records before are synced, leaves
\* them and nothing, half or all of the new one.
LEMMA SurvivingEndings ==
  ASSUME NEW l \in Seq(Line), NEW gen \in Nat, NEW op \in Ops, AllOk(l),
         NEW k \in Endings(l, gen, op)
  PROVE  Survivors(k, Len(l)) \subseteq Endings(l, gen, op)
<1>1. CASE k = l
  BY <1>1, SurvivorsSynced DEF Endings
<1>2. CASE k # l
  <2> DEFINE m == Len(l)
  <2>1. /\ k \in Seq(Line) /\ Len(k) = m + 1 /\ SubSeq(k, 1, m) = l
        /\ k[m + 1] \in {Ok(gen, op), Half(gen, op)}
    BY <1>2, EndingType
  <2>2. m \in Nat /\ SubSeq(k, 1, m + 1) = k
    BY <2>1
  <2>3. m .. m + 1 = {m, m + 1} /\ m + 1 .. m + 1 = {m + 1} /\ (m + 1) - 1 = m
    BY <2>2
  <2>4. ~Torn(l)
    <3>1. l # <<>> => Len(l) \in DOMAIN l
      OBVIOUS
    <3> QED
      BY <3>1 DEF Torn, AllOk
  <2>5. [k[m + 1] EXCEPT !.state = "torn"] = Half(gen, op)
    BY <2>1 DEF Ok, Half
  <2>6. Partly(l, k[m + 1]) = Append(l, Half(gen, op))
    BY <2>4, <2>5 DEF Partly
  <2> HIDE DEF m
  <2>7. Survivors(k, m) = {l, k} \cup {Partly(l, k[m + 1])}
    BY <2>1, <2>2, <2>3, Zenon DEF Survivors
  <2> QED
    BY <2>6, <2>7 DEF Endings, m
<1> QED
  BY <1>1, <1>2

\* What an interrupted append to good records leaves.
LEMMA CommitEndings ==
  ASSUME NEW l \in Seq(Line), NEW gen \in Nat, NEW op \in Ops, AllOk(l),
         NEW k, k = Append(l, Ok(gen, op))
  PROVE  {k, l, Partly(l, k[Len(k)])} \subseteq Endings(l, gen, op)
<1>1. Ok(gen, op) \in Line
  BY DEF Ok, Line
<1>2. k[Len(k)] = Ok(gen, op)
  BY <1>1, AppendedLine
<1>3. [Ok(gen, op) EXCEPT !.state = "torn"] = Half(gen, op)
  BY DEF Ok, Half
<1>4. ~Torn(l)
  <2>1. l # <<>> => Len(l) \in DOMAIN l
    OBVIOUS
  <2> QED
    BY <2>1 DEF Torn, AllOk
<1>5. Partly(l, k[Len(k)]) = Append(l, Half(gen, op))
  BY <1>2, <1>3, <1>4, Zenon DEF Partly
<1> QED
  BY <1>5 DEF Endings

\* Whatever is on disk of an append, the files restore the state.
LEMMA EndingRestores ==
  ASSUME Types, NEW l \in Seq(Line), NEW op \in Ops, NEW S \in SUBSET Snapshots,
         AllOk(l), UpTo(l, generation), Give(S, l, mem),
         NEW k \in Endings(l, generation, op)
  PROVE  Restores(S, k)
<1> SUFFICES ASSUME NEW s \in S
             PROVE  /\ UpTo(k, s.gen)
                    /\ \/ Replay(s.state, s.gen, k) = mem
                       \/ Replay(s.state, s.gen, k) = Append(mem, op)
  BY DEF Restores
<1>1. /\ s.state \in States /\ s.gen = generation /\ generation \in Nat
      /\ Replay(s.state, generation, l) = mem
  BY DEF Types, Snapshots, Give
<1>2. UpTo(k, generation)
  BY <1>1, EndingType
<1> QED
  BY <1>1, <1>2, ReplayEnding, Zenon

\* The new snapshot ignores the records of older generations.
LEMMA NewRestores ==
  ASSUME Types, NEW l \in Seq(Line), UpTo(l, generation)
  PROVE  Restores({[gen |-> generation + 1, state |-> mem]}, l)
<1> DEFINE s == [gen |-> generation + 1, state |-> mem]
<1>1. s.gen \in Nat /\ s.state \in States /\ s.state = mem /\ s.gen = generation + 1
  BY SMT, Z3 DEF Types
<1>2. \A i \in DOMAIN l : l[i].gen \in Nat
  <2>1. \A i \in DOMAIN l : l[i] \in Line
    BY SMT, Z3
  <2> QED
    BY <2>1 DEF Line
<1>3. \A i \in DOMAIN l : l[i].gen # s.gen /\ l[i].gen <= s.gen
  <2>1. generation \in Nat /\ \A i \in DOMAIN l : l[i].gen <= generation
    BY DEF UpTo, Types
  <2> HIDE DEF s
  <2> QED
    BY <1>1, <1>2, <2>1
<1> HIDE DEF s
<1>4. Replay(s.state, s.gen, l) = s.state
  BY <1>1, <1>3, ReplayNone, Zenon
<1>5. Restores({s}, l)
  BY <1>1, <1>3, <1>4 DEF Restores, UpTo
<1> QED
  BY <1>5 DEF s

\* The logs that a crash may leave.
CrashLogs == Interrupted \cup (IF Power THEN (UNION {Survivors(l, synced) : l \in Interrupted}) \cup logOld
                                        ELSE {})

\* Whenever the replica is up, whatever a crash leaves restores the state.
LEMMA CrashSafe ==
  ASSUME Types, Phases, Files, installed, status # "down", NEW k \in CrashLogs
  PROVE  Restores(snap, k) /\ (Power => Restores(snapOld, k))
<1>0. /\ log \in Seq(Line) /\ snap \in SUBSET Snapshots /\ snapOld \in SUBSET Snapshots
      /\ generation \in Nat /\ status \in {"running", "poisoned", "repairing"}
  BY DEF Types, Phases
<1>1. ASSUME NEW l \in Seq(Line), NEW op \in Ops, NEW x \in Endings(l, generation, op),
             AllOk(l), UpTo(l, generation), Give(snap, l, mem),
             Power => snapOld = snap /\ logOld = {} /\ synced = Len(l),
             \/ k = x
             \/ Power /\ k \in Survivors(x, synced)
             \/ Power /\ k \in logOld
      PROVE  Restores(snap, k) /\ (Power => Restores(snapOld, k))
  <2>1. k \in Endings(l, generation, op)
    BY <1>0, <1>1, SurvivingEndings
  <2>2. Restores(snap, k)
    BY <1>0, <1>1, <2>1, EndingRestores
  <2> QED
    BY <1>1, <2>2
<1>2. CASE commit = {}
  <2>0. Interrupted = {log}
    BY <1>2 DEF Interrupted
  <2>1. k = log \/ (Power /\ k \in Survivors(log, synced)) \/ (Power /\ k \in logOld)
    BY <2>0 DEF CrashLogs
  <2>2. CASE status = "poisoned"
    <3>1. PICK l \in Seq(Line), op \in Ops :
            /\ log \in Endings(l, generation, op)
            /\ AllOk(l) /\ UpTo(l, generation) /\ Give(snap, l, mem)
            /\ Power => snapOld = snap /\ logOld = {} /\ synced = Len(l)
      BY <2>2 DEF Files, Poisoned
    <3> QED
      BY <1>1, <2>1, <3>1
  <2>3. CASE status = "running"
    <3>1. Synced /\ AllOk(log) /\ UpTo(log, generation) /\ Give(snap, log, mem)
      BY <1>2, <2>3 DEF Files, Running
    <3>2. k = log
      BY <1>0, <2>1, <3>1, SurvivorsSynced DEF Synced
    <3>3. Restores(snap, log)
      BY <1>0, <3>1 DEF Restores, Give
    <3> QED
      BY <3>1, <3>2, <3>3 DEF Synced
  <2>4. CASE status = "repairing" /\ replacing # {}
    <3>1. PICK r \in replacing : TRUE
      BY <2>4, Zenon
    <3>2. /\ r.gen = generation + 1 /\ r.state = mem /\ UpTo(log, generation)
          /\ r.step \in Steps
      BY DEF Files, Replacing, Types
    <3>3. CASE r.step = "write"
      <4>1. Synced /\ Give(snap, log, mem)
        BY <3>3 DEF Files, Replacing
      <4>2. k = log
        BY <1>0, <2>1, <4>1, SurvivorsSynced, ZenonT(30) DEF Synced
      <4>3. Restores(snap, log)
        BY <3>2, <4>1 DEF Restores, Give
      <4> QED
        BY <4>1, <4>2, <4>3, Zenon DEF Synced
    <3>4. CASE r.step = "rename"
      <4>1. /\ snap = {[gen |-> generation + 1, state |-> mem]}
            /\ Power => logOld = {} /\ synced = Len(log) /\ Give(snapOld, log, mem)
        BY <3>2, <3>4, Zenon DEF Files, Replacing
      <4>2. k = log
        BY <1>0, <2>1, <4>1, SurvivorsSynced
      <4>3. Restores(snap, log)
        BY <1>0, <3>2, <4>1, NewRestores, ZenonT(30)
      <4>4. Power => Restores(snapOld, log)
        BY <3>2, <4>1 DEF Restores, Give
      <4> QED
        BY <4>2, <4>3, <4>4, ZenonT(30)
    <3>5. CASE r.step = "truncate"
      <4>1. /\ snap = {[gen |-> generation + 1, state |-> mem]} /\ log = <<>>
            /\ Power => snapOld = snap /\ synced = 0 /\ \A l \in logOld : UpTo(l, generation)
        BY <3>2, <3>5 DEF Files, Replacing
      <4>2. Len(<<>>) = 0
        OBVIOUS
      <4>3. k = log \/ (Power /\ k \in logOld)
        BY <1>0, <2>1, <4>1, <4>2, SurvivorsSynced, Zenon
      <4>4. k \in Seq(Line) /\ UpTo(k, generation)
        BY <1>0, <3>2, <4>1, <4>3, Zenon DEF Types
      <4>5. Restores(snap, k)
        BY <4>1, <4>4, NewRestores, Zenon
      <4> QED
        BY <4>1, <4>5, ZenonT(30)
    <3> QED
      BY <3>2, <3>3, <3>4, <3>5 DEF Steps
  <2> QED
    BY <1>0, <2>2, <2>3, <2>4 DEF Phases
<1>3. CASE commit # {}
  <2>1. status = "running"
    BY <1>3 DEF Phases
  <2>2. ASSUME NEW x \in Interrupted
        PROVE  \E c \in commit : x \in Endings(c.before, generation, c.op)
    <3>1. ASSUME NEW c \in commit
          PROVE  {log, c.before, Partly(c.before, log[Len(log)])}
                   \subseteq Endings(c.before, generation, c.op)
      <4>1. /\ log = Append(c.before, Ok(generation, c.op)) /\ AllOk(c.before)
            /\ c.before \in Seq(Line) /\ c.op \in Ops
        BY <2>1 DEF Files, Running, Types
      <4> QED
        BY <1>0, <4>1, CommitEndings, ZenonT(30)
    <3>2. \E c \in commit : x \in {log, c.before, Partly(c.before, log[Len(log)])}
      BY <1>3 DEF Interrupted
    <3> QED
      BY <3>1, <3>2
  <2>3. Power => logOld = {}
    BY <1>3, <2>1 DEF Files, Running
  <2>4. PICK x \in Interrupted : k = x \/ (Power /\ k \in Survivors(x, synced))
    BY <2>3 DEF CrashLogs
  <2>5. PICK c \in commit : x \in Endings(c.before, generation, c.op)
    BY <2>2
  <2>6. /\ AllOk(c.before) /\ UpTo(c.before, generation) /\ Give(snap, c.before, mem)
        /\ Power => snapOld = snap /\ logOld = {} /\ synced = Len(c.before)
        /\ c.before \in Seq(Line) /\ c.op \in Ops
    BY <2>1, Zenon DEF Files, Running, Types
  <2> QED
    BY <1>1, <2>4, <2>5, <2>6, Zenon
<1> QED
  BY <1>2, <1>3

\* Every action keeps that, if the process does not outlive a failed append of a
\* mutation.
LEMMA FilesStep ==
  ASSUME ~Early, OneKindOfCrash, "mutation" \notin IoErrors,
         Types, Types', Fresh, Phases, Phases', Files, [Next]_vars
  PROVE  Files'
<1> USE DEF Files
<1>1. CASE UNCHANGED vars
  BY <1>1, ZenonT(30) DEF vars, disk, Single, Booting, Down, Running, Poisoned, Replacing, Synced, Power,
              Give, Restores
<1>2. ASSUME NEW kind \in Kinds, AppendRecord(kind) PROVE Files'
  <2> DEFINE op == [kind |-> kind, id |-> begun + 1]
  <2>1. status = "running" /\ commit = {} /\ replacing = {}
    BY <1>2 DEF AppendRecord, GateFree
  <2>2. Synced /\ AllOk(log) /\ UpTo(log, generation) /\ Give(snap, log, mem)
    BY <2>1 DEF Running
  <2>3. ~Torn(log)
    <3>1. log # <<>> => Len(log) \in DOMAIN log
      BY SMT, Z3 DEF Types
    <3> QED
      BY <2>2, <3>1, Zenon DEF Torn, AllOk
  <2>4. log' = Append(log, Ok(generation, op)) /\ commit' = {[op |-> op, before |-> log]}
    BY <1>2, <2>3, ZenonT(30) DEF AppendRecord, Written, Ok
  <2>5. \A c \in commit' : c.op = op /\ c.before = log
    BY <2>4, SMT, Z3
  <2>6. /\ status' = status /\ mem' = mem /\ generation' = generation /\ replacing' = replacing
        /\ snap' = snap /\ snapOld' = snapOld /\ logOld' = logOld /\ synced' = synced
        /\ kinds' = kinds
    BY <1>2, ZenonT(30) DEF AppendRecord
  <2>7. Running'
    <3>1. commit' # {}
      BY <2>4, Zenon
    <3>2. Give(snap, log, mem)'  <=> Give(snap, log', mem)
      BY <2>6 DEF Give
    <3> SUFFICES ASSUME NEW c \in commit'
                 PROVE  /\ log' = Append(c.before, Ok(generation', c.op))
                        /\ AllOk(c.before) /\ UpTo(c.before, generation')
                        /\ \A s \in snap' : /\ s.gen = generation'
                                            /\ Replay(s.state, s.gen, c.before) = mem'
                        /\ Power' => snapOld' = snap' /\ logOld' = {} /\ synced' = Len(c.before)
      BY <3>1, Zenon DEF Running, Give
    <3> QED
      BY <2>2, <2>4, <2>5, <2>6 DEF Synced, Power, Give
  <2> QED
    BY <2>1, <2>6, <2>7 DEF Single, Booting, Down, Poisoned, Replacing
<1>3. CASE Apply
  <2>1. PICK c \in commit : mem' = Append(mem, c.op)
    BY <1>3 DEF Apply
  <2>2. status = "running"
    BY <2>1, Zenon DEF Phases
  <2>3. /\ log = Append(c.before, Ok(generation, c.op))
        /\ AllOk(c.before) /\ UpTo(c.before, generation) /\ Give(snap, c.before, mem)
        /\ Power => snapOld = snap
        /\ c.before \in Seq(Line) /\ c.op \in Ops /\ generation \in Nat
    BY <2>2, Zenon DEF Running, Types
  <2>4. /\ status' = status /\ generation' = generation /\ replacing' = replacing
        /\ snap' = snap /\ snapOld' = snapOld /\ log' = log /\ kinds' = kinds
        /\ commit' = {} /\ synced' = Len(log) /\ logOld' = {}
    BY <1>3 DEF Apply
  <2>5. Synced'
    BY <2>3, <2>4, Zenon DEF Synced, Power
  <2>6. AllOk(log) /\ UpTo(log, generation)
    <3>1. log \in Endings(c.before, generation, c.op)
      BY <2>3, ZenonT(30) DEF Endings
    <3>5. UpTo(c.before, generation) => UpTo(log, generation)
      <4>1. c.before \in Seq(Line) /\ generation \in Nat /\ c.op \in Ops
        BY <2>3
      <4> QED
        BY <3>1, <4>1, EndingType
    <3>2. UpTo(log, generation)
      BY <2>3, <3>5, Zenon
    <3>3. Ok(generation, c.op) \in Line /\ Ok(generation, c.op).state = "ok"
      BY <2>3, ZenonT(30) DEF Ok, Line
    <3>4. \A i \in DOMAIN log : \/ i \in DOMAIN c.before /\ log[i] = c.before[i]
                               \/ log[i] = Ok(generation, c.op)
      BY <2>3, <3>3
    <3> QED
      BY <2>3, <3>2, <3>3, <3>4, ZenonT(30) DEF AllOk
  <2>7. \A s \in snap : s.gen = generation /\ Replay(s.state, s.gen, log) = mem'
    <3> SUFFICES ASSUME NEW s \in snap
                 PROVE  s.gen = generation /\ Replay(s.state, s.gen, log) = mem'
      BY ZenonT(30)
    <3>1. /\ s.gen = generation /\ s.state \in States
          /\ Replay(s.state, generation, c.before) = mem
      BY <2>3 DEF Give, Types, Snapshots
    <3>2. Replay(s.state, generation, log) = Append(Replay(s.state, generation, c.before), c.op)
      BY <2>3, <3>1, ReplayOk, Zenon
    <3> QED
      BY <2>1, <3>1, <3>2
  <2>8. Running'
    BY <2>4, <2>5, <2>6, <2>7, ZenonT(30) DEF Running, Give
  <2>9. replacing = {}
    BY <2>2 DEF Phases
  <2> QED
    BY <2>2, <2>4, <2>8, <2>9, Zenon DEF Single, Booting, Down, Poisoned, Replacing
<1>4. CASE FailRecord
  <2>1. status = "running" /\ status' = "poisoned" /\ replacing = {}
    BY <1>4, Zenon DEF FailRecord, Phases
  <2>2. /\ mem' = mem /\ generation' = generation /\ replacing' = replacing
        /\ snap' = snap /\ snapOld' = snapOld /\ logOld' = logOld /\ synced' = synced
        /\ kinds' = kinds /\ log' \in Interrupted /\ commit # {}
    BY <1>4, Zenon DEF FailRecord
  <2>3. PICK c \in commit : log' \in {log, c.before, Partly(c.before, log[Len(log)])}
    BY <2>2, Zenon DEF Interrupted
  <2>4. /\ log = Append(c.before, Ok(generation, c.op)) /\ AllOk(c.before)
        /\ UpTo(c.before, generation) /\ Give(snap, c.before, mem)
        /\ Power => snapOld = snap /\ logOld = {} /\ synced = Len(c.before)
        /\ c.before \in Seq(Line) /\ c.op \in Ops /\ generation \in Nat
    BY <2>1, Zenon DEF Running, Types
  <2>5. log' \in Endings(c.before, generation, c.op)
    BY <2>3, <2>4, CommitEndings, ZenonT(30)
  <2>6. \A s \in snap' : s.gen = generation' /\ Replay(s.state, s.gen, c.before) = mem'
    BY <2>2, <2>4, ZenonT(30) DEF Give
  <2>7. Poisoned'
    BY <2>2, <2>4, <2>5, <2>6 DEF Poisoned, Give, Power
  <2> QED
    BY <2>1, <2>2, <2>7, Zenon DEF Single, Booting, Down, Running, Replacing
<1>5. CASE Bootstrap
  <2>1. /\ status = "booting" /\ replacing = {} /\ Synced /\ ~installed
        /\ log = <<>>
    BY <1>5, Zenon DEF Bootstrap, GateFree, Booting, Phases, Fresh
  <2>2. /\ status' = status /\ installed' = installed /\ generation' = generation
        /\ snap' = snap /\ snapOld' = snapOld /\ log' = log /\ logOld' = logOld
        /\ synced' = synced /\ kinds' = kinds
        /\ \A r \in replacing' : r.gen = generation + 1 /\ r.step = "write"
        /\ replacing' # {}
    BY <1>5 DEF Bootstrap, disk
  <2>3. Synced'
    BY <2>1, <2>2 DEF Synced, Power
  <2>4. UpTo(<<>>, generation)
    BY SMT, Z3 DEF UpTo
  <2>5. Replacing'
    BY <2>1, <2>2, <2>3, <2>4 DEF Replacing
  <2> QED
    BY <2>1, <2>2, <2>5, Zenon DEF Single, Booting, Down, Running, Poisoned
<1>6. CASE RenameSnapshot
  <2>1. PICK r \in replacing : /\ r.step = "write"
                               /\ snap' = {[gen |-> r.gen, state |-> r.state]}
                               /\ replacing' = {[r EXCEPT !.step = "rename"]}
    BY <1>6 DEF RenameSnapshot
  <2>2. /\ status' = status /\ mem' = mem /\ installed' = installed /\ generation' = generation
        /\ snapOld' = snapOld /\ log' = log /\ logOld' = logOld /\ synced' = synced
        /\ kinds' = kinds
    BY <1>6 DEF RenameSnapshot
  <2>3. /\ r.gen = generation + 1 /\ (installed => r.state = mem) /\ UpTo(log, generation)
        /\ Synced /\ (installed => Give(snap, log, mem))
        /\ r \in [gen : Nat, state : States, step : Steps]
    BY <2>1, Zenon DEF Replacing, Types
  <2>4. \A q \in replacing' : q.gen = r.gen /\ q.state = r.state /\ q.step = "rename"
    BY <2>1, <2>3, ZenonT(30)
  <2>5. Power /\ installed => \A s \in snapOld' : /\ s.gen = generation'
                                                 /\ Replay(s.state, s.gen, log') = mem'
    BY <2>2, <2>3 DEF Synced, Give
  <2>6. Replacing'
    <3> SUFFICES ASSUME NEW q \in replacing'
                 PROVE  /\ q.gen = generation' + 1
                        /\ installed' => q.state = mem'
                        /\ UpTo(log', generation')
                        /\ q.step = "rename"
                        /\ snap' = {[gen |-> q.gen, state |-> q.state]}
                        /\ Power' => /\ logOld' = {} /\ synced' = Len(log')
                                     /\ installed' => Give(snapOld, log, mem)'
      BY DEF Replacing
    <3> QED
      BY <2>1, <2>2, <2>3, <2>4, <2>5, ZenonT(30) DEF Synced, Power, Give
  <2>7. Single'
    BY <2>1, <2>2 DEF Single
  <2>8. status \in {"booting", "repairing"} /\ replacing' # {}
    BY <2>1 DEF Phases
  <2> QED
    BY <2>2, <2>6, <2>7, <2>8, Zenon DEF Booting, Down, Running, Poisoned
<1>7. CASE ClearLog
  <2>1. PICK r \in replacing : /\ r.step = "rename"
                               /\ replacing' = {[r EXCEPT !.step = "truncate"]}
    BY <1>7 DEF ClearLog
  <2>2. /\ status' = status /\ mem' = mem /\ installed' = installed /\ generation' = generation
        /\ snap' = snap /\ snapOld' = snap /\ log' = <<>> /\ synced' = 0
        /\ logOld' = Survivors(log, synced) \cup logOld /\ kinds' = kinds
    BY <1>7 DEF ClearLog
  <2>3. /\ r.gen = generation + 1 /\ (installed => r.state = mem) /\ UpTo(log, generation)
        /\ snap = {[gen |-> r.gen, state |-> r.state]}
        /\ Power => logOld = {} /\ synced = Len(log)
        /\ r \in [gen : Nat, state : States, step : Steps]
    BY <2>1, Zenon DEF Replacing, Types
  <2>4. \A q \in replacing' : q.gen = r.gen /\ q.state = r.state /\ q.step = "truncate"
    BY <2>1, <2>3, ZenonT(30)
  <2>5. Power => \A l \in logOld' : UpTo(l, generation)
    BY <2>2, <2>3, SurvivorsSynced DEF Types
  <2>6. UpTo(<<>>, generation)
    BY DEF UpTo
  <2>7. Replacing'
    <3> SUFFICES ASSUME NEW q \in replacing'
                 PROVE  /\ q.gen = generation' + 1
                        /\ installed' => q.state = mem'
                        /\ UpTo(log', generation')
                        /\ q.step = "truncate"
                        /\ snap' = {[gen |-> q.gen, state |-> q.state]}
                        /\ log' = <<>>
                        /\ Power' => /\ snapOld' = snap' /\ synced' = 0
                                     /\ \A l \in logOld' : UpTo(l, generation')
      BY DEF Replacing
    <3> QED
      BY <2>1, <2>2, <2>3, <2>4, <2>5, <2>6, ZenonT(30) DEF Power
  <2>8. Single'
    BY <2>2 DEF Single
  <2>9. status \in {"booting", "repairing"} /\ replacing' # {}
    BY <2>1 DEF Phases
  <2> QED
    BY <2>2, <2>7, <2>8, <2>9, ZenonT(30) DEF Booting, Down, Running, Poisoned
<1>8. CASE Installed
  <2>1. PICK r \in replacing : r.step = "truncate" /\ generation' = r.gen /\ mem' = r.state
    BY <1>8 DEF Installed
  <2>2. /\ status' = "running" /\ replacing' = {} /\ commit' = commit
        /\ snap' = snap /\ snapOld' = snapOld /\ log' = log /\ logOld' = {}
        /\ synced' = synced /\ kinds' = kinds
    BY <1>8, Zenon DEF Installed
  <2>3. /\ snap = {[gen |-> r.gen, state |-> r.state]} /\ log = <<>>
        /\ Power => snapOld = snap /\ synced = 0
        /\ r.gen \in Nat /\ r.state \in States
    BY <2>1, Zenon DEF Replacing, Types
  <2>4. commit = {}
    BY <2>1 DEF Types
  <2>5. <<>> \in Seq(Line) /\ DOMAIN <<>> = {} /\ Len(<<>>) = 0
    OBVIOUS
  <2>6. Replay(r.state, r.gen, <<>>) = r.state
    BY <2>3, <2>5, ReplayNone, Zenon
  <2>7. Synced' /\ AllOk(log') /\ UpTo(log', generation')
    BY <2>2, <2>3, <2>5, ZenonT(30) DEF Synced, Power, AllOk, UpTo
  <2>8. \A s \in snap' : s.gen = generation' /\ Replay(s.state, s.gen, log') = mem'
    BY <2>1, <2>2, <2>3, <2>6, SMT, Z3
  <2>9. Running'
    BY <2>2, <2>4, <2>7, <2>8 DEF Running, Give
  <2> QED
    BY <2>2, <2>9, Zenon DEF Single, Booting, Down, Poisoned, Replacing
<1>9. CASE Crash
  <2>1. /\ status # "down" /\ status' = "down" /\ replacing' = {} /\ mem' = mem
        /\ installed' = installed /\ kinds' = kinds
    BY <1>9, ZenonT(30) DEF Crash
  <2>2. Kill => ~Power
    BY DEF Kill, Power, OneKindOfCrash, Types
  <2>3. Synced'
    BY <1>9, <2>1, <2>2, ZenonT(30) DEF Crash, PowerFailure, Synced, Power
  <2>4. log' \in CrashLogs /\ (snap' = snap \/ (Power /\ snap' = snapOld))
    BY <1>9 DEF Crash, Kill, PowerFailure, CrashLogs, Power
  <2>5. installed => Restores(snap', log')
    BY <2>1, <2>4, CrashSafe
  <2>6. Down'
    BY <2>1, <2>3, <2>5, ZenonT(30) DEF Down, Restores
  <2>7. Single'
    BY <1>9 DEF Crash, Kill, PowerFailure, Single
  <2> QED
    BY <2>1, <2>6, <2>7, Zenon DEF Booting, Running, Poisoned, Replacing
<1>10. CASE RecoverNothing
  <2>1. status = "down" /\ ~installed /\ Synced /\ status' = "booting" /\ replacing = {}
    BY <1>10, Zenon DEF RecoverNothing, Down, Phases, Fresh
  <2>2. /\ snap' = snap /\ snapOld' = snapOld /\ log' = log /\ logOld' = logOld
        /\ synced' = synced /\ kinds' = kinds /\ replacing' = replacing
    BY <1>10 DEF RecoverNothing, disk
  <2>3. Synced'
    BY <2>1, <2>2, Zenon DEF Synced, Power
  <2> QED
    BY <2>1, <2>2, <2>3, Zenon DEF Single, Booting, Down, Running, Poisoned, Replacing
<1>11. CASE Recover
  <2>1. PICK s \in snap :
          /\ mem' = Replay(s.state, s.gen, log) /\ generation' = s.gen
          /\ \/ AllOk(log) /\ status' = "running" /\ replacing' = replacing
             \/ /\ status' = "repairing"
                /\ replacing' = {[gen |-> s.gen + 1, state |-> mem', step |-> "write"]}
    BY <1>11, Zenon DEF Recover, AllOk
  <2>2. /\ status = "down" /\ installed' = TRUE /\ commit' = commit /\ commit = {}
        /\ snap' = snap /\ snapOld' = snapOld /\ log' = log /\ logOld' = logOld
        /\ synced' = synced /\ kinds' = kinds /\ replacing = {}
    BY <1>11, Zenon DEF Recover, disk, Phases
  <2>3. Synced'
    BY <2>2, ZenonT(30) DEF Down, Synced, Power
  <2>4. UpTo(log, s.gen)
    BY <2>2, SMTT(30), Z3T(30) DEF Down, Restores, Fresh, UpTo
  <2>5. \A t \in snap : t.gen = generation' /\ Replay(t.state, t.gen, log) = mem'
    BY <2>1, Zenon DEF Single
  <2>6. Running'
    BY <2>1, <2>2, <2>3, <2>4, <2>5, ZenonT(30) DEF Running, Give
  <2>9. \A r \in replacing' : r.gen = generation' + 1 /\ r.state = mem' /\ r.step = "write"
    BY <2>1, <2>2, SMT, Z3
  <2>7. Replacing'
    BY <2>1, <2>2, <2>3, <2>4, <2>5, <2>9, ZenonT(30) DEF Replacing, Give
  <2>8. Single' /\ status' \in {"running", "repairing"}
    BY <2>1, <2>2 DEF Single
  <2> QED
    BY <2>6, <2>7, <2>8, Zenon DEF Booting, Down, Poisoned
<1> QED
  BY <1>1, <1>2, <1>3, <1>4, <1>5, <1>6, <1>7, <1>8, <1>9, <1>10, <1>11, ZenonT(30) DEF Next, Progress

\* Every step is one that a durable replica may make.
LEMMA DurableStep ==
  ASSUME ~Early, OneKindOfCrash, "mutation" \notin IoErrors,
         Types, Fresh, Phases, Files, [Next]_vars
  PROVE  [Promise!Next]_<<mem, installed>>
<1> USE DEF Promise!Next, Promise!Commit, Promise!Install
<1>1. CASE UNCHANGED <<mem, installed>>
  BY <1>1, ZenonT(30)
<1>2. CASE Apply
  BY <1>2 DEF Apply, Types
<1>3. CASE Installed
  <2>1. PICK r \in replacing : r.step = "truncate" /\ mem' = r.state /\ installed' = TRUE
    BY <1>3, ZenonT(30) DEF Installed
  <2>2. CASE installed
    BY <2>1, <2>2 DEF Files, Replacing, Types
  <2>3. CASE ~installed
    BY <2>1, <2>3, Zenon DEF Fresh
  <2> QED
    BY <2>2, <2>3, Zenon
<1>4. CASE RecoverNothing
  BY <1>4, ZenonT(30) DEF RecoverNothing, Phases, Fresh
<1>5. CASE Recover
  <2>1. PICK s \in snap : mem' = Replay(s.state, s.gen, log)
    BY <1>5 DEF Recover
  <2>2. CASE installed
    <3>1. mem' = mem \/ \E op \in Ops : mem' = Append(mem, op)
      BY <1>5, <2>1, <2>2, ZenonT(30) DEF Recover, Files, Down, Restores
    <3>2. installed' = installed
      BY <1>5, <2>2 DEF Recover, Types
    <3> QED
      BY <3>1, <3>2, Zenon
  <2>3. CASE ~installed
    <3>1. /\ log = <<>> /\ mem = <<>> /\ s.state \in {<<>>, <<Base>>}
          /\ s.state \in States /\ s.gen \in Nat /\ log \in Seq(Line)
      BY <2>3 DEF Fresh, Types, Snapshots
    <3>2. DOMAIN <<>> = {}
      BY SMT, Z3
    <3>4. \A i \in DOMAIN log : log[i].gen # s.gen
      BY <3>1, <3>2
    <3>3. Replay(s.state, s.gen, log) = s.state
      BY <3>1, <3>4, ReplayNone, ZenonT(30)
    <3> QED
      BY <1>5, <2>1, <2>3, <3>1, <3>3, ZenonT(30) DEF Recover
  <2> QED
    BY <2>2, <2>3, ZenonT(30)
<1>6. ASSUME NEW kind \in Kinds, AppendRecord(kind) PROVE UNCHANGED <<mem, installed>>
  BY <1>6 DEF AppendRecord
<1>7. FailRecord \/ Bootstrap \/ RenameSnapshot \/ ClearLog \/ Crash \/ UNCHANGED vars
        => UNCHANGED <<mem, installed>>
  BY DEF FailRecord, Bootstrap, RenameSnapshot, ClearLog, Crash, vars
<1> QED
  BY <1>1, <1>2, <1>3, <1>4, <1>5, <1>6, <1>7, ZenonT(30) DEF Next, Progress

\* The journal implements DurableState, if no mutation is accepted before the
\* bootstrap is complete, the crashes of one behaviour are of one kind and the
\* process does not outlive a failed append of a mutation: whenever it crashes and
\* however often, a restart brings back every operation that was applied, in
\* order, and at most the one that was being committed.
THEOREM JournalDurable ==
  ASSUME ~Early, OneKindOfCrash, "mutation" \notin IoErrors
  PROVE  Spec => Durable
<1>1. Init => Fresh /\ Phases /\ Files
  <2>1. DOMAIN <<>> = {} /\ Len(<<>>) = 0
    OBVIOUS
  <2> QED
    BY <2>1, Zenon DEF Init, Fresh, Phases, Files, Single, Booting, Down, Running, Poisoned, Replacing,
                Synced
<1>2. Types /\ Fresh /\ Phases /\ [Next]_vars => Fresh' /\ Phases'
  BY PhasesStep
<1>3. Types /\ Types' /\ Fresh /\ Phases /\ Phases' /\ Files /\ [Next]_vars => Files'
  BY FilesStep
<1>4. Types /\ Fresh /\ Phases /\ Files /\ [Next]_vars => [Promise!Next]_<<mem, installed>>
  BY DurableStep
<1>5. Init => Promise!Init
  BY DEF Init, Promise!Init
<1> QED
  BY <1>1, <1>2, <1>3, <1>4, <1>5, TypesInit, TypesStep, PTL DEF Spec, Durable, Promise!Spec

=============================================================================
