--------------------------- MODULE RestartProofs ---------------------------
(***************************************************************************)
(* Theorems about replicas of a fixed membership that are killed, any      *)
(* number of times and wherever their run loop is, and restart from their  *)
(* journal: what ReplicaProofs proves of replicas that stay up still holds.*)
(***************************************************************************)
EXTENDS Restart, ReplicaProofs

\* What the directory owes to p: a descriptor that survives whatever p's round
\* goes on to delete.
Listed(p) ==
  /\ \E d \in dir : d.pid = p
  /\ \A r \in round[p] :
       LET new == Active(p, r.marker.counter)
       IN /\ r.old.pid = p /\ r.old # new
          /\ pc[p] \in {"validate", "abort", "withdraw"} => \E d \in dir : d.pid = p /\ d # new
          /\ pc[p] \in {"validate", "complete", "old"} => new \in dir

\* The own entry counts the acknowledged mutations.
Counted(p) == Get(rep[p].vv, p) = acked[p] - 1

\* The journal of p knows of nobody else: its snapshot is older than the rows
\* of the others, and only GC markers are replayed on it.
OwnRowsOnly(w, p) ==
  /\ w.matrix = [q \in DOMAIN w.matrix |-> w.matrix[q]]
  /\ DOMAIN w.matrix \subseteq {p, Stable}
  /\ \A q \in DOMAIN w.matrix : IsDotSet(w.matrix[q])
  /\ w.finals = NewDotSet

JournalOK(p) == OwnRowsOnly(replayed[p], p)

\* The inductive invariant of a fixed membership with kills and restarts.
RInv ==
  /\ FixedInv
  /\ \A p \in Pids : Listed(p) /\ Counted(p) /\ JournalOK(p)

-----------------------------------------------------------------------------
(* The directory.                                                          *)

\* A step of p leaves what the directory owes to the others.
LEMMA OthersListed ==
  ASSUME NEW p \in Pids, NEW q \in Pids, q # p, Listed(q),
         \A d \in dir : d.pid # p => d \in dir',
         round'[q] = round[q], pc'[q] = pc[q]
  PROVE  Listed(q)'
<1>1. \A c : Active(q, c).pid = q
  BY DEF Active
<1>. QED  BY <1>1 DEF Listed

\* Nothing is owed that a step without a round and without a deletion breaks.
LEMMA StillListed ==
  ASSUME NEW q \in Pids, Listed(q), dir \subseteq dir',
         \/ round'[q] = {}
         \/ round'[q] = round[q] /\ pc'[q] = pc[q]
         \/ round'[q] = round[q] /\ pc'[q] = "loop"
  PROVE  Listed(q)'
BY DEF Listed

\* The round that init_gc begins: its counter and the descriptor it replaces.
LEMMA RoundBegins ==
  ASSUME RepsOK, NEW p \in Pids, InitGc(p)
  PROVE  \E r : /\ Publish(p, Active(p, rep[p].marker.counter + 1), r)
                /\ r.marker.counter = rep[p].marker.counter + 1
                /\ r.old = Active(p, rep[p].marker.counter)
<1> DEFINE g == rep[p].marker.counter
           t == Refreshed(rep[p], p)
           begun == [marker   |-> [counter  |-> g + 1,
                                   stable   |-> StableFrontier(t.matrix, t.finals, p),
                                   departed |-> DepartedPids(t.matrix, t.finals)],
                     previous |-> GcCounters(cache[p]),
                     old      |-> Active(p, g)]
<1>1. t.marker = rep[p].marker
  BY DEF Refreshed, RepsOK, IsRep
<1>2. Active(p, g + 1).gc = g + 1
  BY Zenon DEF Active
<1>3. Publish(p, Active(p, g + 1), begun)
  BY <1>1, <1>2, Zenon DEF InitGc
<1>4. begun.marker.counter = g + 1 /\ begun.old = Active(p, g)
  OBVIOUS
<1> HIDE DEF begun
<1>. QED  BY <1>3, <1>4

\* The descriptors of the steps of a GC round.
LEMMA RoundKeepsListed ==
  ASSUME FixedInv, \A q \in Pids : Listed(q), NEW p \in Pids,
         InitGc(p) \/ ValidateGc(p) \/ WithdrawGc(p) \/ Relist(p) \/ CompleteGc(p) \/ DeleteOld(p)
  PROVE  \A q \in Pids : Listed(q)'
<1>1. RepsOK /\ RoundsOK /\ LoopOK
  BY Parts
<1>2. Pids = DOMAIN round /\ Pids = DOMAIN pc
  BY <1>1 DEF RoundsOK, LoopOK
<1>3. \A c : Active(p, c).pid = p
  BY DEF Active
<1>4. ASSUME \A d \in dir : d.pid # p => d \in dir',
             UNCHANGED round \/ (\E R : round' = [round EXCEPT ![p] = R]),
             \E x : pc' = [pc EXCEPT ![p] = x], Listed(p)'
      PROVE  \A q \in Pids : Listed(q)'
  <2>1. \A q \in Pids : q # p => round'[q] = round[q] /\ pc'[q] = pc[q]
    BY <1>2, <1>4, Zenon
  <2>. QED  BY <2>1, <1>4, OthersListed, Zenon
<1>6. CASE InitGc(p)
  <2> DEFINE g == rep[p].marker.counter
             new == Active(p, g + 1)
  <2>1. g \in Int /\ Listed(p) /\ pc[p] = "loop"
    <3>1. IsMarker(rep[p].marker)
      BY <1>1, Zenon DEF RepsOK, IsRep
    <3>2. g \in 0 .. MaxGc /\ MaxGc \in Nat
      BY <3>1, ConstantsAssumption, Zenon DEF IsMarker
    <3>3. g \in Int
      BY ONLY <3>2, SMT, Z3
    <3>. QED  BY <3>3, <1>6 DEF InitGc, Idle
  <2>4. PICK r : Publish(p, new, r) /\ r.marker.counter = g + 1 /\ r.old = Active(p, g)
    BY <1>1, <1>6, RoundBegins, ZenonT(30)
  <2>5. r.old.pid = p /\ r.old # new /\ new.pid = p
    <3>1. g # g + 1 /\ Active(p, g).gc = g /\ new.gc = g + 1
      BY <2>1 DEF Active
    <3>2. Active(p, g).pid = p /\ new.pid = p
      BY DEF Active
    <3> HIDE DEF new
    <3>. QED  BY <2>4, <3>1, <3>2, ZenonT(30)
  <2>6. /\ dir \subseteq dir'
        /\ \/ UNCHANGED <<round, pc>>
           \/ /\ new \notin dir /\ dir' = dir \cup {new}
              /\ round' = [round EXCEPT ![p] = {r}] /\ pc' = [pc EXCEPT ![p] = "validate"]
    BY <2>4 DEF Publish
  <2>7. CASE UNCHANGED <<round, pc>>
    BY <2>6, <2>7, StillListed, Zenon
  <2>8. CASE /\ new \notin dir /\ dir' = dir \cup {new}
             /\ round' = [round EXCEPT ![p] = {r}] /\ pc' = [pc EXCEPT ![p] = "validate"]
    <3>1. round'[p] = {r} /\ pc'[p] = "validate"
      BY <2>8, <1>2, ZenonT(30)
    <3>2. PICK d \in dir : d.pid = p
      BY <2>1 DEF Listed
    <3>3. d \in dir' /\ d # new /\ new \in dir'
      BY <2>8, <3>2, Zenon
    <3> HIDE DEF new
    <3>4. Active(p, r.marker.counter) = new
      BY <2>4 DEF new
    <3>5. Listed(p)'
      BY <3>1, <3>2, <3>3, <3>4, <2>5, ZenonT(30) DEF Listed
    <3>. QED  BY <3>5, <2>6, <2>8, <1>4, ZenonT(30)
  <2>. QED  BY <2>6, <2>7, <2>8, ZenonT(30)
<1>7. CASE ValidateGc(p)
  <2>1. UNCHANGED <<dir, round>> /\ \E x \in {"complete", "abort", "withdraw"} : pc' = [pc EXCEPT ![p] = x]
    BY <1>7, Zenon DEF ValidateGc, storage
  <2>2. pc[p] = "validate" /\ pc'[p] \in {"complete", "abort", "withdraw"} /\ round'[p] = round[p]
    BY <1>2, <1>7, <2>1, ZenonT(30) DEF ValidateGc
  <2>3. Listed(p)'
    BY <2>1, <2>2 DEF Listed
  <2>. QED  BY <2>1, <2>3, <1>4, Zenon
<1>8. CASE WithdrawGc(p)
  <2>1. PICK r \in round[p] : dir' = dir \ {Active(p, r.marker.counter)} \/ dir' = dir
    BY <1>8, Zenon DEF WithdrawGc
  <2>2. PICK d \in dir : d.pid = p /\ d # Active(p, r.marker.counter)
    BY <1>8, Zenon DEF WithdrawGc, Listed
  <2>3. d \in dir' /\ \A e \in dir : e.pid # p => e \in dir'
    BY <2>1, <2>2, <1>3, Zenon
  <2>4. /\ round' = [round EXCEPT ![p] = {}] /\ round'[p] = {}
        /\ \E x : pc' = [pc EXCEPT ![p] = x]
    BY <1>2, <1>8, Zenon DEF WithdrawGc
  <2>5. Listed(p)'
    BY <2>2, <2>3, <2>4, ZenonT(30) DEF Listed
  <2>. QED  BY <2>3, <2>4, <2>5, <1>4, Zenon
<1>9. CASE Relist(p)
  <2>1. UNCHANGED <<dir, round>> /\ pc' = [pc EXCEPT ![p] = "loop"]
    BY <1>9 DEF Relist, storage
  <2>2. \A q \in Pids : pc'[q] = pc[q] \/ pc'[q] = "loop"
    BY <2>1, <1>2
  <2>. QED  BY <2>1, <2>2, StillListed, ZenonT(30)
<1>10. CASE CompleteGc(p)
  <2>1. /\ UNCHANGED dir /\ pc[p] = "complete"
        /\ \/ UNCHANGED round /\ \E x \in {"old", "departed"} : pc' = [pc EXCEPT ![p] = x]
           \/ round' = [round EXCEPT ![p] = {}] /\ pc' = [pc EXCEPT ![p] = "loop"]
    BY <1>10 DEF CompleteGc
  <2>2. /\ round'[p] = {} \/ (round'[p] = round[p] /\ pc'[p] \in {"old", "departed"})
        /\ dir' = dir
    BY <2>1, <1>2, ZenonT(30)
  <2>3. Listed(p)'
    BY <2>1, <2>2 DEF Listed
  <2>. QED  BY <2>1, <2>3, <1>4, ZenonT(30)
<1>11. CASE DeleteOld(p)
  <2>1. PICK r \in round[p] : dir' = dir \ {r.old} \/ dir' = dir
    BY <1>11, ZenonT(30) DEF DeleteOld
  <2>2. Active(p, r.marker.counter) \in dir' /\ \A e \in dir : e.pid # p => e \in dir'
    BY <1>11, <2>1 DEF DeleteOld, Listed
  <2>3. /\ round' = [round EXCEPT ![p] = {}] /\ round'[p] = {}
        /\ pc' = [pc EXCEPT ![p] = "loop"]
    BY <1>2, <1>11, Zenon DEF DeleteOld
  <2>4. Listed(p)'
    BY <2>2, <2>3, <1>3, ZenonT(30) DEF Listed
  <2>. QED  BY <2>2, <2>3, <2>4, <1>4, ZenonT(30)
<1>. QED  BY <1>6, <1>7, <1>8, <1>9, <1>10, <1>11, ZenonT(30)

\* No step of a replica that stays up removes it from the directory.
LEMMA StepKeepsListed ==
  ASSUME FixedInv, Leavers = {}, \A q \in Pids : Listed(q), Step
  PROVE  \A q \in Pids : Listed(q)'
<1>1. ASSUME UNCHANGED <<dir, round, pc>>
      PROVE  \A q \in Pids : Listed(q)'
  BY <1>1, StillListed, ZenonT(30)
<1>2. ASSUME NEW p \in Pids, RunLoop(p) PROVE \A q \in Pids : Listed(q)'
  <2>1. CASE RefreshOwn(p) \/ \E q \in writers[p] : PullDelta(p, q)
    BY <2>1, <1>1, ZenonT(30) DEF RefreshOwn, PullDelta, storage, control
  <2>2. CASE \E m \in msgs : HandleVersionVector(p, m) \/ RefuseDelta(p, m) \/ HandleDelta(p, m)
    BY <2>2, <1>1, Zenon DEF HandleVersionVector, RefuseDelta, HandleDelta, storage, control
  <2>3. CASE ApplyPoll(p)
    <3>1. StoreOK /\ LoopOK
      BY Parts
    <3>2. PICK members \in poll[p] :
            pc' = [pc EXCEPT ![p] = IF {d \in members : IsShutdown(d)} = {} THEN "loop" ELSE "departures"]
      BY <2>3, Zenon DEF ApplyPoll
    <3>3. {d \in members : IsShutdown(d)} = {}
      BY <3>1, Zenon DEF LoopOK, IsShutdown
    <3>4. \A q \in Pids : pc'[q] = pc[q] \/ pc'[q] = "loop"
      BY <3>1, <3>2, <3>3, Zenon DEF LoopOK
    <3>. QED  BY <3>4, <2>3, StillListed, Zenon DEF ApplyPoll, storage
  <2>4. CASE InitGc(p) \/ ValidateGc(p) \/ WithdrawGc(p) \/ Relist(p) \/ CompleteGc(p) \/ DeleteOld(p)
    BY <2>4, RoundKeepsListed, Zenon
  <2>. QED  BY <1>2, <2>1, <2>2, <2>3, <2>4, NobodyJoinsOrLeaves, ZenonT(30) DEF RunLoop
<1>3. ASSUME NEW p \in Pids, Mutate(p) \/ Poll(p) PROVE \A q \in Pids : Listed(q)'
  BY <1>1, <1>3, Zenon DEF Mutate, Poll, storage, control
<1>4. ASSUME NEW p \in Pids, NEW q \in Pids, Connect(p, q) PROVE \A x \in Pids : Listed(x)'
  BY <1>1, <1>4 DEF Connect, storage, control
<1>. QED  BY <1>2, <1>3, <1>4, NobodyJoinsOrLeaves, ConstantsAssumption, ZenonT(30) DEF Step, Pids

-----------------------------------------------------------------------------
(* Published GC rounds.                                                    *)

\* The descriptor that a round replaces has a lower counter.
RoundsRise == \A p \in Pids : \A r \in round[p] : r.old.gc < r.marker.counter

\* The directory shows every round that a replica has applied or is being told
\* about.
GcInv ==
  /\ RoundsRise
  /\ \A p \in Pids : PublishedFor(rep[p].marker.counter)
  /\ \A m \in msgs : m.kind = "delta" => PublishedFor(m.gc.counter)

\* The steps of a GC round withdraw nothing that anybody has applied.
LEMMA StepOfRound ==
  ASSUME FixedInv, \A q \in Pids : Listed(q), RoundsRise, NEW p \in Pids,
         InitGc(p) \/ ValidateGc(p) \/ WithdrawGc(p) \/ Relist(p) \/ CompleteGc(p) \/ DeleteOld(p)
  PROVE  /\ \A c \in Int : PublishedFor(c) => PublishedFor(c)'
         /\ RoundsRise'
<1>1. RepsOK /\ RoundsOK /\ LoopOK /\ StoreOK
  BY Parts, Zenon
<1>2. Pids = DOMAIN round /\ Pids = DOMAIN pc
  BY <1>1 DEF RoundsOK, LoopOK
<1>3. \A d \in dir : d.gc \in Int
  <2>1. \A d \in dir : d.gc \in 0 .. MaxGc
    BY <1>1, ZenonT(30) DEF StoreOK, IsDescriptor
  <2>. QED  BY <2>1, SMT, Z3
<1>4. \A r \in round[p] : r.marker.counter \in Int
  <2>1. \A r \in round[p] : IsMarker(r.marker)
    BY <1>1 DEF RoundsOK, IsRound
  <2>2. \A m : IsMarker(m) => m.counter \in 0 .. MaxGc
    BY Zenon DEF IsMarker
  <2>. QED  BY <2>1, <2>2, SMT, Z3
<1>5. pc[p] = "old" => \A r \in round[p] : Active(p, r.marker.counter) \in dir
  BY DEF Listed
<1>6. CASE InitGc(p)
  <2> DEFINE g == rep[p].marker.counter
  <2>1. PICK r : Publish(p, Active(p, g + 1), r) /\ r.marker.counter = g + 1 /\ r.old = Active(p, g)
    BY <1>1, <1>6, RoundBegins, Zenon
  <2>2. r.old.gc < r.marker.counter
    <3>1. IsMarker(rep[p].marker)
      BY <1>1, Zenon DEF RepsOK, IsRep
    <3>2. g \in 0 .. MaxGc
      BY <3>1, Zenon DEF IsMarker
    <3>3. g < g + 1
      BY ONLY <3>2, SMT, Z3
    <3>4. r.old.gc = g
      BY <2>1, SMT, Z3 DEF Active
    <3>. QED  BY <2>1, <3>3, <3>4, ZenonT(30)
  <2>3. Publish(p, Active(p, r.marker.counter), r)
    BY <2>1, Zenon
  <2>4. \A c \in Int : PublishedFor(c) => PublishedFor(c)'
    BY <1>2, <1>3, <1>4, <1>5, <2>3, RoundKeepsPublished, ZenonT(30) DEF RoundsRise
  <2>5. UNCHANGED round \/ round' = [round EXCEPT ![p] = {r}]
    BY <2>1 DEF Publish
  <2>. QED  BY <1>2, <2>2, <2>4, <2>5, ZenonT(30) DEF RoundsRise
<1>7. CASE ValidateGc(p) \/ WithdrawGc(p) \/ Relist(p) \/ CompleteGc(p) \/ DeleteOld(p)
  <2>1. \A c \in Int : PublishedFor(c) => PublishedFor(c)'
    BY <1>2, <1>3, <1>4, <1>5, <1>7, RoundKeepsPublished, ZenonT(30) DEF RoundsRise
  <2>2. UNCHANGED round \/ round' = [round EXCEPT ![p] = {}]
    BY <1>7, ZenonT(30) DEF ValidateGc, WithdrawGc, Relist, CompleteGc, DeleteOld
  <2>. QED  BY <1>2, <2>1, <2>2, ZenonT(30) DEF RoundsRise
<1>. QED  BY <1>6, <1>7

\* No step of a replica that stays up withdraws what anybody has applied.
LEMMA StepKeepsPublished ==
  ASSUME FixedInv, Leavers = {}, \A q \in Pids : Listed(q), RoundsRise, Step
  PROVE  /\ \A c \in Int : PublishedFor(c) => PublishedFor(c)'
         /\ RoundsRise'
<1> DEFINE Goal == (\A c \in Int : PublishedFor(c) => PublishedFor(c)') /\ RoundsRise'
<1>1. ASSUME UNCHANGED <<dir, round>>, \A q \in Pids : pc'[q] = pc[q] \/ pc'[q] = "loop"
      PROVE  Goal
  BY <1>1, StillPublished, Zenon DEF RoundsRise
<1>2. ASSUME UNCHANGED <<dir, round, pc>> PROVE Goal
  BY <1>1, <1>2, Zenon
<1>3. ASSUME NEW p \in Pids, RunLoop(p) PROVE Goal
  <2>1. CASE RefreshOwn(p) \/ \E q \in writers[p] : PullDelta(p, q)
    BY <2>1, <1>2, Zenon DEF RefreshOwn, PullDelta, storage, control
  <2>2. CASE \E m \in msgs : HandleVersionVector(p, m) \/ RefuseDelta(p, m) \/ HandleDelta(p, m)
    BY <2>2, <1>2, ZenonT(30) DEF HandleVersionVector, RefuseDelta, HandleDelta, storage, control
  <2>3. CASE ApplyPoll(p)
    <3>1. StoreOK /\ LoopOK
      BY Parts
    <3>2. PICK members \in poll[p] :
            pc' = [pc EXCEPT ![p] = IF {d \in members : IsShutdown(d)} = {} THEN "loop" ELSE "departures"]
      BY <2>3, Zenon DEF ApplyPoll
    <3>3. {d \in members : IsShutdown(d)} = {}
      BY <3>1, Zenon DEF LoopOK, IsShutdown
    <3>4. \A q \in Pids : pc'[q] = pc[q] \/ pc'[q] = "loop"
      BY <3>1, <3>2, <3>3, Zenon DEF LoopOK
    <3>5. UNCHANGED <<dir, round>>
      BY <2>3, Zenon DEF ApplyPoll, storage
    <3>. QED  BY <3>4, <3>5, <1>1, ZenonT(30)
  <2>4. CASE InitGc(p) \/ ValidateGc(p) \/ WithdrawGc(p) \/ Relist(p) \/ CompleteGc(p) \/ DeleteOld(p)
    BY <2>4, StepOfRound, Zenon
  <2>. QED  BY <1>3, <2>1, <2>2, <2>3, <2>4, NobodyJoinsOrLeaves, ZenonT(30) DEF RunLoop
<1>4. ASSUME NEW p \in Pids, Mutate(p) \/ Poll(p) PROVE Goal
  BY <1>2, <1>4, Zenon DEF Mutate, Poll, storage, control
<1>5. ASSUME NEW p \in Pids, NEW q \in Pids, Connect(p, q) PROVE Goal
  BY <1>2, <1>5, Zenon DEF Connect, storage, control
<1> HIDE DEF Goal
<1>6. Goal
  BY <1>3, <1>4, <1>5, NobodyJoinsOrLeaves, ConstantsAssumption, ZenonT(30) DEF Step, Pids
<1>. QED  BY <1>6, Zenon DEF Goal

\* Where the marker of a replica may come from: it was there, it came with a
\* delta group, or the replica completed its own round.
Taken(q) ==
  \/ rep'[q].marker = rep[q].marker
  \/ \E m \in msgs : m.kind = "delta" /\ rep'[q].marker = m.gc
  \/ pc[q] = "complete" /\ CompleteGc(q) /\ \E r \in round[q] : rep'[q].marker = r.marker

\* Every marker of a step is one of these.
LEMMA MarkersTaken ==
  ASSUME FixedInv, Leavers = {}, Step
  PROVE  \A q \in Pids : Taken(q)
<1>1. RepsOK /\ MsgsOK /\ RoundsOK
  BY Parts
<1>2. ASSUME UNCHANGED rep PROVE \A q \in Pids : Taken(q)
  BY <1>2, Zenon DEF Taken
<1>3. ASSUME NEW p \in Pids, NEW s, rep' = [rep EXCEPT ![p] = s], s.marker = rep[p].marker
      PROVE  \A q \in Pids : Taken(q)
  BY <1>1, <1>3, Zenon DEF RepsOK, Taken
<1>4. \A p, s : IsRep(s) => Refreshed(s, p).marker = s.marker
  BY Zenon DEF Refreshed, IsRep
<1>5. ASSUME NEW p \in Pids, RunLoop(p) PROVE \A q \in Pids : Taken(q)
  <2>1. CASE RefreshOwn(p) \/ (\E q \in writers[p] : PullDelta(p, q)) \/ InitGc(p)
    <3>1. rep' = [rep EXCEPT ![p] = Refreshed(rep[p], p)]
      BY <2>1, Zenon DEF RefreshOwn, PullDelta, InitGc
    <3>. QED  BY <3>1, <1>1, <1>3, <1>4, ZenonT(30) DEF RepsOK
  <2>2. CASE \E m \in msgs : HandleVersionVector(p, m)
    <3>1. PICK M : rep' = [rep EXCEPT ![p] = Refreshed([rep[p] EXCEPT !.matrix = M], p)]
      BY <2>2, Zenon DEF HandleVersionVector
    <3>2. Refreshed([rep[p] EXCEPT !.matrix = M], p).marker = rep[p].marker
      BY <1>1, SMT, Z3 DEF RepsOK, IsRep, Refreshed
    <3>. QED  BY <3>1, <3>2, <1>3, ZenonT(30)
  <2>3. CASE \E m \in msgs : HandleDelta(p, m)
    <3>1. PICK m \in msgs : HandleDelta(p, m)
      BY <2>3
    <3> DEFINE s == Observed(rep[p], p, m.gc)
    <3>2. /\ IsDotMap(m.list) /\ IsMarker(m.gc) /\ m.gc.departed = {} /\ Behind(m.gc.stable)
          /\ \A r \in Pids : \A e \in m.list[r] :
               /\ e <= Get(rep[r].vv, r)
               /\ \A c \in 0 .. e : c > Get(rep[p].vv, r) => c \in m.list[r]
      BY <1>1, <3>1, Zenon DEF HandleDelta, MsgsOK, IsMessage, Fits
    <3>3. Fine(p, s) /\ s.vv = rep[p].vv
      BY <3>2, ObservedFine, Zenon
    <3>4. s.marker \in {rep[p].marker, m.gc}
      BY Zenon DEF Observed, AfterMarker
    <3> HIDE DEF s
    <3>5. Insertable(s.vv, m.list) /\ Fine(p, Merged(s, m.list))
      BY <3>2, <3>3, MergedFine, ZenonT(30)
    <3>6. rep' = [rep EXCEPT ![p] = Refreshed(Merged(s, m.list), p)]
      BY <3>1, <3>5, Zenon DEF HandleDelta, ApplyGroup, s
    <3>7. Merged(s, m.list).marker = s.marker /\ IsRep(Merged(s, m.list))
      BY <3>5, Zenon DEF Merged, Fine
    <3>8. rep'[p].marker = s.marker /\ \A q \in Pids : q # p => rep'[q] = rep[q]
      BY <1>1, <1>4, <3>6, <3>7, ZenonT(30) DEF RepsOK
    <3>. QED  BY <3>1, <3>4, <3>8, ZenonT(30) DEF HandleDelta, Taken
  <2>4. CASE ApplyPoll(p)
    <3>1. \E M : rep' = [rep EXCEPT ![p] = [rep[p] EXCEPT !.matrix = M]]
      BY <2>4, ZenonT(30) DEF ApplyPoll
    <3>2. \A M : [rep[p] EXCEPT !.matrix = M].marker = rep[p].marker
      BY <1>1, SMT, Z3 DEF RepsOK, IsRep
    <3>. QED  BY <3>1, <3>2, <1>3, Zenon
  <2>5. CASE CompleteGc(p)
    <3>1. PICK r \in round[p] : rep' = [rep EXCEPT ![p] = AfterMarker(rep[p], p, r.marker)]
      BY <2>5, ZenonT(30) DEF CompleteGc
    <3>2. AfterMarker(rep[p], p, r.marker).marker = r.marker
      BY DEF AfterMarker
    <3>3. rep'[p].marker = r.marker /\ \A q \in Pids : q # p => rep'[q] = rep[q]
      BY <1>1, <3>1, <3>2, ZenonT(30) DEF RepsOK
    <3>4. pc[p] = "complete"
      BY <2>5 DEF CompleteGc
    <3>. QED  BY <2>5, <3>3, <3>4, ZenonT(30) DEF Taken
  <2>6. CASE (\E m \in msgs : RefuseDelta(p, m)) \/ ValidateGc(p) \/ WithdrawGc(p) \/ Relist(p) \/ DeleteOld(p)
    BY <2>6, <1>2, ZenonT(30) DEF RefuseDelta, ValidateGc, WithdrawGc, Relist, DeleteOld
  <2>. QED  BY <1>5, <2>1, <2>2, <2>3, <2>4, <2>5, <2>6, NobodyJoinsOrLeaves, ZenonT(30) DEF RunLoop
<1>6. ASSUME NEW p \in Pids, Mutate(p) \/ Poll(p) PROVE \A q \in Pids : Taken(q)
  <2>1. Mutated(rep[p], p).marker = rep[p].marker
    BY Zenon DEF Mutated
  <2>. QED  BY <1>6, <2>1, <1>2, <1>3, ZenonT(30) DEF Mutate, Poll
<1>7. ASSUME NEW p \in Pids, NEW q \in Pids, Connect(p, q) PROVE \A x \in Pids : Taken(x)
  BY <1>7, <1>2, Zenon DEF Connect
<1>. QED  BY <1>5, <1>6, <1>7, NobodyJoinsOrLeaves, ConstantsAssumption, ZenonT(30) DEF Step, Pids

-----------------------------------------------------------------------------
(* Acknowledged mutations.                                                 *)

\* The run loop leaves the own entries of the version vectors alone: a delta
\* group has no dot of the receiver that the receiver lacks.
LEMMA LoopKeepsOwnEntries ==
  ASSUME FixedInv, Leavers = {}, NEW p \in Pids, RunLoop(p)
  PROVE  UNCHANGED acked /\ \A q \in Pids : Get(rep'[q].vv, q) = Get(rep[q].vv, q)
<1>1. RepsOK /\ MsgsOK /\ RoundsOK /\ LoopOK
  BY Parts, Zenon
<1>2. ASSUME NEW s, rep' = [rep EXCEPT ![p] = s], Get(s.vv, p) = Get(rep[p].vv, p)
      PROVE  \A q \in Pids : Get(rep'[q].vv, q) = Get(rep[q].vv, q)
  BY <1>1, <1>2, Zenon DEF RepsOK
<1>3. \A s : IsRep(s) => Refreshed(s, p).vv = s.vv
  BY Zenon DEF Refreshed, IsRep
<1>4. CASE RefreshOwn(p) \/ (\E q \in writers[p] : PullDelta(p, q)) \/ InitGc(p)
  <2>1. rep' = [rep EXCEPT ![p] = Refreshed(rep[p], p)] /\ UNCHANGED acked
    BY <1>4, ZenonT(30) DEF RefreshOwn, PullDelta, InitGc
  <2>. QED  BY <2>1, <1>1, <1>2, <1>3, ZenonT(30) DEF RepsOK
<1>5. CASE \E m \in msgs : HandleVersionVector(p, m)
  <2>1. PICK M : rep' = [rep EXCEPT ![p] = Refreshed([rep[p] EXCEPT !.matrix = M], p)]
    BY <1>5, Zenon DEF HandleVersionVector
  <2>2. Refreshed([rep[p] EXCEPT !.matrix = M], p).vv = rep[p].vv
    BY <1>1, SMT, Z3 DEF RepsOK, IsRep, Refreshed
  <2>. QED  BY <2>1, <2>2, <1>2, <1>5, ZenonT(30) DEF HandleVersionVector
<1>6. CASE \E m \in msgs : HandleDelta(p, m)
  <2>1. PICK m \in msgs : HandleDelta(p, m)
    BY <1>6
  <2> DEFINE s == Observed(rep[p], p, m.gc)
  <2>2. /\ IsDotMap(m.list) /\ IsMarker(m.gc) /\ m.gc.departed = {} /\ Behind(m.gc.stable)
        /\ \A r \in Pids : \A e \in m.list[r] :
             /\ e <= Get(rep[r].vv, r)
             /\ \A c \in 0 .. e : c > Get(rep[p].vv, r) => c \in m.list[r]
    BY <1>1, <2>1, ZenonT(30) DEF HandleDelta, MsgsOK, IsMessage, Fits
  <2>3. Fine(p, s) /\ s.vv = rep[p].vv
    BY <2>2, ObservedFine, ZenonT(30)
  <2> HIDE DEF s
  <2>4. Insertable(s.vv, m.list) /\ Fine(p, Merged(s, m.list))
    BY <2>2, <2>3, MergedFine, ZenonT(30)
  <2> DEFINE v == rep[p].vv
             V == MergedVector(v, m.list)
  <2>5. rep' = [rep EXCEPT ![p] = Refreshed(Merged(s, m.list), p)] /\ UNCHANGED acked
    BY <2>1, <2>4, Zenon DEF HandleDelta, ApplyGroup, s
  <2>6. Refreshed(Merged(s, m.list), p).vv = V
    <3>1. IsRep(Merged(s, m.list)) /\ Merged(s, m.list).vv = V
      BY <2>3, <2>4, ZenonT(30) DEF Fine, Merged
    <3>. QED  BY <3>1, <1>3, Zenon
  <2>7. IsDotSet(v) /\ Get(v, p) \in Int
    BY VectorType DEF FixedInv
  <2>8. Get(v, p) <= Get(V, p) /\ Get(V, p) \in m.list[p] \cup {Get(v, p)}
    <3>1. \A r \in Pids : \A e \in m.list[r] : \A c \in 0 .. e : c > Get(v, r) => c \in m.list[r]
      BY <2>2, Zenon
    <3> HIDE DEF v
    <3>. QED  BY <3>1, <2>2, <2>7, MergedVectorProperty, Zenon
  <2>9. \A e \in m.list[p] : e \in Int /\ e <= Get(v, p)
    <3>1. m.list[p] \subseteq Nat
      BY <2>2, Zenon DEF IsDotMap
    <3>. QED  BY <3>1, <2>2, SMT, Z3
  <2> HIDE DEF v, V
  <2>10. Get(V, p) = Get(v, p)
    BY ONLY <2>7, <2>8, <2>9, SMTT(30), Z3T(30)
  <2>. QED  BY <2>5, <2>6, <2>10, <1>2, ZenonT(30) DEF v
<1>7. CASE ApplyPoll(p)
  <2>1. UNCHANGED acked /\ \E M : rep' = [rep EXCEPT ![p] = [rep[p] EXCEPT !.matrix = M]]
    BY <1>7, Zenon DEF ApplyPoll
  <2>2. \A M : [rep[p] EXCEPT !.matrix = M].vv = rep[p].vv
    BY <1>1, SMT, Z3 DEF RepsOK, IsRep
  <2>. QED  BY <2>1, <2>2, <1>2, ZenonT(30)
<1>8. CASE CompleteGc(p)
  <2>1. UNCHANGED acked
    BY <1>8 DEF CompleteGc
  <2>2. PICK r \in round[p] : rep' = [rep EXCEPT ![p] = AfterMarker(rep[p], p, r.marker)]
    BY <1>8, Zenon DEF CompleteGc
  <2>3. IsMarker(r.marker) /\ r.marker.departed = {} /\ Behind(r.marker.stable)
    BY <1>1, ZenonT(30) DEF RoundsOK, IsRound
  <2>4. AfterMarker(rep[p], p, r.marker).vv = rep[p].vv
    BY <2>3, CurrentFine, AfterMarkerFine, SMTT(30), Z3T(30)
  <2>. QED  BY <2>1, <2>2, <2>4, <1>2, ZenonT(30)
<1>9. CASE (\E m \in msgs : RefuseDelta(p, m)) \/ ValidateGc(p) \/ WithdrawGc(p) \/ Relist(p) \/ DeleteOld(p)
  <2>1. UNCHANGED <<rep, acked>>
    BY <1>9, Zenon DEF RefuseDelta, ValidateGc, WithdrawGc, Relist, DeleteOld
  <2>. QED  BY <2>1
<1>. QED  BY <1>4, <1>5, <1>6, <1>7, <1>8, <1>9, NobodyJoinsOrLeaves, ZenonT(30) DEF RunLoop

\* DotSet::increment_and_get adds one to the own entry, also to a missing one.
LEMMA NextEntry ==
  ASSUME NEW v, IsDotSet(v), NEW p
  PROVE  Get(SetCounter(v, p, NextCounter(v, p)), p) = Get(v, p) + 1
<1>1. Get(SetCounter(v, p, NextCounter(v, p)), p) = NextCounter(v, p)
  BY DEF SetCounter, Get
<1>2. NextCounter(v, p) = Get(v, p) + 1
  BY SMT, Z3 DEF NextCounter, Get, IsDotSet
<1>. QED  BY <1>1, <1>2, Zenon

\* A step of a replica that stays up counts what it acknowledges.
LEMMA StepKeepsCount ==
  ASSUME FixedInv, Leavers = {}, \A q \in Pids : Counted(q), Step
  PROVE  \A q \in Pids : Counted(q)'
<1>1. ASSUME UNCHANGED acked, \A q \in Pids : Get(rep'[q].vv, q) = Get(rep[q].vv, q)
      PROVE  \A q \in Pids : Counted(q)'
  BY <1>1, Zenon DEF Counted
<1>2. ASSUME NEW p \in Pids, Mutate(p) PROVE \A q \in Pids : Counted(q)'
  <2>1. RepsOK /\ LoopOK
    BY Parts
  <2>2. IsDotSet(rep[p].vv) /\ acked[p] \in Nat /\ DOMAIN acked = Pids
    BY <2>1, Zenon DEF RepsOK, IsRep, LoopOK
  <2>3. Get(Mutated(rep[p], p).vv, p) = Get(rep[p].vv, p) + 1
    <3>1. Mutated(rep[p], p).vv = SetCounter(rep[p].vv, p, NextCounter(rep[p].vv, p))
      BY Zenon DEF Mutated
    <3>. QED  BY <3>1, <2>2, NextEntry, ZenonT(30)
  <2>4. rep' = [rep EXCEPT ![p] = Mutated(rep[p], p)] /\ acked' = [acked EXCEPT ![p] = acked[p] + 1]
    BY <1>2, Zenon DEF Mutate
  <2>5. Counted(p)'
    BY <2>1, <2>2, <2>3, <2>4, SMT, Z3 DEF Counted, RepsOK
  <2>6. ASSUME NEW q \in Pids, q # p PROVE Counted(q)'
    BY <2>1, <2>2, <2>4, <2>6, ZenonT(30) DEF Counted, RepsOK
  <2>. QED  BY <2>5, <2>6, ZenonT(30)
<1>3. ASSUME NEW p \in Pids, RunLoop(p) \/ Poll(p) PROVE \A q \in Pids : Counted(q)'
  BY <1>1, <1>3, LoopKeepsOwnEntries, ZenonT(30) DEF Poll
<1>4. ASSUME NEW p \in Pids, NEW q \in Pids, Connect(p, q) PROVE \A x \in Pids : Counted(x)'
  BY <1>1, <1>4, Zenon DEF Connect
<1>. QED  BY <1>2, <1>3, <1>4, NobodyJoinsOrLeaves, ConstantsAssumption, ZenonT(30) DEF Step, Pids

-----------------------------------------------------------------------------
(* Deltas are applied once.                                                *)

\* From s to t no delta enters the log that s has applied.
NewDeltas(s, t) == \A r \in Pids : (t.log[r] \ s.log[r]) \cap s.applied[r] = {}

\* Applying a GC marker only takes deltas out of the log.
LEMMA MarkerAddsNothing ==
  ASSUME NEW s, IsRep(s), NEW p, NEW m
  PROVE  /\ AfterMarker(s, p, m).applied = s.applied /\ Observed(s, p, m).applied = s.applied
         /\ \A r \in Pids : /\ AfterMarker(s, p, m).log[r] \subseteq s.log[r]
                            /\ Observed(s, p, m).log[r] \subseteq s.log[r]
<1>1. Pids = DOMAIN s.log
  BY DEF IsRep, IsDotMap
<1>2. AfterMarker(s, p, m).applied = s.applied
  BY Zenon DEF AfterMarker
<1>3. AfterMarker(s, p, m).log = Retain(s.log, m.stable, m.departed)
  BY Zenon DEF AfterMarker
<1>4. \A r \in Pids : Retain(s.log, m.stable, m.departed)[r] \subseteq s.log[r]
  BY <1>1 DEF Retain
<1>. QED  BY <1>2, <1>3, <1>4, ZenonT(30) DEF Observed

\* merge_delta_group skips what the version vector covers, and that is all that
\* was applied.
LEMMA MergeAddsNewDeltas ==
  ASSUME NEW s, IsRep(s), LocalOK(s), NEW list, IsDotMap(list), NEW own
  PROVE  NewDeltas(s, Refreshed(Merged(s, list), own))
<1>1. Refreshed(Merged(s, list), own).log = MergedLog(s.log, s.vv, list)
  BY DEF Refreshed, Merged
<1>2. ASSUME NEW r \in Pids
      PROVE  (MergedLog(s.log, s.vv, list)[r] \ s.log[r]) \cap s.applied[r] = {}
  <2>1. r \in DOMAIN s.log /\ r \in DOMAIN list /\ list[r] \subseteq Nat
    BY Zenon DEF IsRep, IsDotMap
  <2>2. MergedLog(s.log, s.vv, list)[r] = s.log[r] \cup Missing(s.vv, list, r)
    BY <2>1, Zenon DEF MergedLog
  <2>3. s.applied[r] = 0 .. Get(s.vv, r) /\ Get(s.vv, r) \in Int
    BY GetType, ZenonT(30) DEF LocalOK, IsRep
  <2>4. ASSUME NEW c \in Missing(s.vv, list, r)
        PROVE  c \notin 0 .. Get(s.vv, r)
    <3>1. c \in Nat /\ ~Contains(s.vv, r, c)
      BY <2>1, <2>4, Zenon DEF Missing
    <3>. QED  BY <2>3, <3>1, SMTT(30), Z3T(30) DEF Contains, Get
  <2>. QED  BY <2>2, <2>3, <2>4, ZenonT(30)
<1>. QED  BY <1>1, <1>2, Zenon DEF NewDeltas

\* A run loop adds only new deltas to its replica's log ...
LEMMA LoopAddsNewDeltas ==
  ASSUME FixedInv, Leavers = {}, NEW p \in Pids, RunLoop(p)
  PROVE  \A q \in Pids : NewDeltas(rep[q], rep'[q])
<1>1. RepsOK /\ MsgsOK /\ RoundsOK
  BY Parts
<1>2. \A s, t : s.log = t.log => NewDeltas(s, t)
  BY Zenon DEF NewDeltas
<1>3. ASSUME NEW s, rep' = [rep EXCEPT ![p] = s], NewDeltas(rep[p], s)
      PROVE  \A q \in Pids : NewDeltas(rep[q], rep'[q])
  <2>1. \A q \in Pids : rep'[q] = IF q = p THEN s ELSE rep[q]
    BY <1>1, <1>3, Zenon DEF RepsOK
  <2>. QED  BY <2>1, <1>2, <1>3, ZenonT(30)
<1>4. IsRep(rep[p]) /\ LocalOK(rep[p])
  BY <1>1, Zenon DEF RepsOK
<1>5. CASE RefreshOwn(p) \/ (\E q \in writers[p] : PullDelta(p, q)) \/ InitGc(p)
  <2>1. rep' = [rep EXCEPT ![p] = Refreshed(rep[p], p)]
    BY <1>5, Zenon DEF RefreshOwn, PullDelta, InitGc
  <2>2. Refreshed(rep[p], p).log = rep[p].log
    BY <1>4, Zenon DEF Refreshed, IsRep
  <2>. QED  BY <2>1, <2>2, <1>2, <1>3, ZenonT(30)
<1>6. CASE \E m \in msgs : HandleVersionVector(p, m)
  <2>1. PICK M : rep' = [rep EXCEPT ![p] = Refreshed([rep[p] EXCEPT !.matrix = M], p)]
    BY <1>6, ZenonT(30) DEF HandleVersionVector
  <2>2. Refreshed([rep[p] EXCEPT !.matrix = M], p).log = rep[p].log
    BY <1>4, Zenon DEF IsRep, Refreshed
  <2>. QED  BY <2>1, <2>2, <1>2, <1>3, ZenonT(30)
<1>7. CASE \E m \in msgs : HandleDelta(p, m)
  <2>1. PICK m \in msgs : HandleDelta(p, m)
    BY <1>7
  <2> DEFINE s == Observed(rep[p], p, m.gc)
             t == Refreshed(Merged(s, m.list), p)
  <2>2. IsDotMap(m.list) /\ IsMarker(m.gc) /\ m.gc.departed = {} /\ Behind(m.gc.stable)
    BY <1>1, <2>1, Zenon DEF HandleDelta, MsgsOK, IsMessage, Fits
  <2>3. IsRep(s) /\ LocalOK(s)
    BY <2>2, ObservedFine, Zenon DEF Fine
  <2>4. s.applied = rep[p].applied /\ \A r \in Pids : s.log[r] \subseteq rep[p].log[r]
    BY <1>4, MarkerAddsNothing, ZenonT(30)
  <2>5. rep' = [rep EXCEPT ![p] = t] \/ UNCHANGED rep
    BY <2>1, Zenon DEF HandleDelta, ApplyGroup
  <2> HIDE DEF s
  <2>6. NewDeltas(s, t)
    BY <2>2, <2>3, MergeAddsNewDeltas, Zenon
  <2> HIDE DEF t
  <2>7. NewDeltas(rep[p], t)
    BY <2>4, <2>6 DEF NewDeltas
  <2>. QED  BY <2>5, <2>7, <1>2, <1>3, ZenonT(30)
<1>8. CASE ApplyPoll(p)
  <2>1. PICK M : rep' = [rep EXCEPT ![p] = [rep[p] EXCEPT !.matrix = M]]
    BY <1>8, Zenon DEF ApplyPoll
  <2>2. [rep[p] EXCEPT !.matrix = M].log = rep[p].log
    BY <1>4 DEF IsRep
  <2>. QED  BY <2>1, <2>2, <1>2, <1>3, ZenonT(30)
<1>9. CASE CompleteGc(p)
  <2>1. PICK r \in round[p] : rep' = [rep EXCEPT ![p] = AfterMarker(rep[p], p, r.marker)]
    BY <1>9, ZenonT(30) DEF CompleteGc
  <2>2. NewDeltas(rep[p], AfterMarker(rep[p], p, r.marker))
    BY <1>4, MarkerAddsNothing, Zenon DEF NewDeltas
  <2>. QED  BY <2>1, <2>2, <1>3, ZenonT(30)
<1>10. CASE (\E m \in msgs : RefuseDelta(p, m)) \/ ValidateGc(p) \/ WithdrawGc(p) \/ Relist(p) \/ DeleteOld(p)
  <2>1. UNCHANGED rep
    BY <1>10, Zenon DEF RefuseDelta, ValidateGc, WithdrawGc, Relist, DeleteOld
  <2>. QED  BY <2>1, <1>2, ZenonT(30)
<1>. QED  BY <1>5, <1>6, <1>7, <1>8, <1>9, <1>10, NobodyJoinsOrLeaves, ZenonT(30) DEF RunLoop

\* ... and so does every other step of Restart; recovery leaves the log as it is.
LEMMA RNextAddsNewDeltas ==
  ASSUME FixedInv, Joiners = {}, Leavers = {}, RNext
  PROVE  \A q \in Pids : NewDeltas(rep[q], rep'[q])
<1> DEFINE Goal == \A q \in Pids : NewDeltas(rep[q], rep'[q])
<1>1. RepsOK /\ \A q \in Pids : IsRep(rep[q]) /\ LocalOK(rep[q])
  BY Parts, Zenon DEF RepsOK
<1>2. \A s, t : s.log = t.log => NewDeltas(s, t)
  BY Zenon DEF NewDeltas
<1>3. ASSUME NEW p \in Pids, NEW s, rep' = [rep EXCEPT ![p] = s], NewDeltas(rep[p], s)
      PROVE  Goal
  <2>1. \A q \in Pids : rep'[q] = IF q = p THEN s ELSE rep[q]
    BY <1>1, <1>3, Zenon DEF RepsOK
  <2>. QED  BY <2>1, <1>2, <1>3, Zenon
<1>4. ASSUME UNCHANGED rep PROVE Goal
  BY <1>2, <1>4, Zenon
<1>5. ASSUME NEW p \in Pids, Mutate(p) PROVE Goal
  <2> DEFINE c == NextCounter(rep[p].vv, p)
             v == rep[p].vv
  <2>1. rep' = [rep EXCEPT ![p] = Mutated(rep[p], p)]
    BY <1>5, Zenon DEF Mutate
  <2>2. Mutated(rep[p], p).log = [rep[p].log EXCEPT ![p] = @ \cup {c}]
    BY Zenon DEF Mutated
  <2>3. rep[p].applied[p] = 0 .. Get(v, p) /\ IsDotSet(v) /\ IsDotMap(rep[p].log)
    BY <1>1, ZenonT(30) DEF LocalOK, IsRep
  <2>4. Get(v, p) \in Int
    BY <2>3, GetType, Zenon
  <2>5. c = Get(v, p) + 1
    BY <2>3, SMT, Z3 DEF NextCounter, Get, IsDotSet
  <2> HIDE DEF c, v
  <2>6. c \notin rep[p].applied[p]
    BY <2>3, <2>4, <2>5, SMT, Z3
  <2>7. \A r \in Pids : Mutated(rep[p], p).log[r] \subseteq rep[p].log[r] \cup (IF r = p THEN {c} ELSE {})
    BY <2>2, <2>3, ZenonT(30) DEF IsDotMap
  <2>8. NewDeltas(rep[p], Mutated(rep[p], p))
    BY <2>6, <2>7 DEF NewDeltas
  <2>. QED  BY <2>1, <2>8, <1>3, ZenonT(30)
<1>6. ASSUME NEW p \in Pids, NEW m, CrashInDelta(p, m) PROVE Goal
  <2>1. rep' = [rep EXCEPT ![p] = Observed(rep[p], p, m.gc)]
    BY <1>6, Zenon DEF CrashInDelta
  <2>2. NewDeltas(rep[p], Observed(rep[p], p, m.gc))
    BY <1>1, MarkerAddsNothing, Zenon DEF NewDeltas
  <2>. QED  BY <2>1, <2>2, <1>3, Zenon
<1>7. ASSUME NEW p \in Pids, Rejoin(p) PROVE Goal
  <2>1. PICK M : rep' = [rep EXCEPT ![p] = [Recovered(p) EXCEPT !.matrix = M]]
    BY <1>7, Zenon DEF Rejoin
  <2>2. [Recovered(p) EXCEPT !.matrix = M].log = rep[p].log
    BY <1>1, SMT, Z3 DEF Recovered, Rebound, IsRep
  <2>. QED  BY <2>1, <2>2, <1>2, <1>3, ZenonT(30)
<1>8. ASSUME NEW p \in Pids, NEW q \in Pids,
             Crash(p) \/ Reregister(p) \/ LoseWriter(p, q) \/ Poll(p) \/ Connect(p, q)
      PROVE  Goal
  BY <1>4, <1>8, Zenon DEF Crash, Reregister, LoseWriter, Poll, Connect
<1>9. ASSUME NEW p \in Pids, RunLoop(p) PROVE Goal
  BY <1>9, LoopAddsNewDeltas, Zenon
<1> HIDE DEF Goal
<1>10. ASSUME Step PROVE Goal
  BY <1>5, <1>8, <1>9, <1>10, NobodyJoinsOrLeaves, ConstantsAssumption, ZenonT(30) DEF Step, Pids
<1>11. Goal
  BY <1>6, <1>7, <1>8, <1>10, ZenonT(30) DEF RNext
<1>. QED  BY <1>11 DEF Goal

-----------------------------------------------------------------------------
(* Recovery.                                                               *)

\* Replaying a GC marker adds the stable row and nobody's else.
LEMMA ReplayKeepsJournal ==
  ASSUME NEW p \in Pids, NEW w, OwnRowsOnly(w, p), NEW m, IsMarker(m), m.departed = {}
  PROVE  OwnRowsOnly(ReplayedMarker(w, p, m), p)
<1> DEFINE A == w.matrix
           M == ApplyMarker(A, w.finals, p, m)
           x == ReplayedMarker(w, p, m)
<1>1. /\ A = [q \in DOMAIN A |-> A[q]] /\ DOMAIN A \subseteq {p, Stable}
      /\ (\A q \in DOMAIN A : IsDotSet(A[q])) /\ w.finals = NewDotSet
  BY Zenon DEF OwnRowsOnly
<1>2. Removable(A, w.finals, m.departed) = {}
  BY DEF Removable
<1>3. x.matrix = M /\ x.finals = NewDotSet
  <2>1. RemovePids(NewDotSet, {}) = NewDotSet
    BY Zenon DEF RemovePids, NewDotSet
  <2>. QED  BY <2>1, <1>1, <1>2, ZenonT(30) DEF ReplayedMarker
<1>4. \A q \in DOMAIN A : RemovePids(A[q], {}) = A[q]
  BY <1>1, Zenon DEF RemovePids, IsDotSet
<1> HIDE DEF A, x
<1>5. RemoveRows(A, {}) = A
  BY <1>1, <1>4, Zenon DEF RemoveRows
<1>6. M = [q \in DOMAIN A \cup {Stable} |->
             IF q = Stable THEN SetCounter(m.stable, Stable, m.counter)
             ELSE IF q = p THEN SetCounter(A[q], Stable, m.counter) ELSE A[q]]
  BY <1>2, <1>5, ZenonT(30) DEF ApplyMarker, A
<1>7. m.counter \in Int /\ m.counter >= -1 /\ IsDotSet(m.stable)
  BY ConstantsAssumption, SMT, Z3 DEF IsMarker
<1>8. \A v : IsDotSet(v) => IsDotSet(SetCounter(v, Stable, m.counter))
  BY <1>7, Zenon DEF IsDotSet, SetCounter, Columns
<1> HIDE DEF M
<1>9. \A q \in DOMAIN M : IsDotSet(M[q])
  BY <1>1, <1>6, <1>7, <1>8, ZenonT(30)
<1>. QED  BY <1>1, <1>3, <1>6, <1>9, SMTT(30), Z3T(30) DEF x, OwnRowsOnly

\* A member that is listed is discovered, once the listing has no shutdown.
LEMMA EverybodyDiscovered ==
  ASSUME FixedInv, \A q \in Pids : Listed(q), NEW p \in Pids
  PROVE  /\ DOMAIN Discovered(dir, p) = Pids \ {p}
         /\ \A q \in Pids \ {p} : Discovered(dir, p)[q] \in Nat
<1>1. StoreOK
  BY Parts, Zenon
<1>2. {d.pid : d \in {e \in dir : IsShutdown(e)}} = {}
  BY <1>1, Zenon DEF StoreOK, IsShutdown
<1>3. {d.pid : d \in dir} = Pids
  <2>1. (\A d \in dir : d.pid \in Pids) /\ \A q \in Pids : \E d \in dir : d.pid = q
    BY <1>1 DEF StoreOK, IsDescriptor, Listed
  <2>. QED  BY ONLY <2>1, Zenon
<1>4. GcCounters(dir) \in [Pids -> 0 .. MaxGc]
  <2>1. DOMAIN GcCounters(dir) = Pids
    BY <1>3, Zenon DEF GcCounters
  <2>. QED  BY <2>1, <1>1, GcCountersType, Zenon DEF StoreOK
<1>5. Discovered(dir, p) = [q \in Pids \ {p} |-> GcCounters(dir)[q]]
  BY <1>2, <1>3, Zenon DEF Discovered
<1>. QED  BY <1>4, <1>5, ConstantsAssumption, SMT, Z3

\* A replica that comes back knows nothing of the others' vectors that is not
\* true: it has their deltas, and rows that claim nothing.
LEMMA RecoveredFine ==
  ASSUME RInv, NEW p \in Pids
  PROVE  LET s == [Recovered(p) EXCEPT !.matrix = InsertPids(@, Discovered(dir, p))]
         IN Fine(p, s) /\ s.vv = rep[p].vv
<1> DEFINE A == replayed[p].matrix
           D == Discovered(dir, p)
           own == SetCounter(rep[p].vv, Stable, rep[p].marker.counter)
           R == [q \in DOMAIN A \cup {p} |-> IF q = p THEN own ELSE A[q]]
           M == InsertPids(R, D)
           s == [Recovered(p) EXCEPT !.matrix = InsertPids(@, D)]
<1>1. Fine(p, rep[p]) /\ IsRep(rep[p]) /\ LocalOK(rep[p])
  BY CurrentFine, Zenon DEF RInv, Fine
<1>2. /\ DOMAIN A \subseteq {p, Stable} /\ (\A q \in DOMAIN A : IsDotSet(A[q]))
      /\ replayed[p].finals = NewDotSet
  BY Zenon DEF RInv, JournalOK, OwnRowsOnly
<1>3. rep[p].finals = NewDotSet
  <2>1. IsDotSet(rep[p].finals) /\ DOMAIN rep[p].finals = {}
    BY <1>1, Zenon DEF IsRep, LocalOK
  <2>. QED  BY <2>1, Zenon DEF IsDotSet, NewDotSet
<1>4. Recovered(p) = [vv |-> rep[p].vv, log |-> rep[p].log, applied |-> rep[p].applied,
                      matrix |-> R, finals |-> rep[p].finals, marker |-> rep[p].marker]
  <2> DEFINE w == [vv |-> rep[p].vv, log |-> rep[p].log, applied |-> rep[p].applied,
                   matrix |-> A, finals |-> rep[p].finals, marker |-> rep[p].marker]
  <2>1. [[rep[p] EXCEPT !.matrix = A] EXCEPT !.finals = replayed[p].finals] = w
    <3>1. [rep[p] EXCEPT !.matrix = A] = w
      BY <1>1, SMT, Z3 DEF IsRep
    <3>2. [w EXCEPT !.finals = replayed[p].finals] = w
      BY <1>2, <1>3, SMT, Z3
    <3>. QED  BY <3>1, <3>2, ZenonT(30)
  <2>2. Recovered(p) = Rebound(w, p)
    BY <2>1 DEF Recovered
  <2>. QED  BY <2>2 DEF Rebound, Outgoing
<1>5. /\ s = [vv |-> rep[p].vv, log |-> rep[p].log, applied |-> rep[p].applied,
              matrix |-> M, finals |-> rep[p].finals, marker |-> rep[p].marker]
      /\ s.vv = rep[p].vv /\ s.log = rep[p].log /\ s.applied = rep[p].applied
      /\ s.matrix = M /\ s.finals = rep[p].finals /\ s.marker = rep[p].marker
  <2> HIDE DEF M, R, D
  <2>. QED  BY <1>4 DEF M
<1>6. DOMAIN D = Pids \ {p} /\ \A q \in Pids \ {p} : D[q] \in Nat
  BY EverybodyDiscovered, Zenon DEF RInv
<1>7. IsDotSet(own) /\ \A r \in Pids : Get(own, r) = Get(rep[p].vv, r)
  BY <1>1, OutgoingProperty, Zenon DEF Outgoing
<1> HIDE DEF D, own
<1>8. /\ DOMAIN R \subseteq {p, Stable} /\ p \in DOMAIN R /\ R[p] = own
      /\ \A q \in DOMAIN R : IsDotSet(R[q])
  BY <1>2, <1>7, Zenon
<1> HIDE DEF R
<1>9. M = [q \in DOMAIN R \cup DOMAIN D |-> IF q \in DOMAIN R THEN R[q] ELSE NewRow(q, D[q])]
  BY Zenon DEF InsertPids
<1>10. \A q \in Pids \ {p} : /\ IsDotSet(NewRow(q, D[q]))
                             /\ \A r \in Pids : Get(NewRow(q, D[q]), r) = -1
  BY <1>6, ConstantsAssumption, SMTT(30), Z3T(30) DEF NewRow, IsDotSet, Get, Columns
<1> HIDE DEF M, s
<1>11. /\ M = [q \in DOMAIN M |-> M[q]] /\ DOMAIN M \subseteq Columns /\ Pids \subseteq DOMAIN M
       /\ \A q \in DOMAIN M : IsDotSet(M[q])
  BY <1>6, <1>8, <1>9, <1>10, ZenonT(30) DEF Columns
<1>12. \A q, r \in Pids : Get(M[q], r) <= Get(IF q = p THEN s.vv ELSE rep[q].vv, r)
  <2> TAKE q, r \in Pids
  <2>1. /\ Get(rep[q].vv, r) \in Int /\ Get(rep[q].vv, r) >= -1
        /\ Get(rep[p].vv, r) \in Int
    BY VectorType, ZenonT(30) DEF RInv, FixedInv
  <2>2. CASE q = p
    <3>1. M[q] = own
      BY <2>2, <1>8, <1>9, Zenon
    <3>2. Get(M[q], r) = Get(rep[p].vv, r) /\ s.vv = rep[p].vv
      BY <3>1, <1>5, <1>7, ZenonT(30)
    <3>. QED  BY <3>2, <2>1, <2>2, SMTT(30), Z3T(30)
  <2>3. CASE q # p
    <3>1. q \notin DOMAIN R
      BY <2>3, <1>8, ConstantsAssumption, Zenon
    <3>2. M[q] = NewRow(q, D[q])
      BY <3>1, <2>3, <1>6, <1>9, ZenonT(30)
    <3>. QED  BY <3>2, <2>1, <2>3, <1>10, ZenonT(30)
  <2>. QED  BY <2>2, <2>3, ZenonT(30)
<1>13. IsRep(s)
  BY <1>1, <1>5, <1>11, ZenonT(30) DEF IsRep
<1>14. LocalOK(s) /\ Behind(s.marker.stable)
  BY <1>1, <1>5, <1>11, ZenonT(30) DEF LocalOK, Fine
<1>15. Fine(p, s)
  BY <1>1, <1>5, <1>12, <1>13, <1>14, ZenonT(30) DEF Fine
<1>. QED  BY <1>5, <1>15 DEF s, D

-----------------------------------------------------------------------------
(* The steps.                                                              *)

\* The journal after a step of the replicas that are up.
LEMMA JournaledKeeps ==
  ASSUME RInv, FixedInv', Journaled
  PROVE  \A p \in Pids : JournalOK(p)'
<1> TAKE p \in Pids
<1>1. RepsOK'
  BY Parts, PTL
<1>2. IsMarker(rep'[p].marker) /\ rep'[p].marker.departed = {}
  BY <1>1, Zenon DEF RepsOK, IsRep, LocalOK
<1>3. JournalOK(p)
  BY Zenon DEF RInv
<1>4. CASE rep'[p].marker = rep[p].marker
  BY <1>3, <1>4, Zenon DEF Journaled, JournalOK
<1>5. CASE rep'[p].marker # rep[p].marker
  <2>1. replayed'[p] = ReplayedMarker(replayed[p], p, rep'[p].marker)
    BY <1>5 DEF Journaled
  <2>. QED  BY <2>1, <1>2, <1>3, ReplayKeepsJournal, ZenonT(30) DEF JournalOK
<1>. QED  BY <1>4, <1>5, Zenon

\* A kill takes the connections, the round and what was read, and nothing else.
LEMMA KilledKeeps ==
  ASSUME RInv, NEW p \in Pids, Killed(p)
  PROVE  StoreOK' /\ LoopOK' /\ \A q \in Pids : Listed(q)'
<1>1. StoreOK /\ LoopOK /\ RoundsOK
  BY Parts, Zenon DEF RInv
<1>2. pc' \in [Pids -> Steps]
  BY <1>1, Zenon DEF Killed, LoopOK, Steps
<1>3. StoreOK' /\ LoopOK'
  BY <1>1, <1>2, Zenon DEF Killed, storage, StoreOK, LoopOK
<1>4. dir' = dir /\ \A q \in Pids : round'[q] = {} \/ (round'[q] = round[q] /\ pc'[q] = pc[q])
  BY <1>1, Zenon DEF Killed, storage, RoundsOK, LoopOK
<1>5. \A q \in Pids : Listed(q)'
  BY <1>4, StillListed, Zenon DEF RInv
<1>. QED  BY <1>3, <1>5, Zenon

\* A kill outside handle_delta leaves the CRDTs and the journal alone.
LEMMA CrashStep ==
  ASSUME RInv, NEW p \in Pids, Crash(p)
  PROVE  RInv'
<1>1. FixedInv /\ Killed(p) /\ UNCHANGED <<rep, replayed>>
  BY DEF RInv, Crash
<1>2. RepsOK' /\ MsgsOK' /\ RoundsOK'
  BY <1>1, RepStays, RoundEnds, Zenon DEF Killed
<1>3. \A q \in Pids : Counted(q)' /\ JournalOK(q)'
  BY <1>1, Zenon DEF RInv, Killed, Counted, JournalOK
<1>. QED  BY <1>1, <1>2, <1>3, KilledKeeps, PartsPrime, ZenonT(30) DEF RInv

\* A kill inside handle_delta leaves the state after the sender's marker.
LEMMA CrashInDeltaStep ==
  ASSUME RInv, NEW p \in Pids, NEW m \in msgs, CrashInDelta(p, m)
  PROVE  RInv'
<1> DEFINE s == Observed(rep[p], p, m.gc)
<1>1. FixedInv /\ MsgsOK /\ RepsOK /\ Killed(p) /\ Journaled
  BY Parts, Zenon DEF RInv, CrashInDelta
<1>2. IsMarker(m.gc) /\ m.gc.departed = {} /\ Behind(m.gc.stable)
  BY <1>1, Zenon DEF CrashInDelta, MsgsOK, IsMessage, Fits
<1>3. Fine(p, s) /\ s.vv = rep[p].vv /\ rep' = [rep EXCEPT ![p] = s]
  BY <1>1, <1>2, ObservedFine, Zenon DEF CrashInDelta
<1> HIDE DEF s
<1>4. RepsOK' /\ MsgsOK' /\ \A f : IsDotSet(f) /\ Behind(f) => Behind(f)'
  BY <1>1, <1>3, RepMoves, RepStep, ZenonT(30) DEF Killed
<1>5. round' = [round EXCEPT ![p] = {}]
  BY <1>1 DEF Killed
<1>6. RoundsOK'
  BY <1>1, <1>4, <1>5, RoundEnds, ZenonT(30)
<1>7. FixedInv'
  BY <1>1, <1>4, <1>6, KilledKeeps, PartsPrime, ZenonT(30)
<1>8. \A q \in Pids : rep'[q].vv = rep[q].vv
  BY <1>1, <1>3, Zenon DEF RepsOK
<1>9. \A q \in Pids : Counted(q)'
  BY <1>1, <1>8, Zenon DEF RInv, Killed, Counted
<1>. QED  BY <1>1, <1>7, <1>9, KilledKeeps, JournaledKeeps, ZenonT(30) DEF RInv

\* Registering again only adds a descriptor.
LEMMA ReregisterStep ==
  ASSUME RInv, NEW p \in Pids, Reregister(p)
  PROVE  RInv'
<1>1. FixedInv /\ RepsOK /\ StoreOK /\ LoopOK
  BY Parts, Zenon DEF RInv
<1>2. RepsOK' /\ MsgsOK' /\ RoundsOK'
  BY <1>1, RepStays, Zenon DEF Reregister, network, control
<1>3. \A d \in dir' : IsDescriptor(d) /\ d.final = {}
  <2>1. IsMarker(rep[p].marker)
    BY <1>1, Zenon DEF RepsOK, IsRep
  <2>2. LET d == Active(p, rep[p].marker.counter) IN IsDescriptor(d) /\ d.final = {}
    BY <2>1, Zenon DEF IsMarker, Active, IsDescriptor
  <2>. QED  BY <2>2, <1>1, Zenon DEF Reregister, StoreOK
<1>4. StoreOK' /\ LoopOK'
  BY <1>1, <1>3, Zenon DEF Reregister, network, control, StoreOK, LoopOK
<1>5. \A q \in Pids : Listed(q)'
  BY StillListed, Zenon DEF RInv, Reregister, control
<1>6. \A q \in Pids : Counted(q)' /\ JournalOK(q)'
  BY ZenonT(30) DEF RInv, Reregister, Counted, JournalOK
<1>. QED  BY <1>2, <1>4, <1>5, <1>6, PartsPrime, ZenonT(30) DEF RInv

\* The recovered state fits the others', like the one that was lost.
LEMMA RejoinStep ==
  ASSUME RInv, NEW p \in Pids, Rejoin(p)
  PROVE  RInv'
<1> DEFINE s == [Recovered(p) EXCEPT !.matrix = InsertPids(@, Discovered(dir, p))]
<1>1. FixedInv /\ RepsOK /\ StoreOK /\ LoopOK
  BY Parts DEF RInv
<1>2. Fine(p, s) /\ s.vv = rep[p].vv
  BY RecoveredFine
<1>3. rep' = [rep EXCEPT ![p] = s]
  BY DEF Rejoin
<1> HIDE DEF s
<1>4. RepsOK' /\ MsgsOK' /\ RoundsOK'
  BY <1>1, <1>2, <1>3, RepMoves, ZenonT(30) DEF Rejoin
<1>5. StoreOK' /\ LoopOK'
  BY <1>1, Zenon DEF Rejoin, storage, StoreOK, LoopOK
<1>6. \A q \in Pids : Listed(q)'
  BY StillListed, Zenon DEF RInv, Rejoin, storage
<1>7. \A q \in Pids : rep'[q].vv = rep[q].vv
  BY <1>1, <1>2, <1>3, ZenonT(30) DEF RepsOK
<1>8. \A q \in Pids : Counted(q)' /\ JournalOK(q)'
  BY <1>7, Zenon DEF RInv, Rejoin, Counted, JournalOK
<1>. QED  BY <1>4, <1>5, <1>6, <1>8, PartsPrime, ZenonT(30) DEF RInv

\* A lost connection changes no replica.
LEMMA LoseWriterStep ==
  ASSUME RInv, NEW p \in Pids, NEW q \in Pids, LoseWriter(p, q)
  PROVE  RInv'
<1>1. FixedInv /\ StoreOK /\ LoopOK
  BY Parts, Zenon DEF RInv
<1>2. RepsOK' /\ MsgsOK' /\ RoundsOK'
  BY <1>1, RepStays, Zenon DEF LoseWriter, control
<1>3. StoreOK' /\ LoopOK'
  BY <1>1, Zenon DEF LoseWriter, storage, control, StoreOK, LoopOK
<1>4. \A x \in Pids : Listed(x)'
  BY StillListed, Zenon DEF RInv, LoseWriter, storage, control
<1>5. \A x \in Pids : Counted(x)' /\ JournalOK(x)'
  BY Zenon DEF RInv, LoseWriter, Counted, JournalOK
<1>. QED  BY <1>2, <1>3, <1>4, <1>5, PartsPrime, ZenonT(30) DEF RInv

\* Every step preserves the invariant.
LEMMA RNextKeeps ==
  ASSUME RInv, Leavers = {}, [RNext]_rvars
  PROVE  RInv'
<1>1. CASE Step /\ Journaled
  <2>1. FixedInv'
    <3>1. Next
      BY <1>1 DEF Step, Next
    <3>. QED  BY <3>1, NextKeeps, ZenonT(30) DEF RInv
  <2>2. \A q \in Pids : Listed(q)' /\ Counted(q)'
    BY <1>1, StepKeepsListed, StepKeepsCount, Zenon DEF RInv
  <2>. QED  BY <2>1, <2>2, <1>1, JournaledKeeps, ZenonT(30) DEF RInv
<1>2. CASE UNCHANGED rvars
  <2>1. UNCHANGED vars /\ UNCHANGED replayed
    BY <1>2 DEF rvars
  <2>2. FixedInv'
    BY <2>1, NextKeeps, Zenon DEF RInv
  <2>3. UNCHANGED <<rep, acked, dir, round, pc>>
    BY <2>1, Zenon DEF vars, storage, control
  <2>4. \A q \in Pids : Listed(q)' /\ Counted(q)' /\ JournalOK(q)'
    BY <2>1, <2>3, StillListed, Zenon DEF RInv, Counted, JournalOK
  <2>. QED  BY <2>2, <2>4, Zenon DEF RInv
<1>. QED  BY <1>1, <1>2, CrashStep, CrashInDeltaStep, ReregisterStep, RejoinStep, LoseWriterStep, ZenonT(30) DEF RNext

\* The founders' journals hold their initial snapshots.
LEMMA RInitHolds ==
  ASSUME RInit, Joiners = {}
  PROVE  RInv
<1>1. Init /\ FixedInv /\ Pids = Founders
  BY InitHolds, Zenon DEF RInit, Pids
<1>2. ASSUME NEW p \in Pids PROVE Listed(p)
  <2>1. Active(p, 0) \in dir /\ Active(p, 0).pid = p /\ round[p] = {}
    BY <1>1, Zenon DEF Init, Active
  <2>. QED  BY <2>1 DEF Listed
<1>3. ASSUME NEW p \in Pids PROVE Counted(p)
  <2>1. rep[p].vv = NewDotSet /\ acked[p] = 0
    BY <1>1, Zenon DEF Init, NewRep
  <2>. QED  BY <2>1 DEF Counted, NewDotSet, Get
<1>4. ASSUME NEW p \in Pids PROVE JournalOK(p)
  <2> DEFINE row == [r \in {Stable} |-> 0]
             w == [matrix |-> [q \in {p} |-> row], finals |-> NewDotSet]
  <2>1. replayed[p] = w
    BY DEF RInit, NewRep
  <2>2. IsDotSet(row)
    BY SMT, Z3 DEF IsDotSet, Columns
  <2> HIDE DEF row
  <2>3. OwnRowsOnly(w, p)
    BY <2>2 DEF OwnRowsOnly
  <2>. QED  BY <2>1, <2>3, ZenonT(30) DEF JournalOK
<1>. QED  BY <1>1, <1>2, <1>3, <1>4, ZenonT(30) DEF RInv

-----------------------------------------------------------------------------
(* Published GC rounds, over every step.                                   *)

\* A delta group carries a marker that its sender has applied.
LEMMA GroupsCarryMarkers ==
  ASSUME FixedInv, Leavers = {}, Step
  PROVE  \A m \in msgs' : m.kind = "delta" =>
           m \in msgs \/ \E q \in Pids : m.gc = rep[q].marker
<1> DEFINE Goal == \A m \in msgs' : m.kind = "delta" =>
                     m \in msgs \/ \E q \in Pids : m.gc = rep[q].marker
<1>1. ASSUME msgs' \subseteq msgs PROVE Goal
  BY <1>1
<1>2. ASSUME NEW p \in Pids, RunLoop(p) PROVE Goal
  <2>1. CASE \E q \in writers[p] : PullDelta(p, q)
    <3>1. PICK q, v : Send(p, q, msgs, [kind |-> "vector", from |-> p, to |-> q, vv |-> v])
      BY <2>1, Zenon DEF PullDelta
    <3> DEFINE n == [kind |-> "vector", from |-> p, to |-> q, vv |-> v]
    <3>2. n.kind # "delta"
      BY Zenon
    <3> HIDE DEF n
    <3>3. \A m \in msgs' : m \in msgs \/ m = n
      BY <3>1, ZenonT(30) DEF Send, n
    <3>. QED  BY <3>2, <3>3, ZenonT(30)
  <2>2. CASE \E n \in msgs : HandleVersionVector(p, n)
    <3>1. CASE msgs' \subseteq msgs
      BY <3>1, <1>1, ZenonT(30)
    <3>2. CASE \E n, q, l, v : msgs' = (msgs \ {n}) \cup
                 {[kind |-> "delta", from |-> p, to |-> q, list |-> l, vv |-> v, gc |-> rep[p].marker]}
      BY <3>2
    <3>. QED  BY <2>2, <3>1, <3>2, SMT, Z3 DEF HandleVersionVector, Send
  <2>3. CASE \E n \in msgs : RefuseDelta(p, n) \/ HandleDelta(p, n)
    BY <2>3, <1>1, Zenon DEF RefuseDelta, HandleDelta
  <2>4. CASE RefreshOwn(p) \/ ApplyPoll(p) \/ InitGc(p)
    BY <2>4, <1>1, ZenonT(30) DEF RefreshOwn, ApplyPoll, InitGc, network
  <2>5. CASE ValidateGc(p) \/ WithdrawGc(p) \/ Relist(p) \/ CompleteGc(p) \/ DeleteOld(p)
    BY <2>5, <1>1, ZenonT(30) DEF ValidateGc, WithdrawGc, Relist, CompleteGc, DeleteOld, network
  <2> HIDE DEF Goal
  <2>. QED  BY <1>2, <2>1, <2>2, <2>3, <2>4, <2>5, NobodyJoinsOrLeaves, ZenonT(30) DEF RunLoop
<1>3. ASSUME NEW p \in Pids, Mutate(p) \/ Poll(p) PROVE Goal
  BY <1>1, <1>3, ZenonT(30) DEF Mutate, Poll, network
<1>4. ASSUME NEW p \in Pids, NEW q \in Pids, Connect(p, q) PROVE Goal
  BY <1>1, <1>4, ZenonT(30) DEF Connect
<1> HIDE DEF Goal
<1>5. Goal
  BY <1>2, <1>3, <1>4, NobodyJoinsOrLeaves, ConstantsAssumption, ZenonT(30) DEF Step, Pids
<1>. QED  BY <1>5, Zenon DEF Goal

\* The counters of markers are integers.
LEMMA MarkerCounters ==
  ASSUME FixedInv
  PROVE  /\ \A p \in Pids : rep[p].marker.counter \in Int
         /\ \A m \in msgs : m.kind = "delta" => m.gc.counter \in Int
<1>1. RepsOK /\ MsgsOK
  BY Parts, Zenon
<1>2. \A m : IsMarker(m) => m.counter \in Int
  BY DEF IsMarker
<1>3. \A p \in Pids : IsMarker(rep[p].marker)
  BY <1>1, ZenonT(30) DEF RepsOK, IsRep
<1>4. \A m \in msgs : m.kind = "delta" => IsMarker(m.gc)
  BY <1>1 DEF MsgsOK, IsMessage
<1>. QED  BY <1>2, <1>3, <1>4, ZenonT(30)

\* What every marker after a step was before it decides whether it is published.
LEMMA GcInvFollows ==
  ASSUME FixedInv, GcInv, RoundsRise', \A c \in Int : PublishedFor(c) => PublishedFor(c)',
         \A q \in Pids : \/ \E x \in Pids : rep'[q].marker = rep[x].marker
                         \/ \E m \in msgs : m.kind = "delta" /\ rep'[q].marker = m.gc
                         \/ \E c \in Int : PublishedFor(c)' /\ rep'[q].marker.counter = c,
         \A m \in msgs' : m.kind = "delta" =>
           m \in msgs \/ \E x \in Pids : m.gc = rep[x].marker
  PROVE  GcInv'
<1> DEFINE Shown(c) == \E d \in dir' : d.gc >= c /\ \A p \in Pids : ~Unfinished(p, d)'
<1>1. \A c : PublishedFor(c)' <=> Shown(c)
  BY Zenon DEF PublishedFor
<1>2. \A q \in Pids : Shown(rep[q].marker.counter)
  BY <1>1, MarkerCounters, Zenon DEF GcInv
<1>3. \A m \in msgs : m.kind = "delta" => Shown(m.gc.counter)
  BY <1>1, MarkerCounters, Zenon DEF GcInv
<1> HIDE DEF Shown
<1>4. \A q \in Pids : Shown(rep'[q].marker.counter)
  BY <1>1, <1>2, <1>3, ZenonT(30)
<1>5. \A m \in msgs' : m.kind = "delta" => Shown(m.gc.counter)
  BY <1>2, <1>3, ZenonT(30)
<1>. QED  BY <1>4, <1>5, ZenonT(30) DEF GcInv, PublishedFor, Shown

\* Steps of replicas that stay up.
LEMMA StepKeepsGcInv ==
  ASSUME RInv, GcInv, Leavers = {}, Step
  PROVE  GcInv'
<1>1. FixedInv /\ RoundsOK /\ \A q \in Pids : Listed(q)
  BY Parts, Zenon DEF RInv
<1>2. RoundsRise' /\ \A c \in Int : PublishedFor(c) => PublishedFor(c)'
  BY <1>1, StepKeepsPublished, Zenon DEF GcInv
<1>3. ASSUME NEW q \in Pids
      PROVE  \/ \E x \in Pids : rep'[q].marker = rep[x].marker
             \/ \E m \in msgs : m.kind = "delta" /\ rep'[q].marker = m.gc
             \/ \E c \in Int : PublishedFor(c)' /\ rep'[q].marker.counter = c
  <2>1. Taken(q)
    BY <1>1, MarkersTaken, ZenonT(30)
  <2>2. ASSUME CompleteGc(q), NEW r \in round[q], rep'[q].marker = r.marker
        PROVE  \E c \in Int : PublishedFor(c)' /\ rep'[q].marker.counter = c
    <3>1. IsMarker(r.marker)
      BY <1>1, Zenon DEF RoundsOK, IsRound
    <3>2. r.marker.counter \in Int
      BY <3>1 DEF IsMarker
    <3>3. Active(q, r.marker.counter) \in dir /\ Pids = DOMAIN pc
      BY <1>1, <2>2, Parts, Zenon DEF CompleteGc, Listed, LoopOK
    <3>4. PublishedFor(r.marker.counter)'
      BY <2>2, <3>2, <3>3, OwnPublished, ZenonT(30)
    <3>. QED  BY <2>2, <3>2, <3>4, ZenonT(30)
  <2>. QED  BY <2>1, <2>2, Zenon DEF Taken
<1>4. \A m \in msgs' : m.kind = "delta" =>
        m \in msgs \/ \E q \in Pids : m.gc = rep[q].marker
  BY <1>1, GroupsCarryMarkers, Zenon
<1>. QED  BY <1>1, <1>2, <1>3, <1>4, GcInvFollows, ZenonT(30)

\* A kill, in handle_delta or elsewhere, forgets a round and deletes nothing.
LEMMA KillKeepsGcInv ==
  ASSUME RInv, GcInv, NEW p \in Pids, Crash(p) \/ \E m \in msgs : CrashInDelta(p, m)
  PROVE  GcInv'
<1>1. FixedInv /\ RepsOK /\ RoundsOK /\ LoopOK
  BY Parts DEF RInv
<1>2. Killed(p)
  BY Zenon DEF Crash, CrashInDelta
<1>3. dir' = dir /\ msgs' = msgs /\ \A q \in Pids : round'[q] = {} \/ (round'[q] = round[q] /\ pc'[q] = pc[q])
  BY <1>1, <1>2, Zenon DEF Killed, storage, RoundsOK, LoopOK
<1>4. RoundsRise' /\ \A c : PublishedFor(c) => PublishedFor(c)'
  BY <1>3, StillPublished, Zenon DEF GcInv, RoundsRise
<1>5. ASSUME NEW q \in Pids
      PROVE  \/ \E x \in Pids : rep'[q].marker = rep[x].marker
             \/ \E m \in msgs : m.kind = "delta" /\ rep'[q].marker = m.gc
  <2>1. CASE Crash(p)
    BY <2>1, Zenon DEF Crash
  <2>2. CASE \E m \in msgs : CrashInDelta(p, m)
    <3>1. PICK m \in msgs : m.kind = "delta" /\ rep' = [rep EXCEPT ![p] = Observed(rep[p], p, m.gc)]
      BY <2>2, Zenon DEF CrashInDelta
    <3>2. Observed(rep[p], p, m.gc).marker \in {rep[p].marker, m.gc}
      BY Zenon DEF Observed, AfterMarker
    <3>. QED  BY <1>1, <3>1, <3>2, ZenonT(30) DEF RepsOK
  <2>. QED  BY <2>1, <2>2, ZenonT(30)
<1>. QED  BY <1>1, <1>3, <1>4, <1>5, GcInvFollows, ZenonT(30)

\* A restart keeps the marker the journal has; nothing is deleted.
LEMMA RestartKeepsGcInv ==
  ASSUME RInv, GcInv, NEW p \in Pids,
         Reregister(p) \/ Rejoin(p) \/ \E q \in Pids : LoseWriter(p, q)
  PROVE  GcInv'
<1>1. FixedInv /\ RepsOK
  BY Parts, ZenonT(30) DEF RInv
<1>2. UNCHANGED <<round, pc>> /\ dir \subseteq dir' /\ msgs' \subseteq msgs
  BY DEF Reregister, Rejoin, LoseWriter, storage, control, network
<1>3. RoundsRise' /\ \A c : PublishedFor(c) => PublishedFor(c)'
  BY <1>2, StillPublished, ZenonT(30) DEF GcInv, RoundsRise
<1>4. \A q \in Pids : rep'[q].marker = rep[q].marker
  <2>1. CASE Rejoin(p)
    <3> DEFINE crdt == [rep[p] EXCEPT !.matrix = replayed[p].matrix]
               whole == [crdt EXCEPT !.finals = replayed[p].finals]
               bound == Rebound(whole, p)
               s == [bound EXCEPT !.matrix = InsertPids(@, Discovered(dir, p))]
    <3>1. IsRep(rep[p])
      BY <1>1, Zenon DEF RepsOK
    <3>2. s.marker = rep[p].marker
      BY <3>1, Zenon DEF IsRep, Rebound
    <3>3. rep' = [rep EXCEPT ![p] = s]
      BY <2>1 DEF Rejoin, Recovered
    <3> HIDE DEF s
    <3>. QED  BY <1>1, <3>2, <3>3, ZenonT(30) DEF RepsOK
  <2>2. CASE UNCHANGED rep
    BY <2>2
  <2>. QED  BY <2>1, <2>2, ZenonT(30) DEF Reregister, LoseWriter
<1>. QED  BY <1>1, <1>2, <1>3, <1>4, GcInvFollows, ZenonT(30)

-----------------------------------------------------------------------------
(* The theorems.                                                           *)

\* The inductive invariant, whenever replicas are killed and come back.
LEMMA RestartInvariant ==
  ASSUME Joiners = {}, Leavers = {}
  PROVE  RSpec => []RInv
<1>1. RInit => RInv
  BY RInitHolds, Zenon
<1>2. RInv /\ [RNext]_rvars => RInv'
  BY RNextKeeps, Zenon
<1>. QED  BY <1>1, <1>2, PTL DEF RSpec

\* bootstrap_from_durability: replicas that lose their matrix and their round in
\* a kill, and come back with what the journal holds, keep the invariant of a
\* fixed membership.
THEOREM RestartsAreSafe ==
  ASSUME Joiners = {}, Leavers = {}
  PROVE  RSpec => []FixedInv
<1>1. RInv => FixedInv
  BY DEF RInv
<1>. QED  BY <1>1, RestartInvariant, PTL

\* No kill or restart makes DotSet::insert panic.
THEOREM RestartsNeverPanic ==
  ASSUME Joiners = {}, Leavers = {}
  PROVE  RSpec => []NoInvalidDotSet
<1>1. FixedInv => NoInvalidDotSet
  BY ZenonT(30) DEF FixedInv, NobodyMoves, NoInvalidDotSet
<1>. QED  BY <1>1, RestartsAreSafe, PTL

\* A restarted replica allocates no dot that somebody has already.
THEOREM RestartsKeepDotsUnique ==
  ASSUME Joiners = {}, Leavers = {}
  PROVE  RSpec => []DotsUnique
<1>1. FixedInv => DotsUnique
  BY DEF FixedInv, EntriesBehind, DotsUnique, Running
<1>. QED  BY <1>1, RestartsAreSafe, PTL

\* Replicas that forget what they knew of the others collect nothing that a
\* member still lacks.
THEOREM RestartsKeepNeededDeltas ==
  ASSUME Joiners = {}, Leavers = {}
  PROVE  RSpec => []DeltasRetained
BY KeepsNeeded, RestartsAreSafe, PTL

\* Anti-entropy with a restarted replica still closes the gap.
THEOREM PullsCompleteAfterRestart ==
  ASSUME Joiners = {}, Leavers = {}
  PROVE  RSpec => []PullCompletes
BY PullClosesGap, RestartsAreSafe, PTL

\* A mutation that was acknowledged stays applied, through every kill.
THEOREM AcknowledgedStays ==
  ASSUME Joiners = {}, Leavers = {}
  PROVE  RSpec => []AckedKept
<1>1. RInv => AckedKept
  BY Zenon DEF RInv, Counted, AckedKept, Running
<1>. QED  BY <1>1, RestartInvariant, PTL

\* A replica stays in the directory, wherever in a GC round it is killed.
THEOREM KilledStayRegistered ==
  ASSUME Joiners = {}, Leavers = {}
  PROVE  RSpec => []StaysRegistered
<1>1. RInv => StaysRegistered
  <2> SUFFICES ASSUME RInv, NEW p \in Pids
               PROVE  \E d \in dir : d.pid = p /\ ~IsShutdown(d)
    BY DEF StaysRegistered, Running
  <2>1. StoreOK
    BY Parts DEF RInv
  <2>2. PICK d \in dir : d.pid = p
    BY Zenon DEF RInv, Listed
  <2>. QED  BY <2>1, <2>2, ZenonT(30) DEF StoreOK, IsShutdown
<1>. QED  BY <1>1, RestartInvariant, PTL

\* init_gc publishes before it collects: whatever marker a replica has applied,
\* its own or a peer's, the directory shows that counter or a higher one, in
\* every interleaving of rounds, withdrawn rounds, storage faults and kills.
THEOREM RoundsArePublished ==
  ASSUME Joiners = {}, Leavers = {}
  PROVE  RSpec => []GcPublished
<1>1. RInit => GcInv
  <2> SUFFICES ASSUME RInit PROVE GcInv
    OBVIOUS
  <2>1. /\ Pids = Founders /\ msgs = {} /\ dir = {Active(q, 0) : q \in Founders}
        /\ \A q \in Pids : round[q] = {} /\ rep[q].marker = NoMarker
    BY ZenonT(30) DEF RInit, Init, Pids, NewRep
  <2>2. \A q \in Pids : rep[q].marker.counter = 0
    BY <2>1, SMTT(30), Z3T(30) DEF NoMarker
  <2>3. \A q \in Pids : Active(q, 0) \in dir /\ Active(q, 0).gc >= 0
    <3>1. \A q \in Pids : Active(q, 0) \in dir
      BY <2>1, Zenon
    <3>2. \A q : Active(q, 0).gc = 0
      BY Zenon DEF Active
    <3>. QED  BY <3>1, <3>2, SMT, Z3
  <2>. QED  BY <2>1, <2>2, <2>3, ZenonT(30) DEF GcInv, RoundsRise, PublishedFor, Unfinished
<1>2. RInv /\ GcInv /\ [RNext]_rvars => GcInv'
  <2> SUFFICES ASSUME RInv, GcInv, [RNext]_rvars PROVE GcInv'
    BY Zenon
  <2>1. CASE UNCHANGED rvars
    <3>1. UNCHANGED <<rep, msgs, dir, round, pc>>
      BY <2>1, Zenon DEF rvars, vars, network, storage, control
    <3>2. \A c : PublishedFor(c) => PublishedFor(c)'
      BY <3>1, StillPublished, ZenonT(30)
    <3>3. FixedInv /\ RoundsRise'
      BY <3>1 DEF RInv, GcInv, RoundsRise
    <3>. QED  BY <3>1, <3>2, <3>3, GcInvFollows, ZenonT(30)
  <2>2. CASE Step
    BY <2>2, StepKeepsGcInv, ZenonT(30)
  <2>. QED  BY <2>1, <2>2, KillKeepsGcInv, RestartKeepsGcInv, ZenonT(30) DEF RNext
<1>3. RInv /\ GcInv => GcPublished
  BY DEF GcInv, PublishedFor, GcPublished, Running
<1>. QED  BY <1>1, <1>2, <1>3, RestartInvariant, PTL DEF RSpec

\* With a fixed membership no delta is applied twice: whatever enters a delta log
\* was not applied before, by duplicated or late groups, after a GC round dropped
\* it from the log, or after a kill between the records of handle_delta.
THEOREM DeltasAreAppliedOnce ==
  ASSUME Joiners = {}, Leavers = {}
  PROVE  RSpec => AppliedOnce
<1> DEFINE Once == \A p, r \in Pids : (rep'[p].log[r] \ rep[p].log[r]) \cap rep[p].applied[r] = {}
<1>1. RInv /\ [RNext]_rvars => [Once]_vars
  <2>1. RInv /\ RNext => Once
    BY RNextAddsNewDeltas, Zenon DEF RInv, NewDeltas
  <2>2. UNCHANGED rvars => UNCHANGED vars
    BY DEF rvars
  <2>. QED  BY <2>1, <2>2
<1>. QED  BY <1>1, RestartInvariant, PTL DEF RSpec, AppliedOnce
=============================================================================
