------------------------- MODULE MembershipProofs -------------------------
(***************************************************************************)
(* Theorems about Replica while replicas join and leave: any number of     *)
(* founders, joiners and leavers, mutations, GC rounds, messages, polls    *)
(* and storage faults.                                                     *)
(***************************************************************************)
EXTENDS ReplicaLemmas

-----------------------------------------------------------------------------
(* The shape of the state, over every action.                              *)

\* A run loop changes its variables at its own replica only, and within their types.
LEMMA LoopShape ==
  ASSUME Shape, NEW p \in Pids, RunLoop(p)
  PROVE  Shape'
<1>1. status' \in [Pids -> {"down", "booting", "running", "panicked", "stopping", "stopped"}]
  <2>1. UNCHANGED status \/ \E x \in {"panicked", "stopping"} : status' = [status EXCEPT ![p] = x]
    BY Zenon DEF RunLoop, RefreshOwn, PullDelta, HandleVersionVector, RefuseDelta, HandleDelta,
       ApplyGroup, ApplyPoll, HandleShutdown, InitGc, ValidateGc, WithdrawGc, Relist, CompleteGc,
       DeleteDeparted, DeleteOld, Shutdown
  <2>. QED  BY <2>1 DEF Shape
<1>2. pc' \in [Pids -> {"register", "list", "install", "loop", "departures", "validate",
                       "abort", "withdraw", "relist", "complete", "departed", "old"}]
  <2>1. \/ UNCHANGED pc
        \/ \E x \in {"loop", "departures", "validate", "abort", "withdraw", "relist",
                     "complete", "departed", "old"} : pc' = [pc EXCEPT ![p] = x]
    BY Zenon DEF RunLoop, RefreshOwn, PullDelta, HandleVersionVector, RefuseDelta, HandleDelta,
       ApplyPoll, HandleShutdown, InitGc, Publish, ValidateGc, WithdrawGc, Relist, CompleteGc,
       DeleteDeparted, DeleteOld, Shutdown, control
  <2>. QED  BY <2>1 DEF Shape
<1>3. UNCHANGED acked
  BY Zenon DEF RunLoop, RefreshOwn, PullDelta, HandleVersionVector, RefuseDelta, HandleDelta,
     ApplyPoll, HandleShutdown, InitGc, ValidateGc, WithdrawGc, Relist, CompleteGc,
     DeleteDeparted, DeleteOld, Shutdown
<1>4. writers' \in [Pids -> SUBSET Pids]
  <2>1. UNCHANGED writers \/ \E x : writers' = [writers EXCEPT ![p] = @ \ {x}]
    BY Zenon DEF RunLoop, RefreshOwn, PullDelta, HandleVersionVector, RefuseDelta, HandleDelta,
       Send, ApplyPoll, HandleShutdown, InitGc, ValidateGc, WithdrawGc, Relist, CompleteGc,
       DeleteDeparted, DeleteOld, Shutdown, network
  <2>. QED  BY <2>1 DEF Shape
<1>5. /\ UNCHANGED rep \/ \E x : rep' = [rep EXCEPT ![p] = x]
      /\ UNCHANGED payload \/ \E x : payload' = [payload EXCEPT ![p] = x]
  BY Zenon DEF RunLoop, RefreshOwn, PullDelta, HandleVersionVector, RefuseDelta, HandleDelta,
     ApplyGroup, ApplyPoll, HandleShutdown, InitGc, ValidateGc, WithdrawGc, Relist, CompleteGc,
     DeleteDeparted, DeleteOld, Shutdown, storage
<1>6. /\ UNCHANGED cache \/ \E x : cache' = [cache EXCEPT ![p] = x]
      /\ UNCHANGED poll \/ \E x : poll' = [poll EXCEPT ![p] = x]
      /\ UNCHANGED fetched
  BY Zenon DEF RunLoop, RefreshOwn, PullDelta, HandleVersionVector, RefuseDelta, HandleDelta,
     ApplyPoll, HandleShutdown, InitGc, Publish, ValidateGc, WithdrawGc, Relist, CompleteGc,
     DeleteDeparted, DeleteOld, Shutdown, control
<1>7. /\ UNCHANGED todo \/ \E x : todo' = [todo EXCEPT ![p] = x]
      /\ UNCHANGED round \/ \E x : round' = [round EXCEPT ![p] = x]
  BY Zenon DEF RunLoop, RefreshOwn, PullDelta, HandleVersionVector, RefuseDelta, HandleDelta,
     ApplyPoll, HandleShutdown, InitGc, Publish, ValidateGc, WithdrawGc, Relist, CompleteGc,
     DeleteDeparted, DeleteOld, Shutdown, control
<1>. QED  BY <1>1, <1>2, <1>3, <1>4, <1>5, <1>6, <1>7, Zenon DEF Shape

\* So does every other step.
LEMMA ShapeStep ==
  ASSUME MemberInv, Next
  PROVE  Shape'
<1>1. Shape
  BY DEF MemberInv
<1>2. ASSUME NEW p \in Pids, Bootstrap(p)
      PROVE  Shape'
  <2>1. CASE Start(p)
    BY <1>1, <2>1, ZenonT(30) DEF Shape, Start, control, storage, network
  <2>2. CASE Register(p)
    BY <1>1, <2>2, ZenonT(30) DEF Shape, Register, network
  <2>3. CASE ListMembers(p)
    BY <1>1, <2>3, ZenonT(30) DEF Shape, ListMembers, storage, network
  <2>4. CASE ReadSnapshot(p)
    BY <1>1, <2>4, ZenonT(30) DEF Shape, ReadSnapshot, storage, network
  <2>5. CASE Install(p)
    BY <1>1, <2>5, ZenonT(30) DEF Shape, Install, network
  <2>. QED  BY <1>2, <2>1, <2>2, <2>3, <2>4, <2>5, Zenon DEF Bootstrap
<1>3. ASSUME NEW p \in Pids, Mutate(p)
      PROVE  Shape'
  <2>1. /\ acked' = [acked EXCEPT ![p] = @ + 1]
        /\ \E x : rep' = [rep EXCEPT ![p] = x]
        /\ UNCHANGED <<status, pc, writers, payload, cache, poll, fetched, todo, round>>
    BY <1>3, Zenon DEF Mutate, network, storage, control
  <2>2. acked' \in [Pids -> Nat]
    BY <1>1, <2>1 DEF Shape
  <2>3. DOMAIN rep' = DOMAIN rep
    BY <2>1
  <2>. QED  BY <1>1, <2>1, <2>2, <2>3, Zenon DEF Shape
<1>4. ASSUME NEW p \in Pids, Poll(p) \/ StopHttp(p)
      PROVE  Shape'
  BY <1>1, <1>4, ZenonT(30) DEF Shape, Poll, StopHttp, network, storage, control
<1>5. CASE (\E p, q \in Pids : Connect(p, q)) \/ (\E m \in msgs : Discard(m))
  <2>1. /\ \/ UNCHANGED writers
           \/ \E p, q \in Pids : writers' = [writers EXCEPT ![p] = @ \cup {q}]
        /\ UNCHANGED <<status, pc, rep, acked, payload, cache, poll, fetched, todo, round>>
    BY <1>5 DEF Connect, Discard, network, storage, control
  <2>2. writers' \in [Pids -> SUBSET Pids]
    BY <1>1, <2>1 DEF Shape
  <2>. QED  BY <1>1, <2>1, <2>2, Zenon DEF Shape
<1>. QED  BY <1>1, <1>2, <1>3, <1>4, <1>5, LoopShape DEF Next

-----------------------------------------------------------------------------
(* The descriptors of the members, over every action.                      *)

\* Outside a GC round it is enough that an active descriptor is listed.
LEMMA ListedSimply ==
  ASSUME NEW p \in Pids, PhaseFits(p)',
         pc'[p] \notin {"validate", "abort", "withdraw", "complete", "old", "departed"},
         pc'[p] # "register" => \E d \in dir' : d.pid = p /\ ~IsShutdown(d)
  PROVE  PhaseFits(p)' /\ IsListed(p)'
BY DEF IsListed

\* A replica whose run loop does not move, while none of its own descriptors is
\* deleted, stays listed.
LEMMA ListedStays ==
  ASSUME MemberInv, NEW q \in Pids,
         pc'[q] = pc[q], status'[q] = status[q], round'[q] = round[q],
         \A d \in dir \ dir' : d.pid = q => q \in Gone
  PROVE  PhaseFits(q)' /\ IsListed(q)'
<1>1. PhaseFits(q) /\ IsListed(q)
  BY DEF MemberInv
<1>2. PhaseFits(q)'
  BY <1>1 DEF PhaseFits
<1>3. ASSUME pc[q] # "register", status[q] \in {"booting", "running"}
      PROVE  /\ \E d \in dir' : d.pid = q /\ ~IsShutdown(d)
             /\ \A r \in round[q] :
                  /\ pc[q] \in {"validate", "abort", "withdraw"} =>
                       \E d \in dir' : d.pid = q /\ ~IsShutdown(d) /\ d # Active(q, r.marker.counter)
                  /\ pc[q] \in {"validate", "complete", "old", "departed"} =>
                       Active(q, r.marker.counter) \in dir'
  <2>1. q \notin Gone
    BY <1>3 DEF Gone
  <2>2. \A d \in dir : d.pid = q => d \in dir'
    BY <2>1
  <2>3. \A c : Active(q, c).pid = q
    BY DEF Active
  <2>. QED  BY <1>1, <1>3, <2>2, <2>3 DEF IsListed
<1>. QED  BY <1>2, <1>3 DEF IsListed

\* A round creates its descriptor before it deletes the previous one, and deletes
\* the new one only while another is listed.
LEMMA RoundListed ==
  ASSUME MemberInv, NEW p \in Pids,
         \/ InitGc(p) \/ ValidateGc(p) \/ WithdrawGc(p) \/ CompleteGc(p)
         \/ DeleteDeparted(p) \/ DeleteOld(p)
  PROVE  PhaseFits(p)' /\ IsListed(p)'
<1>1. /\ Shape /\ PhaseFits(p) /\ IsListed(p) /\ \A r \in round[p] : GoodRound(p, r)
      /\ status[p] = "running" /\ status'[p] = "running" /\ p \notin Gone
  BY Zenon DEF MemberInv, LocalsGood, InitGc, Idle, ValidateGc, WithdrawGc, CompleteGc,
     DeleteDeparted, DeleteOld, Gone
<1>2. /\ pc[p] # "register" /\ \E d \in dir : d.pid = p /\ ~IsShutdown(d)
      /\ \A r \in round[p] :
           /\ pc[p] \in {"validate", "abort", "withdraw"} =>
                \E d \in dir : d.pid = p /\ ~IsShutdown(d) /\ d # Active(p, r.marker.counter)
           /\ pc[p] \in {"validate", "complete", "old", "departed"} =>
                Active(p, r.marker.counter) \in dir
  BY <1>1 DEF PhaseFits, IsListed
<1>3. \A c : Active(p, c).pid = p /\ ~IsShutdown(Active(p, c)) /\ Active(p, c).gc = c
  BY DEF Active, IsShutdown
<1>4. CASE InitGc(p)
  <2>1. CASE UNCHANGED <<round, pc>> /\ dir \subseteq dir'
    BY <1>1, <2>1, ListedStays, Zenon
  <2>2. CASE ~(UNCHANGED <<round, pc>> /\ dir \subseteq dir')
    <3> DEFINE new == Active(p, Refreshed(rep[p], p).marker.counter + 1)
    <3>1. PICK r : /\ r.marker.counter = new.gc
                   /\ new \notin dir /\ dir' = dir \cup {new}
                   /\ round' = [round EXCEPT ![p] = {r}]
                   /\ pc' = [pc EXCEPT ![p] = "validate"]
      <4>1. PICK r : r.marker.counter = new.gc /\ Publish(p, new, r)
        BY <1>4, Zenon DEF InitGc
      <4>2. /\ new \notin dir /\ dir' = dir \cup {new}
            /\ round' = [round EXCEPT ![p] = {r}]
            /\ pc' = [pc EXCEPT ![p] = "validate"]
        BY <2>2, <4>1, Zenon DEF Publish
      <4>. QED  BY <4>1, <4>2, Zenon
    <3>2. Active(p, r.marker.counter) = new
      BY <1>3, <3>1, Zenon
    <3> HIDE DEF new
    <3>3. pc'[p] = "validate" /\ round'[p] = {r}
      BY <1>1, <3>1 DEF Shape
    <3>4. PhaseFits(p)'
      BY <1>1, <3>3 DEF PhaseFits
    <3>5. \E d \in dir' : d.pid = p /\ ~IsShutdown(d) /\ d # new
      BY <1>2, <3>1
    <3>6. new \in dir'
      BY <3>1
    <3>. QED  BY <3>2, <3>3, <3>4, <3>5, <3>6 DEF IsListed
  <2>. QED  BY <2>1, <2>2
<1>5. CASE ValidateGc(p)
  <2>1. /\ UNCHANGED <<dir, round>> /\ pc[p] = "validate"
        /\ pc'[p] \in {"complete", "abort", "withdraw"}
    BY <1>1, <1>5, Zenon DEF ValidateGc, storage, Shape
  <2>2. PhaseFits(p)'
    BY <1>1, <2>1, Zenon DEF PhaseFits
  <2>. QED  BY <1>2, <2>1, <2>2, Zenon DEF IsListed
<1>6. CASE WithdrawGc(p)
  <2>1. PICK r \in round[p] : dir' = dir \/ dir' = dir \ {Active(p, r.marker.counter)}
    BY <1>6 DEF WithdrawGc
  <2>2. pc[p] \in {"abort", "withdraw"} /\ pc'[p] \in {"relist", "loop"}
    BY <1>1, <1>6, Zenon DEF WithdrawGc, Shape
  <2>3. PhaseFits(p)'
    BY <1>1, <2>2 DEF PhaseFits
  <2>4. \E d \in dir' : d.pid = p /\ ~IsShutdown(d)
    BY <1>2, <2>1, <2>2
  <2>. QED  BY <2>2, <2>3, <2>4, ListedSimply
<1>7. CASE CompleteGc(p)
  <2>1. pc[p] = "complete" /\ UNCHANGED dir
    BY <1>7 DEF CompleteGc
  <2>2. CASE pc'[p] = "loop"
    <3>1. PhaseFits(p)'
      BY <1>1, <2>2, Zenon DEF PhaseFits
    <3>. QED  BY <1>2, <2>1, <2>2, <3>1, ListedSimply, Zenon
  <2>3. CASE pc'[p] # "loop"
    <3>1. pc'[p] \in {"old", "departed"} /\ UNCHANGED round
      BY <1>1, <1>7, <2>3 DEF CompleteGc, Shape
    <3>2. PhaseFits(p)'
      BY <1>1, <3>1 DEF PhaseFits
    <3>. QED  BY <1>2, <2>1, <3>1, <3>2, ZenonT(30) DEF IsListed
  <2>. QED  BY <2>2, <2>3, Zenon
<1>8. CASE DeleteDeparted(p)
  <2>1. /\ pc[p] = "departed" /\ pc'[p] \in {"departed", "old"} /\ UNCHANGED round
    BY <1>1, <1>8, Zenon DEF DeleteDeparted, Shape
  <2>2. PICK r \in round[p] : \A d \in dir \ dir' : d.pid \in r.marker.departed
    BY <1>8, Zenon DEF DeleteDeparted
  <2>3. \A d \in dir : d.pid = p => d \in dir'
    BY <1>1, <2>2, Zenon DEF GoodRound, GoodMarker
  <2>4. PhaseFits(p)'
    BY <1>1, <2>1, Zenon DEF PhaseFits
  <2>. QED  BY <1>2, <1>3, <2>1, <2>3, <2>4, Zenon DEF IsListed
<1>9. CASE DeleteOld(p)
  <2>1. PICK r \in round[p] : dir' = dir \/ dir' = dir \ {r.old}
    BY <1>9 DEF DeleteOld
  <2>2. pc[p] = "old" /\ pc'[p] = "loop"
    BY <1>1, <1>9, Zenon DEF DeleteOld, Shape
  <2>3. Active(p, r.marker.counter) # r.old
    <3>1. r.old.gc < r.marker.counter /\ r.marker.counter \in Int
      <4>1. r.old.gc < r.marker.counter /\ r.marker.counter \in 0 .. MaxGc /\ MaxGc \in Nat
        BY <1>1, ConstantsAssumption, Zenon DEF GoodRound, GoodMarker, IsMarker
      <4>. QED  BY <4>1
    <3>2. r.old.gc # r.marker.counter
      BY <3>1
    <3>. QED  BY <3>2, <1>3
  <2>4. PhaseFits(p)'
    BY <1>1, <2>2 DEF PhaseFits
  <2>5. \E d \in dir' : d.pid = p /\ ~IsShutdown(d)
    BY <1>2, <1>3, <2>1, <2>2, <2>3, Zenon
  <2>. QED  BY <2>2, <2>4, <2>5, ListedSimply, Zenon
<1>. QED  BY <1>4, <1>5, <1>6, <1>7, <1>8, <1>9

\* The other steps of a run loop, and those of a bootstrap, delete nothing.
LEMMA LoopListed ==
  ASSUME MemberInv, NEW p \in Pids, RunLoop(p)
  PROVE  PhaseFits(p)' /\ IsListed(p)'
<1>1. Shape /\ PhaseFits(p) /\ IsListed(p)
  BY DEF MemberInv
<1>2. CASE status'[p] \in {"panicked", "stopping", "stopped"}
  BY <1>2 DEF PhaseFits, IsListed
<1>3. CASE \/ RefreshOwn(p) \/ \E x \in writers[p] : PullDelta(p, x)
           \/ \E m \in msgs : HandleVersionVector(p, m) \/ RefuseDelta(p, m)
  <2>1. UNCHANGED <<pc, status, round, dir>>
    BY <1>3, Zenon DEF RefreshOwn, PullDelta, HandleVersionVector, RefuseDelta, storage, control
  <2>. QED  BY <2>1, ListedStays
<1>4. CASE \E m \in msgs : HandleDelta(p, m)
  <2>1. UNCHANGED <<pc, round, dir>> /\ (UNCHANGED status \/ status' = [status EXCEPT ![p] = "panicked"])
    BY <1>4 DEF HandleDelta, ApplyGroup, storage, control
  <2>2. status'[p] \in {status[p], "panicked"}
    BY <1>1, <2>1, Zenon DEF Shape
  <2>. QED  BY <1>2, <2>1, <2>2, ListedStays, Zenon
<1>5. CASE ApplyPoll(p) \/ Relist(p) \/ \E d \in todo[p] : HandleShutdown(p, d)
  <2>1. /\ status[p] = "running" /\ UNCHANGED dir
        /\ pc'[p] \in {"loop", "departures"}
    BY <1>1, <1>5, ZenonT(30) DEF ApplyPoll, Relist, HandleShutdown, Idle, storage, Shape
  <2>2. status'[p] \in {"running", "panicked"}
    <3>1. UNCHANGED status \/ status' = [status EXCEPT ![p] = "panicked"]
      BY <1>5, Zenon DEF ApplyPoll, Relist, HandleShutdown, ApplyGroup
    <3>. QED  BY <1>1, <2>1, <3>1 DEF Shape
  <2>3. \E d \in dir' : d.pid = p /\ ~IsShutdown(d)
    BY <1>1, <2>1 DEF PhaseFits, IsListed
  <2>4. PhaseFits(p)'
    BY <2>1, <2>2 DEF PhaseFits
  <2>. QED  BY <2>1, <2>3, <2>4, ListedSimply
<1>6. CASE Shutdown(p)
  <2>1. status'[p] = "stopping"
    BY <1>1, <1>6 DEF Shutdown, Shape
  <2>. QED  BY <1>2, <2>1, ZenonT(30)
<1>. QED  BY <1>3, <1>4, <1>5, <1>6, RoundListed, Zenon DEF RunLoop

\* Bootstrap registers before it lists, and deletes nothing.
LEMMA BootListed ==
  ASSUME MemberInv, NEW p \in Pids, Bootstrap(p)
  PROVE  PhaseFits(p)' /\ IsListed(p)'
<1>1. Shape /\ PhaseFits(p) /\ IsListed(p)
  BY DEF MemberInv
<1>2. CASE Start(p)
  <2>1. pc'[p] = "register" /\ status'[p] = "booting"
    BY <1>1, <1>2 DEF Start, control, Shape, PhaseFits
  <2>. QED  BY <2>1 DEF PhaseFits, IsListed
<1>3. CASE Register(p)
  <2>1. pc'[p] = "list" /\ status'[p] = "booting" /\ Active(p, rep[p].marker.counter) \in dir'
    BY <1>1, <1>3 DEF Register, Shape
  <2>2. PhaseFits(p)'
    BY <2>1 DEF PhaseFits
  <2>3. \A c : Active(p, c).pid = p /\ ~IsShutdown(Active(p, c))
    BY DEF Active, IsShutdown
  <2>. QED  BY <2>1, <2>2, <2>3, ListedSimply, ZenonT(30)
<1>4. CASE ListMembers(p) \/ Install(p)
  <2>1. status[p] = "booting" /\ pc[p] # "register" /\ UNCHANGED dir
    BY <1>4 DEF ListMembers, Install, storage
  <2>2. \E d \in dir' : d.pid = p /\ ~IsShutdown(d)
    BY <1>1, <2>1 DEF IsListed
  <2>3. \/ pc'[p] = "install" /\ status'[p] = "booting"
        \/ pc'[p] = "loop" /\ status'[p] = "running"
    BY <1>1, <1>4 DEF ListMembers, Install, Shape
  <2>4. PhaseFits(p)'
    BY <2>3 DEF PhaseFits
  <2>. QED  BY <2>2, <2>3, <2>4, ListedSimply
<1>5. CASE ReadSnapshot(p)
  <2>1. UNCHANGED <<pc, status, round, dir>>
    BY <1>5 DEF ReadSnapshot, storage
  <2>. QED  BY <2>1, ListedStays
<1>. QED  BY <1>2, <1>3, <1>4, <1>5 DEF Bootstrap

\* What p does moves no other run loop, and deletes descriptors of p itself and
\* of replicas that have shut down only.
LEMMA OthersStay ==
  ASSUME MemberInv, NEW p \in Pids, RunLoop(p) \/ Bootstrap(p), NEW q \in Pids \ {p}
  PROVE  /\ pc'[q] = pc[q] /\ status'[q] = status[q] /\ round'[q] = round[q]
         /\ \A d \in dir \ dir' : d.pid = q => q \in Gone
<1>1. Shape /\ \A r \in round[p] : GoodRound(p, r)
  BY Zenon DEF MemberInv, LocalsGood
<1>2. CASE RunLoop(p) /\ dir \subseteq dir'
  <2>1. (\E x : pc' = [pc EXCEPT ![p] = x]) \/ UNCHANGED pc
    BY <1>2, ZenonT(30) DEF RunLoop, RefreshOwn, PullDelta, HandleVersionVector, RefuseDelta, HandleDelta,
       ApplyPoll, HandleShutdown, InitGc, Publish, ValidateGc, WithdrawGc, Relist, CompleteGc,
       DeleteDeparted, DeleteOld, Shutdown, control
  <2>2. (\E x : status' = [status EXCEPT ![p] = x]) \/ UNCHANGED status
    BY <1>2, ZenonT(30) DEF RunLoop, RefreshOwn, PullDelta, HandleVersionVector, RefuseDelta, HandleDelta,
       ApplyGroup, ApplyPoll, HandleShutdown, InitGc, ValidateGc, WithdrawGc, Relist, CompleteGc,
       DeleteDeparted, DeleteOld, Shutdown
  <2>3. (\E x : round' = [round EXCEPT ![p] = x]) \/ UNCHANGED round
    BY <1>2, Zenon DEF RunLoop, RefreshOwn, PullDelta, HandleVersionVector, RefuseDelta, HandleDelta,
       ApplyPoll, HandleShutdown, InitGc, Publish, ValidateGc, WithdrawGc, Relist, CompleteGc,
       DeleteDeparted, DeleteOld, Shutdown, control
  <2>. QED  BY <1>1, <1>2, <2>1, <2>2, <2>3, ZenonT(30) DEF Shape
<1>3. CASE RunLoop(p) /\ ~(dir \subseteq dir')
  <2>1. WithdrawGc(p) \/ DeleteDeparted(p) \/ DeleteOld(p)
    BY <1>3, Zenon DEF RunLoop, RefreshOwn, PullDelta, HandleVersionVector, RefuseDelta, HandleDelta,
       ApplyPoll, HandleShutdown, InitGc, Publish, ValidateGc, Relist, CompleteGc, Shutdown, storage
  <2>2. PICK r \in round[p] :
          \A d \in dir \ dir' : d \in {r.old, Active(p, r.marker.counter)}
                                 \/ d.pid \in r.marker.departed
    <3>1. CASE WithdrawGc(p)
      <4>1. PICK r \in round[p] : dir' = dir \ {Active(p, r.marker.counter)} \/ dir' = dir
        BY <3>1 DEF WithdrawGc
      <4>. QED  BY <4>1
    <3>2. CASE DeleteOld(p)
      <4>1. PICK r \in round[p] : dir' = dir \ {r.old} \/ dir' = dir
        BY <3>2, Zenon DEF DeleteOld
      <4>. QED  BY <4>1
    <3>3. CASE DeleteDeparted(p)
      <4>1. PICK r \in round[p] :
              \/ \E d \in {x \in cache[p] : x.pid \in r.marker.departed} : dir' = dir \ {d}
              \/ dir' = dir
        BY <3>3 DEF DeleteDeparted
      <4>. QED  BY <4>1, Zenon
    <3>. QED  BY <2>1, <3>1, <3>2, <3>3, ZenonT(30)
  <2>3. r.old.pid = p /\ Active(p, r.marker.counter).pid = p /\ r.marker.departed \subseteq Gone
    <3>1. \A c : Active(p, c).pid = p
      BY DEF Active
    <3>2. r.old = Active(p, r.old.gc) /\ r.marker.departed \subseteq Gone
      BY <1>1 DEF GoodRound, GoodMarker
    <3>. QED  BY <3>1, <3>2
  <2>4. \A d \in dir \ dir' : d.pid = q => q \in Gone
    BY <2>2, <2>3
  <2>5. /\ (\E x : pc' = [pc EXCEPT ![p] = x]) \/ UNCHANGED pc
        /\ (\E x : round' = [round EXCEPT ![p] = x]) \/ UNCHANGED round
        /\ UNCHANGED status
    BY <2>1, Zenon DEF WithdrawGc, DeleteDeparted, DeleteOld
  <2>. QED  BY <1>1, <2>4, <2>5, Zenon DEF Shape
<1>4. CASE Bootstrap(p)
  <2>1. /\ dir \subseteq dir' /\ UNCHANGED round
        /\ (\E x : pc' = [pc EXCEPT ![p] = x]) \/ UNCHANGED pc
        /\ (\E x : status' = [status EXCEPT ![p] = x]) \/ UNCHANGED status
    BY <1>4 DEF Bootstrap, Start, Register, ListMembers, ReadSnapshot, Install, control, storage
  <2>. QED  BY <1>1, <2>1, ZenonT(30) DEF Shape
<1>. QED  BY <1>2, <1>3, <1>4

\* Whoever registered stays listed, whoever moves.
LEMMA ListedStep ==
  ASSUME MemberInv, Next, NEW q \in Pids
  PROVE  PhaseFits(q)' /\ IsListed(q)'
<1>1. ASSUME NEW p \in Pids, RunLoop(p) \/ Bootstrap(p)
      PROVE  PhaseFits(q)' /\ IsListed(q)'
  <2>1. CASE q = p
    BY <1>1, <2>1, LoopListed, BootListed, Zenon
  <2>2. CASE q # p
    BY <1>1, <2>2, OthersStay, ListedStays, ZenonT(30)
  <2>. QED  BY <2>1, <2>2, Zenon
<1>2. ASSUME NEW p \in Pids, StopHttp(p)
      PROVE  PhaseFits(q)' /\ IsListed(q)'
  <2>1. UNCHANGED <<pc, round, dir>> /\ status' = [status EXCEPT ![p] = "stopped"] /\ Shape
    BY <1>2 DEF StopHttp, storage, control, MemberInv
  <2>2. CASE q = p
    <3>1. status'[q] = "stopped"
      BY <2>1, <2>2 DEF Shape
    <3>. QED  BY <3>1, Zenon DEF PhaseFits, IsListed
  <2>3. CASE q # p
    BY <2>1, <2>3, ListedStays DEF Shape
  <2>. QED  BY <2>2, <2>3
<1>3. CASE \/ \E p \in Pids : Mutate(p) \/ Poll(p)
           \/ \E p, x \in Pids : Connect(p, x)
           \/ \E m \in msgs : Discard(m)
  <2>1. UNCHANGED <<pc, status, round, dir>>
    BY <1>3, Zenon DEF Mutate, Poll, Connect, Discard, storage, control
  <2>. QED  BY <2>1, ListedStays
<1>. QED  BY <1>1, <1>2, <1>3 DEF Next

-----------------------------------------------------------------------------
(* The transformations of a replica's state.                               *)

\* Everybody's last own dot is a counter.
LEMMA OwnType ==
  ASSUME StatesGood, NEW r \in Pids
  PROVE  Own(r) \in Int /\ Own(r) >= -1
<1>1. IsDotSet(rep[r].vv)
  BY Zenon DEF StatesGood, GoodState, GoodRep, IsRep
<1>. QED  BY <1>1, GetType DEF Own

\* What a change of the matrix alone leaves of a state.
LEMMA MatrixGood ==
  ASSUME NEW p \in Pids, NEW s, GoodState(p, s), NEW M, IsMatrix(M)
  PROVE  /\ GoodState(p, [s EXCEPT !.matrix = M])
         /\ [s EXCEPT !.matrix = M].vv = s.vv /\ [s EXCEPT !.matrix = M].log = s.log
         /\ [s EXCEPT !.matrix = M].matrix = M /\ [s EXCEPT !.matrix = M].finals = s.finals
         /\ [s EXCEPT !.matrix = M].marker = s.marker
<1> DEFINE t == [s EXCEPT !.matrix = M]
<1>1. IsRep(s)
  BY DEF GoodState, GoodRep
<1>2. /\ t = [vv |-> s.vv, log |-> s.log, applied |-> s.applied,
              matrix |-> M, finals |-> s.finals, marker |-> s.marker]
      /\ t.vv = s.vv /\ t.log = s.log /\ t.applied = s.applied
      /\ t.matrix = M /\ t.finals = s.finals /\ t.marker = s.marker
  BY <1>1 DEF IsRep
<1> HIDE DEF t
<1>3. IsRep(t)
  BY <1>1, <1>2 DEF IsRep, IsMatrix
<1>4. GoodState(p, t)
  BY <1>2, <1>3, Zenon DEF GoodState, GoodRep
<1>. QED  BY <1>2, <1>4 DEF t

\* refresh_own_version_vector
LEMMA RefreshedGood ==
  ASSUME NEW p \in Pids, NEW s, GoodState(p, s)
  PROVE  /\ GoodState(p, Refreshed(s, p))
         /\ Refreshed(s, p).vv = s.vv /\ Refreshed(s, p).log = s.log
         /\ Refreshed(s, p).marker = s.marker
<1>1. IsRep(s) /\ IsMatrix(s.matrix)
  BY DEF GoodState, GoodRep, IsRep, IsMatrix
<1>2. IsDotSet(Outgoing(s))
  BY <1>1, OutgoingProperty, Zenon
<1>3. IsMatrix(Update(s.matrix, p, p, Outgoing(s)))
  BY <1>1, <1>2, UpdateType, ZenonT(30)
<1>. QED  BY <1>3, MatrixGood, SMT, Z3 DEF Refreshed

\* ORSet::mutate
LEMMA MutatedGood ==
  ASSUME NEW p \in Pids, NEW s, GoodState(p, s)
  PROVE  /\ GoodState(p, Mutated(s, p))
         /\ Get(Mutated(s, p).vv, p) = Get(s.vv, p) + 1
         /\ Mutated(s, p).marker = s.marker
<1> DEFINE c == NextCounter(s.vv, p)
           V == SetCounter(s.vv, p, c)
           L == [s.log EXCEPT ![p] = @ \cup {c}]
           A == [s.applied EXCEPT ![p] = @ \cup {c}]
           t == Mutated(s, p)
<1>1. /\ t = [vv |-> V, log |-> L, applied |-> A,
              matrix |-> s.matrix, finals |-> s.finals, marker |-> s.marker]
      /\ t.vv = V /\ t.log = L /\ t.applied = A
      /\ t.matrix = s.matrix /\ t.finals = s.finals /\ t.marker = s.marker
  BY Zenon DEF Mutated
<1>2. IsRep(s) /\ IsDotSet(s.vv) /\ IsDotMap(s.log) /\ IsDotMap(s.applied)
  BY DEF GoodState, GoodRep, IsRep
<1>3. c = Get(s.vv, p) + 1 /\ c \in Nat /\ c \in Int /\ c >= -1 /\ p \in Columns
  <2>1. Get(s.vv, p) \in Int /\ Get(s.vv, p) >= -1
    BY <1>2, GetType, Zenon
  <2>2. c = Get(s.vv, p) + 1
    BY DEF NextCounter, Get
  <2>3. p \in Columns
    BY Zenon DEF Columns
  <2>. QED  BY <2>1, <2>2, <2>3, SMT, Z3
<1> HIDE DEF c
<1>4. IsDotSet(V) /\ \A r \in Pids : Get(V, r) = IF r = p THEN c ELSE Get(s.vv, r)
  BY <1>2, <1>3, Zenon DEF SetCounter, IsDotSet, Get
<1> HIDE DEF V
<1>5. /\ L \in [Pids -> SUBSET Nat] /\ A \in [Pids -> SUBSET Nat]
      /\ L[p] = s.log[p] \cup {c} /\ A[p] = s.applied[p] \cup {c}
      /\ \A r \in Pids \ {p} : L[r] = s.log[r] /\ A[r] = s.applied[r]
  BY <1>2, <1>3, Zenon DEF IsDotMap
<1> HIDE DEF L, A, t
<1>6. ASSUME NEW l, IsDotMap(l), NEW K \in [Pids -> SUBSET Nat],
             K[p] = l[p] \cup {c}, \A r \in Pids \ {p} : K[r] = l[r]
      PROVE  IsDotMap(K)
  <2>1. ASSUME NEW r \in Pids PROVE \E b \in Int : \A e \in K[r] : e <= b
    <3>1. PICK b \in Int : \A e \in l[r] : e <= b
      BY <1>6, DotMapBound
    <3>2. CASE r = p /\ b <= c
      <4>1. \A e \in K[r] : e <= c
        BY <3>1, <3>2, <1>3, <1>6, SMT, Z3
      <4>2. c \in Int
        BY <1>3, Zenon
      <4>. QED  BY <4>1, <4>2, Zenon
    <3>3. CASE r = p /\ c <= b
      <4>1. \A e \in K[r] : e <= b
        BY <3>1, <3>3, <1>3, <1>6, Zenon
      <4>. QED  BY <4>1, Zenon
    <3>4. CASE r # p
      BY <3>1, <3>4, <1>6, Zenon
    <3>. QED  BY <3>2, <3>3, <3>4, <1>3, SMT, Z3
  <2>. QED  BY <2>1, BoundedDotMap, Zenon
<1>7. IsDotMap(L) /\ IsDotMap(A)
  BY <1>2, <1>5, <1>6, Zenon
<1>8. IsRep(t)
  BY <1>1, <1>2, <1>4, <1>7, ZenonT(30) DEF IsRep
<1>9. \A e \in L[p] : e <= Get(V, p)
  <2>1. \A e \in s.log[p] : e <= Get(s.vv, p)
    BY Zenon DEF GoodState
  <2>2. Get(V, p) = c /\ Get(s.vv, p) \in Int /\ s.log[p] \subseteq Nat
    BY <1>2, <1>4, GetType, Zenon DEF IsDotMap
  <2>. QED  BY <2>1, <2>2, <1>3, <1>5, SMT, Z3
<1>10. \A r \in Pids \ {p} : Get(V, r) <= Own(r) /\ \A e \in L[r] : e <= Own(r)
  BY <1>4, <1>5, ZenonT(30) DEF GoodState
<1>11. GoodRep(t)
  BY <1>1, <1>8 DEF GoodState, GoodRep
<1>12. GoodState(p, t)
  BY <1>1, <1>9, <1>10, <1>11, ZenonT(30) DEF GoodState
<1>. QED  BY <1>1, <1>3, <1>4, <1>12 DEF t

\* ORSet::merge_delta_group, of a group that holds no dot its replica lacks: the
\* own entry stays as it is.
LEMMA MergedGood ==
  ASSUME StatesGood, NEW p \in Pids, NEW s, GoodState(p, s), NEW list, IsDotMap(list),
         \A c \in list[p] : c <= Get(s.vv, p),
         \A r \in Pids \ {p} : \A c \in list[r] : c <= Own(r)
  PROVE  /\ GoodState(p, Merged(s, list))
         /\ Get(Merged(s, list).vv, p) = Get(s.vv, p)
         /\ Merged(s, list).marker = s.marker
<1> DEFINE V == MergedVector(s.vv, list)
           L == MergedLog(s.log, s.vv, list)
           A == MergedLog(s.applied, s.vv, list)
           t == Merged(s, list)
<1>1. /\ t = [vv |-> V, log |-> L, applied |-> A,
              matrix |-> s.matrix, finals |-> s.finals, marker |-> s.marker]
      /\ t.vv = V /\ t.log = L /\ t.applied = A
      /\ t.matrix = s.matrix /\ t.finals = s.finals /\ t.marker = s.marker
  BY Zenon DEF Merged
<1>2. IsRep(s) /\ IsDotSet(s.vv) /\ IsDotMap(s.log) /\ IsDotMap(s.applied)
  BY DEF GoodState, GoodRep, IsRep
<1>3. /\ IsDotSet(V) /\ Get(V, p) = Get(s.vv, p)
      /\ \A r \in Pids : Get(V, r) \in list[r] \cup {Get(s.vv, r)}
  BY <1>2, MergedVectorType, Zenon
<1>4. /\ IsDotMap(L) /\ IsDotMap(A)
      /\ \A r \in Pids : L[r] \subseteq s.log[r] \cup list[r]
  BY <1>2, MergedLogType, ZenonT(30)
<1> HIDE DEF V, L, A, t
<1>5. IsRep(t)
  BY <1>1, <1>2, <1>3, <1>4 DEF IsRep
<1>6. GoodRep(t)
  BY <1>1, <1>5, Zenon DEF GoodState, GoodRep
<1>7. \A e \in L[p] : e <= Get(V, p)
  BY <1>3, <1>4, Zenon DEF GoodState
<1>8. \A r \in Pids \ {p} : Get(V, r) <= Own(r) /\ \A e \in L[r] : e <= Own(r)
  BY <1>3, <1>4, Zenon DEF GoodState
<1>9. GoodState(p, t)
  BY <1>1, <1>6, <1>7, <1>8, Zenon DEF GoodState
<1>. QED  BY <1>1, <1>3, <1>9 DEF t

\* Replica::apply_gc_marker: a marker does not name the replica that applies it.
LEMMA AfterMarkerGood ==
  ASSUME StatesGood, NEW p \in Pids, p \notin Gone, NEW s, GoodState(p, s),
         NEW m, GoodMarker(m)
  PROVE  /\ GoodState(p, AfterMarker(s, p, m))
         /\ Get(AfterMarker(s, p, m).vv, p) = Get(s.vv, p)
         /\ AfterMarker(s, p, m).marker = m
<1> DEFINE V == RemovePids(s.vv, m.departed)
           L == Retain(s.log, m.stable, m.departed)
           M == ApplyMarker(s.matrix, s.finals, p, m)
           D == Removable(s.matrix, s.finals, m.departed)
           F == RemovePids(s.finals, D)
           t == AfterMarker(s, p, m)
<1>1. /\ t = [vv |-> V, log |-> L, applied |-> s.applied,
              matrix |-> M, finals |-> F, marker |-> m]
      /\ t.vv = V /\ t.log = L /\ t.applied = s.applied
      /\ t.matrix = M /\ t.finals = F /\ t.marker = m
  BY ZenonT(30) DEF AfterMarker
<1>2. /\ IsRep(s) /\ IsDotSet(s.vv) /\ IsDotMap(s.log) /\ IsDotMap(s.applied)
      /\ IsMatrix(s.matrix) /\ IsDotSet(s.finals) /\ DOMAIN s.finals \subseteq Gone
  BY DEF GoodState, GoodRep, IsRep, IsMatrix
<1>3. IsMarker(m) /\ m.departed \subseteq Gone
  BY DEF GoodMarker
<1>4. IsDotSet(V) /\ \A r \in Pids : Get(V, r) = IF r \in m.departed THEN -1 ELSE Get(s.vv, r)
  BY <1>2, RemovePidsType, ZenonT(30)
<1> HIDE DEF D
<1>5. IsDotSet(F) /\ DOMAIN F \subseteq Gone
  <2>1. IsDotSet(s.finals) /\ DOMAIN s.finals \subseteq Gone
    BY <1>2
  <2>2. IsDotSet(F) /\ DOMAIN F = DOMAIN s.finals \ D
    BY ONLY <2>1, RemovePidsType, Zenon
  <2>. QED  BY ONLY <2>1, <2>2, Zenon
<1>6. IsDotMap(L) /\ \A r \in Pids : L[r] \subseteq s.log[r]
  BY <1>2, RetainType, Zenon
<1>7. IsMatrix(M)
  BY <1>2, <1>3, ApplyMarkerType, Zenon
<1> HIDE DEF V, L, M, F, t
<1>8. GoodRep(t)
  BY <1>1, <1>2, <1>3, <1>4, <1>5, <1>6, <1>7, ZenonT(30) DEF IsRep, IsMatrix, GoodRep, GoodMarker
<1>9. Get(V, p) = Get(s.vv, p)
  BY <1>3, <1>4
<1>10. \A r \in Pids \ {p} : Get(V, r) <= Own(r) /\ \A e \in L[r] : e <= Own(r)
  <2> TAKE r \in Pids \ {p}
  <2>1. Get(s.vv, r) <= Own(r) /\ \A e \in s.log[r] : e <= Own(r)
    BY DEF GoodState
  <2>2. -1 <= Own(r)
    BY OwnType
  <2>. QED  BY <2>1, <2>2, <1>4, <1>6, ZenonT(30)
<1>11. GoodState(p, t)
  BY <1>1, <1>6, <1>8, <1>9, <1>10, ZenonT(30) DEF GoodState
<1>. QED  BY <1>1, <1>9, <1>11, Zenon DEF t

\* Replica::observe_gc
LEMMA ObservedGood ==
  ASSUME StatesGood, NEW p \in Pids, p \notin Gone, NEW s, GoodState(p, s),
         NEW m, GoodMarker(m)
  PROVE  /\ GoodState(p, Observed(s, p, m))
         /\ Get(Observed(s, p, m).vv, p) = Get(s.vv, p)
         /\ Observed(s, p, m).marker \in {s.marker, m}
BY AfterMarkerGood, SMT, Z3 DEF Observed

\* CRDTWrapper's final_dots, when a shutdown descriptor is handled.
LEMMA FinalsGood ==
  ASSUME NEW p \in Pids, NEW s, GoodState(p, s), NEW q \in Gone, NEW f \in Int, f >= -1
  PROVE  /\ GoodState(p, [s EXCEPT !.finals = SetCounter(@, q, f)])
         /\ [s EXCEPT !.finals = SetCounter(@, q, f)].vv = s.vv
         /\ [s EXCEPT !.finals = SetCounter(@, q, f)].marker = s.marker
<1> DEFINE F == SetCounter(s.finals, q, f)
           t == [s EXCEPT !.finals = SetCounter(@, q, f)]
<1>1. IsRep(s) /\ IsDotSet(s.finals) /\ DOMAIN s.finals \subseteq Gone /\ q \in Columns
  BY DEF GoodState, GoodRep, IsRep, Gone, Columns
<1>2. /\ t = [vv |-> s.vv, log |-> s.log, applied |-> s.applied,
              matrix |-> s.matrix, finals |-> F, marker |-> s.marker]
      /\ t.vv = s.vv /\ t.log = s.log /\ t.applied = s.applied
      /\ t.matrix = s.matrix /\ t.finals = F /\ t.marker = s.marker
  BY <1>1, SMT, Z3 DEF IsRep
<1>3. IsDotSet(F) /\ DOMAIN F \subseteq Gone
  BY <1>1, Zenon DEF SetCounter, IsDotSet
<1> HIDE DEF F, t
<1>4. GoodRep(t)
  BY <1>1, <1>2, <1>3, ZenonT(30) DEF GoodState, GoodRep, IsRep
<1>5. GoodState(p, t)
  BY <1>2, <1>4 DEF GoodState
<1>. QED  BY <1>2, <1>5, ZenonT(30) DEF t

\* ReplicaNetwork::enqueue_members
LEMMA DiscoveredType ==
  ASSUME NEW members, \A d \in members : IsDescriptor(d), NEW p
  PROVE  /\ DOMAIN Discovered(members, p) \subseteq Pids
         /\ \A q \in DOMAIN Discovered(members, p) :
              Discovered(members, p)[q] \in Int /\ Discovered(members, p)[q] >= -1
<1> DEFINE G == GcCounters(members)
<1>1. DOMAIN G \subseteq Pids /\ G \in [DOMAIN G -> 0 .. MaxGc]
  BY GcCountersType
<1>2. DOMAIN G = {d.pid : d \in members}
  BY Zenon DEF GcCounters
<1> HIDE DEF G
<1>3. /\ DOMAIN Discovered(members, p) \subseteq DOMAIN G
      /\ \A q \in DOMAIN Discovered(members, p) : Discovered(members, p)[q] = G[q]
  BY <1>2 DEF Discovered, G
<1>4. \A c \in 0 .. MaxGc : c \in Int /\ c >= -1
  BY ConstantsAssumption
<1>. QED  BY <1>1, <1>3, <1>4, Zenon

-----------------------------------------------------------------------------
(* The initial states.                                                     *)

\* The founders' initial state, with a row for each of the others.
LEMMA InitMember ==
  ASSUME Init
  PROVE  MemberInv
<1>1. IsDotSet(NewDotSet) /\ DOMAIN NewDotSet = {} /\ \A r : Get(NewDotSet, r) = -1
  BY SMTT(30) DEF NewDotSet, IsDotSet, Get
<1>2. GoodMarker(NoMarker)
  <2>1. NoMarker.counter = 0 /\ NoMarker.stable = NewDotSet /\ NoMarker.departed = {}
    BY DEF NoMarker
  <2>2. 0 \in 0 .. MaxGc
    BY ConstantsAssumption, SMT, Z3
  <2>3. NoMarker = [counter |-> NoMarker.counter, stable |-> NoMarker.stable,
                    departed |-> NoMarker.departed]
    BY ZenonT(30) DEF NoMarker
  <2>. QED  BY <1>1, <2>1, <2>2, <2>3, ZenonT(30) DEF GoodMarker, IsMarker
<1>3. ASSUME NEW p \in Pids
      PROVE  /\ GoodRep(NewRep(p)) /\ IsMatrix(NewRep(p).matrix)
             /\ NewRep(p).vv = NewDotSet /\ \A r \in Pids : NewRep(p).log[r] = {}
  <2>. DEFINE none == [q \in Pids |-> {}]
              row == [r \in {Stable} |-> 0]
              M == [q \in {p} |-> row]
  <2>1. NewRep(p) = [vv |-> NewDotSet, log |-> none, applied |-> none, matrix |-> M,
                     finals |-> NewDotSet, marker |-> NoMarker]
    BY Zenon DEF NewRep
  <2>2. IsDotMap(none) /\ \A r \in Pids : none[r] = {}
    BY DEF IsDotMap
  <2>3. IsDotSet(row)
    BY DEF IsDotSet, Columns
  <2>4. IsMatrix(M)
    <3>. HIDE DEF row
    <3>. QED  BY <2>3, Zenon DEF IsMatrix, Columns
  <2>. HIDE DEF none, M
  <2>5. IsRep(NewRep(p))
    BY <1>1, <1>2, <2>1, <2>2, <2>4, SMTT(30), Z3T(30) DEF IsRep, IsMatrix, GoodMarker
  <2>. QED  BY <1>1, <1>2, <2>1, <2>2, <2>4, <2>5, SMT, Z3 DEF GoodRep
<1>4. \A p \in Pids : GoodState(p, NewRep(p)) /\ KnownRep(NewRep(p))
  <2>1. \A r \in Pids : Own(r) = -1
    <3>. SUFFICES ASSUME NEW r \in Founders
                  PROVE  Get(rep[r].vv, r) = -1
      BY Zenon DEF Init, Own, Pids
    <3>1. r \in Pids
      BY DEF Pids
    <3>2. \E x : rep[r] = [NewRep(r) EXCEPT !.matrix = x]
      BY <3>1, Zenon DEF Init
    <3>3. rep[r].vv = NewDotSet
      BY <3>1, <3>2, <1>3 DEF NewRep
    <3>. QED  BY <3>3, <1>1
  <2>. QED  BY <1>1, <1>3, <2>1 DEF GoodState, KnownRep, KnownLog
<1>5. \A p \in Pids : GoodState(p, rep[p]) /\ rep[p].vv = NewDotSet
  <2>. SUFFICES ASSUME NEW p \in Pids
                PROVE  GoodState(p, rep[p]) /\ rep[p].vv = NewDotSet
    OBVIOUS
  <2>1. CASE p \in Founders
    <3>. DEFINE M == InsertPids(NewRep(p).matrix, [q \in Founders \ {p} |-> 0])
    <3>1. rep[p] = [NewRep(p) EXCEPT !.matrix = M]
      BY <2>1, ZenonT(30) DEF Init
    <3>2. IsMatrix(M)
      BY <1>3, InsertPidsType DEF Pids
    <3>. HIDE DEF M
    <3>. QED  BY <1>3, <1>4, <3>1, <3>2, MatrixGood, SMT, Z3
  <2>2. CASE p \notin Founders
    BY <1>3, <1>4, <2>2, Zenon DEF Init
  <2>. QED  BY <2>1, <2>2, Zenon
<1>6. \A d \in dir : GoodDescriptor(d)
  <2>1. \A p \in Founders : GoodDescriptor(Active(p, 0))
    BY ConstantsAssumption DEF GoodDescriptor, IsDescriptor, IsShutdown, Active, Pids
  <2>. QED  BY <2>1, Zenon DEF Init
<1>7. Shape
  BY DEF Init, Shape, Pids
<1>8. StoreGood
  BY <1>3, <1>4, <1>6, Zenon DEF Init, StoreGood, Pids
<1>9. LocalsGood
  BY <1>6, Zenon DEF Init, LocalsGood
<1>10. ASSUME NEW p \in Pids
       PROVE  PhaseFits(p) /\ IsListed(p)
  <2>1. p \in Founders => Active(p, 0) \in dir /\ status[p] = "running" /\ pc[p] = "loop"
    BY <1>10 DEF Init
  <2>2. p \notin Founders => status[p] = "down" /\ pc[p] = "register"
    BY <1>10, Zenon DEF Init
  <2>3. Active(p, 0).pid = p /\ ~IsShutdown(Active(p, 0))
    BY Zenon DEF Active, IsShutdown
  <2>. QED  BY <2>1, <2>2, <2>3, Zenon DEF PhaseFits, IsListed
<1>11. FoundersCount
  <2>. SUFFICES ASSUME NEW p \in Founders
                PROVE  /\ status[p] \notin {"down", "booting"}
                       /\ Get(rep[p].vv, p) = acked[p] - 1
    BY DEF FoundersCount
  <2>1. p \in Pids
    BY DEF Pids
  <2>2. status[p] = "running" /\ acked[p] = 0
    BY <2>1 DEF Init
  <2>. QED  BY <1>1, <1>5, <2>1, <2>2, SMT, Z3
<1>. QED  BY <1>5, <1>7, <1>8, <1>9, <1>10, <1>11, ZenonT(30) DEF MemberInv, StatesGood, MessagesGood, Init

-----------------------------------------------------------------------------
(* What a step may do to what everybody relies on.                         *)

\* Nobody returns, and nobody loses a dot of its own that others may know.
Grows ==
  /\ Gone \subseteq Gone'
  /\ \A r \in Pids : Own(r)' \in Int /\ Own(r) <= Own(r)'

\* What may be handed on may still be handed on later.
LEMMA GoodStays ==
  ASSUME StatesGood, Grows
  PROVE  /\ \A d : GoodDescriptor(d) => GoodDescriptor(d)'
         /\ \A m : GoodMarker(m) => GoodMarker(m)'
         /\ \A s : GoodRep(s) => GoodRep(s)'
         /\ \A l : IsDotMap(l) /\ KnownLog(l) => KnownLog(l)'
         /\ \A s : IsRep(s) /\ KnownRep(s) => KnownRep(s)'
         /\ \A m : GoodMessage(m) => GoodMessage(m)'
         /\ \A q, r : GoodRound(q, r) => GoodRound(q, r)'
         /\ \A q \in Pids : \A s : GoodState(q, s) => GoodState(q, s)'
<1>1. Gone \subseteq Gone'
  BY DEF Grows
<1>2. \A r \in Pids : Own(r) \in Int /\ Own(r)' \in Int /\ Own(r) <= Own(r)'
  BY OwnType DEF Grows
<1>3. \A r \in Pids : \A c \in Int : c <= Own(r) => c <= Own(r)'
  BY <1>2
<1>4. \A d : GoodDescriptor(d) => GoodDescriptor(d)'
  BY <1>1, Zenon DEF GoodDescriptor
<1>5. \A m : GoodMarker(m) => GoodMarker(m)'
  BY <1>1 DEF GoodMarker
<1>6. \A s : GoodRep(s) => GoodRep(s)'
  BY <1>1, <1>5 DEF GoodRep
<1>7. \A l : IsDotMap(l) /\ KnownLog(l) => KnownLog(l)'
  <2> SUFFICES ASSUME NEW l, IsDotMap(l), KnownLog(l), NEW r \in Pids, NEW c \in l[r]
               PROVE  c <= Own(r)'
    BY DEF KnownLog
  <2>1. c \in Int /\ c <= Own(r)
    BY DEF IsDotMap, KnownLog
  <2>. QED  BY <2>1, <1>3, Zenon
<1>8. \A s : IsRep(s) => \A r \in Pids : Get(s.vv, r) \in Int
  BY GetType, Zenon DEF IsRep
<1>9. \A s : IsRep(s) /\ KnownRep(s) => KnownRep(s)'
  <2> SUFFICES ASSUME NEW s, IsRep(s), KnownRep(s) PROVE KnownRep(s)'
    BY Zenon
  <2>1. KnownLog(s.log)'
    BY <1>7 DEF IsRep, KnownRep
  <2>2. \A r \in Pids : Get(s.vv, r) <= Own(r)'
    BY <1>3, <1>8 DEF KnownRep
  <2>. QED  BY <2>1, <2>2 DEF KnownRep
<1>10. \A m : GoodMessage(m) => GoodMessage(m)'
  <2> SUFFICES ASSUME NEW m, GoodMessage(m) PROVE GoodMessage(m)'
    OBVIOUS
  <2>1. m.kind = "delta" => GoodMarker(m.gc)'
    BY <1>5, Zenon DEF GoodMessage
  <2>2. m.kind = "delta" => KnownLog(m.list)'
    BY <1>7, Zenon DEF GoodMessage, IsMessage
  <2>. QED  BY <2>1, <2>2 DEF GoodMessage
<1>11. \A q, r : GoodRound(q, r) => GoodRound(q, r)'
  <2> SUFFICES ASSUME NEW q, NEW r, GoodRound(q, r) PROVE GoodRound(q, r)'
    BY Zenon
  <2>1. GoodMarker(r.marker)'
    BY <1>5, ZenonT(30) DEF GoodRound
  <2>. QED  BY <2>1, Zenon DEF GoodRound
<1>12. \A q \in Pids : \A s : GoodState(q, s) => GoodState(q, s)'
  <2> SUFFICES ASSUME NEW q \in Pids, NEW s, GoodState(q, s) PROVE GoodState(q, s)'
    BY Zenon
  <2>1. GoodRep(s)' /\ IsRep(s)
    BY <1>6, Zenon DEF GoodState, GoodRep
  <2>2. ASSUME NEW r \in Pids \ {q}
        PROVE  Get(s.vv, r) <= Own(r)' /\ \A c \in s.log[r] : c <= Own(r)'
    <3>1. IsDotSet(s.vv) /\ IsDotMap(s.log)
      BY <2>1, Zenon DEF IsRep
    <3>2. Get(s.vv, r) \in Int
      BY <3>1, GetType, Zenon
    <3>3. s.log[r] \subseteq Int
      BY <3>1 DEF IsDotMap
    <3>. QED  BY <3>2, <3>3, <1>3, Zenon DEF GoodState
  <2>. QED  BY <2>1, <2>2 DEF GoodState
<1>. QED  BY <1>4, <1>5, <1>6, <1>7, <1>9, <1>10, <1>11, <1>12, ZenonT(30)

\* It is enough that every replica's next state is good now.
LEMMA StatesFollow ==
  ASSUME StatesGood, Grows, \A q \in Pids : GoodState(q, rep'[q])
  PROVE  StatesGood'
<1> SUFFICES ASSUME NEW q \in Pids PROVE GoodState(q, rep[q])'
  BY DEF StatesGood
<1>1. PICK s : s = rep'[q]
  OBVIOUS
<1>2. GoodState(q, s)
  BY <1>1
<1>3. GoodState(q, s)'
  BY <1>2, GoodStays, Zenon
<1>4. GoodRep(s)' /\ (\A c \in s.log[q] : c <= Get(s.vv, q))
      /\ \A r \in Pids \ {q} : Get(s.vv, r) <= Own(r)' /\ \A c \in s.log[r] : c <= Own(r)'
  BY <1>3, Zenon DEF GoodState
<1>5. IsRep(s) /\ DOMAIN s.finals \subseteq Gone' /\ IsMarker(s.marker) /\ s.marker.departed \subseteq Gone'
  BY <1>4, Zenon DEF GoodRep, GoodMarker
<1>6. GoodRep(rep[q])'
  BY <1>1, <1>5, Zenon DEF GoodRep, GoodMarker
<1>. QED  BY <1>1, <1>4, <1>6, Zenon DEF GoodState

\* A step of p that replaces its state and takes no own dot away.
LEMMA StateMoves ==
  ASSUME Shape, StatesGood, NEW p \in Pids, NEW s, GoodState(p, s),
         rep' = [rep EXCEPT ![p] = s], UNCHANGED status,
         Get(rep[p].vv, p) <= Get(s.vv, p)
  PROVE  Grows /\ StatesGood'
<1>1. rep'[p] = s /\ \A q \in Pids \ {p} : rep'[q] = rep[q]
  BY Zenon DEF Shape
<1>2. Gone \subseteq Gone'
  BY DEF Gone
<1>3. IsDotSet(s.vv) /\ \A q \in Pids : IsDotSet(rep[q].vv)
  BY ZenonT(30) DEF StatesGood, GoodState, GoodRep, IsRep
<1>4. ASSUME NEW r \in Pids PROVE Own(r)' \in Int /\ Own(r) <= Own(r)'
  <2>1. Get(s.vv, r) \in Int /\ Get(rep[r].vv, r) \in Int
    BY <1>3, GetType, Zenon
  <2>2. CASE r = p
    BY <2>1, <2>2, <1>1, SMT, Z3 DEF Own
  <2>3. CASE r # p
    <3>1. Own(r)' = Own(r)
      BY <2>3, <1>1, SMTT(30), Z3T(30) DEF Own
    <3>. QED  BY <3>1, OwnType, SMT, Z3
  <2>. QED  BY <2>2, <2>3, Zenon
<1>5. Grows
  BY <1>2, <1>4, Zenon DEF Grows
<1>6. \A q \in Pids : GoodState(q, rep'[q])
  BY <1>1 DEF StatesGood
<1>. QED  BY <1>5, <1>6, StatesFollow

\* A step of p that changes its status on the way from "down" to "stopped".
LEMMA StatusMoves ==
  ASSUME Shape, StatesGood, NEW p \in Pids, NEW x,
         status' = [status EXCEPT ![p] = x], UNCHANGED rep,
         \/ status[p] = "down" /\ x = "booting"
         \/ status[p] = "running" /\ x \in {"panicked", "stopping"}
         \/ status[p] = "stopping" /\ x = "stopped"
  PROVE  Grows /\ StatesGood'
<1>1. status'[p] = x /\ \A q \in Pids \ {p} : status'[q] = status[q]
  BY DEF Shape
<1>2. Gone \subseteq Gone'
  BY <1>1, Zenon DEF Gone
<1>3. \A r \in Pids : Own(r)' = Own(r)
  BY <1>1 DEF Own
<1>4. \A r \in Pids : Own(r)' \in Int /\ Own(r) <= Own(r)'
  BY <1>3, OwnType, SMT, Z3
<1>5. Grows
  BY <1>2, <1>4 DEF Grows
<1>. QED  BY <1>5, StatesFollow, Zenon DEF StatesGood

\* A step that leaves the states alone.
LEMMA StatesStay ==
  ASSUME StatesGood, UNCHANGED <<rep, status>>
  PROVE  Grows /\ StatesGood'
<1>1. Gone \subseteq Gone'
  BY DEF Gone
<1>2. \A r \in Pids : Own(r)' = Own(r)
  BY DEF Own
<1>3. \A r \in Pids : Own(r)' \in Int /\ Own(r) <= Own(r)'
  BY <1>2, OwnType
<1>4. Grows
  BY <1>1, <1>3, Zenon DEF Grows
<1>. QED  BY <1>4, StatesFollow DEF StatesGood

-----------------------------------------------------------------------------
(* The states, over every action.                                          *)

\* A step of p that keeps its own entry.
LEMMA KeepsEntry ==
  ASSUME MemberInv, NEW p \in Pids, NEW s, GoodState(p, s),
         Get(s.vv, p) = Get(rep[p].vv, p),
         rep' = [rep EXCEPT ![p] = s], UNCHANGED <<status, acked>>
  PROVE  Grows /\ StatesGood' /\ FoundersCount'
<1>1. Shape /\ StatesGood /\ FoundersCount
  BY Zenon DEF MemberInv
<1>2. Get(rep[p].vv, p) \in Int
  BY <1>1, GetType, ZenonT(30) DEF StatesGood, GoodState, GoodRep, IsRep
<1>3. Get(rep[p].vv, p) <= Get(s.vv, p) /\ UNCHANGED status
  BY <1>2
<1>4. Grows /\ StatesGood'
  BY <1>1, <1>3, StateMoves, Zenon
<1>5. \A q \in Founders : Get(rep'[q].vv, q) = Get(rep[q].vv, q)
  BY <1>1, Zenon DEF Shape, Pids
<1>. QED  BY <1>1, <1>4, <1>5, Zenon DEF FoundersCount

\* A step that leaves states and statuses alone.
LEMMA KeepsStates ==
  ASSUME MemberInv, UNCHANGED <<rep, status, acked>>
  PROVE  Grows /\ StatesGood' /\ FoundersCount'
BY StatesStay, Zenon DEF MemberInv, FoundersCount

\* The run loop runs only while its replica has not shut down.
LEMMA RunningOwn ==
  ASSUME MemberInv, NEW p \in Pids, status[p] = "running"
  PROVE  /\ p \notin Gone /\ Own(p) = Get(rep[p].vv, p)
         /\ GoodState(p, rep[p]) /\ IsRep(rep[p]) /\ IsMatrix(rep[p].matrix)
BY Zenon DEF MemberInv, StatesGood, GoodState, GoodRep, IsRep, IsMatrix, Gone, Own

\* ORSet::merge_delta_group, or its panic.
LEMMA ApplyGroupGood ==
  ASSUME MemberInv, NEW p \in Pids, status[p] = "running",
         NEW s, GoodState(p, s), Get(s.vv, p) = Get(rep[p].vv, p),
         NEW list, IsDotMap(list), KnownLog(list), ApplyGroup(p, s, list), UNCHANGED acked
  PROVE  Grows /\ StatesGood' /\ FoundersCount'
<1>1. Shape /\ StatesGood /\ FoundersCount
  BY Zenon DEF MemberInv
<1>2. CASE UNCHANGED status /\ rep' = [rep EXCEPT ![p] = Refreshed(Merged(s, list), p)]
  <2>1. /\ \A c \in list[p] : c <= Get(s.vv, p)
        /\ \A r \in Pids \ {p} : \A c \in list[r] : c <= Own(r)
    BY RunningOwn, Zenon DEF KnownLog
  <2>2. GoodState(p, Merged(s, list)) /\ Get(Merged(s, list).vv, p) = Get(s.vv, p)
    BY <1>1, <2>1, MergedGood, Zenon
  <2>3. GoodState(p, Refreshed(Merged(s, list), p))
        /\ Get(Refreshed(Merged(s, list), p).vv, p) = Get(rep[p].vv, p)
    BY <2>2, RefreshedGood, Zenon
  <2>. QED  BY <1>2, <2>3, KeepsEntry, Zenon
<1>3. CASE UNCHANGED rep /\ status' = [status EXCEPT ![p] = "panicked"]
  <2>1. Grows /\ StatesGood'
    BY <1>1, <1>3, StatusMoves, Zenon
  <2>2. \A q \in Founders : status'[q] \in {status[q], "panicked"}
    BY <1>1, <1>3, Zenon DEF Shape, Pids
  <2>. QED  BY <1>1, <1>3, <2>1, <2>2, Zenon DEF FoundersCount
<1>. QED  BY <1>2, <1>3, Zenon DEF ApplyGroup

\* ORSet::mutate through the HTTP server.
LEMMA MutateGood ==
  ASSUME MemberInv, NEW p \in Pids, Mutate(p)
  PROVE  Grows /\ StatesGood' /\ FoundersCount'
<1>1. Shape /\ StatesGood /\ FoundersCount /\ GoodState(p, rep[p])
  BY Zenon DEF MemberInv, StatesGood
<1>2. Get(rep[p].vv, p) \in Int
  BY <1>1, GetType, Zenon DEF GoodState, GoodRep, IsRep
<1> DEFINE s == Mutated(rep[p], p)
<1>3. GoodState(p, s) /\ Get(s.vv, p) = Get(rep[p].vv, p) + 1
  BY <1>1, MutatedGood, Zenon
<1>4. rep' = [rep EXCEPT ![p] = s] /\ acked' = [acked EXCEPT ![p] = @ + 1] /\ UNCHANGED status
  BY DEF Mutate
<1> HIDE DEF s
<1>5. Get(rep[p].vv, p) <= Get(s.vv, p)
  BY <1>2, <1>3
<1>6. Grows /\ StatesGood'
  BY <1>1, <1>3, <1>4, <1>5, StateMoves, Zenon
<1>7. ASSUME NEW q \in Founders
      PROVE  status'[q] \notin {"down", "booting"} /\ Get(rep'[q].vv, q) = acked'[q] - 1
  <2>1. q \in Pids /\ acked[q] \in Nat /\ Get(rep[q].vv, q) = acked[q] - 1
        /\ status'[q] \notin {"down", "booting"}
    BY <1>1, <1>4, Zenon DEF Pids, Shape, FoundersCount
  <2>2. CASE q = p
    <3>1. rep'[q] = s /\ acked'[q] = acked[q] + 1
      BY <1>1, <1>4, <2>2, Zenon DEF Shape
    <3>2. Get(rep'[q].vv, q) = Get(rep[q].vv, q) + 1
      BY <1>3, <2>2, <3>1, Zenon
    <3>. QED  BY <2>1, <3>1, <3>2, SMTT(30), Z3T(30)
  <2>3. CASE q # p
    <3>1. rep'[q] = rep[q] /\ acked'[q] = acked[q]
      BY <1>1, <1>4, <2>1, <2>3, Zenon DEF Shape
    <3>. QED  BY <2>1, <3>1, Zenon
  <2>. QED  BY <2>2, <2>3, Zenon
<1>. QED  BY <1>6, <1>7, Zenon DEF FoundersCount

\* Replica::handle_version_vector: the sender's row and the own one.
LEMMA HandleVersionVectorGood ==
  ASSUME MemberInv, NEW p \in Pids, NEW m \in msgs, HandleVersionVector(p, m)
  PROVE  Grows /\ StatesGood' /\ FoundersCount'
<1> DEFINE M == Update(rep[p].matrix, p, m.from, m.vv)
           s == [rep[p] EXCEPT !.matrix = M]
           t == Refreshed(s, p)
<1>1. GoodState(p, rep[p]) /\ IsMatrix(rep[p].matrix)
  BY RunningOwn, Zenon DEF HandleVersionVector, Idle
<1>2. m.from \in Pids /\ IsDotSet(m.vv)
  BY Zenon DEF MemberInv, MessagesGood, GoodMessage, IsMessage
<1>3. IsMatrix(M)
  BY <1>1, <1>2, UpdateType, Zenon
<1>4. rep' = [rep EXCEPT ![p] = t] /\ UNCHANGED <<status, acked>>
  BY DEF HandleVersionVector
<1> HIDE DEF M
<1>5. GoodState(p, s) /\ s.vv = rep[p].vv
  BY <1>1, <1>3, MatrixGood, SMT, Z3
<1> HIDE DEF s
<1>6. GoodState(p, t) /\ t.vv = s.vv
  BY <1>5, RefreshedGood, Zenon
<1> HIDE DEF t
<1>. QED  BY <1>4, <1>5, <1>6, KeepsEntry, Zenon

\* Replica::handle_delta: the marker, then the group.
LEMMA HandleDeltaGood ==
  ASSUME MemberInv, NEW p \in Pids, NEW m \in msgs, HandleDelta(p, m)
  PROVE  Grows /\ StatesGood' /\ FoundersCount'
<1> DEFINE s == Observed(rep[p], p, m.gc)
<1>1. GoodState(p, rep[p]) /\ p \notin Gone /\ status[p] = "running" /\ StatesGood
  BY RunningOwn, Zenon DEF HandleDelta, Idle, MemberInv
<1>2. GoodMarker(m.gc) /\ IsDotMap(m.list) /\ KnownLog(m.list)
  BY Zenon DEF MemberInv, MessagesGood, GoodMessage, IsMessage, HandleDelta
<1>3. GoodState(p, s) /\ Get(s.vv, p) = Get(rep[p].vv, p)
  BY <1>1, <1>2, ObservedGood, ZenonT(30)
<1>4. ApplyGroup(p, s, m.list) /\ UNCHANGED acked
  BY DEF HandleDelta
<1> HIDE DEF s
<1>. QED  BY <1>1, <1>2, <1>3, <1>4, ApplyGroupGood, Zenon

\* Replica::apply_membership_poll: rows for the replicas discovered.
LEMMA ApplyPollGood ==
  ASSUME MemberInv, NEW p \in Pids, ApplyPoll(p)
  PROVE  Grows /\ StatesGood' /\ FoundersCount'
<1>1. GoodState(p, rep[p]) /\ IsMatrix(rep[p].matrix) /\ IsRep(rep[p]) /\ Shape
  BY RunningOwn DEF ApplyPoll, Idle, MemberInv
<1>2. PICK members \in poll[p] :
        rep' = [rep EXCEPT ![p].matrix = InsertPids(@, Discovered(members, p))]
  BY Zenon DEF ApplyPoll
<1> DEFINE M == InsertPids(rep[p].matrix, Discovered(members, p))
           s == [rep[p] EXCEPT !.matrix = M]
<1>3. \A d \in members : IsDescriptor(d)
  BY Zenon DEF MemberInv, LocalsGood, GoodDescriptor
<1>4. IsMatrix(M)
  BY <1>1, <1>3, InsertPidsType, DiscoveredType, Zenon
<1>5. rep' = [rep EXCEPT ![p] = s]
  BY <1>1, <1>2, Zenon DEF Shape
<1> HIDE DEF M
<1>6. GoodState(p, s) /\ s.vv = rep[p].vv
  BY <1>1, <1>4, MatrixGood, SMT, Z3
<1>7. UNCHANGED <<status, acked>>
  BY DEF ApplyPoll
<1> HIDE DEF s
<1>. QED  BY <1>5, <1>6, <1>7, KeepsEntry, Zenon

\* Replica::handle_shutdown_descriptor: the final dot, then the payload.
LEMMA HandleShutdownGood ==
  ASSUME MemberInv, NEW p \in Pids, NEW d \in todo[p], HandleShutdown(p, d)
  PROVE  Grows /\ StatesGood' /\ FoundersCount'
<1>1. GoodState(p, rep[p]) /\ status[p] = "running" /\ IsRep(rep[p])
  BY RunningOwn, Zenon DEF HandleShutdown
<1>2. GoodDescriptor(d) /\ IsShutdown(d)
  BY Zenon DEF MemberInv, LocalsGood
<1> DEFINE f == CHOOSE c \in d.final : TRUE
           s == [rep[p] EXCEPT !.finals = SetCounter(@, d.pid, f)]
           list == GetAllGreater(payload[d.pid].log, rep[p].vv)
<1>3. f \in Int /\ f >= -1 /\ d.pid \in Gone /\ d.pid \in Pids
  <2>1. f \in d.final
    BY <1>2, Zenon DEF IsShutdown
  <2>. QED  BY <1>2, <2>1, Zenon DEF GoodDescriptor, IsDescriptor
<1>4. CASE UNCHANGED <<status, rep>>
  BY <1>4, KeepsStates, Zenon DEF HandleShutdown
<1>5. CASE ApplyGroup(p, s, list)
  <2> HIDE DEF f
  <2>1. GoodState(p, s) /\ s.vv = rep[p].vv
    BY <1>1, <1>3, FinalsGood, SMT, Z3
  <2>2. IsRep(payload[d.pid]) /\ KnownLog(payload[d.pid].log)
    BY <1>3, Zenon DEF MemberInv, StoreGood, GoodRep, KnownRep
  <2>3. IsDotMap(list) /\ \A r \in Pids : list[r] \subseteq payload[d.pid].log[r]
    BY <1>1, <2>2, GreaterType, Zenon DEF IsRep
  <2> HIDE DEF s, list
  <2>4. KnownLog(list)
    BY <2>2, <2>3, Zenon DEF KnownLog
  <2>5. UNCHANGED acked
    BY DEF HandleShutdown
  <2>. QED  BY <1>1, <1>5, <2>1, <2>3, <2>4, <2>5, ApplyGroupGood, ZenonT(30)
<1>. QED  BY <1>4, <1>5, Zenon DEF HandleShutdown

\* PersistentReplica::rebind_own_pid: before p has bootstrapped nobody has a dot
\* of p, so what a snapshot claims of p is nothing.
LEMMA ReboundGood ==
  ASSUME StatesGood, NEW p \in Pids, Own(p) = -1, NEW x, GoodRep(x), KnownRep(x)
  PROVE  /\ GoodState(p, Rebound(x, p))
         /\ Rebound(x, p).vv = x.vv /\ Rebound(x, p).marker = x.marker
<1> DEFINE out == Outgoing(x)
           M == [q \in DOMAIN x.matrix \cup {p} |-> IF q = p THEN out ELSE x.matrix[q]]
<1>1. IsRep(x) /\ IsMatrix(x.matrix) /\ IsDotMap(x.log) /\ IsDotSet(out)
  BY OutgoingProperty, Zenon DEF GoodRep, IsRep, IsMatrix
<1>2. GoodState(p, x)
  <2>1. x.log[p] = {}
    <3>1. x.log[p] \subseteq Nat /\ \A c \in x.log[p] : c <= -1
      BY <1>1, Zenon DEF KnownRep, KnownLog, IsDotMap
    <3>. QED  BY <3>1, SMT, Z3
  <2>. QED  BY <2>1, Zenon DEF GoodState, KnownRep, KnownLog
<1>3. Rebound(x, p) = [x EXCEPT !.matrix = M]
  BY Zenon DEF Rebound
<1> HIDE DEF out
<1>4. IsMatrix(M)
  BY <1>1, Zenon DEF IsMatrix, Columns
<1> HIDE DEF M
<1>. QED  BY <1>2, <1>3, <1>4, MatrixGood, SMT, Z3

\* Replica::bootstrap_from_object_storage ends, and p may be known to others.
LEMMA InstallGood ==
  ASSUME MemberInv, NEW p \in Pids, Install(p)
  PROVE  Grows /\ StatesGood' /\ FoundersCount'
<1>1. /\ Shape /\ StatesGood /\ FoundersCount /\ GoodState(p, rep[p])
      /\ status[p] = "booting" /\ Own(p) = -1
  BY DEF MemberInv, StatesGood, Install, Own
<1>0. PICK read \in fetched[p] : \E s :
        /\ s = IF read = {} THEN rep[p] ELSE Rebound(CHOOSE x \in read : TRUE, p)
        /\ rep' = [rep EXCEPT ![p] =
                     [s EXCEPT !.matrix = InsertPids(@, Discovered(cache[p], p))]]
  BY Zenon DEF Install
<1>2. PICK s :
        /\ s = IF read = {} THEN rep[p] ELSE Rebound(CHOOSE x \in read : TRUE, p)
        /\ rep' = [rep EXCEPT ![p] =
                     [s EXCEPT !.matrix = InsertPids(@, Discovered(cache[p], p))]]
  BY <1>0, Zenon
<1>3. GoodState(p, s)
  <2>1. CASE read = {}
    BY <1>1, <1>2, <2>1, Zenon
  <2>2. CASE read # {}
    <3>1. PICK x : x \in read /\ s = Rebound(x, p)
      BY <1>2, <2>2, Zenon
    <3>2. GoodRep(x) /\ KnownRep(x)
      BY <3>1, Zenon DEF MemberInv, LocalsGood
    <3>. QED  BY <1>1, <3>1, <3>2, ReboundGood, Zenon
  <2>. QED  BY <2>1, <2>2, Zenon
<1> DEFINE M == InsertPids(s.matrix, Discovered(cache[p], p))
           t == [s EXCEPT !.matrix = M]
<1>4. IsMatrix(s.matrix) /\ \A d \in cache[p] : IsDescriptor(d)
  BY <1>3, ZenonT(30) DEF GoodState, GoodRep, IsRep, IsMatrix, MemberInv, LocalsGood, GoodDescriptor
<1>5. IsMatrix(M)
  BY <1>4, InsertPidsType, DiscoveredType, Zenon
<1>6. rep' = [rep EXCEPT ![p] = t]
  BY <1>2
<1> HIDE DEF M
<1>7. GoodState(p, t)
  BY <1>3, <1>5, MatrixGood, Zenon
<1> HIDE DEF t
<1>8. /\ rep'[p] = t /\ \A q \in Pids \ {p} : rep'[q] = rep[q]
      /\ status'[p] = "running" /\ \A q \in Pids \ {p} : status'[q] = status[q]
  BY <1>1, <1>6, Zenon DEF Shape, Install
<1>9. Grows
  <2>1. Gone \subseteq Gone'
    BY <1>1, <1>8, Zenon DEF Gone
  <2>2. Get(t.vv, p) \in Int /\ Get(t.vv, p) >= -1
    BY <1>7, GetType, ZenonT(30) DEF GoodState, GoodRep, IsRep
  <2>3. Own(p)' = Get(t.vv, p)
    BY <1>8, Zenon DEF Own
  <2>4. \A r \in Pids \ {p} : Own(r)' = Own(r)
    BY <1>8, ZenonT(30) DEF Own
  <2>5. \A r \in Pids : Own(r)' \in Int /\ Own(r) <= Own(r)'
    BY <1>1, <2>2, <2>3, <2>4, OwnType, SMT, Z3
  <2>. QED  BY <2>1, <2>5, Zenon DEF Grows
<1>10. \A q \in Pids : GoodState(q, rep'[q])
  BY <1>1, <1>7, <1>8, Zenon DEF StatesGood
<1>11. StatesGood'
  BY <1>1, <1>9, <1>10, StatesFollow, Zenon
<1>12. FoundersCount'
  <2>1. p \notin Founders
    BY <1>1, Zenon DEF FoundersCount
  <2>2. \A q \in Founders : q \in Pids \ {p}
    BY <2>1, Zenon DEF Pids
  <2>3. UNCHANGED acked
    BY Zenon DEF Install
  <2>. QED  BY <1>1, <1>8, <2>2, <2>3, Zenon DEF FoundersCount
<1>. QED  BY <1>9, <1>11, <1>12, Zenon

\* Whatever is done, nobody returns, nobody loses a dot of its own, and the
\* states stay good.
LEMMA StatesStep ==
  ASSUME MemberInv, Next
  PROVE  Grows /\ StatesGood' /\ FoundersCount'
<1>1. Shape /\ StatesGood /\ FoundersCount
  BY DEF MemberInv
<1>2. ASSUME NEW p \in Pids, RunLoop(p) PROVE Grows /\ StatesGood' /\ FoundersCount'
  <2>1. ASSUME status[p] = "running", rep' = [rep EXCEPT ![p] = Refreshed(rep[p], p)],
               UNCHANGED <<status, acked>>
        PROVE  Grows /\ StatesGood' /\ FoundersCount'
    <3> DEFINE s == Refreshed(rep[p], p)
    <3>1. GoodState(p, s) /\ Get(s.vv, p) = Get(rep[p].vv, p)
      BY <2>1, RunningOwn, RefreshedGood, Zenon
    <3> HIDE DEF s
    <3>2. rep' = [rep EXCEPT ![p] = s] /\ UNCHANGED <<status, acked>>
      BY <2>1, Zenon DEF s
    <3>. QED  BY <3>1, <3>2, KeepsEntry, Zenon
  <2>2. CASE RefreshOwn(p) \/ (\E q \in writers[p] : PullDelta(p, q)) \/ InitGc(p)
    BY <2>1, <2>2, Zenon DEF RefreshOwn, PullDelta, InitGc, Idle
  <2>3. CASE \E m \in msgs : HandleVersionVector(p, m) \/ HandleDelta(p, m)
    BY <2>3, HandleVersionVectorGood, HandleDeltaGood, Zenon
  <2>4. CASE ApplyPoll(p) \/ \E d \in todo[p] : HandleShutdown(p, d)
    BY <2>4, ApplyPollGood, HandleShutdownGood, Zenon
  <2>5. CASE CompleteGc(p)
    <3>1. PICK r \in round[p] : rep' = [rep EXCEPT ![p] = AfterMarker(rep[p], p, r.marker)]
      BY <2>5, Zenon DEF CompleteGc
    <3>2. GoodState(p, rep[p]) /\ p \notin Gone /\ UNCHANGED <<status, acked>>
      BY <2>5, RunningOwn, Zenon DEF CompleteGc
    <3>3. GoodMarker(r.marker)
      BY Zenon DEF MemberInv, LocalsGood, GoodRound
    <3> DEFINE s == AfterMarker(rep[p], p, r.marker)
    <3>4. GoodState(p, s) /\ Get(s.vv, p) = Get(rep[p].vv, p)
      BY <1>1, <3>2, <3>3, AfterMarkerGood, Zenon
    <3>5. rep' = [rep EXCEPT ![p] = s]
      BY <3>1, Zenon
    <3> HIDE DEF s
    <3>. QED  BY <3>2, <3>4, <3>5, KeepsEntry, Zenon
  <2>6. CASE Shutdown(p)
    <3>1. Grows /\ StatesGood'
      BY <1>1, <2>6, StatusMoves, Zenon DEF Shutdown, Idle
    <3>2. \A q \in Founders : status'[q] \in {status[q], "stopping"}
      BY <1>1, <2>6, Zenon DEF Shape, Pids, Shutdown
    <3>. QED  BY <1>1, <2>6, <3>1, <3>2, Zenon DEF FoundersCount, Shutdown
  <2>7. CASE \/ \E m \in msgs : RefuseDelta(p, m)
             \/ ValidateGc(p) \/ WithdrawGc(p) \/ Relist(p)
             \/ DeleteDeparted(p) \/ DeleteOld(p)
    BY <2>7, KeepsStates, Zenon DEF RefuseDelta, ValidateGc, WithdrawGc, Relist, DeleteDeparted, DeleteOld
  <2>. QED  BY <1>2, <2>2, <2>3, <2>4, <2>5, <2>6, <2>7, ZenonT(30) DEF RunLoop
<1>3. ASSUME NEW p \in Pids, Bootstrap(p) PROVE Grows /\ StatesGood' /\ FoundersCount'
  <2>1. CASE Start(p)
    <3>1. Grows /\ StatesGood'
      BY <1>1, <2>1, StatusMoves, Zenon DEF Start
    <3>2. \A q \in Founders : status'[q] = status[q]
      BY <1>1, <2>1, Zenon DEF Shape, Pids, Start, FoundersCount
    <3>. QED  BY <1>1, <2>1, <3>1, <3>2, Zenon DEF FoundersCount, Start
  <2>2. CASE Register(p) \/ ListMembers(p) \/ ReadSnapshot(p)
    BY <2>2, KeepsStates, Zenon DEF Register, ListMembers, ReadSnapshot
  <2>3. CASE Install(p)
    BY <2>3, InstallGood, Zenon
  <2>. QED  BY <1>3, <2>1, <2>2, <2>3, Zenon DEF Bootstrap
<1>4. ASSUME NEW p \in Pids, StopHttp(p) PROVE Grows /\ StatesGood' /\ FoundersCount'
  <2>1. Grows /\ StatesGood'
    BY <1>1, <1>4, StatusMoves, Zenon DEF StopHttp
  <2>2. \A q \in Founders : status'[q] \in {status[q], "stopped"}
    BY <1>1, <1>4, Zenon DEF Shape, Pids, StopHttp
  <2>. QED  BY <1>1, <1>4, <2>1, <2>2, Zenon DEF FoundersCount, StopHttp
<1>5. ASSUME NEW p \in Pids, Mutate(p) \/ Poll(p) PROVE Grows /\ StatesGood' /\ FoundersCount'
  BY <1>5, MutateGood, KeepsStates, Zenon DEF Poll
<1>6. CASE (\E p, q \in Pids : Connect(p, q)) \/ (\E m \in msgs : Discard(m))
  BY <1>6, KeepsStates, Zenon DEF Connect, Discard
<1>. QED  BY <1>2, <1>3, <1>4, <1>5, <1>6, Zenon DEF Next

-----------------------------------------------------------------------------
(* The messages and the object store, over every action.                   *)

\* The state of a replica that has bootstrapped may be handed on.
LEMMA StateKnown ==
  ASSUME StatesGood, NEW p \in Pids, status[p] \notin {"down", "booting"}
  PROVE  GoodRep(rep[p]) /\ KnownRep(rep[p])
<1>1. GoodState(p, rep[p]) /\ Own(p) = Get(rep[p].vv, p)
  BY Zenon DEF StatesGood, Own
<1>2. Own(p) <= Own(p)
  BY OwnType, SMT, Z3
<1>3. \A r \in Pids : Get(rep[p].vv, r) <= Own(r) /\ \A c \in rep[p].log[r] : c <= Own(r)
  BY <1>1, <1>2, Zenon DEF GoodState
<1>. QED  BY <1>1, <1>3, Zenon DEF GoodState, KnownRep, KnownLog

\* The same of its next state.
LEMMA NextStateKnown ==
  ASSUME StatesGood', Grows, NEW p \in Pids, status'[p] \notin {"down", "booting"},
         NEW x, x = rep'[p]
  PROVE  GoodRep(x)' /\ KnownRep(x)'
<1>1. GoodState(p, rep[p])' /\ Own(p)' = Get(rep'[p].vv, p) /\ Own(p)' \in Int
  BY Zenon DEF StatesGood, Own, Grows
<1>2. /\ IsRep(x) /\ DOMAIN x.finals \subseteq Gone' /\ IsMarker(x.marker)
      /\ x.marker.departed \subseteq Gone'
  BY <1>1, Zenon DEF GoodState, GoodRep, GoodMarker
<1>3. Own(p)' <= Own(p)'
  BY <1>1, SMT, Z3
<1>4. \A r \in Pids : Get(x.vv, r) <= Own(r)' /\ \A c \in x.log[r] : c <= Own(r)'
  BY <1>1, <1>3, Zenon DEF GoodState
<1>. QED  BY <1>2, <1>4, Zenon DEF GoodRep, GoodMarker, KnownRep, KnownLog

\* Nothing but good messages is ever sent.
LEMMA MessagesStep ==
  ASSUME MemberInv, Next, Grows
  PROVE  MessagesGood'
<1>1. Shape /\ StatesGood /\ \A m \in msgs : GoodMessage(m)
  BY DEF MemberInv, MessagesGood
<1>2. \A m : GoodMessage(m) => GoodMessage(m)'
  BY <1>1, GoodStays
<1>3. SUFFICES \A n \in msgs' \ msgs : GoodMessage(n)
  BY <1>1, <1>2, Zenon DEF MessagesGood
<1>4. ASSUME NEW p \in Pids, NEW q \in writers[p], PullDelta(p, q)
      PROVE  \A n \in msgs' \ msgs : GoodMessage(n)
  <2> DEFINE n == [kind |-> "vector", from |-> p, to |-> q, vv |-> Outgoing(rep[p])]
  <2>1. msgs' \subseteq msgs \cup {n}
    BY <1>4, Zenon DEF PullDelta, Send
  <2>2. IsDotSet(Outgoing(rep[p])) /\ q \in Pids
    BY <1>1, <1>4, RunningOwn, OutgoingProperty, Zenon DEF PullDelta, Idle, Shape
  <2>3. GoodMessage(n)
    BY <2>2, Zenon DEF GoodMessage, IsMessage
  <2>. QED  BY <2>1, <2>3, Zenon
<1>5. ASSUME NEW p \in Pids, NEW m \in msgs, HandleVersionVector(p, m)
      PROVE  \A n \in msgs' \ msgs : GoodMessage(n)
  <2> DEFINE out == Outgoing(rep[p])
             list == GetAllGreater(rep[p].log, m.vv)
             n == [kind |-> "delta", from |-> p, to |-> m.from, list |-> list,
                   vv |-> out, gc |-> rep[p].marker]
  <2>1. msgs' \subseteq msgs \cup {n}
    BY <1>5 DEF HandleVersionVector, Send
  <2>2. IsRep(rep[p]) /\ IsDotSet(out) /\ status[p] = "running"
    BY <1>5, RunningOwn, OutgoingProperty, Zenon DEF HandleVersionVector, Idle
  <2>3. m.from \in Pids /\ IsDotSet(m.vv)
    BY <1>1 DEF GoodMessage, IsMessage
  <2>4. GoodMarker(rep[p].marker) /\ KnownLog(rep[p].log)
    BY <1>1, <2>2, StateKnown, Zenon DEF GoodRep, KnownRep
  <2>5. IsDotMap(list) /\ \A r \in Pids : list[r] \subseteq rep[p].log[r]
    BY <2>2, <2>3, GreaterType, ZenonT(30) DEF IsRep
  <2> HIDE DEF out, list
  <2>6. KnownLog(list)
    BY <2>4, <2>5 DEF KnownLog
  <2>7. GoodMessage(n)
    BY <2>2, <2>3, <2>4, <2>5, <2>6, Zenon DEF GoodMessage, IsMessage, GoodMarker
  <2>. QED  BY <2>1, <2>7, Zenon
<1>6. CASE msgs' \subseteq msgs
  BY <1>6, Zenon
<1>7. ASSUME NEW p \in Pids, RunLoop(p)
      PROVE  \/ msgs' \subseteq msgs
             \/ \E q \in writers[p] : PullDelta(p, q)
             \/ \E m \in msgs : HandleVersionVector(p, m)
  BY <1>7, ZenonT(30) DEF RunLoop, RefreshOwn, RefuseDelta, HandleDelta, ApplyPoll, HandleShutdown, InitGc,
     ValidateGc, WithdrawGc, Relist, CompleteGc, DeleteDeparted, DeleteOld, Shutdown, network
<1>8. ASSUME NEW p \in Pids, Bootstrap(p) \/ Mutate(p) \/ Poll(p) \/ StopHttp(p)
      PROVE  msgs' \subseteq msgs
  BY <1>8 DEF Bootstrap, Start, Register, ListMembers, ReadSnapshot, Install, Mutate, Poll,
     StopHttp, network
<1>9. CASE (\E p, q \in Pids : Connect(p, q)) \/ (\E m \in msgs : Discard(m))
  BY <1>6, <1>9, ZenonT(30) DEF Connect, Discard
<1>. QED  BY <1>4, <1>5, <1>6, <1>7, <1>8, <1>9, ZenonT(30) DEF Next

\* GC counters stay below their bound.
LEMMA CounterBound ==
  ASSUME NEW s, IsRep(s), s.marker.counter < MaxGc
  PROVE  s.marker.counter \in 0 .. MaxGc /\ s.marker.counter + 1 \in 0 .. MaxGc
BY ConstantsAssumption, SMTT(30), Z3T(30) DEF IsRep, IsMarker

\* What init_gc publishes: an active descriptor of its own.
LEMMA PublishDir ==
  ASSUME MemberInv, NEW p \in Pids, InitGc(p)
  PROVE  \/ dir' = dir
         \/ dir' = dir \cup {Active(p, rep[p].marker.counter + 1)}
            /\ GoodDescriptor(Active(p, rep[p].marker.counter + 1))
<1> DEFINE s == Refreshed(rep[p], p)
<1>1. GoodState(p, rep[p]) /\ IsRep(rep[p])
  BY RunningOwn, Zenon DEF InitGc, Idle
<1>2. s.marker = rep[p].marker
  BY <1>1, RefreshedGood, Zenon
<1>3. /\ s.marker.counter < MaxGc
      /\ dir' = dir \/ dir' = dir \cup {Active(p, s.marker.counter + 1)}
  BY Zenon DEF InitGc, Publish
<1> HIDE DEF s
<1>4. rep[p].marker.counter + 1 \in 0 .. MaxGc
  BY <1>1, <1>2, <1>3, CounterBound, Zenon
<1>5. GoodDescriptor(Active(p, rep[p].marker.counter + 1))
  BY <1>4, Zenon DEF GoodDescriptor, IsDescriptor, Active, IsShutdown
<1>. QED  BY <1>2, <1>3, <1>5, Zenon

\* The directory lists good descriptors only.
LEMMA DirectoryStep ==
  ASSUME MemberInv, Next, Grows
  PROVE  \A d \in dir' : GoodDescriptor(d)'
<1>1. Shape /\ StatesGood /\ \A d \in dir : GoodDescriptor(d)
  BY DEF MemberInv, StoreGood
<1>2. \A d : GoodDescriptor(d) => GoodDescriptor(d)'
  BY <1>1, GoodStays
<1>3. CASE \A d \in dir' \ dir : GoodDescriptor(d)
  BY <1>1, <1>2, <1>3
<1>4. ASSUME NEW p \in Pids, Shutdown(p)
      PROVE  \A d \in dir' : GoodDescriptor(d)'
  <2> DEFINE f == Get(rep[p].vv, p)
             d == [pid |-> p, gc |-> rep[p].marker.counter, final |-> {f}]
  <2>1. dir' \subseteq dir \cup {d}
    BY <1>4 DEF Shutdown
  <2>2. IsRep(rep[p]) /\ p \in Gone'
    BY <1>1, <1>4, Zenon DEF StatesGood, GoodState, GoodRep, Gone, Shutdown, Shape
  <2>3. f \in Int /\ f >= -1
    BY <2>2, GetType, Zenon DEF IsRep
  <2>4. rep[p].marker.counter \in 0 .. MaxGc
    BY <2>2, Zenon DEF IsRep, IsMarker
  <2> HIDE DEF f
  <2>5. IsDescriptor(d) /\ (\A c \in d.final : c >= -1) /\ d.pid \in Gone'
    BY <2>2, <2>3, <2>4, Zenon DEF IsDescriptor
  <2>6. ASSUME NEW e \in dir' PROVE GoodDescriptor(e)'
    <3>1. CASE e \in dir
      BY <3>1, <1>1, <1>2, Zenon
    <3>2. CASE e = d
      <4>1. IsDescriptor(e) /\ (\A c \in e.final : c >= -1) /\ e.pid \in Gone'
        BY <2>5, <3>2, Zenon
      <4>. QED  BY <4>1, Zenon DEF GoodDescriptor
    <3>. QED  BY <2>1, <3>1, <3>2, Zenon
  <2>. QED  BY <2>6, Zenon
<1>5. ASSUME NEW p \in Pids, Register(p)
      PROVE  \A d \in dir' : GoodDescriptor(d)'
  <2>1. IsRep(rep[p])
    BY <1>1, Zenon DEF StatesGood, GoodState, GoodRep
  <2>2. rep[p].marker.counter \in 0 .. MaxGc
    BY <2>1, Zenon DEF IsRep, IsMarker
  <2>3. GoodDescriptor(Active(p, rep[p].marker.counter))
    BY <2>2, Zenon DEF GoodDescriptor, IsDescriptor, Active, IsShutdown
  <2>. QED  BY <1>3, <1>5, <2>3, Zenon DEF Register
<1>6. ASSUME NEW p \in Pids, InitGc(p)
      PROVE  \A d \in dir' : GoodDescriptor(d)'
  BY <1>3, <1>6, PublishDir, Zenon
<1>7. CASE dir' \subseteq dir
  BY <1>3, <1>7, Zenon
<1>8. ASSUME NEW p \in Pids, RunLoop(p)
      PROVE  dir' \subseteq dir \/ InitGc(p) \/ Shutdown(p)
  BY <1>8, ZenonT(30) DEF RunLoop, RefreshOwn, PullDelta, HandleVersionVector, RefuseDelta, HandleDelta,
     ApplyPoll, HandleShutdown, ValidateGc, WithdrawGc, Relist, CompleteGc, DeleteDeparted,
     DeleteOld, storage
<1>9. ASSUME NEW p \in Pids, Bootstrap(p) \/ Mutate(p) \/ Poll(p) \/ StopHttp(p)
      PROVE  dir' \subseteq dir \/ Register(p)
  BY <1>9, Zenon DEF Bootstrap, Start, ListMembers, ReadSnapshot, Install, Mutate, Poll, StopHttp, storage
<1>10. CASE (\E p, q \in Pids : Connect(p, q)) \/ (\E m \in msgs : Discard(m))
  BY <1>7, <1>10, Zenon DEF Connect, Discard, storage
<1>. QED  BY <1>4, <1>5, <1>6, <1>7, <1>8, <1>9, <1>10, ZenonT(30) DEF Next

\* Snapshots and payloads are states that may be handed on.
LEMMA StoredStep ==
  ASSUME MemberInv, Next, Grows, StatesGood'
  PROVE  /\ \A s \in snapshot' : GoodRep(s)' /\ KnownRep(s)'
         /\ \A p \in Pids : GoodRep(payload[p])' /\ KnownRep(payload[p])'
<1>1. /\ Shape /\ StatesGood
      /\ \A s \in snapshot : GoodRep(s) /\ KnownRep(s)
      /\ \A p \in Pids : GoodRep(payload[p]) /\ KnownRep(payload[p])
  BY DEF MemberInv, StoreGood
<1>2. \A s : GoodRep(s) /\ KnownRep(s) => GoodRep(s)' /\ KnownRep(s)'
  BY <1>1, GoodStays, Zenon DEF GoodRep
<1>3. ASSUME NEW p \in Pids, GoodRep(payload'[p]), KnownRep(payload'[p])
      PROVE  GoodRep(payload[p])' /\ KnownRep(payload[p])'
  <2>1. PICK s : s = payload'[p]
    OBVIOUS
  <2>2. GoodRep(s)' /\ KnownRep(s)'
    BY <2>1, <1>2, <1>3, Zenon
  <2>. QED  BY <2>1, <2>2, Zenon DEF GoodRep, GoodMarker, KnownRep, KnownLog
<1>4. ASSUME UNCHANGED snapshot
      PROVE  \A s \in snapshot' : GoodRep(s)' /\ KnownRep(s)'
  BY <1>1, <1>2, <1>4, Zenon
<1>5. ASSUME UNCHANGED payload
      PROVE  \A p \in Pids : GoodRep(payload[p])' /\ KnownRep(payload[p])'
  BY <1>1, <1>3, <1>5, Zenon
<1>6. ASSUME NEW p \in Pids, CompleteGc(p)
      PROVE  \A s \in snapshot' : GoodRep(s)' /\ KnownRep(s)'
  <2>1. PICK s : /\ rep' = [rep EXCEPT ![p] = s]
                 /\ snapshot' = {s} \/ snapshot' \in {snapshot, {s}}
    BY <1>6, Zenon DEF CompleteGc
  <2>2. rep'[p] = s /\ status'[p] = "running"
    BY <1>1, <1>6, <2>1, Zenon DEF Shape, CompleteGc
  <2>3. GoodRep(s)' /\ KnownRep(s)'
    BY <2>2, NextStateKnown, Zenon
  <2>. QED  BY <2>1, <2>3, <1>1, <1>2, Zenon
<1>7. ASSUME NEW p \in Pids, Install(p)
      PROVE  \A s \in snapshot' : GoodRep(s)' /\ KnownRep(s)'
  <2>1. CASE UNCHANGED snapshot
    BY <2>1, <1>4
  <2>2. CASE ~UNCHANGED snapshot
    <3>1. PICK x : x = rep[p]
      OBVIOUS
    <3>2. /\ snapshot' = {x}
          /\ rep' = [rep EXCEPT ![p] = [x EXCEPT !.matrix = InsertPids(@, Discovered(cache[p], p))]]
      BY <1>7, <2>2, <3>1, Zenon DEF Install
    <3>3. GoodState(p, x) /\ GoodRep(x) /\ IsRep(x)
      BY <1>1, <3>1, ZenonT(30) DEF StatesGood, GoodState, GoodRep
    <3>4. PICK t : t = rep'[p]
      OBVIOUS
    <3>5. t.vv = x.vv /\ t.log = x.log /\ status'[p] = "running"
      BY <1>1, <1>7, <3>2, <3>3, <3>4, ZenonT(30) DEF Shape, Install, IsRep
    <3>6. KnownRep(t)'
      BY <3>4, <3>5, NextStateKnown, Zenon
    <3>7. KnownRep(x)'
      BY <3>5, <3>6, Zenon DEF KnownRep, KnownLog
    <3>8. GoodRep(x)'
      BY <1>1, <3>3, GoodStays, ZenonT(30)
    <3>. QED  BY <3>2, <3>7, <3>8, Zenon
  <2>. QED  BY <2>1, <2>2
<1>8. ASSUME NEW p \in Pids, Shutdown(p)
      PROVE  \A q \in Pids : GoodRep(payload[q])' /\ KnownRep(payload[q])'
  <2>1. \A q \in Pids : payload'[q] \in {payload[q], rep[p]} /\ (payload'[q] = payload[q] \/ q = p)
    BY <1>1, <1>8, Zenon DEF Shape, Shutdown
  <2>2. GoodRep(rep[p]) /\ KnownRep(rep[p])
    BY <1>1, <1>8, StateKnown, Zenon DEF Shutdown, Idle
  <2>3. \A q \in Pids : GoodRep(payload'[q]) /\ KnownRep(payload'[q])
    BY <1>1, <2>1, <2>2, Zenon
  <2>. QED  BY <2>3, <1>3
<1>9. ASSUME NEW p \in Pids, RunLoop(p)
      PROVE  \/ UNCHANGED <<payload, snapshot>>
             \/ CompleteGc(p) /\ UNCHANGED payload
             \/ Shutdown(p) /\ UNCHANGED snapshot
  BY <1>9, ZenonT(30) DEF RunLoop, RefreshOwn, PullDelta, HandleVersionVector, RefuseDelta, HandleDelta,
     ApplyPoll, HandleShutdown, InitGc, ValidateGc, WithdrawGc, Relist, CompleteGc,
     DeleteDeparted, DeleteOld, Shutdown, storage
<1>10. ASSUME NEW p \in Pids, Bootstrap(p) \/ Mutate(p) \/ Poll(p) \/ StopHttp(p)
       PROVE  UNCHANGED <<payload, snapshot>> \/ (Install(p) /\ UNCHANGED payload)
  BY <1>10, Zenon DEF Bootstrap, Start, Register, ListMembers, ReadSnapshot, Install, Mutate, Poll,
     StopHttp, storage
<1>11. CASE (\E p, q \in Pids : Connect(p, q)) \/ (\E m \in msgs : Discard(m))
  BY <1>4, <1>5, <1>11, Zenon DEF Connect, Discard, storage
<1>. QED  BY <1>4, <1>5, <1>6, <1>7, <1>8, <1>9, <1>10, <1>11, ZenonT(30) DEF Next

-----------------------------------------------------------------------------
(* The local variables of the run loops, over every action.                *)

\* The round that init_gc begins: it names as departed only replicas whose final
\* dot is known, and replaces the descriptor of the current GC counter.
LEMMA NewRoundGood ==
  ASSUME MemberInv, NEW p \in Pids, InitGc(p), NEW r \in round'[p] \ round[p]
  PROVE  /\ GoodRound(p, r) /\ r.marker.counter = rep[p].marker.counter + 1
         /\ r.old = Active(p, rep[p].marker.counter)
<1> DEFINE s == Refreshed(rep[p], p)
           stable == StableFrontier(s.matrix, s.finals, p)
           departed == DepartedPids(s.matrix, s.finals)
           c == s.marker.counter
           m == [counter |-> c + 1, stable |-> stable, departed |-> departed]
           x == [marker |-> m, previous |-> GcCounters(cache[p]), old |-> Active(p, c)]
<1>1. /\ GoodState(p, rep[p]) /\ c < MaxGc /\ Shape
      /\ round' = [round EXCEPT ![p] = {x}] \/ UNCHANGED round
  BY RunningOwn, Zenon DEF InitGc, Idle, Publish, MemberInv, Active
<1>2. GoodState(p, s) /\ s.marker = rep[p].marker
  BY <1>1, RefreshedGood, Zenon
<1> HIDE DEF x
<1>3. r = x
  <2>1. Pids = DOMAIN round
    BY <1>1, Zenon DEF Shape
  <2>2. round' = [round EXCEPT ![p] = {x}]
    BY <1>1, Zenon
  <2>3. round'[p] = {x}
    BY <2>1, <2>2, ZenonT(30)
  <2>. QED  BY <2>3, Zenon
<1> USE DEF x
<1> HIDE DEF s
<1>4. IsRep(s) /\ IsMatrix(s.matrix) /\ DOMAIN s.finals \subseteq Gone
  BY <1>2 DEF GoodState, GoodRep, IsRep, IsMatrix
<1>5. IsDotSet(stable)
  BY <1>4, FrontierType, ZenonT(30)
<1>6. departed \subseteq Gone /\ departed \subseteq Pids
  BY <1>4 DEF DepartedPids, Gone
<1>7. c \in 0 .. MaxGc /\ c + 1 \in 0 .. MaxGc
  BY <1>1, <1>4, CounterBound, Zenon
<1> HIDE DEF stable, departed, c
<1>8. GoodMarker(m)
  BY <1>5, <1>6, <1>7, Zenon DEF GoodMarker, IsMarker
<1>9. /\ DOMAIN GcCounters(cache[p]) \subseteq Pids
      /\ GcCounters(cache[p]) \in [DOMAIN GcCounters(cache[p]) -> 0 .. MaxGc]
  <2>1. \A d \in cache[p] : IsDescriptor(d)
    BY ZenonT(30) DEF MemberInv, LocalsGood, GoodDescriptor
  <2>. QED  BY <2>1, GcCountersType, Zenon
<1>10. IsDescriptor(Active(p, c)) /\ Active(p, c).gc = c /\ c < c + 1
  BY <1>7, ConstantsAssumption, SMTT(30), Z3T(30) DEF IsDescriptor, Active
<1> HIDE DEF m
<1>11. x.marker = m /\ x.old = Active(p, c) /\ x.previous = GcCounters(cache[p])
  BY Zenon
<1>12. IsRound(x)
  BY <1>8, <1>9, <1>10, <1>11, Zenon DEF IsRound, GoodMarker
<1>13. m.counter = c + 1
  BY Zenon DEF m
<1> HIDE DEF x
<1>14. GoodRound(p, x)
  BY <1>8, <1>10, <1>11, <1>12, <1>13, ZenonT(30) DEF GoodRound
<1>. QED  BY <1>2, <1>3, <1>11, <1>13, <1>14, ZenonT(30) DEF c

\* Where what the run loops hold comes from.
LEMMA HeldStep ==
  ASSUME MemberInv, Next, NEW q \in Pids
  PROVE  /\ cache'[q] \cup todo'[q] \cup UNION poll'[q]
              \subseteq cache[q] \cup todo[q] \cup (UNION poll[q]) \cup dir
         /\ \A d \in todo'[q] : IsShutdown(d)
         /\ UNION fetched'[q] \subseteq (UNION fetched[q]) \cup snapshot
         /\ \A r \in round'[q] \ round[q] : GoodRound(q, r)
<1> DEFINE Goal == /\ cache'[q] \cup todo'[q] \cup UNION poll'[q]
                        \subseteq cache[q] \cup todo[q] \cup (UNION poll[q]) \cup dir
                   /\ \A d \in todo'[q] : IsShutdown(d)
                   /\ UNION fetched'[q] \subseteq (UNION fetched[q]) \cup snapshot
                   /\ \A r \in round'[q] \ round[q] : GoodRound(q, r)
<1>1. Shape /\ \A d \in todo[q] : IsShutdown(d)
  BY Zenon DEF MemberInv, LocalsGood
<1>2. CASE UNCHANGED <<cache, todo, poll, fetched, round>>
  BY <1>1, <1>2
<1>3. ASSUME NEW p \in Pids, RunLoop(p) PROVE Goal
  <2>1. CASE \/ RefreshOwn(p) \/ \E x \in writers[p] : PullDelta(p, x)
             \/ \E m \in msgs : HandleVersionVector(p, m) \/ RefuseDelta(p, m) \/ HandleDelta(p, m)
    <3>1. UNCHANGED <<cache, todo, poll, fetched, round>>
      BY <2>1, Zenon DEF RefreshOwn, PullDelta, HandleVersionVector, RefuseDelta, HandleDelta, control
    <3>. QED  BY <3>1, <1>2, Zenon
  <2>2. CASE ApplyPoll(p)
    <3>1. PICK members \in poll[p] :
            /\ cache' = [cache EXCEPT ![p] = members]
            /\ todo' = [todo EXCEPT ![p] = {d \in members : IsShutdown(d)}]
      BY <2>2, Zenon DEF ApplyPoll
    <3>2. poll' = [poll EXCEPT ![p] = {}] /\ UNCHANGED <<fetched, round>>
      BY <2>2, ZenonT(30) DEF ApplyPoll
    <3>. QED  BY <3>1, <3>2, <1>1, Zenon DEF Shape
  <2>3. CASE \E d \in todo[p] : HandleShutdown(p, d)
    <3>1. UNCHANGED <<cache, poll, fetched, round>> /\ \E d : todo' = [todo EXCEPT ![p] = @ \ {d}]
      BY <2>3, ZenonT(30) DEF HandleShutdown
    <3>. QED  BY <3>1, <1>1, SMTT(30), Z3T(30) DEF Shape
  <2>4. CASE InitGc(p)
    <3>1. UNCHANGED <<cache, todo, poll, fetched>>
      BY <2>4, Zenon DEF InitGc
    <3>2. \E x : round' = [round EXCEPT ![p] = x] \/ UNCHANGED round
      BY <2>4, Zenon DEF InitGc, Publish
    <3>3. CASE q = p
      BY <3>1, <3>3, <2>4, <1>1, NewRoundGood, Zenon
    <3>4. CASE q # p
      BY <3>1, <3>2, <3>4, <1>1, Zenon DEF Shape
    <3>. QED  BY <3>3, <3>4
  <2>5. CASE ValidateGc(p) \/ Relist(p)
    <3>1. /\ UNCHANGED <<todo, poll, fetched, round>>
          /\ cache' = [cache EXCEPT ![p] = dir] \/ UNCHANGED cache
      BY <2>5, Zenon DEF ValidateGc, Relist
    <3>. QED  BY <3>1, <1>1, ZenonT(30) DEF Shape
  <2>6. CASE WithdrawGc(p) \/ CompleteGc(p) \/ DeleteOld(p)
    <3>1. /\ UNCHANGED <<cache, todo, poll, fetched>>
          /\ round' = [round EXCEPT ![p] = {}] \/ UNCHANGED round
      BY <2>6, Zenon DEF WithdrawGc, CompleteGc, DeleteOld
    <3>. QED  BY <3>1, <1>1 DEF Shape
  <2>7. CASE DeleteDeparted(p)
    <3>1. UNCHANGED <<todo, poll, fetched, round>>
      BY <2>7, Zenon DEF DeleteDeparted
    <3>2. UNCHANGED cache \/ \E C \in SUBSET cache[p] : cache' = [cache EXCEPT ![p] = C]
      BY <2>7 DEF DeleteDeparted
    <3>3. cache'[q] \subseteq cache[q]
      BY <3>2, <1>1, ZenonT(30) DEF Shape
    <3>. QED  BY <3>1, <3>3, <1>1, Zenon
  <2>8. CASE Shutdown(p)
    <3>1. UNCHANGED <<cache, todo, fetched, round>> /\ poll' = [poll EXCEPT ![p] = {}]
      BY <2>8 DEF Shutdown
    <3>. QED  BY <3>1, <1>1, Zenon DEF Shape
  <2>. QED  BY <1>3, <2>1, <2>2, <2>3, <2>4, <2>5, <2>6, <2>7, <2>8, ZenonT(30) DEF RunLoop
<1>4. ASSUME NEW p \in Pids, Bootstrap(p) \/ Poll(p) PROVE Goal
  <2>1. CASE Start(p) \/ Register(p) \/ Install(p)
    BY <2>1, <1>2, Zenon DEF Start, Register, Install, control
  <2>2. CASE ListMembers(p)
    <3>1. UNCHANGED <<todo, poll, fetched, round>> /\ cache' = [cache EXCEPT ![p] = dir]
      BY <2>2 DEF ListMembers
    <3>. QED  BY <3>1, <1>1, Zenon DEF Shape
  <2>3. CASE ReadSnapshot(p)
    <3>1. UNCHANGED <<cache, todo, poll, round>> /\ fetched' = [fetched EXCEPT ![p] = {snapshot}]
      BY <2>3, Zenon DEF ReadSnapshot
    <3>. QED  BY <3>1, <1>1, Zenon DEF Shape
  <2>4. CASE Poll(p)
    <3>1. UNCHANGED <<cache, todo, fetched, round>> /\ poll' = [poll EXCEPT ![p] = {dir}]
      BY <2>4 DEF Poll
    <3>. QED  BY <3>1, <1>1, ZenonT(30) DEF Shape
  <2>. QED  BY <1>4, <2>1, <2>2, <2>3, <2>4, ZenonT(30) DEF Bootstrap
<1>5. CASE \/ \E p \in Pids : Mutate(p) \/ StopHttp(p)
           \/ \E p, x \in Pids : Connect(p, x)
           \/ \E m \in msgs : Discard(m)
  BY <1>2, <1>5, Zenon DEF Mutate, StopHttp, Connect, Discard, control
<1>. QED  BY <1>3, <1>4, <1>5, Zenon DEF Next

\* What the run loops hold is good.
LEMMA LocalsStep ==
  ASSUME MemberInv, Next, Grows
  PROVE  LocalsGood'
<1>1. /\ StatesGood /\ LocalsGood /\ \A d \in dir : GoodDescriptor(d)
      /\ \A s \in snapshot : GoodRep(s) /\ KnownRep(s)
  BY Zenon DEF MemberInv, StoreGood
<1>2. /\ \A d : GoodDescriptor(d) => GoodDescriptor(d)'
      /\ \A s : GoodRep(s) /\ KnownRep(s) => GoodRep(s)' /\ KnownRep(s)'
      /\ \A q, r : GoodRound(q, r) => GoodRound(q, r)'
  BY <1>1, GoodStays DEF GoodRep
<1> SUFFICES ASSUME NEW q \in Pids
             PROVE  /\ \A d \in cache'[q] \cup todo'[q] \cup UNION poll'[q] : GoodDescriptor(d)'
                    /\ \A d \in todo'[q] : IsShutdown(d)
                    /\ \A s \in UNION fetched'[q] : GoodRep(s)' /\ KnownRep(s)'
                    /\ \A r \in round'[q] : GoodRound(q, r)'
  BY Zenon DEF LocalsGood
<1>3. \A d \in cache'[q] \cup todo'[q] \cup UNION poll'[q] : GoodDescriptor(d)
  BY <1>1, HeldStep, Zenon DEF LocalsGood
<1>4. \A s \in UNION fetched'[q] : GoodRep(s) /\ KnownRep(s)
  BY <1>1, HeldStep, Zenon DEF LocalsGood
<1>5. \A r \in round'[q] : GoodRound(q, r)
  BY <1>1, HeldStep, Zenon DEF LocalsGood
<1>6. \A d \in todo'[q] : IsShutdown(d)
  BY HeldStep, Zenon
<1>. QED  BY <1>2, <1>3, <1>4, <1>5, <1>6, ZenonT(30)

-----------------------------------------------------------------------------
(* The theorems.                                                           *)

\* A step that changes nothing.
LEMMA StutterMember ==
  ASSUME MemberInv, UNCHANGED vars
  PROVE  MemberInv'
<1>1. /\ UNCHANGED <<status, rep, acked, writers, msgs, dir, payload, snapshot>>
      /\ UNCHANGED <<cache, poll, fetched, todo, round, pc>>
  BY Zenon DEF vars, network, storage, control
<1>2. Shape' /\ StatesGood'
  BY <1>1, ZenonT(30) DEF MemberInv, Shape, StatesGood, GoodState, GoodRep, GoodMarker, Gone, Own
<1>3. MessagesGood' /\ StoreGood'
  BY <1>1, ZenonT(30) DEF MemberInv, MessagesGood, StoreGood, GoodMessage, GoodRep, GoodMarker,
     GoodDescriptor, KnownRep, KnownLog, Gone, Own
<1>4. LocalsGood'
  BY <1>1, ZenonT(30) DEF MemberInv, LocalsGood, GoodRound, GoodRep, GoodMarker,
     GoodDescriptor, KnownRep, KnownLog, Gone, Own
<1>5. (\A p \in Pids : PhaseFits(p)' /\ IsListed(p)') /\ FoundersCount'
  BY <1>1, Zenon DEF MemberInv, PhaseFits, IsListed, FoundersCount
<1>. QED  BY <1>2, <1>3, <1>4, <1>5, ZenonT(30) DEF MemberInv

\* Every step keeps the invariant.
LEMMA NextMember ==
  ASSUME MemberInv, [Next]_vars
  PROVE  MemberInv'
<1>1. CASE Next
  <2>1. Grows /\ StatesGood' /\ FoundersCount'
    BY <1>1, StatesStep, Zenon
  <2>2. StoreGood'
    BY <1>1, <2>1, DirectoryStep, StoredStep, Zenon DEF StoreGood
  <2>. QED  BY <1>1, <2>1, <2>2, MessagesStep, LocalsStep, ListedStep, ShapeStep, ZenonT(30) DEF MemberInv
<1>. QED  BY <1>1, StutterMember

\* Whatever joins, leaves and fails: shutdown descriptors, final dots and GC
\* markers name as departed only replicas that have shut down, nobody has a dot
\* that its replica lacks, and whoever registered stays listed.
THEOREM MembershipIsHonest == Spec => []MemberInv
<1>1. Init => MemberInv
  BY InitMember
<1>2. MemberInv /\ [Next]_vars => MemberInv'
  BY NextMember
<1>. QED  BY <1>1, <1>2, PTL DEF Spec

\* Every variable keeps its type, with joins, departures and failing requests.
THEOREM MemberTypes == Spec => []TypeOK
<1>1. MemberInv => TypeOK
  BY ZenonT(30) DEF MemberInv, TypeOK, Shape, StatesGood, MessagesGood, StoreGood, LocalsGood, GoodState,
     GoodRep, GoodMessage, GoodDescriptor, GoodRound
<1>. QED  BY <1>1, MembershipIsHonest, PTL

\* The dot of a replica's next mutation is new, with joins, departures and
\* failing requests.
THEOREM DotsStayUnique == Spec => []DotsUnique
<1>1. ASSUME MemberInv, NEW p \in Running, NEW q \in Running
      PROVE  Get(rep[q].vv, p) <= Get(rep[p].vv, p)
  <2>1. p \in Pids /\ q \in Pids /\ Own(p) = Get(rep[p].vv, p)
    BY Zenon DEF Running, Own
  <2>2. CASE p = q
    <3>1. IsDotSet(rep[p].vv)
      BY <1>1, <2>1, ZenonT(30) DEF MemberInv, StatesGood, GoodState, GoodRep, IsRep
    <3>2. Get(rep[p].vv, p) \in Int
      BY <3>1, GetType, Zenon
    <3>. QED  BY <2>2, <3>2, SMT, Z3
  <2>3. CASE p # q
    BY <2>1, <2>3, <1>1, ZenonT(30) DEF MemberInv, StatesGood, GoodState
  <2>. QED  BY <2>2, <2>3
<1>2. MemberInv => DotsUnique
  BY <1>1, ZenonT(30) DEF DotsUnique
<1>. QED  BY <1>2, MembershipIsHonest, PTL

\* A running replica is listed by an active descriptor throughout its GC rounds,
\* whatever the rounds of others delete and whichever requests fail.
THEOREM TheRunningStayListed == Spec => []StaysRegistered
<1>1. ASSUME MemberInv, NEW p \in Running
      PROVE  \E d \in dir : d.pid = p /\ ~IsShutdown(d)
  BY <1>1, ZenonT(30) DEF Running, MemberInv, PhaseFits, IsListed
<1>2. MemberInv => StaysRegistered
  BY <1>1 DEF StaysRegistered
<1>. QED  BY <1>2, MembershipIsHonest, PTL

\* Every mutation that a replica acknowledged stays applied, whoever departs.
\* It does not hold of a joiner, whose HTTP server answers before Install.
THEOREM FoundersKeepWhatTheyAcknowledge ==
  ASSUME Joiners = {}
  PROVE  Spec => []AckedKept
<1>1. MemberInv => AckedKept
  BY DEF MemberInv, FoundersCount, AckedKept, Running, Pids
<1>. QED  BY <1>1, MembershipIsHonest, PTL

\* init_gc publishes before it collects, also while replicas join: whatever
\* marker a replica has applied, its own, a peer's or that of the snapshot it
\* installed, the directory shows that counter or a higher one.
THEOREM JoinersFindRoundsPublished ==
  ASSUME Leavers = {}
  PROVE  Spec => []GcPublished
<1>1. Init => UsedPublished
  BY UsedInit
<1>2. MemberInv /\ UsedPublished /\ [Next]_vars => UsedPublished'
  BY UsedStep, Zenon
<1>3. MemberInv /\ UsedPublished => GcPublished
  <2>. SUFFICES ASSUME MemberInv, UsedPublished, NEW p \in Running
                PROVE  \E d \in dir : d.gc >= rep[p].marker.counter
    BY DEF GcPublished
  <2>1. p \in Pids
    BY ZenonT(30) DEF Running
  <2>2. rep[p].marker.counter \in 0 .. MaxGc
    BY <2>1, ZenonT(30) DEF MemberInv, StatesGood, GoodState, GoodRep, GoodMarker, IsMarker
  <2>3. rep[p].marker.counter \in Int
    BY <2>2
  <2>. QED  BY <2>1, <2>3, ZenonT(30) DEF UsedPublished, InUse, PublishedFor
<1>. QED  BY <1>1, <1>2, <1>3, MembershipIsHonest, PTL DEF Spec
=============================================================================
