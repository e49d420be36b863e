--------------------------- MODULE NetworkProofs ---------------------------
(***************************************************************************)
(* Proofs about the network manager, for any replicas, addresses, faults   *)
(* and queue sizes.                                                        *)
(***************************************************************************)
EXTENDS Network, FiniteSetTheorems, TLAPS

Ends == {"none", "dialing", "handshake", "ready", "failed", "open", "closed"}

Managers == [dead : SUBSET Replicas, connected : SUBSET Replicas,
             connecting : SUBSET Replicas, backoff : SUBSET Replicas]

Members == [pid : Replicas, shutdown : BOOLEAN]

Handovers == [pid : Replicas, link : Links]

Connections == [from : Replicas \cup {0}, to : Replicas \cup {0},
                expected : Replicas \cup {0}, spoke : SUBSET Replicas,
                a : Ends \ {"none"}, b : Ends \ {"dialing"}]

\* The types of the variables, in full.
ReplicaTypes ==
  /\ status \in [Replicas -> {"down", "running", "leaving", "stopped"}]
  /\ listed \in SUBSET Replicas
  /\ departed \in [Replicas -> SUBSET Replicas]
  /\ todo \in [Replicas -> SUBSET Replicas]

FaultTypes == faults \in 0 .. MaxFaults

MgrTypes == mgr \in [Replicas -> Managers]

MemberTypes ==
  /\ members \in [Replicas -> Seq(Members)]
  /\ \A p \in Replicas : Len(members[p]) <= MemberQueue

HandoverTypes ==
  /\ handover \in [Replicas -> Seq(Handovers)]
  /\ \A p \in Replicas : Len(handover[p]) <= WriterQueue

WriterTypes ==
  /\ DOMAIN writers = Replicas
  /\ \A p \in Replicas : /\ DOMAIN writers[p] \in SUBSET Replicas
                         /\ writers[p] \in [DOMAIN writers[p] -> Links]

LinkTypes == link \in [Links -> Connections]

NetTypes ==
  /\ ReplicaTypes /\ FaultTypes /\ MgrTypes /\ MemberTypes
  /\ HandoverTypes /\ WriterTypes /\ LinkTypes

\* A link that is not closed at the dialer's end has a dialer, and a replica
\* expected at the other end; one that is past the dialing has a replica there.
Dialing ==
  \A l \in Links :
    /\ link[l].a # "closed" => link[l].from \in Replicas /\ link[l].expected \in Replicas
    /\ link[l].a \in {"handshake", "ready", "open"} => link[l].to \in Replicas
    /\ link[l].b # "closed" => link[l].from \in Replicas /\ link[l].a # "dialing"

\* What enqueue_members leaves in the channel.
LEMMA EnqueuedType ==
  ASSUME NetTypes, NEW p \in Replicas, NEW peers \in Candidates(p)
  PROVE  /\ Enqueued(members[p], peers) \in Seq(Members)
         /\ Len(Enqueued(members[p], peers)) <= MemberQueue
<1> DEFINE S == {q \in listed : q # p /\ status[q] \notin {"leaving", "stopped"}}
                   \ DOMAIN writers[p]
           new == [i \in DOMAIN peers |-> [pid |-> peers[i], shutdown |-> FALSE]]
           all == members[p] \o new
           n == IF Len(all) <= MemberQueue THEN Len(all) ELSE MemberQueue
<1>1. peers \in [1 .. Cardinality(S) -> S] /\ S \subseteq Replicas
  BY DEF Candidates, Ascending, NetTypes, ReplicaTypes
<1>2. Cardinality(S) \in Nat
  BY <1>1, FS_Subset, FS_CardinalityType, NetworkAssumption
<1>3. new \in Seq(Members)
  <2> DEFINE k == Cardinality(S)
  <2>1. new \in [1 .. k -> Members]
    BY <1>1 DEF Members
  <2> HIDE DEF new, S, k
  <2> QED
    BY <1>2, <2>1 DEF k
<1>4. all \in Seq(Members) /\ Len(all) \in Nat
  BY <1>3 DEF NetTypes, MemberTypes
<1>5. n \in 0 .. Len(all) /\ n <= MemberQueue
  BY <1>4, NetworkAssumption
<1> HIDE DEF new, all, n
<1>6. SubSeq(all, 1, n) \in Seq(Members) /\ Len(SubSeq(all, 1, n)) <= MemberQueue
  BY <1>4, <1>5, NetworkAssumption
<1> QED
  BY <1>6, Zenon DEF Enqueued, all, n, new


\* Setting one end of a link keeps its type.
LEMMA SetEndType ==
  ASSUME NetTypes, NEW p, NEW l \in Links,
         NEW e \in Ends \ {"none", "dialing"}, SetEnd(p, l, e)
  PROVE  LinkTypes'
BY SMT, Z3 DEF SetEnd, WithEnd, NetTypes, LinkTypes, Connections, Ends

\* Every action keeps the types.
LEMMA TypesStep == NetTypes /\ Dialing /\ [Next]_vars => NetTypes'
<1> SUFFICES ASSUME NetTypes, Dialing, [Next]_vars PROVE NetTypes'
  OBVIOUS
<1> USE NetworkAssumption
<1>1. ASSUME UNCHANGED replica, UNCHANGED faults PROVE ReplicaTypes' /\ FaultTypes'
  BY <1>1 DEF replica, NetTypes, ReplicaTypes, FaultTypes
<1>2. /\ UNCHANGED mgr => MgrTypes'
      /\ UNCHANGED members => MemberTypes'
      /\ UNCHANGED handover => HandoverTypes'
      /\ UNCHANGED writers => WriterTypes'
      /\ UNCHANGED link => LinkTypes'
      /\ UNCHANGED faults => FaultTypes'
  BY DEF NetTypes, MgrTypes, MemberTypes, HandoverTypes, WriterTypes, LinkTypes, FaultTypes
<1>3. CASE UNCHANGED vars
  BY <1>1, <1>2, <1>3 DEF vars, NetTypes
<1>4. ASSUME NEW p \in Replicas, Poll(p) PROVE NetTypes'
  <2>1. ReplicaTypes'
    BY <1>4 DEF Poll, NetTypes, ReplicaTypes
  <2>2. MemberTypes'
    BY <1>4, EnqueuedType, ZenonT(30) DEF Poll, NetTypes, MemberTypes
  <2> QED
    BY <1>2, <1>4, <2>1, <2>2 DEF Poll, NetTypes
<1>5. ASSUME NEW p \in Replicas, AddWriter(p) PROVE NetTypes'
  <2>1. /\ Head(handover[p]) \in Handovers /\ Tail(handover[p]) \in Seq(Handovers)
        /\ Len(Tail(handover[p])) <= WriterQueue
    BY <1>5 DEF AddWriter, NetTypes, HandoverTypes
  <2>2. HandoverTypes'
    BY <1>5, <2>1 DEF AddWriter, NetTypes, HandoverTypes
  <2>3. WriterTypes'
    <3> DEFINE new == Head(handover[p])
               w == [q \in DOMAIN writers[p] \cup {new.pid} |->
                       IF q = new.pid THEN new.link ELSE writers[p][q]]
    <3>1. new.pid \in Replicas /\ new.link \in Links
      BY <2>1, Zenon DEF Handovers
    <3>2. DOMAIN w \in SUBSET Replicas /\ w \in [DOMAIN w -> Links]
      BY <3>1, Zenon DEF NetTypes, WriterTypes
    <3>3. writers' = [writers EXCEPT ![p] = w]
      BY <1>5 DEF AddWriter
    <3> HIDE DEF w
    <3> QED
      BY <3>2, <3>3 DEF NetTypes, WriterTypes
  <2> QED
    BY <1>1, <1>2, <1>5, <2>2, <2>3 DEF AddWriter, NetTypes
<1>6. ASSUME NEW p \in Replicas, HandleNewMember(p) PROVE NetTypes'
  <2> DEFINE q == Head(members[p]).pid
  <2>1. /\ q \in Replicas /\ Tail(members[p]) \in Seq(Members)
        /\ Len(Tail(members[p])) <= MemberQueue
    <3>1. members[p] \in Seq(Members) /\ members[p] # <<>> /\ Len(members[p]) <= MemberQueue
      BY <1>6 DEF HandleNewMember, NetTypes, MemberTypes
    <3>2. Head(members[p]) \in Members
      BY <3>1
    <3>3. Tail(members[p]) \in Seq(Members) /\ Len(Tail(members[p])) <= MemberQueue
      BY <3>1, SMT, Z3
    <3> QED
      BY <3>2, <3>3 DEF Members
  <2>2. MemberTypes'
    BY <1>6, <2>1, Zenon DEF HandleNewMember, NetTypes, MemberTypes
  <2>3. MgrTypes'
    <3> HIDE DEF q
    <3> DEFINE m == [mgr[p] EXCEPT !.connecting = mgr[p].connecting \cup {q}]
    <3>1. \/ mgr' = [mgr EXCEPT ![p] = Retired(mgr[p], q)]
          \/ mgr' = [mgr EXCEPT ![p] = m]
          \/ mgr' = mgr
      BY <1>6 DEF HandleNewMember, q
    <3>2. mgr[p] \in Managers
      BY DEF NetTypes, MgrTypes
    <3>3. m \in Managers
      BY <2>1, <3>2, Zenon DEF Managers
    <3>4. Retired(mgr[p], q) \in Managers
      BY <2>1, <3>2 DEF Managers, Retired
    <3> HIDE DEF m
    <3> QED
      BY <3>1, <3>3, <3>4 DEF NetTypes, MgrTypes
  <2>4. LinkTypes'
    <3> DEFINE k == [from |-> p, to |-> 0, expected |-> q, spoke |-> {},
                     a |-> "dialing", b |-> "closed"]
    <3>1. k \in Connections
      BY <2>1 DEF Connections, Ends
    <3>2. link' = link \/ \E l \in Links : link' = [link EXCEPT ![l] = k]
      BY <1>6 DEF HandleNewMember
    <3> HIDE DEF k
    <3> QED
      BY <3>1, <3>2 DEF NetTypes, LinkTypes
  <2> QED
    BY <1>1, <1>2, <1>6, <2>2, <2>3, <2>4, Zenon DEF HandleNewMember, NetTypes
<1>7. ASSUME NEW p \in Replicas, NEW q \in Replicas, NotifyDeparture(p, q) PROVE NetTypes'
  <2>1. ReplicaTypes'
    BY <1>7 DEF NotifyDeparture, NetTypes, ReplicaTypes
  <2>2. WriterTypes'
    BY <1>7, ZenonT(30) DEF NotifyDeparture, NetTypes, WriterTypes
  <2>3. MemberTypes'
    <3> DEFINE m == [pid |-> q, shutdown |-> TRUE]
               new == IF Len(members[p]) < MemberQueue THEN Append(members[p], m) ELSE members[p]
    <3>1. m \in Members /\ members[p] \in Seq(Members) /\ Len(members[p]) <= MemberQueue
      BY Zenon DEF Members, NetTypes, MemberTypes
    <3> HIDE DEF m
    <3>2. new \in Seq(Members) /\ Len(new) <= MemberQueue
      BY <3>1, SMT, Z3
    <3>3. members' = [members EXCEPT ![p] = new]
      BY <1>7 DEF NotifyDeparture, m
    <3> HIDE DEF new
    <3> QED
      BY <3>2, <3>3, Zenon DEF NetTypes, MemberTypes
  <2> QED
    BY <1>2, <1>7, <2>1, <2>2, <2>3 DEF NotifyDeparture, NetTypes
<1>8. ASSUME NEW p \in Replicas, NEW q \in Replicas, WriteFails(p, q) PROVE NetTypes'
  <2>1. writers[p][q] \in Links /\ SetEnd(p, writers[p][q], "closed")
    BY <1>8, Zenon DEF WriteFails, NetTypes, WriterTypes
  <2>2. LinkTypes'
    BY <2>1, SetEndType DEF Ends
  <2> QED
    BY <1>1, <1>2, <1>8, <2>2 DEF WriteFails, NetTypes
<1>9. ASSUME NEW p \in Replicas, NEW q \in Replicas, RemoveWriter(p, q) PROVE NetTypes'
  <2>1. WriterTypes'
    BY <1>9 DEF RemoveWriter, NetTypes, WriterTypes
  <2> QED
    BY <1>1, <1>2, <1>9, <2>1 DEF RemoveWriter, NetTypes
<1>10. ASSUME NEW p \in Replicas, NEW q \in Replicas, BackoffExpires(p, q) PROVE NetTypes'
  <2>1. MgrTypes'
    <3> DEFINE m == [mgr[p] EXCEPT !.backoff = mgr[p].backoff \ {q}]
    <3>1. mgr' = [mgr EXCEPT ![p] = m]
      BY <1>10 DEF BackoffExpires
    <3>2. m \in Managers
      BY DEF NetTypes, MgrTypes, Managers
    <3> HIDE DEF m
    <3> QED
      BY <3>1, <3>2 DEF NetTypes, MgrTypes
  <2> QED
    BY <1>1, <1>2, <1>10, <2>1 DEF BackoffExpires, NetTypes
<1>11. ASSUME NEW p \in Replicas, NEW l \in Links, Dialed(p, l) PROVE NetTypes'
  <2>1. link[l].expected \in Replicas
    BY <1>11 DEF Dialed, Dialing
  <2>2. LinkTypes'
    BY <1>11, <2>1 DEF Dialed, NetTypes, LinkTypes, Connections, Ends
  <2> QED
    BY <1>1, <1>2, <1>11, <2>2 DEF Dialed, NetTypes
<1>12. ASSUME NEW p \in Replicas, NEW l \in Links, DialFails(p, l) PROVE NetTypes'
  <2>1. LinkTypes'
    BY <1>12, SetEndType DEF DialFails, Ends
  <2>2. FaultTypes'
    BY <1>12 DEF DialFails, NetTypes, FaultTypes
  <2>3. ReplicaTypes'
    BY <1>12 DEF DialFails, NetTypes, ReplicaTypes, replica
  <2> QED
    BY <1>2, <1>12, <2>1, <2>2, <2>3 DEF DialFails, NetTypes
<1>13. ASSUME NEW p \in Replicas, NEW l \in Links, Accept(p, l) PROVE NetTypes'
  <2>1. LinkTypes'
    BY <1>13 DEF Accept, NetTypes, LinkTypes, Connections, Ends
  <2> QED
    BY <1>1, <1>2, <1>13, <2>1, Zenon DEF Accept, NetTypes
<1>14. ASSUME NEW p \in Replicas, NEW l \in Links, Established(p, l) PROVE NetTypes'
  <2>1. LinkTypes'
    BY <1>14, SetEndType, Zenon DEF Established, Ends
  <2> QED
    BY <1>1, <1>2, <1>14, <2>1 DEF Established, NetTypes
<1>15. ASSUME NEW p \in Replicas, NEW l \in Links, HandshakeFails(p, l) PROVE NetTypes'
  <2>1. LinkTypes'
    BY <1>15, SetEndType DEF HandshakeFails, Ends
  <2>2. FaultTypes'
    BY <1>15 DEF HandshakeFails, NetTypes, FaultTypes
  <2>3. ReplicaTypes'
    BY <1>15 DEF HandshakeFails, NetTypes, ReplicaTypes, replica
  <2> QED
    BY <1>2, <1>15, <2>1, <2>2, <2>3 DEF HandshakeFails, NetTypes
<1>16. ASSUME NEW p \in Replicas, NEW l \in Links, HandleFailed(p, l) PROVE NetTypes'
  <2>1. LinkTypes'
    BY <1>16, SetEndType DEF HandleFailed, Ends
  <2>2. link[l].from = p => link[l].expected \in Replicas
    BY <1>16 DEF HandleFailed, End, Dialing
  <2>3. MgrTypes'
    BY <1>16, <2>2, ZenonT(30) DEF HandleFailed, NetTypes, MgrTypes, Managers, AttemptFailed
  <2> QED
    BY <1>1, <1>2, <1>16, <2>1, <2>3, Zenon DEF HandleFailed, NetTypes
<1>17. ASSUME NEW p \in Replicas, NEW l \in Links, HandleEstablished(p, l) PROVE NetTypes'
  <2> DEFINE q == Peer(p, l)
             base == IF link[l].from # p THEN mgr[p]
                     ELSE AttemptEnded(mgr[p], link[l].expected)
             new == [pid |-> q, link |-> l]
  <2>1. q \in Replicas
    BY <1>17 DEF HandleEstablished, End, Peer, Dialing
  <2>2. base \in Managers
    BY DEF NetTypes, MgrTypes, Managers, AttemptEnded
  <2>3. LinkTypes'
    BY <1>17, SetEndType, Zenon DEF HandleEstablished, Ends
  <2>4. MgrTypes'
    <3>1. \/ mgr' = [mgr EXCEPT ![p] = base]
          \/ mgr' = [mgr EXCEPT ![p] = [base EXCEPT !.connected = @ \cup {q}]]
      BY <1>17 DEF HandleEstablished
    <3> DEFINE joined == [base EXCEPT !.connected = @ \cup {q}]
    <3> HIDE DEF base, q
    <3>2. joined \in Managers
      BY <2>1, <2>2 DEF Managers
    <3> HIDE DEF joined
    <3> QED
      BY <2>2, <3>1, <3>2, ZenonT(30) DEF NetTypes, MgrTypes, joined
  <2>5. HandoverTypes'
    <3>1. \/ handover' = handover
          \/ ~Refused(p, l) /\ handover' = [handover EXCEPT ![p] = Append(@, new)]
      BY <1>17 DEF HandleEstablished
    <3>2. new \in Handovers /\ handover[p] \in Seq(Handovers)
      BY <2>1, Zenon DEF Handovers, NetTypes, HandoverTypes
    <3> HIDE DEF new
    <3>3. ~Refused(p, l) => Len(Append(handover[p], new)) <= WriterQueue
      BY <3>2 DEF Refused
    <3>4. Append(handover[p], new) \in Seq(Handovers)
      BY <3>2
    <3> QED
      BY <3>1, <3>3, <3>4, Zenon DEF NetTypes, HandoverTypes
  <2> QED
    BY <1>1, <1>2, <1>17, <2>3, <2>4, <2>5 DEF HandleEstablished, NetTypes
<1>18. ASSUME NEW p \in Replicas, NEW l \in Links, Break(p, l) PROVE NetTypes'
  <2>1. LinkTypes'
    BY <1>18, SetEndType DEF Break, Ends
  <2>2. FaultTypes'
    BY <1>18 DEF Break, NetTypes, FaultTypes
  <2>3. ReplicaTypes'
    BY <1>18 DEF Break, NetTypes, ReplicaTypes, replica
  <2> QED
    BY <1>2, <1>18, <2>1, <2>2, <2>3, Zenon DEF Break, NetTypes
<1>19. ASSUME NEW p \in Replicas, link' = EndsClosed(p) PROVE LinkTypes'
  BY <1>19 DEF EndsClosed, NetTypes, LinkTypes, Connections, Ends
<1>20. ASSUME NEW p \in Replicas,
              mgr' = [mgr EXCEPT ![p] = NewManager], members' = [members EXCEPT ![p] = <<>>],
              handover' = [handover EXCEPT ![p] = <<>>], writers' = [writers EXCEPT ![p] = NoWriters]
       PROVE  MgrTypes' /\ MemberTypes' /\ HandoverTypes' /\ WriterTypes'
  <2>1. MgrTypes'
    BY <1>20 DEF NetTypes, MgrTypes, Managers, NewManager
  <2>2. MemberTypes' /\ HandoverTypes'
    BY <1>20 DEF NetTypes, MemberTypes, HandoverTypes
  <2>3. WriterTypes'
    BY <1>20 DEF NetTypes, WriterTypes, NoWriters
  <2> QED
    BY <2>1, <2>2, <2>3
<1>21. ASSUME NEW p \in Replicas, Crash(p) PROVE NetTypes'
  <2>1. ReplicaTypes'
    BY <1>21, Zenon DEF Crash, NetTypes, ReplicaTypes
  <2>2. FaultTypes'
    BY <1>21 DEF Crash, NetTypes, FaultTypes
  <2> QED
    BY <1>19, <1>20, <1>21, <2>1, <2>2, Zenon DEF Crash, NetTypes
<1>22. ASSUME NEW p \in Replicas, Start(p) PROVE NetTypes'
  <2>1. ReplicaTypes'
    BY <1>22 DEF Start, NetTypes, ReplicaTypes
  <2>2. MemberTypes'
    BY <1>22, EnqueuedType DEF Start, NetTypes, MemberTypes
  <2> QED
    BY <1>2, <1>22, <2>1, <2>2 DEF Start, NetTypes
<1>23. ASSUME NEW p \in Replicas, Leave(p) PROVE NetTypes'
  <2>1. ReplicaTypes'
    BY <1>23 DEF Leave, NetTypes, ReplicaTypes
  <2> QED
    BY <1>2, <1>23, <2>1 DEF Leave, NetTypes
<1>24. ASSUME NEW p \in Replicas, Stop(p) PROVE NetTypes'
  <2>1. ReplicaTypes'
    BY <1>24, ZenonT(30) DEF Stop, NetTypes, ReplicaTypes
  <2> QED
    BY <1>2, <1>19, <1>20, <1>24, <2>1, ZenonT(30) DEF Stop, NetTypes
<1> QED
  BY <1>3, <1>4, <1>5, <1>6, <1>7, <1>8, <1>9, <1>10, <1>11, <1>12, <1>13, <1>14, <1>15,
     <1>16, <1>17, <1>18, <1>21, <1>22, <1>23, <1>24, ZenonT(30) DEF Next, Step

-----------------------------------------------------------------------------
(* Links.                                                                  *)

\* Setting one end of a link changes no other end, and nobody's peer.
LEMMA SetEndEffect ==
  ASSUME NetTypes, NEW p \in Replicas, NEW l \in Links, NEW e \in Ends,
         End(p, l) # "closed", SetEnd(p, l, e)
  PROVE  /\ \A k \in Links : /\ link'[k].from = link[k].from /\ link'[k].to = link[k].to
                             /\ link'[k].expected = link[k].expected
                             /\ k # l => link'[k] = link[k]
         /\ link'[l].a = link[l].a \/ (link'[l].a = e /\ link[l].from = p)
         /\ link'[l].b = link[l].b \/ (link'[l].b = e /\ link[l].b = End(p, l))
         /\ \A r \in Replicas, k \in Links :
               /\ Peer(r, k)' = Peer(r, k)
               /\ End(r, k)' = IF r = p /\ k = l THEN e ELSE End(r, k)
<1>1. \A k \in Links : link[k] \in Connections
  BY DEF NetTypes, LinkTypes
<1>2. /\ link' = [link EXCEPT ![l] = WithEnd(link[l], p, e)]
      /\ DOMAIN link = Links
  BY DEF SetEnd, NetTypes, LinkTypes
<1>3. \A k \in Links : k # l => link'[k] = link[k]
  BY <1>2
<1>4. link'[l] = WithEnd(link[l], p, e)
  BY <1>2
<1>5. /\ link'[l].from = link[l].from /\ link'[l].to = link[l].to
      /\ link'[l].expected = link[l].expected
      /\ link'[l].a = IF link[l].from = p THEN e ELSE link[l].a
      /\ link'[l].b = IF link[l].from = p THEN link[l].b ELSE e
  BY <1>1, <1>4 DEF WithEnd, Connections
<1>6. ASSUME NEW r \in Replicas, NEW k \in Links
      PROVE  /\ Peer(r, k)' = Peer(r, k)
             /\ End(r, k)' = IF r = p /\ k = l THEN e ELSE End(r, k)
  BY <1>3, <1>5, Zenon DEF Peer, End
<1> QED
  BY <1>3, <1>5, <1>6 DEF End

\* EndsClosed closes p's ends and changes no other, and nobody's peer.
LEMMA EndsClosedEffect ==
  ASSUME NetTypes, NEW p \in Replicas, link' = EndsClosed(p)
  PROVE  /\ \A k \in Links : /\ link'[k].from = link[k].from /\ link'[k].to = link[k].to
                             /\ link'[k].expected = link[k].expected
                             /\ link'[k].a \in {link[k].a, "closed"}
                             /\ link'[k].b \in {link[k].b, "closed"}
         /\ \A r \in Replicas, k \in Links :
               /\ Peer(r, k)' = Peer(r, k)
               /\ End(r, k)' \in {End(r, k), "closed"}
               /\ r = p => End(r, k)' = "closed"
<1>1. \A k \in Links :
        /\ link'[k].from = link[k].from /\ link'[k].to = link[k].to
        /\ link'[k].expected = link[k].expected
        /\ link'[k].a = IF link[k].from = p THEN "closed" ELSE link[k].a
        /\ link'[k].b = IF link[k].to = p THEN "closed" ELSE link[k].b
  BY DEF EndsClosed
<1> QED
  BY <1>1, ZenonT(30) DEF Peer, End

\* Every action keeps Dialing.
LEMMA DialingStep == NetTypes /\ Dialing /\ [Next]_vars => Dialing'
<1> SUFFICES ASSUME NetTypes, Dialing, [Next]_vars PROVE Dialing'
  OBVIOUS
<1>1. CASE UNCHANGED link
  BY <1>1 DEF Dialing
<1>2. ASSUME NEW p \in Replicas, NEW l \in Links, NEW e \in {"failed", "ready", "open", "closed"},
             End(p, l) # "closed", SetEnd(p, l, e),
             e \in {"ready", "open"} => End(p, l) \in {"handshake", "ready"}
      PROVE  Dialing'
  BY <1>2, SetEndEffect, SMTT(40), Z3T(40) DEF Dialing, End, Ends
<1>3. ASSUME NEW p \in Replicas, link' = EndsClosed(p) PROVE Dialing'
  BY <1>3, EndsClosedEffect, ZenonT(30) DEF Dialing
<1>4. ASSUME NEW p \in Replicas, HandleNewMember(p) PROVE Dialing'
  <2>1. Head(members[p]).pid \in Replicas
    <3>1. Head(members[p]) \in Members
      BY <1>4 DEF HandleNewMember, NetTypes, MemberTypes
    <3> QED
      BY <3>1 DEF Members
  <2>2. \/ link' = link
        \/ \E l \in Links : link' = [link EXCEPT ![l] =
             [from |-> p, to |-> 0, expected |-> Head(members[p]).pid, spoke |-> {},
              a |-> "dialing", b |-> "closed"]]
    BY <1>4 DEF HandleNewMember
  <2> QED
    BY <1>1, <2>1, <2>2 DEF Dialing, NetTypes, LinkTypes
<1>5. ASSUME NEW p \in Replicas, NEW l \in Links, Dialed(p, l) PROVE Dialing'
  BY <1>5 DEF Dialed, Dialing, NetTypes, LinkTypes
<1>6. ASSUME NEW p \in Replicas, NEW l \in Links, Accept(p, l) PROVE Dialing'
  BY <1>6, Zenon DEF Accept, Dialing, NetTypes, LinkTypes
<1>7. ASSUME NEW p \in Replicas, NEW l \in Links, DialFails(p, l) PROVE Dialing'
  BY <1>2, <1>7, Zenon DEF DialFails, End
<1>8. ASSUME NEW p \in Replicas, NEW q \in Replicas, WriteFails(p, q) PROVE Dialing'
  <2>1. writers[p][q] \in Links
    BY <1>8 DEF WriteFails, NetTypes, WriterTypes
  <2> QED
    BY <1>2, <1>8, <2>1 DEF WriteFails
<1>9. ASSUME NEW p \in Replicas, NEW l \in Links, Established(p, l) PROVE Dialing'
  BY <1>2, <1>9, Zenon DEF Established, End
<1>10. ASSUME NEW p \in Replicas, NEW l \in Links, HandshakeFails(p, l) PROVE Dialing'
  BY <1>2, <1>10 DEF HandshakeFails, End
<1>11. ASSUME NEW p \in Replicas, NEW l \in Links, HandleFailed(p, l) PROVE Dialing'
  BY <1>2, <1>11, ZenonT(30) DEF HandleFailed
<1>12. ASSUME NEW p \in Replicas, NEW l \in Links, HandleEstablished(p, l) PROVE Dialing'
  BY <1>2, <1>12 DEF HandleEstablished, End
<1>13. ASSUME NEW p \in Replicas, NEW l \in Links, Break(p, l) PROVE Dialing'
  BY <1>2, <1>13 DEF Break
<1>14. ASSUME NEW p \in Replicas, Crash(p) \/ Stop(p) PROVE Dialing'
  BY <1>3, <1>14, Zenon DEF Crash, Stop
<1> QED
  BY <1>1, <1>4, <1>5, <1>6, <1>7, <1>8, <1>9, <1>10, <1>11, <1>12, <1>13, <1>14, ZenonT(30)
     DEF Next, Step, vars, Poll, AddWriter, NotifyDeparture, RemoveWriter, BackoffExpires,
         Start, Leave

-----------------------------------------------------------------------------
(* Registration.                                                           *)

\* What a registered connection leads to is in connected_members, or has been
\* retired since.
Registered ==
  \A p \in Replicas, l \in Links :
    End(p, l) = "open" => Peer(p, l) \in mgr[p].connected \cup mgr[p].dead

Retains(p) ==
  mgr[p].connected \cup mgr[p].dead \subseteq mgr'[p].connected \cup mgr'[p].dead

\* Steps that open no connection and forget no peer of one that stays open.
LEMMA NothingOpened ==
  ASSUME Registered, OneConnectionPerPeer,
         \A p \in Replicas, l \in Links :
            End(p, l)' = "open" => /\ End(p, l) = "open" /\ Peer(p, l)' = Peer(p, l)
                                   /\ Retains(p)
  PROVE  Registered' /\ OneConnectionPerPeer'
BY DEF Registered, OneConnectionPerPeer, Retains

\* Steps that set an end of a link to anything but "open".
LEMMA NotOpened ==
  ASSUME NetTypes, Registered, OneConnectionPerPeer, NEW p \in Replicas, NEW l \in Links,
         NEW e \in Ends \ {"open"}, End(p, l) # "closed", SetEnd(p, l, e),
         \A r \in Replicas : Retains(r)
  PROVE  Registered' /\ OneConnectionPerPeer'
<1>1. \A r \in Replicas, k \in Links :
        /\ Peer(r, k)' = Peer(r, k)
        /\ End(r, k)' = IF r = p /\ k = l THEN e ELSE End(r, k)
  BY SetEndEffect
<1>2. \A r \in Replicas, k \in Links :
         End(r, k)' = "open" => /\ End(r, k) = "open" /\ Peer(r, k)' = Peer(r, k)
                                /\ Retains(r)
  BY <1>1
<1> QED
  BY <1>2, NothingOpened, Zenon

\* Every action keeps the registered connections apart: a connection is
\* registered only if its peer is in none of the two sets, so no other one to
\* that peer is open.
LEMMA RegisteredStep ==
  NetTypes /\ Registered /\ OneConnectionPerPeer /\ [Next]_vars
    => Registered' /\ OneConnectionPerPeer'
<1> SUFFICES ASSUME NetTypes, Registered, OneConnectionPerPeer, [Next]_vars
             PROVE  Registered' /\ OneConnectionPerPeer'
  OBVIOUS
<1>1. UNCHANGED mgr => \A r \in Replicas : Retains(r)
  BY DEF Retains
<1>2. CASE UNCHANGED link /\ UNCHANGED mgr
  BY <1>1, <1>2, NothingOpened DEF End, Peer
<1>3. ASSUME NEW p \in Replicas, NEW q \in Replicas, BackoffExpires(p, q)
      PROVE  Registered' /\ OneConnectionPerPeer'
  <2>1. \A r \in Replicas : Retains(r)
    BY <1>3 DEF BackoffExpires, Retains, NetTypes, MgrTypes, Managers
  <2> QED
    BY <1>3, <2>1, NothingOpened DEF BackoffExpires, End, Peer
<1>4. ASSUME NEW p \in Replicas, HandleNewMember(p)
      PROVE  Registered' /\ OneConnectionPerPeer'
  <2> DEFINE q == Head(members[p]).pid
  <2>1. \A r \in Replicas : Retains(r)
    <3>1. \/ mgr' = [mgr EXCEPT ![p] = Retired(mgr[p], q)]
          \/ mgr' = [mgr EXCEPT ![p] = [mgr[p] EXCEPT !.connecting = mgr[p].connecting \cup {q}]]
          \/ mgr' = mgr
      BY <1>4 DEF HandleNewMember
    <3> HIDE DEF q
    <3> QED
      BY <3>1, SMT, Z3 DEF Retains, Retired, NetTypes, MgrTypes, Managers
  <2>2. \/ link' = link
        \/ \E l \in Links : link' = [link EXCEPT ![l] =
             [from |-> p, to |-> 0, expected |-> q, spoke |-> {}, a |-> "dialing", b |-> "closed"]]
    BY <1>4, ZenonT(30) DEF HandleNewMember
  <2>3. \A r \in Replicas, k \in Links :
           End(r, k)' = "open" => End(r, k) = "open" /\ Peer(r, k)' = Peer(r, k)
    <3> HIDE DEF q
    <3>1. CASE link' = link
      BY <3>1, Zenon DEF End, Peer
    <3>2. ASSUME NEW l \in Links, link' = [link EXCEPT ![l] =
             [from |-> p, to |-> 0, expected |-> q, spoke |-> {}, a |-> "dialing", b |-> "closed"]],
             NEW r \in Replicas, NEW k \in Links, End(r, k)' = "open"
          PROVE End(r, k) = "open" /\ Peer(r, k)' = Peer(r, k)
      <4>1. link'[l].a = "dialing" /\ link'[l].b = "closed"
        BY <3>2, Zenon DEF NetTypes, LinkTypes
      <4>2. k # l
        BY <3>2, <4>1, Zenon DEF End
      <4>3. link'[k] = link[k]
        BY <3>2, <4>2 DEF NetTypes, LinkTypes
      <4> QED
        BY <3>2, <4>3, SMT, Z3 DEF End, Peer
    <3> QED
      BY <2>2, <3>1, <3>2
  <2> QED
    BY <2>1, <2>3, NothingOpened
<1>5. ASSUME NEW p \in Replicas, NEW l \in Links, Dialed(p, l) \/ Accept(p, l)
      PROVE  Registered' /\ OneConnectionPerPeer'
  <2>1. /\ link'[l].a # "open" \/ (link'[l].a = link[l].a /\ link'[l].to = link[l].to)
        /\ link'[l].b # "open" /\ link'[l].from = link[l].from
        /\ \A k \in Links : k # l => link'[k] = link[k]
    BY <1>5 DEF Dialed, Accept, NetTypes, LinkTypes
  <2>2. \A r \in Replicas, k \in Links :
           End(r, k)' = "open" => End(r, k) = "open" /\ Peer(r, k)' = Peer(r, k)
    BY <2>1, SMT, Z3 DEF End, Peer
  <2> QED
    BY <1>1, <1>5, <2>2, NothingOpened, ZenonT(30) DEF Dialed, Accept
<1>6. ASSUME NEW p \in Replicas, NEW l \in Links,
             DialFails(p, l) \/ Established(p, l) \/ HandshakeFails(p, l) \/ Break(p, l)
      PROVE  Registered' /\ OneConnectionPerPeer'
  BY <1>1, <1>6, NotOpened, Zenon DEF DialFails, Established, HandshakeFails, Break, End, Ends
<1>7. ASSUME NEW p \in Replicas, NEW q \in Replicas, WriteFails(p, q)
      PROVE  Registered' /\ OneConnectionPerPeer'
  <2>1. writers[p][q] \in Links
    BY <1>7 DEF WriteFails, NetTypes, WriterTypes
  <2> QED
    BY <1>1, <1>7, <2>1, NotOpened, Zenon DEF WriteFails, Ends
<1>8. ASSUME NEW p \in Replicas, NEW l \in Links, HandleFailed(p, l)
      PROVE  Registered' /\ OneConnectionPerPeer'
  <2>1. \A r \in Replicas : Retains(r)
    BY <1>8 DEF HandleFailed, AttemptFailed, Retains, NetTypes, MgrTypes
  <2> QED
    BY <1>8, <2>1, NotOpened, Zenon DEF HandleFailed, Ends
<1>9. ASSUME NEW p \in Replicas, NEW l \in Links, HandleEstablished(p, l)
      PROVE  Registered' /\ OneConnectionPerPeer'
  <2> DEFINE q == Peer(p, l)
             base == IF link[l].from # p THEN mgr[p]
                     ELSE AttemptEnded(mgr[p], link[l].expected)
  <2>1. base.connected = mgr[p].connected /\ base.dead = mgr[p].dead
    BY DEF AttemptEnded
  <2>2. CASE Refused(p, l)
    <3>1. mgr' = [mgr EXCEPT ![p] = base] /\ SetEnd(p, l, "closed")
      BY <1>9, <2>2, ZenonT(30) DEF HandleEstablished
    <3>2. \A r \in Replicas : Retains(r)
      BY <2>1, <3>1 DEF Retains, NetTypes, MgrTypes
    <3> QED
      BY <1>9, <3>1, <3>2, NotOpened DEF HandleEstablished, Ends
  <2>3. CASE ~Refused(p, l)
    <3>1. mgr' = [mgr EXCEPT ![p] = [base EXCEPT !.connected = base.connected \cup {q}]]
          /\ SetEnd(p, l, "open") /\ End(p, l) = "ready"
      BY <1>9, <2>3, Zenon DEF HandleEstablished
    <3>2. base \in Managers
      BY DEF NetTypes, MgrTypes, Managers, AttemptEnded
    <3>3. /\ mgr'[p].connected = mgr[p].connected \cup {q} /\ mgr'[p].dead = mgr[p].dead
          /\ \A r \in Replicas : r # p => mgr'[r] = mgr[r]
      <4> HIDE DEF base, q
      <4> QED
        BY <2>1, <3>1, <3>2, Zenon DEF NetTypes, MgrTypes, Managers
    <3>4. q \notin mgr[p].dead \cup mgr[p].connected
      BY <2>3, Zenon DEF Refused
    <3>5. \A r \in Replicas, k \in Links :
            /\ Peer(r, k)' = Peer(r, k)
            /\ End(r, k)' = IF r = p /\ k = l THEN "open" ELSE End(r, k)
      BY <3>1, SetEndEffect DEF Ends
    <3>6. \A k \in Links : End(p, k) = "open" => Peer(p, k) # q
      BY <3>4, Zenon DEF Registered
    <3> HIDE DEF base
    <3>7. Registered'
      BY <3>3, <3>5, ZenonT(30) DEF Registered
    <3>8. OneConnectionPerPeer'
      BY <3>5, <3>6 DEF OneConnectionPerPeer
    <3> QED
      BY <3>7, <3>8, Zenon
  <2> QED
    BY <2>2, <2>3, Zenon
<1>10. ASSUME NEW p \in Replicas, Crash(p) \/ Stop(p)
       PROVE  Registered' /\ OneConnectionPerPeer'
  <2>1. link' = EndsClosed(p) /\ mgr' = [mgr EXCEPT ![p] = NewManager]
    BY <1>10 DEF Crash, Stop
  <2>2. \A r \in Replicas : r # p => Retains(r)
    BY <2>1, Zenon DEF Retains, NetTypes, MgrTypes
  <2>3. \A r \in Replicas, k \in Links :
          /\ Peer(r, k)' = Peer(r, k)
          /\ End(r, k)' \in {End(r, k), "closed"}
          /\ r = p => End(r, k)' = "closed"
    BY <2>1, EndsClosedEffect
  <2>4. \A r \in Replicas, k \in Links :
          End(r, k)' = "open" => /\ End(r, k) = "open" /\ Peer(r, k)' = Peer(r, k)
                                 /\ Retains(r)
    BY <2>2, <2>3, Zenon
  <2> QED
    BY <2>4, NothingOpened
<1> QED
  BY <1>2, <1>3, <1>4, <1>5, <1>6, <1>7, <1>8, <1>9, <1>10, ZenonT(30)
     DEF Next, Step, vars, Poll, AddWriter, NotifyDeparture, RemoveWriter, Start, Leave

-----------------------------------------------------------------------------
(* Managers.                                                               *)

\* Attempts are made at higher addresses only.
UpwardOnly ==
  \A p, q \in Replicas : q \in mgr[p].connecting => Advertised[q] > Bound[p]

Apart(m) == m.dead \cap (m.connected \cup m.connecting) = {}

\* A manager m of p that attempts nothing new but what it dials.
Upwards(p, m) ==
  \A q \in Replicas : q \in m.connecting => q \in mgr[p].connecting \/ Dials(p, q)

\* Every action keeps the dead apart, and dials upwards only.
LEMMA ManagersStep ==
  NetTypes /\ DeadStayDead /\ UpwardOnly /\ [Next]_vars => DeadStayDead' /\ UpwardOnly'
<1> SUFFICES ASSUME NetTypes, DeadStayDead, UpwardOnly, [Next]_vars
             PROVE  DeadStayDead' /\ UpwardOnly'
  OBVIOUS
<1>1. ASSUME NEW p \in Replicas, NEW m, mgr' = [mgr EXCEPT ![p] = m], Apart(m), Upwards(p, m)
      PROVE  DeadStayDead' /\ UpwardOnly'
  <2>1. mgr'[p] = m /\ \A r \in Replicas : r # p => mgr'[r] = mgr[r]
    BY <1>1, Zenon DEF NetTypes, MgrTypes
  <2>2. DeadStayDead'
    BY <1>1, <2>1 DEF DeadStayDead, Apart
  <2>3. UpwardOnly'
    BY <1>1, <2>1 DEF UpwardOnly, Dials, Upwards
  <2> QED
    BY <2>2, <2>3
<1>2. CASE UNCHANGED mgr
  BY <1>2, Zenon DEF DeadStayDead, UpwardOnly
<1>3. ASSUME NEW p \in Replicas PROVE mgr[p] \in Managers /\ Apart(mgr[p])
  BY DEF NetTypes, MgrTypes, DeadStayDead, Apart
<1>4. ASSUME NEW p \in Replicas, NEW q \in Replicas, BackoffExpires(p, q)
      PROVE  DeadStayDead' /\ UpwardOnly'
  <2> DEFINE m == [mgr[p] EXCEPT !.backoff = mgr[p].backoff \ {q}]
  <2>1. mgr' = [mgr EXCEPT ![p] = m]
    BY <1>4 DEF BackoffExpires
  <2>2. m.dead = mgr[p].dead /\ m.connected = mgr[p].connected /\ m.connecting = mgr[p].connecting
    BY <1>3 DEF Managers
  <2>3. Apart(m) /\ Upwards(p, m)
    BY <1>3, <2>2 DEF Apart, Upwards
  <2> HIDE DEF m
  <2> QED
    BY <1>1, <2>1, <2>3, Zenon
<1>5. ASSUME NEW p \in Replicas, HandleNewMember(p) PROVE DeadStayDead' /\ UpwardOnly'
  <2> DEFINE q == Head(members[p]).pid
             m == [mgr[p] EXCEPT !.connecting = mgr[p].connecting \cup {q}]
  <2>1. \/ mgr' = [mgr EXCEPT ![p] = Retired(mgr[p], q)]
        \/ Dials(p, q) /\ mgr' = [mgr EXCEPT ![p] = m]
        \/ mgr' = mgr
    BY <1>5, Zenon DEF HandleNewMember
  <2> HIDE DEF q
  <2>2. Apart(Retired(mgr[p], q)) /\ Upwards(p, Retired(mgr[p], q))
    BY <1>3 DEF Retired, Apart, Upwards
  <2>3. ASSUME Dials(p, q) PROVE Apart(m) /\ Upwards(p, m)
    <3>1. m.dead = mgr[p].dead /\ m.connected = mgr[p].connected
          /\ m.connecting = mgr[p].connecting \cup {q}
      BY <1>3 DEF Managers
    <3>2. q \notin mgr[p].dead
      BY <2>3, Zenon DEF Dials
    <3> HIDE DEF m
    <3>3. Apart(m)
      BY <1>3, <3>1, <3>2, Zenon DEF Apart
    <3>4. Upwards(p, m)
      BY <2>3, <3>1 DEF Upwards
    <3> QED
      BY <3>3, <3>4
  <2> HIDE DEF m
  <2> QED
    BY <1>1, <1>2, <2>1, <2>2, <2>3, Zenon
<1>6. ASSUME NEW p \in Replicas, NEW l \in Links, HandleFailed(p, l)
      PROVE  DeadStayDead' /\ UpwardOnly'
  <2> DEFINE m == AttemptFailed(mgr[p], link[l].expected)
  <2>1. mgr' = mgr \/ mgr' = [mgr EXCEPT ![p] = m]
    BY <1>6, ZenonT(30) DEF HandleFailed
  <2>2. Apart(m) /\ Upwards(p, m)
    BY <1>3 DEF AttemptFailed, Apart, Upwards
  <2> HIDE DEF m
  <2> QED
    BY <1>1, <1>2, <2>1, <2>2
<1>7. ASSUME NEW p \in Replicas, NEW l \in Links, HandleEstablished(p, l)
      PROVE  DeadStayDead' /\ UpwardOnly'
  <2> DEFINE q == Peer(p, l)
             base == IF link[l].from # p THEN mgr[p]
                     ELSE AttemptEnded(mgr[p], link[l].expected)
             m == [base EXCEPT !.connected = base.connected \cup {q}]
  <2>1. \/ mgr' = [mgr EXCEPT ![p] = base]
        \/ ~Refused(p, l) /\ mgr' = [mgr EXCEPT ![p] = m]
    BY <1>7, ZenonT(30) DEF HandleEstablished
  <2>2. /\ base \in Managers
        /\ base.dead = mgr[p].dead /\ base.connected = mgr[p].connected
        /\ base.connecting \subseteq mgr[p].connecting
    BY <1>3 DEF AttemptEnded, Managers
  <2> HIDE DEF base
  <2>3. /\ m.dead = base.dead /\ m.connected = base.connected \cup {q}
        /\ m.connecting = base.connecting
    BY <2>2 DEF Managers
  <2>4. ~Refused(p, l) => q \notin mgr[p].dead
    BY Zenon DEF Refused
  <2> HIDE DEF m, q
  <2>5. Apart(base) /\ Upwards(p, base)
    BY <1>3, <2>2, Zenon DEF Apart, Upwards
  <2>6. ~Refused(p, l) => Apart(m)
    BY <1>3, <2>2, <2>3, <2>4, Zenon DEF Apart
  <2>7. Upwards(p, m)
    BY <2>2, <2>3 DEF Upwards
  <2> QED
    BY <1>1, <2>1, <2>5, <2>6, <2>7, Zenon
<1>8. ASSUME NEW p \in Replicas, Crash(p) \/ Stop(p) PROVE DeadStayDead' /\ UpwardOnly'
  <2>1. mgr' = [mgr EXCEPT ![p] = NewManager]
    BY <1>8, Zenon DEF Crash, Stop
  <2>2. Apart(NewManager) /\ Upwards(p, NewManager)
    BY Zenon DEF NewManager, Apart, Upwards
  <2> QED
    BY <1>1, <2>1, <2>2, Zenon
<1>9. ASSUME NEW p \in Replicas, NEW q \in Replicas,
             \/ Poll(p) \/ AddWriter(p) \/ NotifyDeparture(p, q)
             \/ WriteFails(p, q) \/ RemoveWriter(p, q) \/ Start(p) \/ Leave(p)
      PROVE  UNCHANGED mgr
  BY <1>9, ZenonT(30) DEF Poll, AddWriter, NotifyDeparture, WriteFails, RemoveWriter, Start, Leave
<1>10. ASSUME NEW p \in Replicas, NEW l \in Links,
              \/ Dialed(p, l) \/ DialFails(p, l) \/ Accept(p, l)
              \/ Established(p, l) \/ HandshakeFails(p, l) \/ Break(p, l)
       PROVE  UNCHANGED mgr
  BY <1>10 DEF Dialed, DialFails, Accept, Established, HandshakeFails, Break
<1>11. UNCHANGED vars => UNCHANGED mgr
  BY DEF vars
<1> QED
  BY <1>2, <1>4, <1>5, <1>6, <1>7, <1>8, <1>9, <1>10, <1>11, ZenonT(30) DEF Next, Step

-----------------------------------------------------------------------------
(* Writers.                                                                *)

\* A connection of p with q, past the dialing.
Leads(p, q, l) == Peer(p, l) = q /\ link[l].a # "dialing"

\* A writer leads to the peer it is kept for: what pull_delta and the responses
\* send to a replica is not written to another one, although link numbers, like
\* ports, are used again.
WritersReachTheirPeers ==
  \A p \in Replicas :
    /\ \A q \in DOMAIN writers[p] : Leads(p, q, writers[p][q])
    /\ \A i \in DOMAIN handover[p] : Leads(p, handover[p][i].pid, handover[p][i].link)

\* A writer, or one about to be absorbed, leads to l.
Used(l) ==
  \E p \in Replicas : \/ \E q \in DOMAIN writers[p] : writers[p][q] = l
                      \/ \E i \in DOMAIN handover[p] : handover[p][i].link = l

\* A step that redirects no link in use, and adds no writer.
LEMMA NoneRedirected ==
  ASSUME NetTypes, WritersReachTheirPeers,
         \A l \in Links : Used(l) =>
            /\ \A p \in Replicas : Peer(p, l)' = Peer(p, l)
            /\ link[l].a # "dialing" => link'[l].a # "dialing",
         \A p \in Replicas :
            /\ \A q \in DOMAIN writers'[p] : q \in DOMAIN writers[p] /\ writers'[p][q] = writers[p][q]
            /\ \A i \in DOMAIN handover'[p] : i \in DOMAIN handover[p] /\ handover'[p][i] = handover[p][i]
  PROVE  WritersReachTheirPeers'
<1>1. ASSUME NEW p \in Replicas, NEW q \in DOMAIN writers'[p]
      PROVE  Leads(p, q, writers[p][q])'
  <2>1. Leads(p, q, writers[p][q]) /\ writers'[p][q] = writers[p][q]
    BY <1>1, ZenonT(30) DEF WritersReachTheirPeers
  <2>2. Used(writers[p][q]) /\ writers[p][q] \in Links
    BY <1>1 DEF Used, NetTypes, WriterTypes
  <2>3. PICK l : l = writers[p][q]
    BY Zenon
  <2>4. Leads(p, q, l) /\ Used(l) /\ l \in Links
    BY <2>1, <2>2, <2>3, Zenon
  <2>5. Leads(p, q, l)'
    BY <2>4, Zenon DEF Leads
  <2> QED
    BY <2>1, <2>3, <2>5, Zenon DEF Leads, Peer
<1>2. ASSUME NEW p \in Replicas, NEW i \in DOMAIN handover'[p]
      PROVE  Leads(p, handover[p][i].pid, handover[p][i].link)'
  <2>1. /\ Leads(p, handover[p][i].pid, handover[p][i].link) /\ handover'[p][i] = handover[p][i]
        /\ i \in DOMAIN handover[p]
    BY <1>2, Zenon DEF WritersReachTheirPeers
  <2>2. handover[p][i] \in Handovers
    BY <2>1, SMT, Z3 DEF NetTypes, HandoverTypes
  <2>3. Used(handover[p][i].link) /\ handover[p][i].link \in Links
    BY <2>1, <2>2 DEF Used, Handovers
  <2>4. PICK l, q : l = handover[p][i].link /\ q = handover[p][i].pid
    BY Zenon
  <2>5. Leads(p, q, l) /\ Used(l) /\ l \in Links
    BY <2>1, <2>3, <2>4, Zenon
  <2>6. Leads(p, q, l)'
    BY <2>5, ZenonT(30) DEF Leads
  <2> QED
    BY <2>1, <2>4, <2>6, ZenonT(30) DEF Leads, Peer
<1> QED
  BY <1>1, <1>2, Zenon DEF WritersReachTheirPeers

\* Setting an end of a link redirects none.
LEMMA SetEndRedirects ==
  ASSUME NetTypes, NEW p \in Replicas, NEW l \in Links, NEW e \in Ends \ {"dialing"},
         End(p, l) # "closed", SetEnd(p, l, e)
  PROVE  \A k \in Links : /\ \A r \in Replicas : Peer(r, k)' = Peer(r, k)
                          /\ link[k].a # "dialing" => link'[k].a # "dialing"
BY SetEndEffect, SMTT(30), Z3T(30)

\* Every action keeps the writers on their peers.
LEMMA WritersStep ==
  NetTypes /\ NetTypes' /\ Dialing /\ WritersReachTheirPeers /\ [Next]_vars => WritersReachTheirPeers'
<1> SUFFICES ASSUME NetTypes, NetTypes', Dialing, WritersReachTheirPeers, [Next]_vars
             PROVE  WritersReachTheirPeers'
  BY Zenon
<1> DEFINE Kept(k) == /\ \A r \in Replicas : Peer(r, k)' = Peer(r, k)
                      /\ link[k].a # "dialing" => link'[k].a # "dialing"
           NoneAdded == \A p \in Replicas :
             /\ \A q \in DOMAIN writers'[p] : /\ q \in DOMAIN writers[p]
                                              /\ writers'[p][q] = writers[p][q]
             /\ \A i \in DOMAIN handover'[p] : /\ i \in DOMAIN handover[p]
                                               /\ handover'[p][i] = handover[p][i]
<1>1. ASSUME \A l \in Links : Used(l) => Kept(l), NoneAdded PROVE WritersReachTheirPeers'
  BY <1>1, NoneRedirected, Zenon
<1>2. UNCHANGED link => \A l \in Links : Kept(l)
  BY Zenon DEF Peer
<1>3. UNCHANGED <<writers, handover>> => NoneAdded
  OBVIOUS
<1> HIDE DEF Kept, NoneAdded
<1>4. ASSUME NEW p \in Replicas, NEW q \in Replicas,
             \/ Poll(p) \/ Start(p) \/ Leave(p) \/ BackoffExpires(p, q)
      PROVE  WritersReachTheirPeers'
  BY <1>1, <1>2, <1>3, <1>4, Zenon DEF Poll, Start, Leave, BackoffExpires
<1>14. CASE UNCHANGED vars
  BY <1>1, <1>2, <1>3, <1>14, Zenon DEF vars
<1>5. ASSUME NEW p \in Replicas, NEW q \in Replicas, NotifyDeparture(p, q) \/ RemoveWriter(p, q)
      PROVE  WritersReachTheirPeers'
  <2>1. NoneAdded
    BY <1>5, SMTT(30), Z3T(30) DEF NotifyDeparture, RemoveWriter, NoneAdded, NetTypes, WriterTypes
  <2> QED
    BY <1>1, <1>2, <1>5, <2>1, ZenonT(30) DEF NotifyDeparture, RemoveWriter
<1>6. ASSUME NEW p \in Replicas, NEW q \in Replicas, WriteFails(p, q)
      PROVE  WritersReachTheirPeers'
  <2>1. writers[p][q] \in Links
    BY <1>6 DEF WriteFails, NetTypes, WriterTypes
  <2>2. \A l \in Links : Kept(l)
    BY <1>6, <2>1, SetEndRedirects, Zenon DEF WriteFails, Kept, Ends
  <2> QED
    BY <1>1, <1>3, <1>6, <2>2, ZenonT(30) DEF WriteFails
<1>7. ASSUME NEW p \in Replicas, NEW l \in Links,
             \/ DialFails(p, l) \/ Established(p, l) \/ HandshakeFails(p, l)
             \/ HandleFailed(p, l) \/ Break(p, l)
      PROVE  WritersReachTheirPeers'
  <2>1. PICK e \in Ends \ {"dialing"} : End(p, l) # "closed" /\ SetEnd(p, l, e)
    BY <1>7, Zenon DEF DialFails, Established, HandshakeFails, HandleFailed, Break, End, Ends
  <2>2. \A k \in Links : Kept(k)
    BY <2>1, SetEndRedirects, Zenon DEF Kept
  <2> QED
    BY <1>1, <1>3, <1>7, <2>2, Zenon DEF DialFails, Established, HandshakeFails, HandleFailed, Break
<1>8. ASSUME NEW p \in Replicas, NEW l \in Links, Accept(p, l) PROVE WritersReachTheirPeers'
  <2>1. \A k \in Links : /\ link'[k].from = link[k].from /\ link'[k].to = link[k].to
                         /\ link'[k].a = link[k].a
    BY <1>8, Zenon DEF Accept, NetTypes, LinkTypes
  <2>2. \A k \in Links : Kept(k)
    BY <2>1, Zenon DEF Kept, Peer
  <2> QED
    BY <1>1, <1>3, <1>8, <2>2, Zenon DEF Accept
<1>9. ASSUME NEW p \in Replicas, NEW l \in Links, Dialed(p, l) PROVE WritersReachTheirPeers'
  <2>1. ~Used(l)
    BY <1>9, SMT, Z3 DEF Dialed, Used, WritersReachTheirPeers, Leads
  <2>2. \A k \in Links : k # l => link'[k] = link[k]
    BY <1>9, Zenon DEF Dialed, NetTypes, LinkTypes
  <2>3. \A k \in Links : Used(k) => Kept(k)
    BY <2>1, <2>2 DEF Kept, Peer
  <2> QED
    BY <1>1, <1>3, <1>9, <2>3, ZenonT(30) DEF Dialed
<1>10. ASSUME NEW p \in Replicas, HandleNewMember(p) PROVE WritersReachTheirPeers'
  <2>1. \/ link' = link
        \/ \E l \in Links : /\ Unused(l)
                            /\ link' = [link EXCEPT ![l] =
                                 [from |-> p, to |-> 0, expected |-> Head(members[p]).pid,
                                  spoke |-> {}, a |-> "dialing", b |-> "closed"]]
    BY <1>10 DEF HandleNewMember
  <2>2. \A l \in Links : Unused(l) => ~Used(l)
    BY DEF Unused, Used
  <2>3. \A k \in Links : Used(k) => link'[k] = link[k]
    BY <2>1, <2>2, Zenon DEF NetTypes, LinkTypes
  <2>4. \A k \in Links : Used(k) => Kept(k)
    BY <2>3 DEF Kept, Peer
  <2> QED
    BY <1>1, <1>3, <1>10, <2>4, ZenonT(30) DEF HandleNewMember
<1>11. ASSUME NEW p \in Replicas, Crash(p) \/ Stop(p) PROVE WritersReachTheirPeers'
  <2>1. link' = EndsClosed(p)
    BY <1>11, Zenon DEF Crash, Stop
  <2>2. \A k \in Links : Kept(k)
    BY <2>1, EndsClosedEffect, Zenon DEF Kept
  <2>3. NoneAdded
    <3>1. /\ writers'[p] = NoWriters /\ handover'[p] = <<>>
          /\ \A r \in Replicas : r # p => writers'[r] = writers[r] /\ handover'[r] = handover[r]
      BY <1>11 DEF Crash, Stop, NetTypes, WriterTypes, HandoverTypes
    <3>2. DOMAIN NoWriters = {} /\ DOMAIN <<>> = {}
      BY DEF NoWriters
    <3> QED
      BY <3>1, <3>2, ZenonT(30) DEF NoneAdded
  <2> QED
    BY <1>1, <2>2, <2>3, Zenon
<1>12. ASSUME NEW p \in Replicas, AddWriter(p) PROVE WritersReachTheirPeers'
  <2> DEFINE new == Head(handover[p])
             w == [q \in DOMAIN writers[p] \cup {new.pid} |->
                     IF q = new.pid THEN new.link ELSE writers[p][q]]
  <2>1. /\ handover[p] \in Seq(Handovers) /\ handover[p] # <<>>
        /\ writers' = [writers EXCEPT ![p] = w]
        /\ handover' = [handover EXCEPT ![p] = Tail(handover[p])]
        /\ link' = link
    BY <1>12 DEF AddWriter, NetTypes, HandoverTypes
  <2>2. /\ new = handover[p][1] /\ 1 \in DOMAIN handover[p]
        /\ \A i \in DOMAIN Tail(handover[p]) : /\ i + 1 \in DOMAIN handover[p]
                                               /\ Tail(handover[p])[i] = handover[p][i + 1]
    BY <2>1, SMT, Z3
  <2>4. Leads(p, new.pid, new.link)
    BY <2>2, Zenon DEF WritersReachTheirPeers
  <2>5. \A q \in DOMAIN w : Leads(p, q, w[q])
    BY <2>4, Zenon DEF WritersReachTheirPeers
  <2>6. \A i \in DOMAIN Tail(handover[p]) :
           Leads(p, Tail(handover[p])[i].pid, Tail(handover[p])[i].link)
    BY <2>2, Zenon DEF WritersReachTheirPeers
  <2> HIDE DEF w, new
  <2>7. /\ writers'[p] = w /\ handover'[p] = Tail(handover[p])
        /\ \A r \in Replicas : r # p => writers'[r] = writers[r] /\ handover'[r] = handover[r]
    BY <2>1, Zenon DEF NetTypes, WriterTypes, HandoverTypes
  <2>8. ASSUME NEW r \in Replicas, NEW q \in DOMAIN writers'[r] PROVE Leads(r, q, writers[r][q])'
    <3>1. Leads(r, q, writers'[r][q])
      BY <2>5, <2>7, <2>8 DEF WritersReachTheirPeers
    <3> QED
      BY <2>1, <3>1, ZenonT(30) DEF Leads, Peer
  <2>9. ASSUME NEW r \in Replicas, NEW i \in DOMAIN handover'[r]
        PROVE  Leads(r, handover[r][i].pid, handover[r][i].link)'
    <3>1. Leads(r, handover'[r][i].pid, handover'[r][i].link)
      BY <2>6, <2>7, <2>9, Zenon DEF WritersReachTheirPeers
    <3> QED
      BY <2>1, <3>1, Zenon DEF Leads, Peer
  <2> QED
    BY <2>8, <2>9, ZenonT(30) DEF WritersReachTheirPeers
<1>13. ASSUME NEW p \in Replicas, NEW l \in Links, HandleEstablished(p, l)
       PROVE  WritersReachTheirPeers'
  <2>1. CASE Refused(p, l)
    <3>1. \A k \in Links : Kept(k)
      BY <1>13, <2>1, SetEndRedirects, ZenonT(30) DEF HandleEstablished, Kept, Ends
    <3> QED
      BY <1>1, <1>3, <1>13, <2>1, <3>1, Zenon DEF HandleEstablished
  <2>2. CASE ~Refused(p, l)
    <3> DEFINE new == [pid |-> Peer(p, l), link |-> l]
               h == handover[p]
    <3>1. /\ End(p, l) = "ready" /\ SetEnd(p, l, "open") /\ writers' = writers
          /\ handover' = [handover EXCEPT ![p] = Append(h, new)]
      BY <1>13, <2>2, ZenonT(30) DEF HandleEstablished
    <3>2. \A k \in Links : Kept(k)
      BY <3>1, SetEndRedirects DEF Kept, Ends
    <3>3. h \in Seq(Handovers)
      BY Zenon DEF NetTypes, HandoverTypes
    <3>4. link[l].a # "dialing"
      BY <3>1, Zenon DEF End, Dialing
    <3>5. \A r \in Replicas, k \in Links : \A q :
             Leads(r, q, k) => Peer(r, k)' = q /\ link'[k].a # "dialing"
      BY <3>2, Zenon DEF Leads, Kept
    <3>6. Leads(p, new.pid, new.link)
      BY <3>4, Zenon DEF Leads
    <3>7. \A i \in DOMAIN Append(h, new) : \/ i \in DOMAIN h /\ Append(h, new)[i] = h[i]
                                          \/ Append(h, new)[i] = new
      <4> HIDE DEF new, h
      <4> QED
        BY <3>3, SMT, Z3
    <3>8. /\ handover'[p] = Append(h, new)
          /\ \A r \in Replicas : r # p => handover'[r] = handover[r]
      BY <3>1, ZenonT(30) DEF NetTypes, HandoverTypes
    <3>9. ASSUME NEW r \in Replicas, NEW q \in DOMAIN writers'[r] PROVE Leads(r, q, writers[r][q])'
      <4>1. Leads(r, q, writers[r][q]) /\ writers[r][q] \in Links /\ writers' = writers
        BY <3>1, <3>9, Zenon DEF WritersReachTheirPeers, NetTypes, WriterTypes
      <4> QED
        BY <3>5, <4>1 DEF Leads, Peer
    <3>10. ASSUME NEW r \in Replicas, NEW i \in DOMAIN handover'[r]
           PROVE  Leads(r, handover[r][i].pid, handover[r][i].link)'
      <4> DEFINE x == handover'[r][i]
      <4>1. \/ i \in DOMAIN handover[r] /\ x = handover[r][i]
            \/ r = p /\ x = new
        BY <3>7, <3>8, <3>10, Zenon
      <4>2. Leads(r, x.pid, x.link)
        BY <3>6, <4>1, ZenonT(30) DEF WritersReachTheirPeers
      <4>3. x.link \in Links
        <5>1. handover[r] \in Seq(Handovers)
          BY DEF NetTypes, HandoverTypes
        <5>2. i \in DOMAIN handover[r] => handover[r][i] \in Handovers
          BY <5>1
        <5>3. i \in DOMAIN handover[r] => handover[r][i].link \in Links
          BY <5>2 DEF Handovers
        <5> QED
          BY <4>1, <5>3, SMTT(30), Z3T(30)
      <4> QED
        BY <3>5, <4>2, <4>3, ZenonT(30) DEF Leads, Peer
    <3> QED
      BY <3>9, <3>10 DEF WritersReachTheirPeers
  <2> QED
    BY <2>1, <2>2
<1> QED
  BY <1>4, <1>5, <1>6, <1>7, <1>8, <1>9, <1>10, <1>11, <1>12, <1>13, <1>14, ZenonT(30) DEF Next, Step

-----------------------------------------------------------------------------
(* The inductive invariant and what it gives.                              *)

NetInv ==
  /\ NetTypes /\ Dialing /\ Registered /\ OneConnectionPerPeer
  /\ DeadStayDead /\ UpwardOnly /\ WritersReachTheirPeers

\* The invariant holds initially.
LEMMA NetInit == Init => NetInv
<1> SUFFICES ASSUME Init PROVE NetInv
  OBVIOUS
<1>1. NetTypes
  <2>1. ReplicaTypes /\ FaultTypes
    BY NetworkAssumption, SMT, Z3 DEF Init, ReplicaTypes, FaultTypes
  <2>2. MgrTypes
    BY DEF Init, MgrTypes, Managers, NewManager
  <2>3. MemberTypes /\ HandoverTypes
    BY NetworkAssumption DEF Init, MemberTypes, HandoverTypes
  <2>4. WriterTypes
    BY Zenon DEF Init, WriterTypes, NoWriters
  <2>5. LinkTypes
    BY Zenon DEF Init, LinkTypes, Connections, Ends, Free
  <2> QED
    BY <2>1, <2>2, <2>3, <2>4, <2>5, ZenonT(30) DEF NetTypes
<1>2. Dialing
  BY ZenonT(30) DEF Init, Dialing, Free
<1>3. Registered /\ OneConnectionPerPeer
  BY DEF Init, Registered, OneConnectionPerPeer, End, Free
<1>4. DeadStayDead /\ UpwardOnly
  BY Zenon DEF Init, DeadStayDead, UpwardOnly, NewManager
<1>5. WritersReachTheirPeers
  <2>1. \A p \in Replicas : writers[p] = [q \in {} |-> q] /\ handover[p] = << >>
    BY Zenon DEF Init, NoWriters
  <2>2. DOMAIN [q \in {} |-> q] = {} /\ DOMAIN << >> = {}
    BY ONLY SMT, Z3
  <2>3. \A p \in Replicas : DOMAIN writers[p] = {} /\ DOMAIN handover[p] = {}
    BY ONLY <2>1, <2>2, Zenon
  <2>. QED  BY ONLY <2>3, Zenon DEF WritersReachTheirPeers
<1> QED
  BY <1>1, <1>2, <1>3, <1>4, <1>5 DEF NetInv

\* The invariant of the network manager holds, for any replicas and addresses,
\* whatever connections, handshakes and processes fail, and when.
LEMMA NetCorrect == Spec => []NetInv
<1>1. NetInv /\ [Next]_vars => NetInv'
  <2> SUFFICES ASSUME NetInv, [Next]_vars PROVE NetInv'
    OBVIOUS
  <2>1. NetTypes'
    BY TypesStep DEF NetInv
  <2> QED
    BY <2>1, DialingStep, RegisteredStep, ManagersStep, WritersStep DEF NetInv
<1> QED
  BY <1>1, NetInit, PTL DEF Spec

\* The sets of the managers, the channels within their capacity, writers and
\* links keep their types.
THEOREM NetworkTypes == Spec => []TypeOK
<1>1. ASSUME NetTypes PROVE TypeOK
  <2>1. \A p \in Replicas : Range(writers[p]) \subseteq Links
    BY <1>1 DEF NetTypes, WriterTypes, Range
  <2>2. \A l \in Links : link[l].a # "none" /\ link[l].b # "dialing"
    BY <1>1 DEF NetTypes, LinkTypes, Connections
  <2>3. \A p \in Replicas : departed[p] \cup todo[p] \subseteq Replicas
    BY <1>1 DEF NetTypes, ReplicaTypes
  <2> QED
    BY <1>1, <2>1, <2>2, <2>3, ZenonT(30) DEF NetTypes, ReplicaTypes, FaultTypes, MgrTypes, Managers,
                                  MemberTypes, HandoverTypes, WriterTypes, TypeOK
<1>2. NetInv => TypeOK
  BY <1>1, ZenonT(30) DEF NetInv
<1> QED
  BY <1>2, NetCorrect, PTL

\* A replica never has two registered connections to the same peer, however many
\* handshakes overlap, replicas restart or addresses are used again.
THEOREM ConnectionsAreUnique == Spec => []OneConnectionPerPeer
<1>1. NetInv => OneConnectionPerPeer
  BY DEF NetInv
<1> QED
  BY <1>1, NetCorrect, PTL

\* A peer whose shutdown the manager has handled is neither connected nor dialed
\* again, whatever attempt or handshake was under way.
THEOREM TheDeadStayDead == Spec => []DeadStayDead
<1>1. NetInv => DeadStayDead
  BY DEF NetInv
<1> QED
  BY <1>1, NetCorrect, PTL

\* Where nobody publishes an address above the one it listens on, no two replicas
\* are dialing each other and none dials itself: of two, only the one with the
\* lower address does.
THEOREM NoCrossedAttempts ==
  ASSUME \A p \in Replicas : Advertised[p] <= Bound[p]
  PROVE  Spec => []NoMutualAttempts
<1>1. NetInv => NoMutualAttempts
  BY NetworkAssumption DEF NetInv, UpwardOnly, NoMutualAttempts
<1> QED
  BY <1>1, NetCorrect, PTL

\* A writer leads to the replica it is kept for, through any restarts and however
\* connections are replaced.
THEOREM WritersAreFaithful == Spec => []WritersReachTheirPeers
<1>1. NetInv => WritersReachTheirPeers
  BY DEF NetInv
<1> QED
  BY <1>1, NetCorrect, PTL
=============================================================================
