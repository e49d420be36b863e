------------------------------ MODULE Network ------------------------------
(***************************************************************************)
(* The network manager of src/src/network.rs (NetworkManager::run) and the *)
(* replica's side of it (ReplicaNetwork): discovery of members, connection *)
(* attempts and their handshake, registration, writers, loss of            *)
(* connections, departure, crash and restart.                              *)
(*                                                                         *)
(* A link is one TCP connection: the replica that dialed it (from), the one*)
(* that has the address (to), the identifier the dialer expects there, the *)
(* replicas that have written theirs in the handshake (spoke), and the     *)
(* state of each end: "none" (not accepted), "handshake", "ready" (the     *)
(* result Established is queued), "failed" (the result Failed is queued),  *)
(* "open" (registered) and "closed"; the dialer's starts as "dialing".     *)
(* Messages are not modelled: one sent over a link whose other end is open *)
(* arrives, any other is lost.  Of the time of the next attempt and the    *)
(* number of failures only matters whether the back-off has elapsed.       *)
(***************************************************************************)
EXTENDS Naturals, Sequences, FiniteSets

CONSTANTS
  Replicas,    \* replica identifiers, as numbers
  Bound,       \* the address each listens on, as a number
  Advertised,  \* the address each publishes
  Links,       \* bound: connections that exist at the same time
  Founders,    \* replicas that run initially
  Starters,    \* replicas that may start (again) when down
  Crashers,    \* replicas that may crash
  Leavers,     \* replicas that may shut down gracefully
  Faults,      \* kinds of network faults: "dial", "handshake", "break"
  MaxFaults,   \* bound: network faults and crashes
  MemberQueue, \* capacity of the channel of members (100 in the code)
  WriterQueue  \* capacity of the channel of new writers (100 in the code)

ASSUME NetworkAssumption ==
  /\ Replicas \subseteq Nat \ {0} /\ IsFiniteSet(Replicas)
  /\ Bound \in [Replicas -> Nat] /\ Advertised \in [Replicas -> Nat]
  /\ UNION {Founders, Starters, Crashers, Leavers} \subseteq Replicas
  /\ Faults \subseteq {"dial", "handshake", "break"}
  /\ MaxFaults \in Nat /\ {MemberQueue, WriterQueue} \subseteq Nat \ {0}

VARIABLES
  status,    \* "down", "running", "leaving" (descriptor written), "stopped"
  listed,    \* membership directory: replicas with an active descriptor
  mgr,       \* NetworkManager: dead, connected, connecting, backoff
  members,   \* the channel of NetworkMembers to the manager
  handover,  \* the channel of new writers to the replica
  writers,   \* ReplicaNetwork::writers: the link behind each peer's writer
  departed,  \* departures the replica has handled
  todo,      \* departures the current membership poll still has to handle
  link,      \* the connections
  faults     \* faults so far

replica == <<status, listed, departed, todo>>
vars == <<replica, mgr, members, handover, writers, link, faults>>

NewManager == [dead |-> {}, connected |-> {}, connecting |-> {}, backoff |-> {}]
NoWriters == [q \in {} |-> q]
Free == [from |-> 0, to |-> 0, expected |-> 0, spoke |-> {}, a |-> "closed", b |-> "closed"]

Alive(p) == status[p] \in {"running", "leaving"}
Looping(p) == status[p] = "running" /\ todo[p] = {}

-----------------------------------------------------------------------------
(* Links.                                                                  *)

End(p, l) == IF link[l].from = p THEN link[l].a ELSE IF link[l].to = p THEN link[l].b ELSE "closed"
Peer(p, l) == IF link[l].from = p THEN link[l].to ELSE link[l].from
WithEnd(k, p, s) == IF k.from = p THEN [k EXCEPT !.a = s] ELSE [k EXCEPT !.b = s]
SetEnd(p, l, s) == link' = [link EXCEPT ![l] = WithEnd(@, p, s)]

\* A connection whose ends are closed and that no writer leads to.
Unused(l) ==
  /\ link[l].a = "closed" /\ link[l].b = "closed"
  /\ \A p \in Replicas : /\ \A q \in DOMAIN writers[p] : writers[p][q] # l
                         /\ \A i \in DOMAIN handover[p] : handover[p][i].link # l

\* When its process ends, p's ends are closed and what it never accepted is reset.
EndsClosed(p) == [l \in Links |->
  [from |-> link[l].from, to |-> link[l].to,
   expected |-> link[l].expected, spoke |-> link[l].spoke,
   a |-> IF link[l].from = p THEN "closed" ELSE link[l].a,
   b |-> IF link[l].to = p THEN "closed" ELSE link[l].b]]

-----------------------------------------------------------------------------
(* The replica's side.                                                     *)

\* The elements of S in ascending order: a set of one sequence.
Ascending(S) ==
  {s \in [1 .. Cardinality(S) -> S] : \A i, j \in DOMAIN s : i < j => s[i] < s[j]}

\* network_connection_candidates: peers that are active and have no writer, by
\* identifier.
Candidates(p) ==
  Ascending({q \in listed : q # p /\ status[q] \notin {"leaving", "stopped"}}
              \ DOMAIN writers[p])

\* Mutant: an unbounded channel.
EnqueuedAll(queue, peers) ==
  queue \o [i \in DOMAIN peers |-> [pid |-> peers[i], shutdown |-> FALSE]]

\* try_send of every candidate: what does not fit in the channel is dropped.
Enqueued(queue, peers) ==
  LET all == queue \o [i \in DOMAIN peers |-> [pid |-> peers[i], shutdown |-> FALSE]]
  IN SubSeq(all, 1, IF Len(all) <= MemberQueue THEN Len(all) ELSE MemberQueue)

\* apply_membership_poll: enqueue_members, then the departures one by one.
Poll(p) ==
  /\ Looping(p)
  /\ \E peers \in Candidates(p) : members' = [members EXCEPT ![p] = Enqueued(@, peers)]
  /\ todo' = [todo EXCEPT ![p] = {q \in Replicas : status[q] \in {"leaving", "stopped"}}
                                   \ departed[p]]
  /\ UNCHANGED <<status, listed, departed, mgr, handover, writers, link, faults>>

\* handle_shutdown_descriptor, notify_departure: drop the writer, tell the
\* manager if its channel has room.
NotifyDeparture(p, q) ==
  /\ status[p] = "running" /\ q \in todo[p]
  /\ todo' = [todo EXCEPT ![p] = @ \ {q}]
  /\ departed' = [departed EXCEPT ![p] = @ \cup {q}]
  /\ writers' = [writers EXCEPT ![p] = [r \in DOMAIN @ \ {q} |-> @[r]]]
  /\ members' = [members EXCEPT ![p] =
       IF Len(@) < MemberQueue THEN Append(@, [pid |-> q, shutdown |-> TRUE]) ELSE @]
  /\ UNCHANGED <<status, listed, mgr, handover, link, faults>>

\* ReplicaNetwork::poll absorbs a new writer.
AddWriter(p) ==
  /\ Looping(p) /\ handover[p] # <<>>
  /\ LET new == Head(handover[p])
     IN writers' = [writers EXCEPT ![p] =
          [q \in DOMAIN @ \cup {new.pid} |-> IF q = new.pid THEN new.link ELSE @[q]]]
  /\ handover' = [handover EXCEPT ![p] = Tail(@)]
  /\ UNCHANGED <<replica, mgr, members, link, faults>>

\* pull_delta or a response, to a peer whose connection the peer has closed:
\* write_loop ends with an error ...
WriteFails(p, q) ==
  /\ Looping(p) /\ q \in DOMAIN writers[p]
  /\ LET l == writers[p][q]
     IN End(p, l) = "open" /\ End(q, l) = "closed" /\ SetEnd(p, l, "closed")
  /\ UNCHANGED <<replica, mgr, members, handover, writers, faults>>

\* Mutant: the error is logged and the writer kept.
RemoveWriterNot(p, q) ==
  /\ Looping(p) /\ q \in DOMAIN writers[p]
  /\ End(p, writers[p][q]) = "closed"
  /\ UNCHANGED vars

\* ... and the next one finds the writer closed and removes it.
RemoveWriter(p, q) ==
  /\ Looping(p) /\ q \in DOMAIN writers[p]
  /\ End(p, writers[p][q]) = "closed"
  /\ writers' = [writers EXCEPT ![p] = [r \in DOMAIN @ \ {q} |-> @[r]]]
  /\ UNCHANGED <<replica, mgr, members, handover, link, faults>>

-----------------------------------------------------------------------------
(* The manager's event loop.                                               *)

\* handle_new_member for a replica that has shut down.
Retired(m, q) ==
  [dead |-> m.dead \cup {q}, connected |-> m.connected \ {q},
   connecting |-> m.connecting \ {q}, backoff |-> m.backoff \ {q}]

\* Mutant: addresses are compared for equality only.
DialsAnyone(p, q) ==
  /\ q # p /\ Advertised[q] # Bound[p]
  /\ q \notin UNION {mgr[p].dead, mgr[p].connected, mgr[p].connecting, mgr[p].backoff}

\* The conditions under which handle_new_member dials: only the replica with
\* the lower address does.
Dials(p, q) ==
  /\ q # p /\ Advertised[q] > Bound[p]
  /\ q \notin UNION {mgr[p].dead, mgr[p].connected, mgr[p].connecting, mgr[p].backoff}

\* NetworkManager::handle_new_member
HandleNewMember(p) ==
  /\ Alive(p) /\ members[p] # <<>>
  /\ members' = [members EXCEPT ![p] = Tail(@)]
  /\ LET q == Head(members[p]).pid
     IN \/ /\ Head(members[p]).shutdown
           /\ mgr' = [mgr EXCEPT ![p] = Retired(@, q)]
           /\ UNCHANGED link
        \/ /\ ~Head(members[p]).shutdown /\ Dials(p, q)
           /\ mgr' = [mgr EXCEPT ![p].connecting = @ \cup {q}]
           /\ \E l \in Links :
                /\ Unused(l) /\ \A k \in Links : k < l => ~Unused(k)
                /\ link' = [link EXCEPT ![l] =
                     [from |-> p, to |-> 0, expected |-> q, spoke |-> {},
                      a |-> "dialing", b |-> "closed"]]
        \/ /\ ~Head(members[p]).shutdown /\ ~Dials(p, q)
           /\ UNCHANGED <<mgr, link>>
  /\ UNCHANGED <<replica, handover, writers, faults>>

\* TcpStream::connect reaches whoever listens at the address ...
Dialed(p, l) ==
  /\ link[l].from = p /\ link[l].a = "dialing"
  /\ \E r \in Replicas :
       /\ Alive(r) /\ Advertised[r] = Advertised[link[l].expected]
       /\ link' = [link EXCEPT ![l] =
            [from |-> p, to |-> r, expected |-> link[l].expected, spoke |-> {p},
             a |-> "handshake", b |-> "none"]]
  /\ UNCHANGED <<replica, mgr, members, handover, writers, faults>>

\* ... or fails, or times out.
DialFails(p, l) ==
  /\ link[l].from = p /\ link[l].a = "dialing"
  /\ \/ /\ \A r \in Replicas : Alive(r) => Advertised[r] # Advertised[link[l].expected]
        /\ UNCHANGED faults
     \/ /\ "dial" \in Faults /\ faults < MaxFaults
        /\ faults' = faults + 1
  /\ SetEnd(p, l, "failed")
  /\ UNCHANGED <<replica, mgr, members, handover, writers>>

\* accept, spawn_connection_attempt: the handshake starts.
Accept(p, l) ==
  /\ link[l].to = p /\ link[l].b = "none"
  /\ link' = [link EXCEPT ![l] =
       [from |-> link[l].from, to |-> p, expected |-> link[l].expected,
        spoke |-> link[l].spoke \cup {p}, a |-> link[l].a, b |-> "handshake"]]
  /\ UNCHANGED <<replica, mgr, members, handover, writers, faults>>

\* establish_connection: the peer's identifier is read, the tasks spawned ...
Established(p, l) ==
  /\ End(p, l) = "handshake" /\ Peer(p, l) \in link[l].spoke
  /\ SetEnd(p, l, "ready")
  /\ UNCHANGED <<replica, mgr, members, handover, writers, faults>>

\* ... or the handshake fails, or times out.
HandshakeFails(p, l) ==
  /\ End(p, l) = "handshake"
  /\ \/ End(Peer(p, l), l) = "closed" /\ UNCHANGED faults
     \/ "handshake" \in Faults /\ faults < MaxFaults /\ faults' = faults + 1
  /\ SetEnd(p, l, "failed")
  /\ UNCHANGED <<replica, mgr, members, handover, writers>>

\* Mutant: connecting_members keeps the peer.
HandleFailedConnecting(p, l) ==
  /\ End(p, l) = "failed"
  /\ mgr' = IF link[l].from # p THEN mgr
            ELSE [mgr EXCEPT ![p].backoff = @ \cup {link[l].expected}]
  /\ SetEnd(p, l, "closed")
  /\ UNCHANGED <<replica, members, handover, writers, faults>>

\* The dialer forgets an attempt at q that has failed, and backs off ...
AttemptFailed(m, q) ==
  [dead |-> m.dead, connected |-> m.connected,
   connecting |-> m.connecting \ {q}, backoff |-> m.backoff \cup {q}]

\* ... or one that has reached somebody.
AttemptEnded(m, q) ==
  [dead |-> m.dead, connected |-> m.connected,
   connecting |-> m.connecting \ {q}, backoff |-> m.backoff \ {q}]

\* handle_connection_result, Failed.
HandleFailed(p, l) ==
  /\ End(p, l) = "failed"
  /\ mgr' = IF link[l].from # p THEN mgr
            ELSE [mgr EXCEPT ![p] = AttemptFailed(@, link[l].expected)]
  /\ SetEnd(p, l, "closed")
  /\ UNCHANGED <<replica, members, handover, writers, faults>>

\* Mutant: the check of dead_members is forgotten.
RefusedUnlessDead(p, l) ==
  \/ link[l].from = p /\ Peer(p, l) # link[l].expected
  \/ Peer(p, l) \in mgr[p].connected
  \/ Len(handover[p]) >= WriterQueue

\* Mutant: a second connection of a connected peer is registered as well.
RefusedUnlessConnected(p, l) ==
  \/ link[l].from = p /\ Peer(p, l) # link[l].expected
  \/ Peer(p, l) \in mgr[p].dead
  \/ Len(handover[p]) >= WriterQueue

\* handle_connection_result refuses a peer that is not the one expected, is
\* dead or is connected already, and any when the replica's channel is full.
Refused(p, l) ==
  \/ link[l].from = p /\ Peer(p, l) # link[l].expected
  \/ Peer(p, l) \in mgr[p].dead \cup mgr[p].connected
  \/ Len(handover[p]) >= WriterQueue

\* handle_connection_result, Established.
HandleEstablished(p, l) ==
  LET q    == Peer(p, l)
      base == IF link[l].from # p THEN mgr[p]
              ELSE AttemptEnded(mgr[p], link[l].expected)
  IN /\ End(p, l) = "ready"
     /\ \/ /\ Refused(p, l)
           /\ mgr' = [mgr EXCEPT ![p] = base]
           /\ SetEnd(p, l, "closed")
           /\ UNCHANGED handover
        \/ /\ ~Refused(p, l)
           /\ mgr' = [mgr EXCEPT ![p] = [base EXCEPT !.connected = @ \cup {q}]]
           /\ handover' = [handover EXCEPT ![p] = Append(@, [pid |-> q, link |-> l])]
           /\ SetEnd(p, l, "open")
     /\ UNCHANGED <<replica, members, writers, faults>>

\* The time in connection_retry_at is reached.
BackoffExpires(p, q) ==
  /\ Alive(p) /\ q \in mgr[p].backoff
  /\ mgr' = [mgr EXCEPT ![p].backoff = @ \ {q}]
  /\ UNCHANGED <<replica, members, handover, writers, link, faults>>
-----------------------------------------------------------------------------
(* Faults and the life of a replica.                                       *)

\* One end of an established connection is lost (reset, or a write times out).
Break(p, l) ==
  /\ "break" \in Faults /\ faults < MaxFaults
  /\ End(p, l) = "open"
  /\ SetEnd(p, l, "closed")
  /\ faults' = faults + 1
  /\ UNCHANGED <<replica, mgr, members, handover, writers>>

\* The state of manager and replica is lost with the process; the directory
\* keeps its descriptor.
Crash(p) ==
  /\ status[p] = "running" /\ p \in Crashers /\ faults < MaxFaults
  /\ faults' = faults + 1
  /\ status' = [status EXCEPT ![p] = "down"]
  /\ mgr' = [mgr EXCEPT ![p] = NewManager]
  /\ members' = [members EXCEPT ![p] = <<>>]
  /\ handover' = [handover EXCEPT ![p] = <<>>]
  /\ writers' = [writers EXCEPT ![p] = NoWriters]
  /\ departed' = [departed EXCEPT ![p] = {}]
  /\ todo' = [todo EXCEPT ![p] = {}]
  /\ link' = EndsClosed(p)
  /\ UNCHANGED listed

\* A new replica, or one that recovered its identity from its journal, runs:
\* it is registered and enqueues the members it listed.
Start(p) ==
  /\ status[p] = "down" /\ p \in Starters
  /\ \A q \in Replicas : Alive(q) => Bound[q] # Bound[p] \/ Advertised[q] # Advertised[p]
  /\ status' = [status EXCEPT ![p] = "running"]
  /\ listed' = listed \cup {p}
  /\ \E peers \in Candidates(p) : members' = [members EXCEPT ![p] = Enqueued(@, peers)]
  /\ UNCHANGED <<departed, todo, mgr, handover, writers, link, faults>>

\* Replica::shutdown writes the shutdown descriptor ...
Leave(p) ==
  /\ Looping(p) /\ p \in Leavers
  /\ status' = [status EXCEPT ![p] = "leaving"]
  /\ UNCHANGED <<listed, departed, todo, mgr, members, handover, writers, link, faults>>

\* ... and then ends the manager, which aborts its tasks.
Stop(p) ==
  /\ status[p] = "leaving"
  /\ status' = [status EXCEPT ![p] = "stopped"]
  /\ mgr' = [mgr EXCEPT ![p] = NewManager]
  /\ members' = [members EXCEPT ![p] = <<>>]
  /\ handover' = [handover EXCEPT ![p] = <<>>]
  /\ writers' = [writers EXCEPT ![p] = NoWriters]
  /\ link' = EndsClosed(p)
  /\ UNCHANGED <<listed, departed, todo, faults>>

-----------------------------------------------------------------------------
Init ==
  /\ status = [p \in Replicas |-> IF p \in Founders THEN "running" ELSE "down"]
  /\ listed = Founders
  /\ mgr = [p \in Replicas |-> NewManager]
  /\ members = [p \in Replicas |-> <<>>]
  /\ handover = [p \in Replicas |-> <<>>]
  /\ writers = [p \in Replicas |-> NoWriters]
  /\ departed = [p \in Replicas |-> {}]
  /\ todo = [p \in Replicas |-> {}]
  /\ link = [l \in Links |-> Free]
  /\ faults = 0

Step(p) ==
  \/ Poll(p) \/ AddWriter(p) \/ HandleNewMember(p)
  \/ \E q \in Replicas :
       NotifyDeparture(p, q) \/ WriteFails(p, q) \/ RemoveWriter(p, q) \/ BackoffExpires(p, q)
  \/ \E l \in Links :
       \/ Dialed(p, l) \/ DialFails(p, l) \/ Accept(p, l)
       \/ Established(p, l) \/ HandshakeFails(p, l)
       \/ HandleFailed(p, l) \/ HandleEstablished(p, l)

Next ==
  \E p \in Replicas :
    \/ Step(p)
    \/ \E l \in Links : Break(p, l)
    \/ Crash(p) \/ Start(p) \/ Leave(p) \/ Stop(p)

\* The event loops pick among ready events at random, timers recur and
\* connection attempts end: every one of these steps is eventually taken.
Fairness ==
  \A p \in Replicas :
    /\ WF_vars(Poll(p)) /\ WF_vars(AddWriter(p)) /\ WF_vars(HandleNewMember(p))
    /\ WF_vars(Start(p)) /\ WF_vars(Stop(p))
    /\ \A q \in Replicas :
         /\ WF_vars(NotifyDeparture(p, q)) /\ WF_vars(BackoffExpires(p, q))
         /\ WF_vars(WriteFails(p, q) \/ RemoveWriter(p, q))
    /\ \A l \in Links :
         WF_vars(\/ Dialed(p, l) \/ DialFails(p, l) \/ Accept(p, l)
                 \/ Established(p, l) \/ HandshakeFails(p, l)
                 \/ HandleFailed(p, l) \/ HandleEstablished(p, l))

Spec == Init /\ [][Next]_vars /\ Fairness

-----------------------------------------------------------------------------
(* Properties.                                                             *)

\* Type invariant of managers, channels, writers and links.
TypeOK ==
  /\ status \in [Replicas -> {"down", "running", "leaving", "stopped"}]
  /\ listed \subseteq Replicas /\ faults \in 0 .. MaxFaults
  /\ \A p \in Replicas :
       /\ mgr[p] \in [dead : SUBSET Replicas, connected : SUBSET Replicas,
                      connecting : SUBSET Replicas, backoff : SUBSET Replicas]
       /\ Len(members[p]) <= MemberQueue /\ Len(handover[p]) <= WriterQueue
       /\ DOMAIN writers[p] \subseteq Replicas
       /\ \A q \in DOMAIN writers[p] : writers[p][q] \in Links
       /\ departed[p] \cup todo[p] \subseteq Replicas
  /\ \A l \in Links : link[l].a # "none" /\ link[l].b # "dialing"

\* "Ensure there's no self connection, or mutual connection attempts": no two
\* replicas are connecting to each other at the same time, none to itself.
NoMutualAttempts ==
  \A p, q \in Replicas : ~(q \in mgr[p].connecting /\ p \in mgr[q].connecting)

\* A replica never has two registered connections to the same peer, although
\* replicas restart, addresses are reused and handshakes overlap.
OneConnectionPerPeer ==
  \A p \in Replicas : \A k, l \in Links :
     End(p, k) = "open" /\ End(p, l) = "open" /\ Peer(p, k) = Peer(p, l) => k = l

\* Once the manager knows that a replica is dead, no attempt that was under way
\* brings it back.
DeadStayDead ==
  \A p \in Replicas : mgr[p].dead \cap (mgr[p].connected \cup mgr[p].connecting) = {}

\* p and q can exchange messages.
Linked(p, q) ==
  /\ q \in DOMAIN writers[p] /\ p \in DOMAIN writers[q]
  /\ End(q, writers[p][q]) = "open" /\ End(p, writers[q][p]) = "open"
  /\ End(p, writers[p][q]) = "open" /\ End(q, writers[q][p]) = "open"

\* Replicas that stay up are eventually connected for good, so that every
\* mutation reaches every peer.
Meshed ==
  \A p, q \in Replicas : p < q =>
    (<>[](status[p] = "running" /\ status[q] = "running") => <>[]Linked(p, q))

\* A replica that handled the departure of a peer eventually has no writer for
\* it any more, even when one was handed over late.
DepartedForgotten ==
  \A p, q \in Replicas :
    [](q \in departed[p] => <>[](q \notin DOMAIN writers[p]))
=============================================================================
