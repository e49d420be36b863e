---------------------------- MODULE Membership ----------------------------
(***************************************************************************)
(* What Replica keeps true while replicas join and leave: the invariant    *)
(* behind the theorems of MembershipProofs.  Much of what a fixed          *)
(* membership guarantees does not survive a join or a departure; what does *)
(* rests on two quantities that only grow, the set of replicas that have   *)
(* shut down and the last dot that each replica has of its own.            *)
(***************************************************************************)
EXTENDS Replica

\* The replicas that have begun to shut down: they do not come back.
Gone == {p \in Pids : status[p] \in {"stopping", "stopped"}}

\* The last dot of p that others may know of: none until p has bootstrapped.
Own(p) == IF status[p] \in {"down", "booting"} THEN -1 ELSE Get(rep[p].vv, p)

-----------------------------------------------------------------------------
(* Values that may be handed from one replica to another.                  *)

\* A shutdown descriptor belongs to a replica that has shut down.
GoodDescriptor(d) ==
  /\ IsDescriptor(d) /\ \A f \in d.final : f >= -1
  /\ IsShutdown(d) => d.pid \in Gone

\* Final dots and GC markers name no replica as departed that has not shut down.
GoodMarker(m) == IsMarker(m) /\ m.departed \subseteq Gone
GoodRep(s) == IsRep(s) /\ DOMAIN s.finals \subseteq Gone /\ GoodMarker(s.marker)

\* Nobody knows a dot that its replica does not have.
KnownLog(log) == \A r \in Pids : \A c \in log[r] : c <= Own(r)
KnownRep(s) == KnownLog(s.log) /\ \A r \in Pids : Get(s.vv, r) <= Own(r)

GoodMessage(m) ==
  /\ IsMessage(m)
  /\ m.kind = "delta" => GoodMarker(m.gc) /\ KnownLog(m.list)

\* A round of p replaces p's descriptor by one with a higher GC counter.
GoodRound(p, r) ==
  /\ IsRound(r) /\ GoodMarker(r.marker)
  /\ r.old = Active(p, r.old.gc) /\ r.old.gc < r.marker.counter

\* A state s of p itself: of its own dots p may know more than the others may,
\* as its HTTP server accepts mutations before it has bootstrapped.
GoodState(p, s) ==
  /\ GoodRep(s)
  /\ \A c \in s.log[p] : c <= Get(s.vv, p)
  /\ \A r \in Pids \ {p} : Get(s.vv, r) <= Own(r) /\ \A c \in s.log[r] : c <= Own(r)

-----------------------------------------------------------------------------
(* The invariant, by the variables it is about.                            *)

Shape ==
  /\ status \in [Pids -> {"down", "booting", "running", "panicked", "stopping", "stopped"}]
  /\ pc \in [Pids -> {"register", "list", "install", "loop", "departures", "validate",
                      "abort", "withdraw", "relist", "complete", "departed", "old"}]
  /\ acked \in [Pids -> Nat] /\ writers \in [Pids -> SUBSET Pids]
  /\ Pids = DOMAIN rep /\ Pids = DOMAIN payload /\ Pids = DOMAIN cache
  /\ Pids = DOMAIN poll /\ Pids = DOMAIN fetched /\ Pids = DOMAIN todo
  /\ Pids = DOMAIN round

StatesGood == \A p \in Pids : GoodState(p, rep[p])

MessagesGood == \A m \in msgs : GoodMessage(m)

StoreGood ==
  /\ \A d \in dir : GoodDescriptor(d)
  /\ \A s \in snapshot : GoodRep(s) /\ KnownRep(s)
  /\ \A p \in Pids : GoodRep(payload[p]) /\ KnownRep(payload[p])

LocalsGood ==
  \A p \in Pids :
    /\ \A d \in cache[p] \cup todo[p] \cup UNION poll[p] : GoodDescriptor(d)
    /\ \A d \in todo[p] : IsShutdown(d)
    /\ \A s \in UNION fetched[p] : GoodRep(s) /\ KnownRep(s)
    /\ \A r \in round[p] : GoodRound(p, r)

\* The run loop of a replica that has not bootstrapped has not started.
PhaseFits(p) ==
  /\ status[p] \in {"down", "booting"} => pc[p] \in {"register", "list", "install"}
  /\ status[p] = "down" => pc[p] = "register"
  /\ status[p] = "running" => pc[p] \notin {"register", "list", "install"}

\* From its registration on an active descriptor of p is listed; while a round
\* may still be given up, one that the round does not delete then, and after
\* that the one the round has created.
IsListed(p) ==
  pc[p] # "register" /\ status[p] \in {"booting", "running"} =>
    /\ \E d \in dir : d.pid = p /\ ~IsShutdown(d)
    /\ \A r \in round[p] :
         /\ pc[p] \in {"validate", "abort", "withdraw"} =>
              \E d \in dir : d.pid = p /\ ~IsShutdown(d) /\ d # Active(p, r.marker.counter)
         /\ pc[p] \in {"validate", "complete", "old", "departed"} =>
              Active(p, r.marker.counter) \in dir

\* A founder has bootstrapped, and its own entry counts the mutations it
\* acknowledged.
FoundersCount ==
  \A p \in Founders :
    status[p] \notin {"down", "booting"} /\ Get(rep[p].vv, p) = acked[p] - 1

\* Whatever joins, leaves and fails: shutdown descriptors, final dots and the
\* departed replicas of every GC marker, wherever they are kept or sent, name
\* replicas that have shut down; nobody has a dot that its replica lacks;
\* whoever registered stays listed through its GC rounds; and a founder's own
\* entry counts its acknowledged mutations.
MemberInv ==
  /\ Shape /\ StatesGood /\ MessagesGood /\ StoreGood /\ LocalsGood
  /\ \A p \in Pids : PhaseFits(p) /\ IsListed(p)
  /\ FoundersCount
=============================================================================
