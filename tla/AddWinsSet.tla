---------------------------- MODULE AddWinsSet ----------------------------
(***************************************************************************)
(* What a replicated add-wins set promises, with no word about vectors,    *)
(* logs, messages or garbage collection: the value at a replica is a       *)
(* function of the set of changes the replica knows.  An insertion is live *)
(* unless a known removal names it; a removal names the insertions its     *)
(* replica could see, so an insertion it could not see wins over it.       *)
(***************************************************************************)
CONSTANTS Pids,      \* replicas
          Elements,  \* what the set may hold
          Dots       \* names of changes

VARIABLES change,  \* every change ever made, by its dot
          known,   \* the dots each replica knows
          value    \* the live insertions each replica shows

Live(ch, K) ==
  {d \in K : ch[d].kind = "insert" /\ \A r \in K : d \notin ch[r].removed}

Init ==
  /\ change = [d \in {} |-> d]
  /\ known = [p \in Pids |-> {}]
  /\ value = [p \in Pids |-> {}]

\* A client of p makes a change, which gets a name of its own.
Mutate(p, d, x) ==
  /\ d \notin DOMAIN change
  /\ change' = [c \in DOMAIN change \cup {d} |-> IF c = d THEN x ELSE change[c]]
  /\ known' = [known EXCEPT ![p] = @ \cup {d}]

Insert(p, d, e) ==
  /\ Mutate(p, d, [kind |-> "insert", element |-> e, removed |-> {}])
  /\ value' = [value EXCEPT ![p] = @ \cup {d}]

\* A removal names the live insertions of its element that p shows.
Remove(p, d, e) ==
  LET removed == {i \in value[p] : change[i].element = e}
  IN /\ Mutate(p, d, [kind |-> "remove", element |-> e, removed |-> removed])
     /\ value' = [value EXCEPT ![p] = @ \ removed]

\* p learns changes that q knows, never a removal without what it removes.
Learn(p, q, D) ==
  /\ \A r \in known[p] \cup D : change[r].removed \subseteq known[p] \cup D
  /\ known' = [known EXCEPT ![p] = @ \cup D]
  /\ value' = [value EXCEPT ![p] = Live(change, known[p] \cup D)]
  /\ UNCHANGED change

Next ==
  \E p \in Pids :
     \/ \E d \in Dots, e \in Elements : Insert(p, d, e) \/ Remove(p, d, e)
     \/ \E q \in Pids : \E D \in SUBSET known[q] : Learn(p, q, D)

Spec == Init /\ [][Next]_<<change, known, value>>
=============================================================================
