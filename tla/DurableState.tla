---------------------------- MODULE DurableState ----------------------------
(***************************************************************************)
(* What a durable replica promises its clients and peers, whatever crashes *)
(* happen: the operations that formed its state stay, in their order; the  *)
(* state is replaced only once, by the bootstrap of a new identity.        *)
(***************************************************************************)
EXTENDS Sequences

CONSTANTS Ops,  \* operations that can be committed
          Base  \* the state a new identity may download

VARIABLES state,     \* the operations that formed the replica's state, in order
          installed  \* has the identity completed its bootstrap?

Init == state = <<>> /\ installed = FALSE

\* An operation is committed, or a restart brings in the one under way.
Commit ==
  \E op \in Ops : /\ state' = Append(state, op)
                  /\ UNCHANGED installed

\* Bootstrap keeps the state or replaces it by the downloaded one.
Install ==
  /\ ~installed /\ installed' = TRUE
  /\ state' \in {state, <<Base>>}

Next == Commit \/ Install

Spec == Init /\ [][Next]_<<state, installed>>
=============================================================================
