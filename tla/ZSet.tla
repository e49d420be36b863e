-------------------------------- MODULE ZSet --------------------------------
(***************************************************************************)
(* What a weighted table promises: each table, clones included, has its    *)
(* own weights; an insertion adds one to the weight of its key and a       *)
(* removal takes one away, in any order and below zero as well; a key of   *)
(* positive weight shows the value inserted last.                          *)
(***************************************************************************)
EXTENDS Integers

CONSTANTS Tables, Keys, Values,
          None  \* shown by a key without positive weight

VARIABLES weight,  \* of each key in each table that exists
          shown    \* the value of each key in each table that exists

With(f, t, x) == [u \in DOMAIN f \cup {t} |-> IF u = t THEN x ELSE f[u]]
Without(f, t) == [u \in DOMAIN f \ {t} |-> f[u]]

Init ==
  /\ weight = [t \in {} |-> t]
  /\ shown = [t \in {} |-> t]

New(t) ==
  /\ t \notin DOMAIN weight
  /\ weight' = With(weight, t, [k \in Keys |-> 0])
  /\ shown' = With(shown, t, [k \in Keys |-> None])

Insert(t, k, v) ==
  /\ t \in DOMAIN weight
  /\ weight' = [weight EXCEPT ![t][k] = @ + 1]
  /\ shown' = [shown EXCEPT ![t][k] = IF weight[t][k] >= 0 THEN v ELSE None]

Remove(t, k) ==
  /\ t \in DOMAIN weight
  /\ weight' = [weight EXCEPT ![t][k] = @ - 1]
  /\ shown' = [shown EXCEPT ![t][k] = IF weight[t][k] > 1 THEN @ ELSE None]

Clone(t, u) ==
  /\ t \in DOMAIN weight /\ u \notin DOMAIN weight
  /\ weight' = With(weight, u, weight[t])
  /\ shown' = With(shown, u, shown[t])

Drop(t) ==
  /\ t \in DOMAIN weight
  /\ weight' = Without(weight, t)
  /\ shown' = Without(shown, t)

Next ==
  \E t \in Tables :
     \/ New(t)
     \/ \E k \in Keys, v \in Values : Insert(t, k, v)
     \/ \E k \in Keys : Remove(t, k)
     \/ \E u \in Tables : Clone(t, u)
     \/ Drop(t)

Spec == Init /\ [][Next]_<<weight, shown>>
=============================================================================
