----------------------------- MODULE MCNetwork -----------------------------
(* Instances of Network: two or three replicas, identified by 1, 2 and 3.  *)
EXTENDS Network

\* Every replica listens on the address it publishes; the third, started after
\* the second has crashed, reuses its address.
Own == [p \in Replicas |-> IF p = 3 THEN 2 ELSE p]

\* Distinct addresses.
Distinct == [p \in Replicas |-> p]

\* Every replica listens on the wildcard address and publishes another.
Wildcard == [p \in Replicas |-> 0]
=============================================================================
