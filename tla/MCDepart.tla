------------------------------ MODULE MCDepart ------------------------------
(* One of three founders leaves while the others go on.                    *)
EXTENDS Membership

CONSTANTS a, b, d

OneWay == {<<b, a>>}

\* The one who collects also pulls from the one who leaves, before it leaves.
Beforehand == OneWay \cup {<<a, d>>}

\* Nobody bootstraps, so nobody reads the shared snapshot.
View == <<status, rep, acked, network, dir, payload, cache, poll, todo, round, pc>>
=============================================================================
