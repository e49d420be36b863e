-------------------------- MODULE MCDepartRestart --------------------------
(* A founder leaves while another is killed and restarts.                  *)
EXTENDS Restart

CONSTANTS a, b, d

OneWay == {<<b, a>>}

\* Nobody bootstraps, so nobody reads the shared snapshot.
View == <<status, rep, acked, network, dir, payload, cache, poll, todo, round, pc,
          replayed, boot, crashes>>
=============================================================================
