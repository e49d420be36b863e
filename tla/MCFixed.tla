------------------------------ MODULE MCFixed ------------------------------
(* Replicas with a fixed membership that are killed and restart.           *)
EXTENDS FixedMembership, Restart

AllPulls == Pids \X Pids

\* Everybody else pulls from the replicas that mutate.
FromMutators == (Pids \ Mutators) \X Mutators

\* Nobody bootstraps, so nobody reads the shared snapshot.
View == <<status, rep, acked, network, dir, cache, poll, todo, round, pc,
          replayed, boot, crashes>>
=============================================================================
