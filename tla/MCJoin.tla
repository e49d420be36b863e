------------------------------- MODULE MCJoin -------------------------------
(* A replica joins one that is already running.                            *)
EXTENDS Replica

CONSTANTS a, b

OneWay == {<<b, a>>}
AllPulls == Pids \X Pids

=============================================================================
