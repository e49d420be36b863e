------------------------------ MODULE MCTables ------------------------------
(***************************************************************************)
(* Instances of Views and ZTable.  The structures do not interact, so a    *)
(* behaviour changes the views or the weighted tables, not both.           *)
(***************************************************************************)
EXTENDS Views, ZTable, TLC

\* The hash puts every key into the last shard, whose task may outlive the call;
\* the first shard stays empty.
AllInLast == [k \in ZKeys |-> 2]

Symmetry == Permutations(Tables) \cup Permutations(Cells)

TablesInit == ViewsInit /\ ZInit

TablesNext ==
  \/ ViewsNext /\ ZInit /\ UNCHANGED ztable
  \/ ZNext /\ ViewsInit /\ UNCHANGED views

TablesSpec == TablesInit /\ [][TablesNext]_<<views, ztable>>
=============================================================================
