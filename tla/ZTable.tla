------------------------------- MODULE ZTable -------------------------------
(***************************************************************************)
(* The weighted table of src/src/db/ztable.rs: a vector of shards behind   *)
(* reference counts.  Cloning a table, and a task of map_reduce_active,    *)
(* take a reference to a shard; a mutation writes a shard in place when it *)
(* has the only reference, and a copy of it otherwise (Arc::make_mut).     *)
(*                                                                         *)
(* The caller of map_reduce_active borrows its table until the call        *)
(* returns or panics.  The tasks are threads of their own: they outlive a  *)
(* call that panicked because another task did.  Iterating over a shard is *)
(* one step of a task, since nobody may change the shard meanwhile (this   *)
(* is ReadersUndisturbed).                                                 *)
(***************************************************************************)
EXTENDS Integers, Functions

CONSTANTS Tables,    \* variables that may hold a table
          Shards, ShardOf,  \* shards, and which of them the hash of a key selects
          ZKeys, ZValues,   \* K and V
          Default,   \* V::default()
          None,      \* no value, no caller
          Panicked,  \* what awaiting a task that panicked gives
          Cells,     \* places in memory for shards; a bound
          MaxWeight, MaxDebt  \* bounds on weights above and below zero

ASSUME ShardOfType == ShardOf \in [ZKeys -> Shards]
ASSUME WeightsAreInts == MaxWeight \in Int /\ MaxDebt \in Int
ASSUME NoneIsNone == None \notin Tables \cup ZValues \cup {Default}

VARIABLES heap,    \* the shard in each cell that is referred to
          shards,  \* the cell of each shard of each table
          tasks,   \* running tasks: the shard they read, its cell, their caller
          calls    \* calls of map_reduce_active in progress: the tasks' results

ztable == <<heap, shards, tasks, calls>>

\* What a HashMap<K, (Weight, V)> may hold
Rows == [weight : Int, value : ZValues \cup {Default}]

With(f, x, y) == [z \in DOMAIN f \cup {x} |-> IF z = x THEN y ELSE f[z]]
Without(f, x) == [z \in DOMAIN f \ {x} |-> f[z]]

EmptyShard == [k \in {} |-> k]

IsTable(t) == t \in DOMAIN shards
InCall(t) == t \in DOMAIN calls

\* The cells that tables sh and tasks ts refer to; the others are freed.
Live(sh, ts) ==
  {c \in Cells : \/ \E t \in DOMAIN sh, i \in Shards : sh[t][i] = c
                 \/ \E x \in ts : x.cell = c}

\* The shard of key k in table t
Shard(t, k) == heap[shards[t][ShardOf[k]]]

\* Mutant: the references of tasks do not count.
SharedByTables(t, i) ==
  \E u \in DOMAIN shards, j \in Shards :
     <<u, j>> # <<t, i>> /\ shards[u][j] = shards[t][i]

\* Does somebody else refer to the cell of shard i of table t?
Shared(t, i) ==
  \/ \E u \in DOMAIN shards, j \in Shards :
        <<u, j>> # <<t, i>> /\ shards[u][j] = shards[t][i]
  \/ \E x \in tasks : x.cell = shards[t][i]

\* Mutant: a shard is written in place although clones share it.
ShardMutInPlace(t, i, content) ==
  /\ heap' = [heap EXCEPT ![shards[t][i]] = content]
  /\ UNCHANGED shards

\* shard_mut: what the table's shard i holds becomes content.
ShardMut(t, i, content) ==
  \/ /\ ~Shared(t, i)
     /\ heap' = [heap EXCEPT ![shards[t][i]] = content]
     /\ UNCHANGED shards
  \/ /\ Shared(t, i)
     /\ \E new \in Cells \ DOMAIN heap :
          /\ heap' = With(heap, new, content)
          /\ shards' = [shards EXCEPT ![t][i] = new]

\* Mutant: a known key keeps its value.
InsertedOld(m, k, v) ==
  With(m, k, IF k \in DOMAIN m THEN [m[k] EXCEPT !.weight = @ + 1]
             ELSE [weight |-> 1, value |-> v])

\* insert: the value is replaced; an entry that comes to weight 0 stays.
Inserted(m, k, v) ==
  With(m, k, [weight |-> IF k \in DOMAIN m THEN m[k].weight + 1 ELSE 1, value |-> v])

\* remove: an entry that comes to weight 0 goes.
Removed(m, k) ==
  LET left == IF k \in DOMAIN m THEN [m[k] EXCEPT !.weight = @ - 1]
              ELSE [weight |-> -1, value |-> Default]
  IN IF left.weight = 0 THEN Without(m, k) ELSE With(m, k, left)

GetWeight(t, k) == IF k \in DOMAIN Shard(t, k) THEN Shard(t, k)[k].weight ELSE 0

GetValue(t, k) ==
  IF k \in DOMAIN Shard(t, k) /\ Shard(t, k)[k].weight >= 1 THEN Shard(t, k)[k].value
  ELSE None

-----------------------------------------------------------------------------
\* new_with_shards
NewWithShards(t) ==
  /\ ~IsTable(t)
  /\ \E place \in Injection(Shards, Cells \ DOMAIN heap) :
       /\ heap' = [c \in DOMAIN heap \cup Range(place) |->
                    IF c \in DOMAIN heap THEN heap[c] ELSE EmptyShard]
       /\ shards' = With(shards, t, place)
  /\ UNCHANGED <<tasks, calls>>

(* Mutations need the table exclusively, hence not during a call.          *)

InsertRow(t, k, v) ==
  /\ IsTable(t) /\ ~InCall(t) /\ GetWeight(t, k) < MaxWeight
  /\ ShardMut(t, ShardOf[k], Inserted(Shard(t, k), k, v))
  /\ UNCHANGED <<tasks, calls>>

RemoveRow(t, k) ==
  /\ IsTable(t) /\ ~InCall(t) /\ GetWeight(t, k) > -MaxDebt
  /\ ShardMut(t, ShardOf[k], Removed(Shard(t, k), k))
  /\ UNCHANGED <<tasks, calls>>

\* The derived Clone: another reference to every shard.
Clone(t, u) ==
  /\ IsTable(t) /\ ~IsTable(u)
  /\ shards' = With(shards, u, shards[t])
  /\ UNCHANGED <<heap, tasks, calls>>

\* The heap that is left when tables sh and tasks ts hold all references.
Freed(sh, ts) == [c \in DOMAIN heap \cap Live(sh, ts) |-> heap[c]]

\* A table goes out of scope.
Drop(t) ==
  /\ IsTable(t) /\ ~InCall(t)
  /\ shards' = Without(shards, t)
  /\ heap' = Freed(shards', tasks)
  /\ UNCHANGED <<tasks, calls>>

-----------------------------------------------------------------------------
(* map_reduce_active, with several shards inside a runtime.  The closure   *)
(* collects the entries of positive weight.                                *)

Active(m) == {<<k, m[k].value>> : k \in {j \in DOMAIN m : m[j].weight > 0}}

Spawn(t) ==
  /\ IsTable(t) /\ ~InCall(t)
  /\ tasks' = tasks \cup {[caller |-> t, shard |-> i, cell |-> shards[t][i]] : i \in Shards}
  /\ calls' = With(calls, t, [i \in {} |-> i])
  /\ UNCHANGED <<heap, shards>>

\* A task ends with result r and gives up its reference; an orphan (its caller
\* panicked) reports to nobody.
EndTask(x, r) ==
  /\ tasks' = tasks \ {x}
  /\ heap' = Freed(shards, tasks')
  /\ calls' = IF x.caller = None THEN calls
              ELSE [calls EXCEPT ![x.caller] = With(@, x.shard, r)]
  /\ UNCHANGED shards

RunTask(x) == EndTask(x, Active(heap[x.cell]))

TaskPanics(x) == EndTask(x, Panicked)

\* The results are awaited, and reduced, shard by shard.
Return(t) ==
  /\ InCall(t) /\ DOMAIN calls[t] = Shards
  /\ \A i \in Shards : calls[t][i] # Panicked
  /\ calls' = Without(calls, t)
  /\ UNCHANGED <<heap, shards, tasks>>

\* expect("ztable shard task failed"): the tasks not awaited yet run on.
CallPanics(t) ==
  /\ InCall(t)
  /\ \E i \in DOMAIN calls[t] : /\ calls[t][i] = Panicked
                                 /\ \A j \in Shards : j < i => j \in DOMAIN calls[t]
  /\ calls' = Without(calls, t)
  /\ tasks' = {IF x.caller = t THEN [x EXCEPT !.caller = None] ELSE x : x \in tasks}
  /\ UNCHANGED <<heap, shards>>

-----------------------------------------------------------------------------
ZInit ==
  /\ heap = [c \in {} |-> EmptyShard]
  /\ shards = [t \in {} |-> t]
  /\ tasks = {}
  /\ calls = [t \in {} |-> t]

ZNext ==
  \/ \E t \in Tables : NewWithShards(t)
  \/ \E t \in Tables, k \in ZKeys, v \in ZValues : InsertRow(t, k, v)
  \/ \E t \in Tables, k \in ZKeys : RemoveRow(t, k)
  \/ \E t, u \in Tables : Clone(t, u)
  \/ \E t \in Tables : Drop(t)
  \/ \E t \in Tables : Spawn(t)
  \/ \E x \in tasks : RunTask(x)
  \/ \E x \in tasks : TaskPanics(x)
  \/ \E t \in Tables : Return(t)
  \/ \E t \in Tables : CallPanics(t)

ZSpec == ZInit /\ [][ZNext]_ztable

-----------------------------------------------------------------------------
(* Properties.                                                             *)

\* What a call of map_reduce_active has collected is, shard by shard, what its
\* table holds: every key of positive weight once, with its value, whatever
\* happens meanwhile to clones that share the shards.
ReduceExact ==
  \A t \in DOMAIN calls : \A i \in DOMAIN calls[t] : calls[t][i] # Panicked =>
        calls[t][i] = {<<k, GetValue(t, k)>> :
                         k \in {j \in ZKeys : ShardOf[j] = i /\ GetWeight(t, j) > 0}}

\* No shard changes while a task reads it, even a task whose caller is gone and
\* no longer borrows the table.
ReadersUndisturbed ==
  [][\A x \in tasks : x.cell \in DOMAIN heap' => heap'[x.cell] = heap[x.cell]]_ztable

\* The refinement mapping: what the tables hold, wherever their shards are.
Weights == [t \in DOMAIN shards |-> [k \in ZKeys |-> GetWeight(t, k)]]
Shown == [t \in DOMAIN shards |-> [k \in ZKeys |-> GetValue(t, k)]]

\* Every table, clones included, has weights of its own: the table implements
\* the weighted set, although shards are shared and copied lazily.
Sets == INSTANCE ZSet WITH
          Keys <- ZKeys, Values <- ZValues, weight <- Weights, shown <- Shown

OwnWeights == Sets!Spec

\* What the code relies on: references lead to shards, a shard has one position
\* and the keys of that position, a task reads a shard of its caller, and what
\* it returned is in the table still.
ZInv ==
  /\ DOMAIN heap \subseteq Cells /\ DOMAIN shards \subseteq Tables
  /\ \A c \in DOMAIN heap :
        DOMAIN heap[c] \subseteq ZKeys /\ heap[c] \in [DOMAIN heap[c] -> Rows]
  /\ \A t \in DOMAIN shards : shards[t] \in [Shards -> DOMAIN heap]
  /\ \A t, u \in DOMAIN shards, i, j \in Shards : shards[t][i] = shards[u][j] => i = j
  /\ \A t \in DOMAIN shards, i \in Shards :
        \A k \in DOMAIN heap[shards[t][i]] : ShardOf[k] = i
  /\ \A x \in tasks :
        /\ x.caller \in Tables \cup {None} /\ x.shard \in Shards /\ x.cell \in DOMAIN heap
        /\ x = [caller |-> x.caller, shard |-> x.shard, cell |-> x.cell]
        /\ x.caller # None => InCall(x.caller) /\ x.cell = shards[x.caller][x.shard]
        /\ \A t \in DOMAIN shards, i \in Shards : shards[t][i] = x.cell => i = x.shard
  /\ DOMAIN calls \subseteq DOMAIN shards
  /\ \A t \in DOMAIN calls : \A i \in DOMAIN calls[t] :
        i \in Shards /\ calls[t][i] \in {Panicked, Active(heap[shards[t][i]])}
=============================================================================
