------------------------------- MODULE Views -------------------------------
(***************************************************************************)
(* The materialised views of src/src/db: View, a map with an ordered index *)
(* from values to keys, and CompositeView, a map on pairs of keys with     *)
(* three secondary indexes.  Both are changed by one caller at a time      *)
(* (&mut self), so a method is one step.  insert_values is a sequence of   *)
(* Insert steps.                                                           *)
(*                                                                         *)
(* A HashMap or BTreeMap is a function whose domain is its keys; a map to  *)
(* sets may have a key with an empty set, which get then returns.          *)
(***************************************************************************)
EXTENDS Integers, FiniteSets

CONSTANTS Keys,   \* keys of a View, and both components of a composite key
          Values

ASSUME KeysAreInts == Keys \subseteq Int
ASSUME ValuesAreInts == Values \subseteq Int

VARIABLES view,       \* key_to_value and value_to_keys of a View
          composite   \* the four maps of a CompositeView

views == <<view, composite>>

Empty == [k \in {} |-> k]

Put(map, k, v) == [j \in DOMAIN map \cup {k} |-> IF j = k THEN v ELSE map[j]]

DropKeys(map, K) == [k \in DOMAIN map \ K |-> map[k]]

\* entry(k).or_default().insert(x)
AddTo(index, k, x) ==
  Put(index, k, IF k \in DOMAIN index THEN index[k] \cup {x} ELSE {x})

\* Mutant: the key of an emptied set stays.
TakeAllEmpty(index, P) ==
  [k \in DOMAIN index |-> {x \in index[k] : <<k, x>> \notin P}]

\* For each pair <<k, x>> of P: remove x from the set of k, and k with its last.
TakeAll(index, P) ==
  LET left == [k \in DOMAIN index |-> {x \in index[k] : <<k, x>> \notin P}]
  IN DropKeys(left, {k \in DOMAIN index : left[k] = {}})

\* x is in the set of k.
Has(index, k, x) == k \in DOMAIN index /\ x \in index[k]

\* No key has an empty set.
NoEmptySet(index) == \A k \in DOMAIN index : index[k] # {}

-----------------------------------------------------------------------------
(* View.                                                                   *)

NewView == [key_to_value |-> Empty, value_to_keys |-> Empty]

\* Mutant: the key stays in the set of the value it had.
InsertStale(k, v) ==
  /\ view' = [key_to_value |-> Put(view.key_to_value, k, v),
              value_to_keys |-> AddTo(view.value_to_keys, v, k)]
  /\ UNCHANGED composite

\* insert: a key that exists leaves the set of its old value first.
Insert(k, v) ==
  LET old == IF k \in DOMAIN view.key_to_value THEN {<<view.key_to_value[k], k>>} ELSE {}
  IN /\ view' = [key_to_value |-> Put(view.key_to_value, k, v),
                 value_to_keys |-> AddTo(TakeAll(view.value_to_keys, old), v, k)]
     /\ UNCHANGED composite

RemoveByKey(k) ==
  /\ k \in DOMAIN view.key_to_value
  /\ view' = [key_to_value |-> DropKeys(view.key_to_value, {k}),
              value_to_keys |-> TakeAll(view.value_to_keys, {<<view.key_to_value[k], k>>})]
  /\ UNCHANGED composite

RemoveByValue(v) ==
  /\ v \in DOMAIN view.value_to_keys
  /\ view' = [key_to_value |-> DropKeys(view.key_to_value, view.value_to_keys[v]),
              value_to_keys |-> DropKeys(view.value_to_keys, {v})]
  /\ UNCHANGED composite

\* What a range query returns, a set of <<value, keys>>, or that it panics.
Returns(rows) == [panics |-> FALSE, rows |-> rows]

RangePanic == [panics |-> TRUE, rows |-> {}]

\* Mutant: the range includes its end.
RangeQueryClosed(lo, hi) ==
  LET inside == {v \in DOMAIN view.value_to_keys : lo <= v /\ v <= hi}
      answer == Returns({<<v, view.value_to_keys[v]>> : v \in inside})
  IN {o \in {answer, RangePanic} :
        IF o.panics THEN lo > hi ELSE lo <= hi \/ DOMAIN view.value_to_keys = {}}

\* range_query(lo..hi), the set of its possible outcomes.  BTreeMap::range panics
\* when the range starts after its end.  On a map without entries that depends on
\* whether the tree has a root yet, which the functions here do not show.
RangeQuery(lo, hi) ==
  LET inside == {v \in DOMAIN view.value_to_keys : lo <= v /\ v < hi}
      answer == Returns({<<v, view.value_to_keys[v]>> : v \in inside})
  IN {o \in {answer, RangePanic} :
        IF o.panics THEN lo > hi ELSE lo <= hi \/ DOMAIN view.value_to_keys = {}}

\* min_k: the first k of the index's <<value, key>> pairs, by value; the keys of
\* one value come in the order of a hash set, so there may be several answers.
MinK(k) ==
  LET all == UNION {{v} \X view.value_to_keys[v] : v \in DOMAIN view.value_to_keys}
  IN {A \in SUBSET all :
        /\ Cardinality(A) = IF k < Cardinality(all) THEN k ELSE Cardinality(all)
        /\ \A x \in A, y \in all \ A : x[1] <= y[1]}

-----------------------------------------------------------------------------
(* CompositeView.                                                          *)

NewComposite ==
  [key_to_value |-> Empty, key_s_index |-> Empty,
   key_u_index |-> Empty, value_index |-> Empty]

\* insert: nothing happens when the pair is there.
InsertPair(s, u, v) ==
  /\ <<s, u>> \notin DOMAIN composite.key_to_value
  /\ composite' = [key_to_value |-> Put(composite.key_to_value, <<s, u>>, v),
                   key_s_index |-> AddTo(composite.key_s_index, s, u),
                   key_u_index |-> AddTo(composite.key_u_index, u, s),
                   value_index |-> AddTo(composite.value_index, s, <<v, u>>)]
  /\ UNCHANGED view

\* Mutant: the value index is forgotten.
RemovePairsUnvalued(P) ==
  LET here == P \cap DOMAIN composite.key_to_value
  IN /\ composite' = [key_to_value |-> DropKeys(composite.key_to_value, here),
                      key_s_index |-> TakeAll(composite.key_s_index, here),
                      key_u_index |-> TakeAll(composite.key_u_index, {<<p[2], p[1]>> : p \in here}),
                      value_index |-> composite.value_index]
     /\ UNCHANGED view

\* remove, for every pair of P; what is not there is skipped.
RemovePairs(P) ==
  LET here == P \cap DOMAIN composite.key_to_value
  IN /\ composite' =
          [key_to_value |-> DropKeys(composite.key_to_value, here),
           key_s_index |-> TakeAll(composite.key_s_index, here),
           key_u_index |-> TakeAll(composite.key_u_index, {<<p[2], p[1]>> : p \in here}),
           value_index |-> TakeAll(composite.value_index,
                             {<<p[1], <<composite.key_to_value[p], p[2]>>>> : p \in here})]
     /\ UNCHANGED view

RemoveByKeyS(s) ==
  /\ s \in DOMAIN composite.key_s_index
  /\ RemovePairs({s} \X composite.key_s_index[s])

RemoveByKeyU(u) ==
  /\ u \in DOMAIN composite.key_u_index
  /\ RemovePairs(composite.key_u_index[u] \X {u})

\* get_by_key_s, from the value index
GetByKeyS(s) == {<<s, x[2], x[1]>> : x \in composite.value_index[s]}

\* get_by_key_u and query_b, from the index and the map; the former expects every
\* pair to be in the map.
GetByKeyU(u) ==
  {<<s, u, composite.key_to_value[<<s, u>>]>> :
     s \in {r \in composite.key_u_index[u] : <<r, u>> \in DOMAIN composite.key_to_value}}

\* query_a, from the index and the map
QueryA(s) ==
  {<<s, u, composite.key_to_value[<<s, u>>]>> :
     u \in {w \in composite.key_s_index[s] : <<s, w>> \in DOMAIN composite.key_to_value}}

\* min_k of key s: the first k of its <<value, key>> pairs, by value, then key.
MinKOf(s, k) ==
  LET Before(x, y) == x[1] < y[1] \/ (x[1] = y[1] /\ x[2] < y[2])
  IN {x \in composite.value_index[s] :
        Cardinality({y \in composite.value_index[s] : Before(y, x)}) < k}

-----------------------------------------------------------------------------
ViewsInit == view = NewView /\ composite = NewComposite

ViewsNext ==
  \/ \E k \in Keys, v \in Values : Insert(k, v)
  \/ \E k \in Keys : RemoveByKey(k)
  \/ \E v \in Values : RemoveByValue(v)
  \/ \E s, u \in Keys, v \in Values : InsertPair(s, u, v)
  \/ \E s, u \in Keys : RemovePairs({<<s, u>>})
  \/ \E s \in Keys : RemoveByKeyS(s)
  \/ \E u \in Keys : RemoveByKeyU(u)

ViewsSpec == ViewsInit /\ [][ViewsNext]_views

-----------------------------------------------------------------------------
(* Properties.                                                             *)

\* The index of a View is the inverse of its map, and has no value without keys:
\* after any sequence of insertions, overwrites and removals through either side.
ViewInverse ==
  /\ NoEmptySet(view.value_to_keys)
  /\ \A k \in Keys, v \in Values :
        Has(view.value_to_keys, v, k)
          <=> k \in DOMAIN view.key_to_value /\ view.key_to_value[k] = v

\* "The CompositeView is always complete, i.e. all keys are present in all sets"
\* (composite_view.rs:154), no index has more, and no key has an empty set.
Complete ==
  LET c == composite
  IN /\ NoEmptySet(c.key_s_index) /\ NoEmptySet(c.key_u_index) /\ NoEmptySet(c.value_index)
     /\ \A s, u \in Keys :
           LET there == <<s, u>> \in DOMAIN c.key_to_value
           IN /\ Has(c.key_s_index, s, u) <=> there
              /\ Has(c.key_u_index, u, s) <=> there
              /\ \A v \in Values : Has(c.value_index, s, <<v, u>>)
                                     <=> there /\ c.key_to_value[<<s, u>>] = v

\* The ends of the ranges asked for: values of the view, or just past one.
RangeEnds == Values \cup {v + 1 : v \in Values}

\* The queries of a View answer as a scan of its map would: a range that does not
\* start after its end has its values with all their keys, and the k lowest values
\* are those of the map.  A range that starts after its end panics or is empty.
ViewAnswers ==
  /\ \A lo, hi \in RangeEnds :
        IF lo <= hi
        THEN RangeQuery(lo, hi) = {Returns(
               {<<v, {k \in DOMAIN view.key_to_value : view.key_to_value[k] = v}>> :
                  v \in {view.key_to_value[k] : k \in DOMAIN view.key_to_value} \cap lo .. (hi - 1)})}
        ELSE RangeQuery(lo, hi) \subseteq {RangePanic, Returns({})}
  /\ \A k \in 0 .. Cardinality(Keys) : \A A \in MinK(k) :
        \A x \in A : \A j \in DOMAIN view.key_to_value :
           view.key_to_value[x[2]] = x[1]
           /\ (view.key_to_value[j] < x[1] => <<view.key_to_value[j], j>> \in A)

\* The queries of a CompositeView agree, whichever index they go through: the
\* expect of get_by_key_u never fails, and min_k gives the lowest values.
CompositeAnswers ==
  LET c    == composite
      scan == {<<p[1], p[2], c.key_to_value[p]>> : p \in DOMAIN c.key_to_value}
  IN /\ \A s \in Keys : {x \in scan : x[1] = s} =
           IF s \in DOMAIN c.value_index THEN GetByKeyS(s) ELSE {}
     /\ \A s \in Keys : {x \in scan : x[1] = s} =
           IF s \in DOMAIN c.key_s_index THEN QueryA(s) ELSE {}
     /\ \A u \in Keys : {x \in scan : x[2] = u} =
           IF u \in DOMAIN c.key_u_index THEN GetByKeyU(u) ELSE {}
     /\ \A u \in DOMAIN c.key_u_index : \A s \in c.key_u_index[u] :
           <<s, u>> \in DOMAIN c.key_to_value
     /\ \A s \in DOMAIN c.value_index : \A k \in 0 .. Cardinality(Keys) :
           \A x \in MinKOf(s, k) : \A y \in scan :
              y[1] = s /\ y[3] < x[1] => <<y[3], y[2]>> \in MinKOf(s, k)
=============================================================================
