---------------------------- MODULE TablesProofs ----------------------------
(***************************************************************************)
(* Proofs about the views and the weighted tables of src/src/db, for any   *)
(* keys, values, tables and shards.                                        *)
(*                                                                         *)
(* Views: an index is reasoned about through the pairs it has (Has), for   *)
(* which adding and taking away are union and difference.                  *)
(***************************************************************************)
EXTENDS Views, ZTable, FiniteSetTheorems, TLAPS

\* What an index has after entry(k).or_default().insert(x).
LEMMA AddToHas ==
  ASSUME NEW index, NEW k, NEW x
  PROVE  /\ \A j, y : Has(AddTo(index, k, x), j, y) <=> Has(index, j, y) \/ (j = k /\ y = x)
         /\ NoEmptySet(index) => NoEmptySet(AddTo(index, k, x))
BY DEF AddTo, Put, Has, NoEmptySet

\* What an index has after the removals of P, which leave no empty set behind.
LEMMA TakeAllHas ==
  ASSUME NEW index, NEW P
  PROVE  /\ \A j, y : Has(TakeAll(index, P), j, y) <=> Has(index, j, y) /\ <<j, y>> \notin P
         /\ NoEmptySet(TakeAll(index, P))
BY Zenon DEF TakeAll, DropKeys, Has, NoEmptySet

\* What a map holds after removals.
LEMMA DropMap ==
  ASSUME NEW map, NEW K
  PROVE  /\ DOMAIN DropKeys(map, K) = DOMAIN map \ K
         /\ \A j \in DOMAIN map \ K : DropKeys(map, K)[j] = map[j]
BY DEF DropKeys

\* The index is the inverse of the map, and has no empty set.
Inverted(map, index) ==
  /\ NoEmptySet(index)
  /\ \A k, v : Has(index, v, k) <=> k \in DOMAIN map /\ map[k] = v

\* View::insert keeps the index the inverse of the map.
LEMMA InsertInverse ==
  ASSUME NEW map, NEW index, Inverted(map, index), NEW k, NEW v,
         NEW old, old = IF k \in DOMAIN map THEN {<<map[k], k>>} ELSE {}
  PROVE  Inverted(Put(map, k, v), AddTo(TakeAll(index, old), v, k))
<1> DEFINE left == TakeAll(index, old)
           next == AddTo(left, v, k)
           new  == Put(map, k, v)
<1>1. NoEmptySet(left) /\ \A j, y : Has(left, j, y) <=> Has(index, j, y) /\ <<j, y>> \notin old
  BY TakeAllHas
<1>2. NoEmptySet(next) /\ \A j, y : Has(next, j, y) <=> Has(left, j, y) \/ (j = v /\ y = k)
  BY <1>1, AddToHas
<1>3. /\ DOMAIN new = DOMAIN map \cup {k}
      /\ new[k] = v
      /\ \A j \in DOMAIN map : j # k => new[j] = map[j]
  BY DEF Put
<1> HIDE DEF left, next, new
<1>4. ASSUME NEW j, NEW y
      PROVE  Has(next, y, j) <=> j \in DOMAIN new /\ new[j] = y
  <2>1. Has(index, y, j) <=> j \in DOMAIN map /\ map[j] = y
    BY DEF Inverted
  <2>2. Has(next, y, j) <=> (Has(index, y, j) /\ <<y, j>> \notin old) \/ (y = v /\ j = k)
    BY <1>1, <1>2
  <2>3. CASE j = k
    BY <1>3, <2>1, <2>2, <2>3
  <2>4. CASE j # k
    BY <1>3, <2>1, <2>2, <2>4
  <2> QED
    BY <2>3, <2>4
<1> QED
  BY <1>2, <1>4 DEF Inverted, next, new, left

\* View::remove_by_key keeps the index the inverse of the map.
LEMMA RemoveByKeyInverse ==
  ASSUME NEW map, NEW index, Inverted(map, index), NEW k \in DOMAIN map
  PROVE  Inverted(DropKeys(map, {k}), TakeAll(index, {<<map[k], k>>}))
<1> DEFINE next == TakeAll(index, {<<map[k], k>>})
           new  == DropKeys(map, {k})
<1>1. /\ NoEmptySet(next)
      /\ \A j, y : Has(next, j, y) <=> Has(index, j, y) /\ <<j, y>> \notin {<<map[k], k>>}
  BY TakeAllHas, Zenon
<1>2. DOMAIN new = DOMAIN map \ {k} /\ \A j \in DOMAIN map \ {k} : new[j] = map[j]
  BY DropMap, Zenon
<1> HIDE DEF next, new
<1>3. ASSUME NEW j, NEW y
      PROVE  Has(next, y, j) <=> j \in DOMAIN new /\ new[j] = y
  BY <1>1, <1>2 DEF Inverted
<1> QED
  BY <1>1, <1>3 DEF Inverted, next, new

\* View::remove_by_value keeps the index the inverse of the map.
LEMMA RemoveByValueInverse ==
  ASSUME NEW map, NEW index, Inverted(map, index), NEW v \in DOMAIN index
  PROVE  Inverted(DropKeys(map, index[v]), DropKeys(index, {v}))
<1> DEFINE next == DropKeys(index, {v})
           new  == DropKeys(map, index[v])
<1>1. DOMAIN next = DOMAIN index \ {v} /\ \A j \in DOMAIN index \ {v} : next[j] = index[j]
  BY DropMap, Zenon
<1>2. DOMAIN new = DOMAIN map \ index[v] /\ \A j \in DOMAIN map \ index[v] : new[j] = map[j]
  BY DropMap, Zenon
<1> HIDE DEF next, new
<1>3. ASSUME NEW j, NEW y
      PROVE  Has(next, y, j) <=> j \in DOMAIN new /\ new[j] = y
  BY <1>1, <1>2 DEF Inverted, Has
<1>4. NoEmptySet(next)
  BY <1>1 DEF Inverted, NoEmptySet
<1> QED
  BY <1>3, <1>4 DEF Inverted, next, new

-----------------------------------------------------------------------------
(* CompositeView.                                                          *)

\* The four maps tell of the same pairs.
Agree(map, byS, byU, byV) ==
  /\ NoEmptySet(byS) /\ NoEmptySet(byU) /\ NoEmptySet(byV)
  /\ \A s, u : Has(byS, s, u) <=> <<s, u>> \in DOMAIN map
  /\ \A s, u : Has(byU, u, s) <=> <<s, u>> \in DOMAIN map
  /\ \A s, u, v : Has(byV, s, <<v, u>>) <=> <<s, u>> \in DOMAIN map /\ map[<<s, u>>] = v

\* CompositeView::insert of a new pair keeps the four maps in agreement.
LEMMA InsertAgree ==
  ASSUME NEW map, NEW byS, NEW byU, NEW byV, Agree(map, byS, byU, byV),
         NEW s, NEW u, NEW v, <<s, u>> \notin DOMAIN map
  PROVE  Agree(Put(map, <<s, u>>, v), AddTo(byS, s, u), AddTo(byU, u, s),
               AddTo(byV, s, <<v, u>>))
<1> DEFINE new == Put(map, <<s, u>>, v)
           S == AddTo(byS, s, u)
           U == AddTo(byU, u, s)
           V == AddTo(byV, s, <<v, u>>)
<1>1. /\ DOMAIN new = DOMAIN map \cup {<<s, u>>}
      /\ new[<<s, u>>] = v
      /\ \A j \in DOMAIN map : j # <<s, u>> => new[j] = map[j]
  BY DEF Put
<1>2. NoEmptySet(S) /\ \A j, y : Has(S, j, y) <=> Has(byS, j, y) \/ (j = s /\ y = u)
  BY AddToHas DEF Agree
<1>3. NoEmptySet(U) /\ \A j, y : Has(U, j, y) <=> Has(byU, j, y) \/ (j = u /\ y = s)
  BY AddToHas DEF Agree
<1>4. NoEmptySet(V) /\ \A j, y : Has(V, j, y) <=> Has(byV, j, y) \/ (j = s /\ y = <<v, u>>)
  BY AddToHas DEF Agree
<1> HIDE DEF new, S, U, V
<1>5. ASSUME NEW a, NEW b
      PROVE  /\ Has(S, a, b) <=> <<a, b>> \in DOMAIN new
             /\ Has(U, b, a) <=> <<a, b>> \in DOMAIN new
  BY <1>1, <1>2, <1>3 DEF Agree
<1>6. ASSUME NEW a, NEW b, NEW c
      PROVE  Has(V, a, <<c, b>>) <=> <<a, b>> \in DOMAIN new /\ new[<<a, b>>] = c
  <2>1. Has(byV, a, <<c, b>>) <=> <<a, b>> \in DOMAIN map /\ map[<<a, b>>] = c
    BY DEF Agree
  <2>2. Has(V, a, <<c, b>>) <=> Has(byV, a, <<c, b>>) \/ (a = s /\ c = v /\ b = u)
    BY <1>4
  <2> QED
    BY <1>1, <2>1, <2>2
<1> QED
  BY <1>2, <1>3, <1>4, <1>5, <1>6 DEF Agree, new, S, U, V

\* CompositeView::remove, of one pair or in the loops of remove_by_key_s and
\* remove_by_key_u, keeps the four maps in agreement.
LEMMA RemoveAgree ==
  ASSUME NEW map, NEW byS, NEW byU, NEW byV, Agree(map, byS, byU, byV),
         NEW here \in SUBSET DOMAIN map, \A p \in here : p = <<p[1], p[2]>>
  PROVE  Agree(DropKeys(map, here), TakeAll(byS, here),
               TakeAll(byU, {<<p[2], p[1]>> : p \in here}),
               TakeAll(byV, {<<p[1], <<map[p], p[2]>>>> : p \in here}))
<1> DEFINE new == DropKeys(map, here)
           backwards == {<<p[2], p[1]>> : p \in here}
           valued == {<<p[1], <<map[p], p[2]>>>> : p \in here}
           S == TakeAll(byS, here)
           U == TakeAll(byU, backwards)
           V == TakeAll(byV, valued)
<1>1. DOMAIN new = DOMAIN map \ here /\ \A j \in DOMAIN map \ here : new[j] = map[j]
  BY DropMap, Zenon
<1>2. NoEmptySet(S) /\ \A j, y : Has(S, j, y) <=> Has(byS, j, y) /\ <<j, y>> \notin here
  BY TakeAllHas
<1>3. NoEmptySet(U) /\ \A j, y : Has(U, j, y) <=> Has(byU, j, y) /\ <<j, y>> \notin backwards
  BY TakeAllHas, Zenon
<1>4. NoEmptySet(V) /\ \A j, y : Has(V, j, y) <=> Has(byV, j, y) /\ <<j, y>> \notin valued
  BY TakeAllHas, Zenon
<1>5. \A a, b : <<b, a>> \in backwards <=> <<a, b>> \in here
  OBVIOUS
<1>6. ASSUME NEW a, NEW b, NEW c
      PROVE  <<a, <<c, b>>>> \in valued <=> <<a, b>> \in here /\ map[<<a, b>>] = c
  <2>1. ASSUME <<a, <<c, b>>>> \in valued PROVE <<a, b>> \in here /\ map[<<a, b>>] = c
    <3>1. PICK p \in here : <<a, <<c, b>>>> = <<p[1], <<map[p], p[2]>>>>
      BY <2>1
    <3>2. a = p[1] /\ c = map[p] /\ b = p[2]
      BY <3>1
    <3> QED
      BY <3>2
  <2>2. ASSUME <<a, b>> \in here, map[<<a, b>>] = c PROVE <<a, <<c, b>>>> \in valued
    <3>1. <<a, <<c, b>>>> = <<(<<a, b>>)[1], <<map[<<a, b>>], (<<a, b>>)[2]>>>>
      BY <2>2
    <3> QED
      BY <2>2, <3>1
  <2> QED
    BY <2>1, <2>2
<1> HIDE DEF new, backwards, valued, S, U, V
<1>7. ASSUME NEW a, NEW b
      PROVE  /\ Has(S, a, b) <=> <<a, b>> \in DOMAIN new
             /\ Has(U, b, a) <=> <<a, b>> \in DOMAIN new
  BY <1>1, <1>2, <1>3, <1>5, Zenon DEF Agree
<1>8. ASSUME NEW a, NEW b, NEW c
      PROVE  Has(V, a, <<c, b>>) <=> <<a, b>> \in DOMAIN new /\ new[<<a, b>>] = c
  <2>1. Has(byV, a, <<c, b>>) <=> <<a, b>> \in DOMAIN map /\ map[<<a, b>>] = c
    BY DEF Agree
  <2>2. Has(V, a, <<c, b>>) <=> Has(byV, a, <<c, b>>) /\ ~(<<a, b>> \in here /\ map[<<a, b>>] = c)
    <3>1. \A y : Has(V, a, y) <=> Has(byV, a, y) /\ <<a, y>> \notin valued
      BY <1>4
    <3>2. Has(V, a, <<c, b>>) <=> Has(byV, a, <<c, b>>) /\ <<a, <<c, b>>>> \notin valued
      BY <3>1, Zenon
    <3>3. <<a, <<c, b>>>> \in valued <=> <<a, b>> \in here /\ map[<<a, b>>] = c
      BY <1>6
    <3> QED
      BY <3>2, <3>3
  <2> QED
    BY <1>1, <2>1, <2>2
<1> QED
  BY <1>2, <1>3, <1>4, <1>7, <1>8 DEF Agree, new, S, U, V, backwards, valued

-----------------------------------------------------------------------------
(* The views of ViewsSpec.                                                 *)

\* The inductive invariant of the views.
ViewsInv ==
  /\ Inverted(view.key_to_value, view.value_to_keys)
  /\ Agree(composite.key_to_value, composite.key_s_index,
           composite.key_u_index, composite.value_index)

\* Every method keeps both views consistent.
LEMMA ViewsStep == ViewsInv /\ [ViewsNext]_views => ViewsInv'
<1> SUFFICES ASSUME ViewsInv, [ViewsNext]_views PROVE ViewsInv'
  OBVIOUS
<1> DEFINE map == view.key_to_value
           index == view.value_to_keys
           c == composite
<1>1. CASE UNCHANGED views
  BY <1>1 DEF views, ViewsInv
<1>2. ASSUME NEW k \in Keys, NEW v \in Values, Insert(k, v) PROVE ViewsInv'
  <2> DEFINE old == IF k \in DOMAIN map THEN {<<map[k], k>>} ELSE {}
  <2>1. Inverted(Put(map, k, v), AddTo(TakeAll(index, old), v, k))
    BY InsertInverse DEF ViewsInv
  <2>2. /\ view'.key_to_value = Put(map, k, v)
        /\ view'.value_to_keys = AddTo(TakeAll(index, old), v, k)
        /\ composite' = composite
    BY <1>2 DEF Insert
  <2> QED
    BY <2>1, <2>2 DEF ViewsInv
<1>3. ASSUME NEW k \in Keys, RemoveByKey(k) PROVE ViewsInv'
  <2>1. Inverted(DropKeys(map, {k}), TakeAll(index, {<<map[k], k>>}))
    BY <1>3, RemoveByKeyInverse DEF ViewsInv, RemoveByKey
  <2>2. /\ view'.key_to_value = DropKeys(map, {k})
        /\ view'.value_to_keys = TakeAll(index, {<<map[k], k>>})
        /\ composite' = composite
    BY <1>3 DEF RemoveByKey
  <2> QED
    BY <2>1, <2>2 DEF ViewsInv
<1>4. ASSUME NEW v \in Values, RemoveByValue(v) PROVE ViewsInv'
  <2>1. Inverted(DropKeys(map, index[v]), DropKeys(index, {v}))
    BY <1>4, RemoveByValueInverse DEF ViewsInv, RemoveByValue
  <2>2. /\ view'.key_to_value = DropKeys(map, index[v])
        /\ view'.value_to_keys = DropKeys(index, {v})
        /\ composite' = composite
    BY <1>4 DEF RemoveByValue
  <2> QED
    BY <2>1, <2>2 DEF ViewsInv
<1>5. ASSUME NEW s \in Keys, NEW u \in Keys, NEW v \in Values, InsertPair(s, u, v)
      PROVE  ViewsInv'
  <2>1. Agree(Put(c.key_to_value, <<s, u>>, v), AddTo(c.key_s_index, s, u),
              AddTo(c.key_u_index, u, s), AddTo(c.value_index, s, <<v, u>>))
    BY <1>5, InsertAgree DEF ViewsInv, InsertPair
  <2>2. /\ composite'.key_to_value = Put(c.key_to_value, <<s, u>>, v)
        /\ composite'.key_s_index = AddTo(c.key_s_index, s, u)
        /\ composite'.key_u_index = AddTo(c.key_u_index, u, s)
        /\ composite'.value_index = AddTo(c.value_index, s, <<v, u>>)
        /\ view' = view
    BY <1>5 DEF InsertPair
  <2> QED
    BY <2>1, <2>2 DEF ViewsInv
<1>6. ASSUME NEW P, \A p \in P : p = <<p[1], p[2]>>, RemovePairs(P) PROVE ViewsInv'
  <2> DEFINE here == P \cap DOMAIN c.key_to_value
             backwards == {<<p[2], p[1]>> : p \in here}
             valued == {<<p[1], <<c.key_to_value[p], p[2]>>>> : p \in here}
  <2>1. Agree(DropKeys(c.key_to_value, here), TakeAll(c.key_s_index, here),
              TakeAll(c.key_u_index, backwards), TakeAll(c.value_index, valued))
    <3>1. here \in SUBSET DOMAIN c.key_to_value /\ \A p \in here : p = <<p[1], p[2]>>
      BY <1>6
    <3> HIDE DEF here
    <3> QED
      BY <3>1, RemoveAgree DEF ViewsInv
  <2>2. /\ composite'.key_to_value = DropKeys(c.key_to_value, here)
        /\ composite'.key_s_index = TakeAll(c.key_s_index, here)
        /\ composite'.key_u_index = TakeAll(c.key_u_index, backwards)
        /\ composite'.value_index = TakeAll(c.value_index, valued)
        /\ view' = view
    BY <1>6 DEF RemovePairs
  <2> QED
    BY <2>1, <2>2 DEF ViewsInv
<1>7. ASSUME NEW s \in Keys, RemoveByKeyS(s) PROVE ViewsInv'
  BY <1>7, <1>6 DEF RemoveByKeyS
<1>8. ASSUME NEW u \in Keys, RemoveByKeyU(u) PROVE ViewsInv'
  BY <1>8, <1>6 DEF RemoveByKeyU
<1>9. ASSUME NEW s \in Keys, NEW u \in Keys, RemovePairs({<<s, u>>}) PROVE ViewsInv'
  BY <1>9, <1>6
<1> QED
  BY <1>1, <1>2, <1>3, <1>4, <1>5, <1>7, <1>8, <1>9, Zenon DEF ViewsNext

\* The views stay consistent.
LEMMA ViewsConsistent == ViewsSpec => []ViewsInv
<1>1. ViewsInit => ViewsInv
  BY DEF ViewsInit, NewView, NewComposite, Empty, ViewsInv, Inverted, Agree, Has, NoEmptySet
<1> QED
  BY <1>1, ViewsStep, PTL DEF ViewsSpec

\* The index from values to keys of a View is the inverse of its map, for any
\* keys and values and after any insertions, overwrites and removals.
THEOREM ViewIndexCorrect == ViewsSpec => []ViewInverse
<1>1. ViewsInv => ViewInverse
  BY DEF ViewsInv, Inverted, ViewInverse
<1> QED
  BY <1>1, ViewsConsistent, PTL

\* A CompositeView is always complete: its three indexes have exactly the pairs
\* of its map, and no empty sets.
THEOREM CompositeComplete == ViewsSpec => []Complete
<1>1. ViewsInv => Complete
  BY DEF ViewsInv, Agree, Complete
<1> QED
  BY <1>1, ViewsConsistent, PTL

\* The maps hold keys and values of their types, and the sets of the value index
\* of a CompositeView are finite sets of <<value, key>> pairs.
ViewsTyped ==
  /\ DOMAIN view.key_to_value \subseteq Keys
  /\ \A k \in DOMAIN view.key_to_value : view.key_to_value[k] \in Values
  /\ DOMAIN composite.key_to_value \subseteq Keys \X Keys
  /\ \A p \in DOMAIN composite.key_to_value : composite.key_to_value[p] \in Values
  /\ \A s \in DOMAIN composite.value_index :
        /\ composite.value_index[s] \subseteq Values \X Keys
        /\ IsFiniteSet(composite.value_index[s])

\* Every method keeps the types.
LEMMA ViewsTypedStep == ViewsTyped /\ [ViewsNext]_views => ViewsTyped'
<1> SUFFICES ASSUME ViewsTyped, [ViewsNext]_views PROVE ViewsTyped'
  OBVIOUS
<1> DEFINE TypedMap(map, K) == DOMAIN map \subseteq K /\ \A k \in DOMAIN map : map[k] \in Values
           TypedIndex(index) == \A s \in DOMAIN index : /\ index[s] \subseteq Values \X Keys
                                                        /\ IsFiniteSet(index[s])
<1>1. ASSUME NEW map, NEW K, NEW k \in K, NEW v \in Values, TypedMap(map, K)
      PROVE  TypedMap(Put(map, k, v), K)
  BY <1>1 DEF Put
<1>2. ASSUME NEW map, NEW K, NEW D, TypedMap(map, K)
      PROVE  TypedMap(DropKeys(map, D), K)
  BY <1>2 DEF DropKeys
<1>3. ASSUME NEW index, NEW s, NEW x \in Values \X Keys, TypedIndex(index)
      PROVE  TypedIndex(AddTo(index, s, x))
  <2>1. IsFiniteSet({x})
    BY FS_Singleton, Zenon
  <2>2. \A r \in DOMAIN index : IsFiniteSet(index[r] \cup {x})
    BY <1>3, FS_AddElement
  <2> QED
    BY <1>3, <2>1, <2>2 DEF AddTo, Put
<1>4. ASSUME NEW index, NEW P, TypedIndex(index)
      PROVE  TypedIndex(TakeAll(index, P))
  <2> DEFINE new == TakeAll(index, P)
  <2>1. \A s \in DOMAIN new : s \in DOMAIN index /\ new[s] \in SUBSET index[s]
    BY DEF TakeAll, DropKeys
  <2>2. \A s \in DOMAIN new : IsFiniteSet(new[s])
    BY <1>4, <2>1, FS_Subset
  <2> QED
    BY <1>4, <2>1, <2>2
<1> HIDE DEF TypedMap, TypedIndex
<1>5. ViewsTyped <=> /\ TypedMap(view.key_to_value, Keys)
                     /\ TypedMap(composite.key_to_value, Keys \X Keys)
                     /\ TypedIndex(composite.value_index)
  BY DEF ViewsTyped, TypedMap, TypedIndex
<1>6. ViewsTyped' <=> /\ TypedMap(view'.key_to_value, Keys)
                      /\ TypedMap(composite'.key_to_value, Keys \X Keys)
                      /\ TypedIndex(composite'.value_index)
  BY DEF ViewsTyped, TypedMap, TypedIndex
<1>7. CASE UNCHANGED views
  BY <1>5, <1>6, <1>7 DEF views
<1>8. ASSUME NEW k \in Keys, NEW v \in Values, Insert(k, v) PROVE ViewsTyped'
  BY <1>1, <1>5, <1>6, <1>8 DEF Insert
<1>9. ASSUME NEW k \in Keys, RemoveByKey(k) PROVE ViewsTyped'
  BY <1>2, <1>5, <1>6, <1>9 DEF RemoveByKey
<1>10. ASSUME NEW v \in Values, RemoveByValue(v) PROVE ViewsTyped'
  BY <1>2, <1>5, <1>6, <1>10 DEF RemoveByValue
<1>11. ASSUME NEW s \in Keys, NEW u \in Keys, NEW v \in Values, InsertPair(s, u, v)
       PROVE  ViewsTyped'
  <2>1. <<s, u>> \in Keys \X Keys /\ <<v, u>> \in Values \X Keys
    OBVIOUS
  <2>2. /\ view' = view
        /\ composite'.key_to_value = Put(composite.key_to_value, <<s, u>>, v)
        /\ composite'.value_index = AddTo(composite.value_index, s, <<v, u>>)
    BY <1>11 DEF InsertPair
  <2>3. TypedMap(composite'.key_to_value, Keys \X Keys)
    <3> DEFINE p == <<s, u>>
               K == Keys \X Keys
    <3>1. p \in K /\ TypedMap(composite.key_to_value, K)
          /\ composite'.key_to_value = Put(composite.key_to_value, p, v)
      BY <1>5, <2>1, <2>2
    <3> HIDE DEF p, K
    <3>2. TypedMap(composite'.key_to_value, K)
      BY <1>1, <3>1
    <3> QED
      BY <3>2 DEF K
  <2>4. TypedIndex(composite'.value_index)
    BY <1>3, <1>5, <2>1, <2>2
  <2> QED
    BY <1>5, <1>6, <2>2, <2>3, <2>4
<1>12. ASSUME NEW P, RemovePairs(P) PROVE ViewsTyped'
  BY <1>2, <1>4, <1>5, <1>6, <1>12, ZenonT(30) DEF RemovePairs
<1> QED
  BY <1>7, <1>8, <1>9, <1>10, <1>11, <1>12, Zenon DEF ViewsNext, RemoveByKeyS, RemoveByKeyU

\* The types are kept.
LEMMA ViewsTypes == ViewsSpec => []ViewsTyped
<1>1. ViewsInit => ViewsTyped
  BY DEF ViewsInit, NewView, NewComposite, Empty, ViewsTyped
<1> QED
  BY <1>1, ViewsTypedStep, PTL DEF ViewsSpec

\* The ends of ranges are integers.
LEMMA RangeEndsAreInts == \A x \in RangeEnds : x \in Int
<1> TAKE x \in RangeEnds
<1>1. x \in Values \/ \E v \in Values : x = v + 1
  BY Zenon DEF RangeEnds
<1>2. \A v \in Values : v \in Int
  BY ValuesAreInts, Zenon
<1>3. \A v \in Int : v + 1 \in Int
  OBVIOUS
<1> QED
  BY <1>1, <1>2, <1>3, Zenon

\* The queries of a View answer as a scan of its map would: range_query has the
\* values of the range with all their keys, and panics only when the range starts
\* after its end; min_k leaves out no lower value than one it returns, however a
\* hash set orders the keys of one value.
THEOREM ViewQueriesCorrect == ViewsSpec => []ViewAnswers
<1> DEFINE map == view.key_to_value
           index == view.value_to_keys
<1>1. ASSUME ViewsInv, ViewsTyped PROVE ViewAnswers
  <2>1. \A v : v \in DOMAIN index => index[v] = {k \in DOMAIN map : map[k] = v}
    BY <1>1 DEF ViewsInv, Inverted, Has
  <2>2. \A v : v \in DOMAIN index <=> \E k \in DOMAIN map : map[k] = v
    BY <1>1 DEF ViewsInv, Inverted, Has, NoEmptySet
  <2>3. DOMAIN index \subseteq Int /\ \A k \in DOMAIN map : map[k] \in Int
    BY <1>1, <2>2, ValuesAreInts, Zenon DEF ViewsTyped
  <2>4. ASSUME NEW lo \in RangeEnds, NEW hi \in RangeEnds
        PROVE  IF lo <= hi
               THEN RangeQuery(lo, hi) = {Returns(
                      {<<v, {k \in DOMAIN map : map[k] = v}>> :
                         v \in {map[k] : k \in DOMAIN map} \cap lo .. (hi - 1)})}
               ELSE RangeQuery(lo, hi) \subseteq {RangePanic, Returns({})}
    <3> DEFINE inside == {v \in DOMAIN index : lo <= v /\ v < hi}
               inRange == {map[k] : k \in DOMAIN map} \cap lo .. (hi - 1)
               KeysOf(v) == {k \in DOMAIN map : map[k] = v}
               rows == {<<v, index[v]>> : v \in inside}
    <3>1. lo \in Int /\ hi \in Int
      BY RangeEndsAreInts, Zenon
    <3>2. inside = inRange
      BY <2>2, <2>3, <3>1
    <3>3. \A v \in inside : index[v] = KeysOf(v)
      BY <2>1
    <3>4. RangeQuery(lo, hi) =
            {o \in {Returns(rows), RangePanic} :
               IF o.panics THEN lo > hi ELSE lo <= hi \/ DOMAIN index = {}}
      BY Zenon DEF RangeQuery
    <3>5. ~Returns(rows).panics /\ RangePanic.panics
      BY DEF Returns, RangePanic
    <3> HIDE DEF inside, KeysOf, index
    <3>6. rows = {<<v, KeysOf(v)>> : v \in inside}
      BY <3>3
    <3>7. ASSUME lo <= hi
          PROVE  RangeQuery(lo, hi) = {Returns(rows)}
      <4>1. ~(lo > hi)
        BY <3>1, <3>7
      <4> HIDE DEF rows
      <4> QED
        BY <3>4, <3>5, <3>7, <4>1, Zenon
    <3>8. ASSUME ~(lo <= hi)
          PROVE  RangeQuery(lo, hi) \subseteq {RangePanic, Returns({})}
      <4>1. inside = {}
        BY <2>3, <3>1, <3>8 DEF inside, index
      <4>2. rows = {}
        BY <4>1
      <4> HIDE DEF rows
      <4> QED
        BY <3>4, <4>2, Zenon
    <3> QED
      BY <3>2, <3>6, <3>7, <3>8, Zenon DEF KeysOf
  <2>5. ASSUME NEW k \in 0 .. Cardinality(Keys), NEW A \in MinK(k), NEW x \in A,
               NEW j \in DOMAIN map
        PROVE  map[x[2]] = x[1] /\ (map[j] < x[1] => <<map[j], j>> \in A)
    <3> DEFINE all == UNION {{v} \X index[v] : v \in DOMAIN index}
    <3>1. A \in SUBSET all /\ \A y \in A, z \in all \ A : y[1] <= z[1]
      BY <2>5 DEF MinK
    <3>2. PICK v \in DOMAIN index : x \in {v} \X index[v]
      BY <3>1
    <3>3. x[1] = v /\ x[2] \in index[v]
      BY <3>2
    <3>4. <<map[j], j>> \in all
      BY <2>1, <2>2, SMT, Z3
    <3> QED
      BY <2>1, <2>3, <3>1, <3>3, <3>4
  <2> QED
    BY <2>4, <2>5 DEF ViewAnswers
<1> QED
  BY <1>1, ViewsConsistent, ViewsTypes, PTL

\* The queries of a CompositeView agree whichever index they go through: the
\* expect of get_by_key_u never fails, and min_k, which takes the first pairs of
\* the value index, leaves out no pair with a lower value.
THEOREM CompositeQueriesCorrect == ViewsSpec => []CompositeAnswers
<1> DEFINE c == composite
           map == c.key_to_value
           scan == {<<p[1], p[2], map[p]>> : p \in DOMAIN map}
<1>1. ASSUME ViewsInv, ViewsTyped PROVE CompositeAnswers
  <2>1. /\ \A s, u : Has(c.key_s_index, s, u) <=> <<s, u>> \in DOMAIN map
        /\ \A s, u : Has(c.key_u_index, u, s) <=> <<s, u>> \in DOMAIN map
        /\ \A s, u, v : Has(c.value_index, s, <<v, u>>)
                          <=> <<s, u>> \in DOMAIN map /\ map[<<s, u>>] = v
    BY <1>1 DEF ViewsInv, Agree
  <2>2. /\ DOMAIN map \subseteq Keys \X Keys
        /\ \A s \in DOMAIN c.value_index : /\ c.value_index[s] \subseteq Values \X Keys
                                           /\ IsFiniteSet(c.value_index[s])
    BY <1>1 DEF ViewsTyped
  <2>3. \A s, u, v : <<s, u, v>> \in scan <=> <<s, u>> \in DOMAIN map /\ v = map[<<s, u>>]
    BY <2>2
  <2>4. \A x \in scan : x = <<x[1], x[2], x[3]>>
    OBVIOUS
  <2> HIDE DEF scan, map
  <2>10. ASSUME NEW s, NEW u, NEW v, <<s, u, v>> \in scan
         PROVE  Has(c.value_index, s, <<v, u>>)
    <3>1. <<s, u>> \in DOMAIN map /\ map[<<s, u>>] = v
      BY <2>3, <2>10
    <3>2. Has(c.value_index, s, <<v, u>>) <=> <<s, u>> \in DOMAIN map /\ map[<<s, u>>] = v
      BY <2>1
    <3> QED
      BY <3>1, <3>2
  <2>5. ASSUME NEW s \in Keys
        PROVE  {x \in scan : x[1] = s} = IF s \in DOMAIN c.value_index THEN GetByKeyS(s) ELSE {}
    <3>1. ASSUME NEW x \in scan, x[1] = s PROVE Has(c.value_index, s, <<x[3], x[2]>>)
      <4>1. <<s, x[2], x[3]>> \in scan
        BY <2>4, <3>1
      <4> QED
        BY <2>10, <4>1
    <3>2. \A v, u : Has(c.value_index, s, <<v, u>>) => <<s, u, v>> \in scan
      BY <2>1, <2>3, Zenon
    <3>3. CASE s \notin DOMAIN c.value_index
      BY <3>1, <3>3, Zenon DEF Has
    <3>4. CASE s \in DOMAIN c.value_index
      <4>1. \A x \in c.value_index[s] : x = <<x[1], x[2]>>
        BY <2>2, <3>4
      <4>2. ASSUME NEW x, x \in scan, x[1] = s PROVE x \in GetByKeyS(s)
        <5>1. <<x[3], x[2]>> \in c.value_index[s] /\ x = <<s, x[2], x[3]>>
          BY <2>4, <3>1, <4>2 DEF Has
        <5> QED
          BY <5>1 DEF GetByKeyS
      <4>3. ASSUME NEW x \in GetByKeyS(s) PROVE x \in scan /\ x[1] = s
        <5>1. PICK y \in c.value_index[s] : x = <<s, y[2], y[1]>>
          BY <4>3 DEF GetByKeyS
        <5>2. Has(c.value_index, s, <<y[1], y[2]>>)
          BY <3>4, <4>1 DEF Has
        <5> QED
          BY <3>2, <5>1, <5>2
      <4> QED
        BY <3>4, <4>2, <4>3
    <3> QED
      BY <3>3, <3>4
  <2>6. ASSUME NEW s \in Keys
        PROVE  {x \in scan : x[1] = s} = IF s \in DOMAIN c.key_s_index THEN QueryA(s) ELSE {}
    <3>1. \A x : x \in scan /\ x[1] = s
                   => Has(c.key_s_index, s, x[2]) /\ <<s, x[2]>> \in DOMAIN map
                      /\ x = <<s, x[2], map[<<s, x[2]>>]>>
      BY <2>1, <2>3, <2>4
    <3>2. ASSUME NEW x \in QueryA(s) PROVE x \in scan /\ x[1] = s
      <4>1. PICK u : <<s, u>> \in DOMAIN map /\ x = <<s, u, map[<<s, u>>]>>
        BY DEF QueryA, map
      <4> QED
        BY <2>3, <4>1
    <3>3. \A x : x \in scan /\ x[1] = s /\ s \in DOMAIN c.key_s_index => x \in QueryA(s)
      BY <3>1, Zenon DEF QueryA, Has, map
    <3> QED
      BY <3>1, <3>2, <3>3, Zenon DEF Has
  <2>7. ASSUME NEW u \in Keys
        PROVE  {x \in scan : x[2] = u} = IF u \in DOMAIN c.key_u_index THEN GetByKeyU(u) ELSE {}
    <3>1. \A x : x \in scan /\ x[2] = u
                   => Has(c.key_u_index, u, x[1]) /\ <<x[1], u>> \in DOMAIN map
                      /\ x = <<x[1], u, map[<<x[1], u>>]>>
      BY <2>1, <2>3, <2>4
    <3>2. ASSUME NEW x \in GetByKeyU(u) PROVE x \in scan /\ x[2] = u
      <4>1. PICK s : <<s, u>> \in DOMAIN map /\ x = <<s, u, map[<<s, u>>]>>
        BY DEF GetByKeyU, map
      <4> QED
        BY <2>3, <4>1
    <3>3. \A x : x \in scan /\ x[2] = u /\ u \in DOMAIN c.key_u_index => x \in GetByKeyU(u)
      BY <3>1, Zenon DEF GetByKeyU, Has, map
    <3> QED
      BY <3>1, <3>2, <3>3, Zenon DEF Has
  <2>8. \A u \in DOMAIN c.key_u_index : \A s \in c.key_u_index[u] : <<s, u>> \in DOMAIN map
    BY <2>1, Zenon DEF Has
  <2>9. ASSUME NEW s \in DOMAIN c.value_index, NEW k \in 0 .. Cardinality(Keys),
               NEW x \in MinKOf(s, k), NEW y \in scan, y[1] = s, y[3] < x[1]
        PROVE  <<y[3], y[2]>> \in MinKOf(s, k)
    <3> DEFINE V == c.value_index[s]
               Before(a, b) == a[1] < b[1] \/ (a[1] = b[1] /\ a[2] < b[2])
               z == <<y[3], y[2]>>
    <3>1. x \in V /\ Cardinality({w \in V : Before(w, x)}) < k
      BY <2>9 DEF MinKOf
    <3>2. z \in V
      <4>1. <<s, y[2], y[3]>> \in scan
        BY <2>4, <2>9
      <4>2. Has(c.value_index, s, <<y[3], y[2]>>)
        BY <2>10, <4>1
      <4> QED
        BY <4>2 DEF Has
    <3>3. \A w \in V : w[1] \in Int /\ w[2] \in Int
      BY <2>2, KeysAreInts, ValuesAreInts, Zenon
    <3>4. z[1] < x[1]
      BY <2>9
    <3>5. \A w \in V : Before(w, z) => Before(w, x)
      <4> HIDE DEF V, z
      <4> QED
        BY <3>1, <3>2, <3>3, <3>4
    <3>6. IsFiniteSet(V)
      BY <2>2
    <3> DEFINE lower == {w \in V : Before(w, z)}
               below == {w \in V : Before(w, x)}
    <3>7. lower \in SUBSET below /\ below \in SUBSET V
      BY <3>5
    <3>8. IsFiniteSet(below) /\ IsFiniteSet(lower) /\ Cardinality(lower) <= Cardinality(below)
      <4> HIDE DEF lower, below
      <4> QED
        BY <3>6, <3>7, FS_Subset
    <3>9. Cardinality(lower) \in Nat /\ Cardinality(below) \in Nat
      <4> HIDE DEF lower, below
      <4> QED
        BY <3>8, FS_CardinalityType
    <3>10. Cardinality(lower) < k
      <4>1. Cardinality(below) < k
        BY <3>1
      <4> HIDE DEF lower, below
      <4> QED
        BY <3>8, <3>9, <4>1
    <3> QED
      BY <3>2, <3>10, Zenon DEF MinKOf
  <2> QED
    BY <2>5, <2>6, <2>7, <2>8, <2>9, ZenonT(30) DEF CompositeAnswers, scan, map
<1> QED
  BY <1>1, ViewsConsistent, ViewsTypes, PTL

-----------------------------------------------------------------------------
(* ZTable.  A mutation reaches one shard of one table (ShardMutEffect): it *)
(* writes in place only a cell that nobody else refers to.                 *)

\* A shard that holds rows of keys that hash to position i.
ShardOK(m, i) ==
  /\ DOMAIN m \subseteq ZKeys /\ m \in [DOMAIN m -> Rows]
  /\ \A k \in DOMAIN m : ShardOf[k] = i

\* Table t's shard i becomes content; every other shard of every table, and
\* every shard that a task reads, stays as it is.
OnlyShard(t, i, content) ==
  /\ DOMAIN shards' = DOMAIN shards
  /\ DOMAIN heap \subseteq DOMAIN heap' /\ DOMAIN heap' \subseteq Cells
  /\ \A u \in DOMAIN shards :
        /\ shards'[u] \in [Shards -> DOMAIN heap']
        /\ u # t => shards'[u] = shards[u]
        /\ \A j \in Shards : heap'[shards'[u][j]] =
             IF u = t /\ j = i THEN content ELSE heap[shards[u][j]]
  /\ \A c \in DOMAIN heap' :
        heap'[c] = content \/ (c \in DOMAIN heap /\ heap'[c] = heap[c])
  /\ \A x \in tasks : heap'[x.cell] = heap[x.cell]
  /\ \A u, w \in DOMAIN shards, j, l \in Shards : shards'[u][j] = shards'[w][l] => j = l
  /\ \A x \in tasks : \A u \in DOMAIN shards, j \in Shards :
        shards'[u][j] = x.cell => j = x.shard

\* shard_mut changes one shard of one table.
LEMMA ShardMutEffect ==
  ASSUME ZInv, NEW t \in DOMAIN shards, NEW i \in Shards, NEW content,
         ShardMut(t, i, content)
  PROVE  OnlyShard(t, i, content)
<1> USE DEF ZInv
<1>1. CASE ~Shared(t, i) /\ heap' = [heap EXCEPT ![shards[t][i]] = content] /\ shards' = shards
  <2>1. \A u \in DOMAIN shards, j \in Shards :
           ~(u = t /\ j = i) => shards[u][j] # shards[t][i]
    BY <1>1 DEF Shared
  <2>2. \A x \in tasks : x.cell # shards[t][i]
    BY <1>1 DEF Shared
  <2>3. \A u \in DOMAIN shards : shards[u] \in [Shards -> DOMAIN heap]
    OBVIOUS
  <2>4. /\ DOMAIN heap' = DOMAIN heap /\ heap'[shards[t][i]] = content
        /\ \A c \in DOMAIN heap : c # shards[t][i] => heap'[c] = heap[c]
    BY <1>1, <2>3
  <2>5. \A u \in DOMAIN shards, j \in Shards :
           heap'[shards[u][j]] = IF u = t /\ j = i THEN content ELSE heap[shards[u][j]]
    BY <2>1, <2>3, <2>4, SMT, Z3
  <2> QED
    BY <1>1, <2>2, <2>3, <2>4, <2>5, SMT, Z3 DEF OnlyShard
<1>2. ASSUME NEW new \in Cells \ DOMAIN heap,
             heap' = With(heap, new, content), shards' = [shards EXCEPT ![t][i] = new]
      PROVE  OnlyShard(t, i, content)
  <2>1. /\ DOMAIN heap' = DOMAIN heap \cup {new} /\ heap'[new] = content
        /\ \A c \in DOMAIN heap : heap'[c] = heap[c]
    BY <1>2 DEF With
  <2>2. /\ DOMAIN shards' = DOMAIN shards
        /\ \A u \in DOMAIN shards : u # t => shards'[u] = shards[u]
        /\ shards'[t] = [shards[t] EXCEPT ![i] = new]
    BY <1>2
  <2>3. \A u \in DOMAIN shards : shards[u] \in [Shards -> DOMAIN heap]
    OBVIOUS
  <2>4. \A u \in DOMAIN shards, j \in Shards :
           shards'[u][j] = IF u = t /\ j = i THEN new ELSE shards[u][j]
    BY <2>2, <2>3
  <2>5. \A u \in DOMAIN shards, j \in Shards :
           heap'[shards'[u][j]] = IF u = t /\ j = i THEN content ELSE heap[shards[u][j]]
    BY <2>1, <2>3, <2>4, SMT, Z3
  <2>6. ASSUME NEW u \in DOMAIN shards PROVE shards'[u] \in [Shards -> DOMAIN heap']
    <3>1. shards[u] \in [Shards -> DOMAIN heap']
      BY <2>1, <2>3, SMT, Z3
    <3>2. CASE u = t
      BY <2>1, <2>2, <3>1, <3>2, SMT, Z3
    <3> QED
      BY <2>2, <3>1, <3>2
  <2>7. /\ \A u, w \in DOMAIN shards, j, l \in Shards : shards'[u][j] = shards'[w][l] => j = l
        /\ \A x \in tasks : \A u \in DOMAIN shards, j \in Shards :
              shards'[u][j] = x.cell => j = x.shard
    <3>1. \A u \in DOMAIN shards, j \in Shards : shards[u][j] # new
      BY <2>3, SMT, Z3
    <3>2. ASSUME NEW u \in DOMAIN shards, NEW w \in DOMAIN shards, NEW j \in Shards,
                 NEW l \in Shards, shards'[u][j] = shards'[w][l]
          PROVE  j = l
      BY <2>4, <3>1, <3>2, SMT, Z3
    <3>3. \A x \in tasks : x.cell # new
      BY ZenonT(30)
    <3> QED
      BY <2>4, <3>2, <3>3, SMT, Z3
  <2> QED
    BY <2>1, <2>2, <2>5, <2>6, <2>7, ZenonT(30) DEF OnlyShard
<1> QED
  BY <1>1, <1>2, Zenon DEF ShardMut


\* A mutation of a table that is not being read keeps the invariant.
LEMMA MutationInv ==
  ASSUME ZInv, NEW t \in DOMAIN shards, NEW i \in Shards, NEW content,
         ~InCall(t), ShardOK(content, i), OnlyShard(t, i, content),
         UNCHANGED <<tasks, calls>>
  PROVE  ZInv'
<1>1. DOMAIN heap' \subseteq Cells /\ DOMAIN shards' \subseteq Tables
  BY DEF ZInv, OnlyShard
<1>2. \A c \in DOMAIN heap' :
        DOMAIN heap'[c] \subseteq ZKeys /\ heap'[c] \in [DOMAIN heap'[c] -> Rows]
  BY ZenonT(30) DEF ZInv, OnlyShard, ShardOK
<1>3. /\ \A u \in DOMAIN shards' : shards'[u] \in [Shards -> DOMAIN heap']
      /\ \A u, w \in DOMAIN shards', j, l \in Shards : shards'[u][j] = shards'[w][l] => j = l
  BY DEF OnlyShard
<1>4. \A u \in DOMAIN shards', j \in Shards :
        \A k \in DOMAIN heap'[shards'[u][j]] : ShardOf[k] = j
  <2> SUFFICES ASSUME NEW u \in DOMAIN shards, NEW j \in Shards,
                      NEW k \in DOMAIN heap'[shards'[u][j]]
               PROVE  ShardOf[k] = j
    BY DEF OnlyShard
  <2>1. CASE u = t /\ j = i
    BY <2>1, Zenon DEF OnlyShard, ShardOK
  <2>2. CASE ~(u = t /\ j = i)
    <3>1. heap'[shards'[u][j]] = heap[shards[u][j]]
      BY <2>2, ZenonT(30) DEF OnlyShard
    <3> QED
      BY <3>1, SMT, Z3 DEF ZInv
  <2> QED
    BY <2>1, <2>2, Zenon
<1>5. ASSUME NEW x \in tasks'
      PROVE  /\ x.caller \in Tables \cup {None} /\ x.shard \in Shards /\ x.cell \in DOMAIN heap'
             /\ x = [caller |-> x.caller, shard |-> x.shard, cell |-> x.cell]
             /\ x.caller # None => x.caller \in DOMAIN calls' /\ x.cell = shards'[x.caller][x.shard]
             /\ \A u \in DOMAIN shards', j \in Shards : shards'[u][j] = x.cell => j = x.shard
  <2>1. x \in tasks /\ calls' = calls
    BY Zenon
  <2>2. ASSUME x.caller # None PROVE x.caller \in DOMAIN calls /\ x.cell = shards'[x.caller][x.shard]
    <3>1. x.caller \in DOMAIN calls /\ x.cell = shards[x.caller][x.shard] /\ x.caller \in DOMAIN shards
      BY <2>1, <2>2, Zenon DEF ZInv, InCall
    <3>2. shards'[x.caller] = shards[x.caller]
      BY <3>1, ZenonT(30) DEF InCall, OnlyShard
    <3> QED
      BY <3>1, <3>2, Zenon
  <2> QED
    BY <2>1, <2>2 DEF ZInv, OnlyShard
<1>6. /\ DOMAIN calls' \subseteq DOMAIN shards'
      /\ \A u \in DOMAIN calls' : \A j \in DOMAIN calls'[u] :
            j \in Shards /\ calls'[u][j] \in {Panicked, Active(heap'[shards'[u][j]])}
  <2> SUFFICES ASSUME NEW u \in DOMAIN calls, NEW j \in DOMAIN calls[u]
               PROVE  /\ u \in DOMAIN shards
                      /\ j \in Shards /\ calls[u][j] \in {Panicked, Active(heap'[shards'[u][j]])}
    BY DEF ZInv, OnlyShard
  <2>1. u \in DOMAIN shards /\ j \in Shards /\ u # t
    BY ZenonT(30) DEF ZInv, InCall
  <2>2. heap'[shards'[u][j]] = heap[shards[u][j]]
    BY <2>1, SMTT(30), Z3T(30) DEF OnlyShard
  <2> QED
    BY <2>1, <2>2, Zenon DEF ZInv
<1> QED
  BY <1>1, <1>2, <1>3, <1>4, <1>5, <1>6, Zenon DEF ZInv, InCall


\* The shard of a key holds rows of keys that hash to it.
LEMMA ShardOfKeyOK ==
  ASSUME ZInv, NEW t \in DOMAIN shards, NEW k \in ZKeys
  PROVE  ShardOf[k] \in Shards /\ ShardOK(Shard(t, k), ShardOf[k])
<1>1. ShardOf[k] \in Shards
  BY ShardOfType
<1>2. shards[t][ShardOf[k]] \in DOMAIN heap
  BY <1>1, SMT, Z3 DEF ZInv
<1> QED
  BY <1>1, <1>2 DEF ZInv, Shard, ShardOK

\* insert puts a proper row into the shard of its key.
LEMMA InsertedOK ==
  ASSUME ZInv, NEW t \in DOMAIN shards, NEW k \in ZKeys, NEW v \in ZValues
  PROVE  ShardOf[k] \in Shards /\ ShardOK(Inserted(Shard(t, k), k, v), ShardOf[k])
<1> DEFINE m == Shard(t, k)
<1>1. ShardOf[k] \in Shards /\ ShardOK(m, ShardOf[k])
  BY ShardOfKeyOK
<1> HIDE DEF m
<1>2. [weight |-> IF k \in DOMAIN m THEN m[k].weight + 1 ELSE 1, value |-> v] \in Rows
  BY <1>1 DEF ShardOK, Rows
<1>3. ASSUME NEW r \in Rows PROVE ShardOK(With(m, k, r), ShardOf[k])
  BY <1>1 DEF ShardOK, With
<1> QED
  BY <1>1, <1>2, <1>3 DEF Inserted, m

\* remove leaves proper rows in the shard of its key.
LEMMA RemovedOK ==
  ASSUME ZInv, NEW t \in DOMAIN shards, NEW k \in ZKeys
  PROVE  ShardOf[k] \in Shards /\ ShardOK(Removed(Shard(t, k), k), ShardOf[k])
<1> DEFINE m == Shard(t, k)
           left == IF k \in DOMAIN m THEN [m[k] EXCEPT !.weight = @ - 1]
                   ELSE [weight |-> -1, value |-> Default]
<1>1. ShardOf[k] \in Shards /\ ShardOK(m, ShardOf[k])
  BY ShardOfKeyOK
<1> HIDE DEF m
<1>2. left \in Rows
  BY <1>1 DEF ShardOK, Rows
<1>3. ShardOK(With(m, k, left), ShardOf[k])
  BY <1>1, <1>2 DEF ShardOK, With
<1>4. ShardOK(Without(m, k), ShardOf[k])
  BY <1>1 DEF ShardOK, Without
<1> QED
  BY <1>1, <1>3, <1>4 DEF Removed, m

\* insert is a change of one shard.
LEMMA InsertRowInv ==
  ASSUME ZInv, NEW t \in Tables, NEW k \in ZKeys, NEW v \in ZValues, InsertRow(t, k, v)
  PROVE  ZInv' /\ OnlyShard(t, ShardOf[k], Inserted(Shard(t, k), k, v))
<1>1. /\ t \in DOMAIN shards /\ ~InCall(t) /\ UNCHANGED <<tasks, calls>>
      /\ ShardMut(t, ShardOf[k], Inserted(Shard(t, k), k, v))
  BY DEF InsertRow, IsTable
<1>2. ShardOf[k] \in Shards /\ ShardOK(Inserted(Shard(t, k), k, v), ShardOf[k])
  BY <1>1, InsertedOK
<1>3. OnlyShard(t, ShardOf[k], Inserted(Shard(t, k), k, v))
  BY <1>1, <1>2, ShardMutEffect
<1> QED
  BY <1>1, <1>2, <1>3, MutationInv

\* remove is a change of one shard.
LEMMA RemoveRowInv ==
  ASSUME ZInv, NEW t \in Tables, NEW k \in ZKeys, RemoveRow(t, k)
  PROVE  ZInv' /\ OnlyShard(t, ShardOf[k], Removed(Shard(t, k), k))
<1>1. /\ t \in DOMAIN shards /\ ~InCall(t) /\ UNCHANGED <<tasks, calls>>
      /\ ShardMut(t, ShardOf[k], Removed(Shard(t, k), k))
  BY DEF RemoveRow, IsTable
<1>2. ShardOf[k] \in Shards /\ ShardOK(Removed(Shard(t, k), k), ShardOf[k])
  BY <1>1, RemovedOK
<1>3. OnlyShard(t, ShardOf[k], Removed(Shard(t, k), k))
  BY <1>1, <1>2, ShardMutEffect, Zenon
<1> QED
  BY <1>1, <1>2, <1>3, MutationInv

\* Freeing what nobody refers to leaves every shard of a table, and of a task,
\* as it is.
LEMMA FreedKeeps ==
  ASSUME NEW sh, NEW ts, DOMAIN heap \subseteq Cells
  PROVE  /\ DOMAIN Freed(sh, ts) \subseteq DOMAIN heap
         /\ \A c \in DOMAIN Freed(sh, ts) : Freed(sh, ts)[c] = heap[c]
         /\ \A t \in DOMAIN sh, i \in Shards :
               sh[t][i] \in DOMAIN heap => sh[t][i] \in DOMAIN Freed(sh, ts)
         /\ \A x \in ts : x.cell \in DOMAIN heap => x.cell \in DOMAIN Freed(sh, ts)
BY Zenon DEF Freed, Live

\* A new table refers to fresh cells.
LEMMA NewInv ==
  ASSUME ZInv, NEW t \in Tables, NewWithShards(t)
  PROVE  ZInv'
<1>1. PICK place \in Injection(Shards, Cells \ DOMAIN heap) :
        /\ heap' = [c \in DOMAIN heap \cup Range(place) |->
                     IF c \in DOMAIN heap THEN heap[c] ELSE EmptyShard]
        /\ shards' = With(shards, t, place)
  BY DEF NewWithShards
<1>2. /\ place \in [Shards -> Cells \ DOMAIN heap]
      /\ \A i, j \in Shards : place[i] = place[j] => i = j
      /\ Range(place) = {place[i] : i \in Shards}
  BY DEF Injection, IsInjective, Range
<1>3. /\ DOMAIN shards' = DOMAIN shards \cup {t} /\ shards'[t] = place /\ t \notin DOMAIN shards
      /\ \A u \in DOMAIN shards : shards'[u] = shards[u]
  BY <1>1, ZenonT(30) DEF With, NewWithShards, IsTable
<1>4. /\ DOMAIN heap' = DOMAIN heap \cup {place[i] : i \in Shards}
      /\ \A c \in DOMAIN heap : heap'[c] = heap[c]
      /\ \A i \in Shards : heap'[place[i]] = EmptyShard
  BY <1>1, <1>2
<1>5. tasks' = tasks /\ calls' = calls
  BY DEF NewWithShards
<1>6. /\ DOMAIN EmptyShard \subseteq ZKeys /\ EmptyShard \in [DOMAIN EmptyShard -> Rows]
      /\ DOMAIN EmptyShard = {}
  BY Zenon DEF EmptyShard
<1>7. \A u \in DOMAIN shards' : shards'[u] \in [Shards -> DOMAIN heap']
  BY <1>2, <1>3, <1>4, SMTT(30), Z3T(30) DEF ZInv
<1>8. \A u \in DOMAIN shards, j \in Shards : shards[u][j] \in DOMAIN heap
  BY SMT, Z3 DEF ZInv
<1>9. \A u, w \in DOMAIN shards', i, j \in Shards : shards'[u][i] = shards'[w][j] => i = j
  BY <1>2, <1>3, <1>8, SMTT(30), Z3T(30) DEF ZInv
<1>10. \A u \in DOMAIN shards', i \in Shards :
         \A k \in DOMAIN heap'[shards'[u][i]] : ShardOf[k] = i
  BY <1>3, <1>4, <1>6, <1>8, SMTT(30), Z3T(30) DEF ZInv
<1>11. \A x \in tasks : \A u \in DOMAIN shards', i \in Shards :
          shards'[u][i] = x.cell => i = x.shard
  BY <1>2, <1>3, <1>8, SMTT(30), Z3T(30) DEF ZInv
<1>12. /\ DOMAIN heap' \subseteq Cells /\ DOMAIN shards' \subseteq Tables
       /\ \A c \in DOMAIN heap' :
            DOMAIN heap'[c] \subseteq ZKeys /\ heap'[c] \in [DOMAIN heap'[c] -> Rows]
  <2>1. DOMAIN heap' \subseteq Cells /\ DOMAIN shards' \subseteq Tables
    BY <1>2, <1>3, <1>4, SMT, Z3 DEF ZInv
  <2>2. \A c \in DOMAIN heap :
           DOMAIN heap'[c] \subseteq ZKeys /\ heap'[c] \in [DOMAIN heap'[c] -> Rows]
    BY <1>4 DEF ZInv
  <2>3. \A i \in Shards : /\ DOMAIN heap'[place[i]] \subseteq ZKeys
                          /\ heap'[place[i]] \in [DOMAIN heap'[place[i]] -> Rows]
    BY <1>4, <1>6, ZenonT(30)
  <2> QED
    BY <1>4, <2>1, <2>2, <2>3, ZenonT(30)
<1>13. \A x \in tasks :
        /\ x.caller \in Tables \cup {None} /\ x.shard \in Shards /\ x.cell \in DOMAIN heap'
        /\ x = [caller |-> x.caller, shard |-> x.shard, cell |-> x.cell]
        /\ x.caller # None => x.caller \in DOMAIN calls /\ x.cell = shards'[x.caller][x.shard]
  BY <1>3, <1>4, SMT, Z3 DEF ZInv, InCall
<1>14. /\ DOMAIN calls \subseteq DOMAIN shards'
       /\ \A u \in DOMAIN calls : \A i \in DOMAIN calls[u] :
            i \in Shards /\ calls[u][i] \in {Panicked, Active(heap'[shards'[u][i]])}
  BY <1>3, <1>4, <1>8, SMT, Z3 DEF ZInv
<1> QED
  BY <1>5, <1>7, <1>9, <1>10, <1>11, <1>12, <1>13, <1>14, ZenonT(30) DEF ZInv, InCall


\* A clone refers to the shards of its original.
LEMMA CloneInv ==
  ASSUME ZInv, NEW t \in Tables, NEW u \in Tables, Clone(t, u)
  PROVE  ZInv'
<1>1. /\ DOMAIN shards' = DOMAIN shards \cup {u} /\ t \in DOMAIN shards
      /\ u \notin DOMAIN shards /\ shards'[u] = shards[t]
      /\ \A w \in DOMAIN shards : shards'[w] = shards[w]
  BY DEF Clone, With, IsTable
<1>2. heap' = heap /\ tasks' = tasks /\ calls' = calls
  BY Zenon DEF Clone
<1>3. DOMAIN calls \subseteq DOMAIN shards
  BY Zenon DEF ZInv
<1>4. /\ \A w \in DOMAIN shards' : shards'[w] \in [Shards -> DOMAIN heap]
      /\ \A v, w \in DOMAIN shards', i, j \in Shards : shards'[v][i] = shards'[w][j] => i = j
      /\ \A w \in DOMAIN shards', i \in Shards :
            \A k \in DOMAIN heap[shards'[w][i]] : ShardOf[k] = i
  BY <1>1, SMT, Z3 DEF ZInv
<1>5. \A x \in tasks :
        /\ x.caller # None => x.caller \in DOMAIN calls /\ x.cell = shards'[x.caller][x.shard]
        /\ \A w \in DOMAIN shards', i \in Shards : shards'[w][i] = x.cell => i = x.shard
  BY <1>1 DEF ZInv, InCall
<1>6. \A w \in DOMAIN calls : shards'[w] = shards[w]
  BY <1>1, <1>3, Zenon
<1> QED
  BY <1>1, <1>2, <1>3, <1>4, <1>5, <1>6, ZenonT(30) DEF ZInv, InCall

\* A table that goes away leaves the shards that others refer to.
LEMMA DropInv ==
  ASSUME ZInv, NEW t \in Tables, Drop(t)
  PROVE  ZInv'
<1>1. /\ DOMAIN shards' = DOMAIN shards \ {t}
      /\ \A w \in DOMAIN shards' : shards'[w] = shards[w]
  BY DEF Drop, Without
<1>2. heap' = Freed(shards', tasks) /\ tasks' = tasks /\ calls' = calls /\ t \notin DOMAIN calls
  BY Zenon DEF Drop, InCall
<1>3. DOMAIN heap \subseteq Cells
  BY Zenon DEF ZInv
<1>4. /\ DOMAIN heap' \subseteq DOMAIN heap /\ \A c \in DOMAIN heap' : heap'[c] = heap[c]
      /\ \A w \in DOMAIN shards', i \in Shards :
            shards'[w][i] \in DOMAIN heap => shards'[w][i] \in DOMAIN heap'
      /\ \A x \in tasks : x.cell \in DOMAIN heap => x.cell \in DOMAIN heap'
  BY <1>2, <1>3, FreedKeeps, ZenonT(30)
<1>5. \A w \in DOMAIN shards', i \in Shards :
         shards'[w][i] \in DOMAIN heap' /\ heap'[shards'[w][i]] = heap[shards[w][i]]
  BY <1>1, <1>4, SMTT(30), Z3T(30) DEF ZInv
<1>6. \A w \in DOMAIN shards' : shards'[w] \in [Shards -> DOMAIN heap']
  BY <1>1, <1>5, SMT, Z3 DEF ZInv
<1>7. /\ \A v, w \in DOMAIN shards', i, j \in Shards : shards'[v][i] = shards'[w][j] => i = j
      /\ \A w \in DOMAIN shards', i \in Shards :
            \A k \in DOMAIN heap'[shards'[w][i]] : ShardOf[k] = i
  BY <1>1, <1>5, SMTT(30), Z3T(30) DEF ZInv
<1>8. \A x \in tasks :
        /\ x.caller \in Tables \cup {None} /\ x.shard \in Shards /\ x.cell \in DOMAIN heap'
        /\ x = [caller |-> x.caller, shard |-> x.shard, cell |-> x.cell]
        /\ x.caller # None => x.caller \in DOMAIN calls /\ x.cell = shards'[x.caller][x.shard]
        /\ \A w \in DOMAIN shards', i \in Shards : shards'[w][i] = x.cell => i = x.shard
  BY <1>1, <1>2, <1>4, SMTT(30), Z3T(30) DEF ZInv, InCall
<1>9. /\ DOMAIN calls \subseteq DOMAIN shards'
      /\ \A w \in DOMAIN calls : \A i \in DOMAIN calls[w] :
            i \in Shards /\ calls[w][i] \in {Panicked, Active(heap'[shards'[w][i]])}
  BY <1>1, <1>2, <1>5, SMTT(30), Z3T(30) DEF ZInv
<1>10. /\ DOMAIN heap' \subseteq Cells /\ DOMAIN shards' \subseteq Tables
       /\ \A c \in DOMAIN heap' :
            DOMAIN heap'[c] \subseteq ZKeys /\ heap'[c] \in [DOMAIN heap'[c] -> Rows]
  BY <1>1, <1>4, ZenonT(30) DEF ZInv
<1> QED
  BY <1>2, <1>6, <1>7, <1>8, <1>9, <1>10, ZenonT(30) DEF ZInv, InCall

\* The tasks of a call read the shards of its table.
LEMMA SpawnInv ==
  ASSUME ZInv, NEW t \in Tables, Spawn(t)
  PROVE  ZInv'
<1>1. /\ heap' = heap /\ shards' = shards /\ t \in DOMAIN shards /\ t \notin DOMAIN calls
      /\ tasks' = tasks \cup {[caller |-> t, shard |-> i, cell |-> shards[t][i]] : i \in Shards}
  BY Zenon DEF Spawn, IsTable, InCall
<1>2. /\ DOMAIN calls' = DOMAIN calls \cup {t} /\ DOMAIN calls'[t] = {}
      /\ \A u \in DOMAIN calls : calls'[u] = calls[u]
  BY <1>1, Zenon DEF Spawn, With
<1>3. ASSUME NEW x \in tasks'
      PROVE  /\ x.caller \in Tables \cup {None} /\ x.shard \in Shards /\ x.cell \in DOMAIN heap
             /\ x = [caller |-> x.caller, shard |-> x.shard, cell |-> x.cell]
             /\ x.caller # None => x.caller \in DOMAIN calls' /\ x.cell = shards[x.caller][x.shard]
             /\ \A w \in DOMAIN shards, i \in Shards : shards[w][i] = x.cell => i = x.shard
  <2>1. CASE x \in tasks
    BY <1>2, <2>1, Zenon DEF ZInv, InCall
  <2>2. CASE x \notin tasks
    <3>1. PICK i \in Shards : x = [caller |-> t, shard |-> i, cell |-> shards[t][i]]
      BY <1>1, <2>2, Zenon
    <3>2. x.caller = t /\ x.shard = i /\ x.cell = shards[t][i]
      BY <3>1, Zenon
    <3>3. /\ t \in DOMAIN shards /\ shards[t] \in [Shards -> DOMAIN heap]
          /\ \A w \in DOMAIN shards, j \in Shards : shards[w][j] = shards[t][i] => j = i
      BY <1>1, SMTT(30), Z3T(30) DEF ZInv
    <3>4. x = [caller |-> x.caller, shard |-> x.shard, cell |-> x.cell]
      BY <3>1, <3>2, Zenon
    <3>5. t \in Tables /\ t \in DOMAIN calls'
      BY <1>2, Zenon
    <3> QED
      BY <3>2, <3>3, <3>4, <3>5, Zenon
  <2> QED
    BY <2>1, <2>2, Zenon
<1>4. /\ DOMAIN calls' \subseteq DOMAIN shards
      /\ \A u \in DOMAIN calls' : \A i \in DOMAIN calls'[u] :
            i \in Shards /\ calls'[u][i] \in {Panicked, Active(heap[shards[u][i]])}
  BY <1>1, <1>2, ZenonT(30) DEF ZInv
<1> QED
  BY <1>1, <1>3, <1>4, SMTT(30), Z3T(30) DEF ZInv, InCall


\* A task that ends reports what its shard holds, or that it panicked.
LEMMA EndTaskInv ==
  ASSUME ZInv, NEW x \in tasks, NEW r \in {Panicked, Active(heap[x.cell])}, EndTask(x, r)
  PROVE  ZInv'
<1>1. shards' = shards /\ tasks' = tasks \ {x} /\ heap' = Freed(shards, tasks')
  BY Zenon DEF EndTask
<1>2. DOMAIN heap \subseteq Cells
  BY ZenonT(30) DEF ZInv
<1>3. /\ DOMAIN heap' \subseteq DOMAIN heap /\ \A c \in DOMAIN heap' : heap'[c] = heap[c]
      /\ \A w \in DOMAIN shards, i \in Shards :
            shards[w][i] \in DOMAIN heap => shards[w][i] \in DOMAIN heap'
      /\ \A y \in tasks' : y.cell \in DOMAIN heap => y.cell \in DOMAIN heap'
  BY <1>1, <1>2, FreedKeeps, SMTT(30), Z3T(30)
<1>4. \A w \in DOMAIN shards, i \in Shards :
         shards[w][i] \in DOMAIN heap' /\ heap'[shards[w][i]] = heap[shards[w][i]]
  BY <1>3, SMTT(30), Z3T(30) DEF ZInv
<1>5. \A w \in DOMAIN shards : shards[w] \in [Shards -> DOMAIN heap']
  BY <1>4, Zenon DEF ZInv
<1>6. /\ DOMAIN calls' = DOMAIN calls
      /\ \A u \in DOMAIN calls : \A i \in DOMAIN calls'[u] :
            i \in Shards /\ calls'[u][i] \in {Panicked, Active(heap[shards[u][i]])}
  <2>1. CASE x.caller = None
    BY <2>1 DEF EndTask, ZInv
  <2>2. CASE x.caller # None
    <3>1. /\ x.caller \in DOMAIN calls /\ x.shard \in Shards
          /\ x.cell = shards[x.caller][x.shard]
      BY <2>2, Zenon DEF ZInv, InCall
    <3>2. /\ DOMAIN calls' = DOMAIN calls
          /\ calls'[x.caller] = With(calls[x.caller], x.shard, r)
          /\ \A u \in DOMAIN calls : u # x.caller => calls'[u] = calls[u]
      BY <2>2, <3>1, Zenon DEF EndTask
    <3>3. /\ DOMAIN calls'[x.caller] = DOMAIN calls[x.caller] \cup {x.shard}
          /\ calls'[x.caller][x.shard] = r
          /\ \A i \in DOMAIN calls[x.caller] :
                i # x.shard => calls'[x.caller][i] = calls[x.caller][i]
      BY <3>2, Zenon DEF With
    <3>4. ASSUME NEW u \in DOMAIN calls, NEW i \in DOMAIN calls'[u]
          PROVE  i \in Shards /\ calls'[u][i] \in {Panicked, Active(heap[shards[u][i]])}
      <4>1. CASE u # x.caller
        BY <3>2, <4>1, Zenon DEF ZInv
      <4>2. CASE u = x.caller /\ i = x.shard
        BY <3>1, <3>3, <4>2, Zenon
      <4>3. CASE u = x.caller /\ i # x.shard
        BY <3>3, <4>3, ZenonT(30) DEF ZInv
      <4> QED
        BY <4>1, <4>2, <4>3, Zenon
    <3> QED
      BY <3>2, <3>4, Zenon
  <2> QED
    BY <2>1, <2>2, ZenonT(30)
<1>7. \A u \in DOMAIN calls : \A i \in DOMAIN calls'[u] :
         i \in Shards /\ calls'[u][i] \in {Panicked, Active(heap'[shards[u][i]])}
  BY <1>4, <1>6, SMTT(30), Z3T(30) DEF ZInv
<1>8. /\ DOMAIN heap' \subseteq Cells
      /\ \A c \in DOMAIN heap' :
            DOMAIN heap'[c] \subseteq ZKeys /\ heap'[c] \in [DOMAIN heap'[c] -> Rows]
  BY <1>3, ZenonT(30) DEF ZInv
<1>9. \A w \in DOMAIN shards, i \in Shards :
         \A k \in DOMAIN heap'[shards[w][i]] : ShardOf[k] = i
  BY <1>4, SMTT(30), Z3T(30) DEF ZInv
<1>10. ASSUME NEW y \in tasks'
       PROVE  /\ y.caller \in Tables \cup {None} /\ y.shard \in Shards /\ y.cell \in DOMAIN heap'
              /\ y = [caller |-> y.caller, shard |-> y.shard, cell |-> y.cell]
              /\ y.caller # None => y.caller \in DOMAIN calls' /\ y.cell = shards[y.caller][y.shard]
              /\ \A w \in DOMAIN shards, i \in Shards : shards[w][i] = y.cell => i = y.shard
  <2>1. y \in tasks
    BY <1>1, ZenonT(30)
  <2> QED
    BY <1>3, <1>6, <2>1, ZenonT(30) DEF ZInv, InCall
<1>11. /\ DOMAIN calls' \subseteq DOMAIN shards /\ DOMAIN shards \subseteq Tables
       /\ \A v, w \in DOMAIN shards, i, j \in Shards : shards[v][i] = shards[w][j] => i = j
  BY <1>6 DEF ZInv
<1>12. /\ DOMAIN calls' \subseteq DOMAIN shards'
       /\ \A u \in DOMAIN calls' : \A i \in DOMAIN calls'[u] :
            i \in Shards /\ calls'[u][i] \in {Panicked, Active(heap'[shards'[u][i]])}
  BY <1>1, <1>6, <1>7, <1>11, Zenon
<1>13. shards' = shards
  BY <1>1
<1> QED
  BY <1>5, <1>8, <1>9, <1>10, <1>11, <1>12, <1>13, SMTT(30), Z3T(30) DEF ZInv, InCall

\* A call that ends leaves no task that would report to it.
LEMMA CallEndsInv ==
  ASSUME ZInv, NEW t \in Tables,
         calls' = Without(calls, t), heap' = heap, shards' = shards,
         \A y \in tasks' : \E x \in tasks :
            \/ y = x /\ x.caller # t
            \/ y = [x EXCEPT !.caller = None]
  PROVE  ZInv'
<1>1. /\ DOMAIN calls' = DOMAIN calls \ {t}
      /\ \A u \in DOMAIN calls' : calls'[u] = calls[u]
  BY DEF Without
<1>2. ASSUME NEW y \in tasks'
      PROVE  /\ y.caller \in Tables \cup {None} /\ y.shard \in Shards /\ y.cell \in DOMAIN heap
             /\ y = [caller |-> y.caller, shard |-> y.shard, cell |-> y.cell]
             /\ y.caller # None => y.caller \in DOMAIN calls' /\ y.cell = shards[y.caller][y.shard]
             /\ \A w \in DOMAIN shards, i \in Shards : shards[w][i] = y.cell => i = y.shard
  <2>1. PICK x \in tasks : \/ y = x /\ x.caller # t
                           \/ y = [x EXCEPT !.caller = None]
    OBVIOUS
  <2>2. x = [caller |-> x.caller, shard |-> x.shard, cell |-> x.cell]
    BY DEF ZInv
  <2>3. CASE y = x /\ x.caller # t
    BY <1>1, <2>3, SMT, Z3 DEF ZInv, InCall
  <2>4. CASE y = [x EXCEPT !.caller = None]
    <3>1. y = [caller |-> None, shard |-> x.shard, cell |-> x.cell]
      BY <2>2, <2>4
    <3> QED
      BY <3>1 DEF ZInv
  <2> QED
    BY <2>1, <2>3, <2>4
<1>3. /\ DOMAIN calls' \subseteq DOMAIN shards
      /\ \A u \in DOMAIN calls' : \A i \in DOMAIN calls'[u] :
            i \in Shards /\ calls'[u][i] \in {Panicked, Active(heap[shards[u][i]])}
  BY <1>1, Zenon DEF ZInv
<1> QED
  BY <1>2, <1>3 DEF ZInv, InCall

\* No task reports twice: the shard of a running task has no result yet.
Unreported ==
  \A x \in tasks : x.caller # None => x.shard \notin DOMAIN calls[x.caller]

\* The inductive invariant of the weighted tables.
TablesInv == ZInv /\ Unreported

\* Every step keeps the invariant.
LEMMA TablesStep == TablesInv /\ [ZNext]_ztable => TablesInv'
<1> SUFFICES ASSUME ZInv, Unreported, [ZNext]_ztable PROVE TablesInv'
  BY ZenonT(30) DEF TablesInv
<1>1. CASE UNCHANGED ztable
  <2>1. heap' = heap /\ shards' = shards /\ tasks' = tasks /\ calls' = calls
    BY <1>1 DEF ztable
  <2> QED
    BY <2>1 DEF TablesInv, ZInv, Unreported, InCall
<1>2. ASSUME NEW t \in Tables, NewWithShards(t) PROVE TablesInv'
  BY <1>2, NewInv, Zenon DEF TablesInv, Unreported, NewWithShards
<1>3. ASSUME NEW t \in Tables, NEW k \in ZKeys, NEW v \in ZValues, InsertRow(t, k, v)
      PROVE  TablesInv'
  BY <1>3, InsertRowInv, Zenon DEF TablesInv, Unreported, InsertRow
<1>4. ASSUME NEW t \in Tables, NEW k \in ZKeys, RemoveRow(t, k) PROVE TablesInv'
  <2>1. ZInv'
    BY <1>4, RemoveRowInv, Zenon
  <2> QED
    BY <1>4, <2>1 DEF TablesInv, Unreported, RemoveRow
<1>5. ASSUME NEW t \in Tables, NEW u \in Tables, Clone(t, u) PROVE TablesInv'
  BY <1>5, CloneInv, ZenonT(30) DEF TablesInv, Unreported, Clone
<1>6. ASSUME NEW t \in Tables, Drop(t) PROVE TablesInv'
  BY <1>6, DropInv DEF TablesInv, Unreported, Drop
<1>7. ASSUME NEW t \in Tables, Spawn(t) PROVE TablesInv'
  <2>1. /\ DOMAIN calls' = DOMAIN calls \cup {t} /\ DOMAIN calls'[t] = {}
        /\ \A u \in DOMAIN calls : u # t => calls'[u] = calls[u]
    BY <1>7, Zenon DEF Spawn, With
  <2>2. \A x \in tasks' : x \in tasks \/ x.caller = t
    BY <1>7, SMTT(30), Z3T(30) DEF Spawn
  <2>3. \A x \in tasks : x.caller # None => x.caller \in DOMAIN calls
    BY Zenon DEF ZInv, InCall
  <2>4. Unreported'
    BY <2>1, <2>2, <2>3, Zenon DEF Unreported
  <2> QED
    BY <1>7, <2>4, SpawnInv, Zenon DEF TablesInv
<1>8. ASSUME NEW x \in tasks, NEW r \in {Panicked, Active(heap[x.cell])}, EndTask(x, r)
      PROVE  TablesInv'
  <2>1. ASSUME NEW y \in tasks', y.caller # None PROVE y.shard \notin DOMAIN calls'[y.caller]
    <3>1. y \in tasks /\ y # x
      BY <1>8, Zenon DEF EndTask
    <3>2. /\ y.caller \in DOMAIN calls /\ y.cell = shards[y.caller][y.shard]
          /\ y = [caller |-> y.caller, shard |-> y.shard, cell |-> y.cell]
      BY <2>1, <3>1, Zenon DEF ZInv, InCall
    <3>3. y.shard \notin DOMAIN calls[y.caller]
      BY <2>1, <3>1, Zenon DEF Unreported
    <3>4. CASE y.caller # x.caller \/ x.caller = None
      BY <1>8, <3>2, <3>3, <3>4, Zenon DEF EndTask
    <3>5. CASE y.caller = x.caller /\ x.caller # None
      <4>1. /\ x.cell = shards[x.caller][x.shard]
            /\ x = [caller |-> x.caller, shard |-> x.shard, cell |-> x.cell]
        BY <3>5, Zenon DEF ZInv
      <4>2. y.shard # x.shard
        BY <3>1, <3>2, <3>5, <4>1, Zenon
      <4>3. DOMAIN calls'[x.caller] = DOMAIN calls[x.caller] \cup {x.shard}
        BY <1>8, <3>2, <3>5, Zenon DEF EndTask, With
      <4> QED
        BY <3>3, <3>5, <4>2, <4>3, Zenon
    <3> QED
      BY <3>4, <3>5, Zenon
  <2>2. Unreported'
    BY <2>1 DEF Unreported
  <2> QED
    BY <1>8, <2>2, EndTaskInv DEF TablesInv
<1>9. ASSUME NEW t \in Tables, Return(t) PROVE TablesInv'
  <2>1. tasks' = tasks /\ heap' = heap /\ shards' = shards /\ calls' = Without(calls, t)
    BY <1>9, Zenon DEF Return
  <2>2. \A x \in tasks : x.caller # t
    BY <1>9, NoneIsNone, ZenonT(30) DEF Return, Unreported, ZInv
  <2>3. ZInv'
    BY <2>1, <2>2, CallEndsInv, Zenon
  <2>4. Unreported'
    BY <2>1, <2>2, Zenon DEF Unreported, ZInv, InCall, Without
  <2> QED
    BY <2>3, <2>4 DEF TablesInv
<1>10. ASSUME NEW t \in Tables, CallPanics(t) PROVE TablesInv'
  <2>1. /\ heap' = heap /\ shards' = shards /\ calls' = Without(calls, t)
        /\ tasks' = {IF x.caller = t THEN [x EXCEPT !.caller = None] ELSE x : x \in tasks}
    BY <1>10 DEF CallPanics
  <2>2. ZInv'
    BY <2>1, CallEndsInv
  <2>3. Unreported'
    <3> SUFFICES ASSUME NEW y \in tasks', y.caller # None
                 PROVE  y.shard \notin DOMAIN calls'[y.caller]
      BY DEF Unreported
    <3>1. PICK x \in tasks : y = IF x.caller = t THEN [x EXCEPT !.caller = None] ELSE x
      BY <2>1, ZenonT(30)
    <3>2. x = [caller |-> x.caller, shard |-> x.shard, cell |-> x.cell]
      BY DEF ZInv
    <3>3. y = x /\ x.caller # t
      BY <3>1, <3>2, Zenon
    <3>4. y.caller \in DOMAIN calls
      BY <3>3, ZenonT(30) DEF ZInv, InCall
    <3> QED
      BY <2>1, <3>3, <3>4, Zenon DEF Unreported, Without
  <2> QED
    BY <2>2, <2>3 DEF TablesInv
<1> QED
  BY <1>1, <1>2, <1>3, <1>4, <1>5, <1>6, <1>7, <1>8, <1>9, <1>10, ZenonT(30)
     DEF ZNext, RunTask, TaskPanics


\* The invariant of the weighted tables holds for any number of tables, shards,
\* tasks and keys, and unbounded weights and memory.
LEMMA TablesConsistent == ZSpec => []TablesInv
<1>1. ZInit => TablesInv
  BY ZenonT(30) DEF ZInit, TablesInv, ZInv, Unreported
<1> QED
  BY <1>1, TablesStep, PTL DEF ZSpec

\* A call of map_reduce_active sees exactly the rows of positive weight of its
\* table, however many clones are written meanwhile.
THEOREM ReducesAreExact == ZSpec => []ReduceExact
<1>1. TablesInv => ReduceExact
  <2> SUFFICES ASSUME ZInv, NEW t \in DOMAIN calls, NEW i \in DOMAIN calls[t],
                      calls[t][i] # Panicked
               PROVE  calls[t][i] = {<<k, GetValue(t, k)>> :
                         k \in {j \in ZKeys : ShardOf[j] = i /\ GetWeight(t, j) > 0}}
    BY Zenon DEF TablesInv, ReduceExact
  <2> DEFINE m == heap[shards[t][i]]
  <2>1. /\ i \in Shards /\ t \in DOMAIN shards
        /\ calls[t][i] = {<<k, m[k].value>> : k \in {j \in DOMAIN m : m[j].weight > 0}}
    BY ZenonT(30) DEF ZInv, Active
  <2>2. ShardOK(m, i)
    <3>1. shards[t][i] \in DOMAIN heap
      BY <2>1, ZenonT(30) DEF ZInv
    <3> QED
      BY <2>1, <3>1, Zenon DEF ZInv, ShardOK
  <2>3. \A j \in ZKeys : ShardOf[j] = i => Shard(t, j) = m
    BY DEF Shard
  <2> HIDE DEF m
  <2>4. \A j \in DOMAIN m : m[j].weight \in Int
    BY <2>2 DEF ShardOK, Rows
  <2>5. {j \in DOMAIN m : m[j].weight > 0} = {j \in ZKeys : ShardOf[j] = i /\ GetWeight(t, j) > 0}
    BY <2>2, <2>3 DEF ShardOK, GetWeight
  <2>6. \A j \in DOMAIN m : m[j].weight > 0 => GetValue(t, j) = m[j].value
    BY <2>2, <2>3, <2>4 DEF ShardOK, GetValue
  <2> QED
    BY <2>1, <2>5, <2>6, SMTT(30), Z3T(30)
<1> QED
  BY <1>1, TablesConsistent, PTL

\* No task ever sees its shard change while it reads it, although the table is
\* no longer borrowed once the call has panicked.
THEOREM ReadersAreUndisturbed == ZSpec => ReadersUndisturbed
<1> DEFINE Same == \A x \in tasks : x.cell \in DOMAIN heap' => heap'[x.cell] = heap[x.cell]
<1>1. ASSUME TablesInv, [ZNext]_ztable PROVE Same
  <2> USE DEF TablesInv
  <2>1. CASE heap' = heap
    BY <2>1, Zenon
  <2>2. ASSUME NEW t \in Tables, NEW k \in ZKeys, NEW v \in ZValues, InsertRow(t, k, v)
        PROVE  Same
    BY <1>1, <2>2, InsertRowInv, Zenon DEF OnlyShard
  <2>3. ASSUME NEW t \in Tables, NEW k \in ZKeys, RemoveRow(t, k) PROVE Same
    BY <1>1, <2>3, RemoveRowInv, Zenon DEF OnlyShard
  <2>4. ASSUME NEW t \in Tables, NewWithShards(t) PROVE Same
    <3>1. \A x \in tasks : x.cell \in DOMAIN heap
      BY <1>1, Zenon DEF ZInv
    <3> QED
      BY <2>4, <3>1, Zenon DEF NewWithShards
  <2>5. ASSUME NEW sh, NEW ts, heap' = Freed(sh, ts) PROVE Same
    BY <2>5, Zenon DEF Freed
  <2>6. ASSUME NEW x \in tasks, RunTask(x) \/ TaskPanics(x) PROVE Same
    BY <2>5, <2>6, ZenonT(30) DEF RunTask, TaskPanics, EndTask
  <2> QED
    BY <1>1, <2>1, <2>2, <2>3, <2>4, <2>5, <2>6, ZenonT(30)
       DEF ZNext, ztable, Clone, Drop, Spawn, Return, CallPanics
<1> QED
  BY <1>1, TablesConsistent, PTL DEF ZSpec, ReadersUndisturbed


-----------------------------------------------------------------------------
(* The tables implement ZSet.                                              *)

\* The weight and the value of key k in a shard, as get_weight and get see them.
WeightIn(m, k) == IF k \in DOMAIN m THEN m[k].weight ELSE 0
ValueIn(m, k) == IF k \in DOMAIN m /\ m[k].weight >= 1 THEN m[k].value ELSE None

\* Inserting changes the weight and the value of its key only.
LEMMA InsertedRow ==
  ASSUME NEW m, m \in [DOMAIN m -> Rows], NEW k, NEW v
  PROVE  /\ WeightIn(Inserted(m, k, v), k) = WeightIn(m, k) + 1
         /\ ValueIn(Inserted(m, k, v), k) = IF WeightIn(m, k) >= 0 THEN v ELSE None
         /\ \A j : j # k => /\ WeightIn(Inserted(m, k, v), j) = WeightIn(m, j)
                            /\ ValueIn(Inserted(m, k, v), j) = ValueIn(m, j)
BY SMTT(30), Z3T(30) DEF WeightIn, ValueIn, Inserted, With, Rows

\* Removing changes the weight and the value of its key only.
LEMMA RemovedRow ==
  ASSUME NEW m, m \in [DOMAIN m -> Rows], NEW k
  PROVE  /\ WeightIn(Removed(m, k), k) = WeightIn(m, k) - 1
         /\ ValueIn(Removed(m, k), k) = IF WeightIn(m, k) > 1 THEN ValueIn(m, k) ELSE None
         /\ \A j : j # k => /\ WeightIn(Removed(m, k), j) = WeightIn(m, j)
                            /\ ValueIn(Removed(m, k), j) = ValueIn(m, j)
<1> DEFINE left == IF k \in DOMAIN m THEN [m[k] EXCEPT !.weight = @ - 1]
                   ELSE [weight |-> -1, value |-> Default]
<1>1. /\ left.weight = WeightIn(m, k) - 1 /\ WeightIn(m, k) \in Int
      /\ k \in DOMAIN m => left.value = m[k].value
  BY DEF WeightIn, Rows
<1>2. Removed(m, k) = IF left.weight = 0 THEN Without(m, k) ELSE With(m, k, left)
  BY Zenon DEF Removed
<1> HIDE DEF left
<1>3. CASE left.weight = 0
  <2>1. /\ DOMAIN Removed(m, k) = DOMAIN m \ {k}
        /\ \A j \in DOMAIN m \ {k} : Removed(m, k)[j] = m[j]
    BY <1>2, <1>3, SMT, Z3 DEF Without
  <2> QED
    BY <1>1, <1>3, <2>1 DEF WeightIn, ValueIn
<1>4. CASE left.weight # 0
  <2>1. /\ DOMAIN Removed(m, k) = DOMAIN m \cup {k} /\ Removed(m, k)[k] = left
        /\ \A j \in DOMAIN m : j # k => Removed(m, k)[j] = m[j]
    BY <1>2, <1>4 DEF With
  <2> QED
    BY <1>1, <1>4, <2>1, SMTT(30), Z3T(30) DEF WeightIn, ValueIn
<1> QED
  BY <1>3, <1>4

\* A change of one shard that changes one row changes one weight and value.
LEMMA OneRow ==
  ASSUME ZInv, NEW t \in DOMAIN shards, NEW k \in ZKeys, NEW content, NEW w, NEW v,
         OnlyShard(t, ShardOf[k], content),
         WeightIn(content, k) = w, ValueIn(content, k) = v,
         \A j : j # k => /\ WeightIn(content, j) = WeightIn(Shard(t, k), j)
                         /\ ValueIn(content, j) = ValueIn(Shard(t, k), j)
  PROVE  /\ Weights' = [Weights EXCEPT ![t][k] = w]
         /\ Shown' = [Shown EXCEPT ![t][k] = v]
<1>1. ASSUME NEW u \in DOMAIN shards, NEW j \in ZKeys
      PROVE  Shard(u, j)' = IF u = t /\ ShardOf[j] = ShardOf[k] THEN content ELSE Shard(u, j)
  BY ShardOfType, SMTT(30), Z3T(30) DEF Shard, OnlyShard
<1>2. ASSUME NEW u \in DOMAIN shards, NEW j \in ZKeys
      PROVE  /\ GetWeight(u, j)' = IF u = t /\ j = k THEN w ELSE GetWeight(u, j)
             /\ GetValue(u, j)' = IF u = t /\ j = k THEN v ELSE GetValue(u, j)
  <2>1. /\ GetWeight(u, j) = WeightIn(Shard(u, j), j) /\ GetValue(u, j) = ValueIn(Shard(u, j), j)
        /\ GetWeight(u, j)' = WeightIn(Shard(u, j)', j)
        /\ GetValue(u, j)' = ValueIn(Shard(u, j)', j)
    BY Zenon DEF GetWeight, GetValue, WeightIn, ValueIn
  <2>2. CASE u = t /\ ShardOf[j] = ShardOf[k]
    <3>1. Shard(u, j)' = content /\ Shard(t, k) = Shard(u, j)
      BY <1>1, <2>2, Zenon DEF Shard
    <3> QED
      BY <2>1, <2>2, <3>1, Zenon
  <2>3. CASE ~(u = t /\ ShardOf[j] = ShardOf[k])
    <3>1. Shard(u, j)' = Shard(u, j) /\ ~(u = t /\ j = k)
      BY <1>1, <2>3, Zenon
    <3> QED
      BY <2>1, <3>1, Zenon
  <2> QED
    BY <2>2, <2>3, Zenon
<1>3. DOMAIN shards' = DOMAIN shards
  BY Zenon DEF OnlyShard
<1> QED
  BY <1>2, <1>3, ZenonT(30) DEF Weights, Shown


\* A step that leaves tables and their shards alone changes no weight.
LEMMA SameRows ==
  ASSUME DOMAIN shards' = DOMAIN shards,
         \A t \in DOMAIN shards, i \in Shards : heap'[shards'[t][i]] = heap[shards[t][i]]
  PROVE  Weights' = Weights /\ Shown' = Shown
<1>1. \A t \in DOMAIN shards, k \in ZKeys : heap'[shards'[t][ShardOf[k]]] = Shard(t, k)
  BY ShardOfType, Zenon DEF Shard
<1>2. \A t \in DOMAIN shards, k \in ZKeys :
         GetWeight(t, k)' = GetWeight(t, k) /\ GetValue(t, k)' = GetValue(t, k)
  BY <1>1, Zenon DEF GetWeight, GetValue, Shard
<1> QED
  BY <1>2, Zenon DEF Weights, Shown

\* Tables that come and go leave the weights of the others alone.
LEMMA OtherRows ==
  ASSUME NEW S, S \subseteq DOMAIN shards, S \subseteq DOMAIN shards',
         \A t \in S, i \in Shards : heap'[shards'[t][i]] = heap[shards[t][i]]
  PROVE  \A t \in S : Weights'[t] = Weights[t] /\ Shown'[t] = Shown[t]
<1>1. \A t \in S, k \in ZKeys : heap'[shards'[t][ShardOf[k]]] = Shard(t, k)
  BY ShardOfType, Zenon DEF Shard
<1>2. \A t \in S, k \in ZKeys :
         GetWeight(t, k)' = GetWeight(t, k) /\ GetValue(t, k)' = GetValue(t, k)
  BY <1>1, ZenonT(30) DEF GetWeight, GetValue, Shard
<1> QED
  BY <1>2, Zenon DEF Weights, Shown


\* Every step of the tables is a step of the weighted set, or changes none.
LEMMA TablesImplement ==
  ASSUME ZInv, [ZNext]_ztable
  PROVE  [Sets!Next]_<<Weights, Shown>>
<1> DEFINE Goal == [Sets!Next]_<<Weights, Shown>>
<1> USE DEF Sets!Next
<1>1. DOMAIN Weights = DOMAIN shards /\ DOMAIN Shown = DOMAIN shards
  BY DEF Weights, Shown
<1>2. DOMAIN Weights' = DOMAIN shards' /\ DOMAIN Shown' = DOMAIN shards'
  BY DEF Weights, Shown
<1>3. \A t \in DOMAIN shards : /\ Weights[t] = [k \in ZKeys |-> GetWeight(t, k)]
                               /\ Shown[t] = [k \in ZKeys |-> GetValue(t, k)]
  BY ZenonT(30) DEF Weights, Shown
<1>4. ASSUME heap' = heap, shards' = shards PROVE Goal
  BY <1>4, SameRows
<1>5. ASSUME NEW t \in Tables, NewWithShards(t) PROVE Goal
  <2>1. PICK place \in Injection(Shards, Cells \ DOMAIN heap) :
          /\ heap' = [c \in DOMAIN heap \cup Range(place) |->
                       IF c \in DOMAIN heap THEN heap[c] ELSE EmptyShard]
          /\ shards' = With(shards, t, place)
    BY <1>5 DEF NewWithShards
  <2>2. /\ DOMAIN shards' = DOMAIN shards \cup {t} /\ shards'[t] = place /\ t \notin DOMAIN shards
        /\ \A u \in DOMAIN shards : shards'[u] = shards[u]
    BY <1>5, <2>1, Zenon DEF With, NewWithShards, IsTable
  <2>3. \A i \in Shards : heap'[place[i]] = EmptyShard
    BY <2>1, Zenon DEF Injection, Range
  <2>4. \A u \in DOMAIN shards, i \in Shards : heap'[shards'[u][i]] = heap[shards[u][i]]
    BY <2>1, <2>2, ZenonT(30) DEF ZInv
  <2>5. \A u \in DOMAIN shards : Weights'[u] = Weights[u] /\ Shown'[u] = Shown[u]
    BY <2>2, <2>4, OtherRows, Zenon
  <2>6. \A k \in ZKeys : GetWeight(t, k)' = 0 /\ GetValue(t, k)' = None
    BY <2>2, <2>3, ShardOfType, ZenonT(30) DEF GetWeight, GetValue, Shard, EmptyShard
  <2>7. Weights'[t] = [k \in ZKeys |-> 0] /\ Shown'[t] = [k \in ZKeys |-> None]
    BY <2>2, <2>6, Zenon DEF Weights, Shown
  <2>8. Weights' = Sets!With(Weights, t, [k \in ZKeys |-> 0])
    BY <1>1, <2>2, <2>5, <2>7, Zenon DEF Weights, Sets!With
  <2>9. Shown' = Sets!With(Shown, t, [k \in ZKeys |-> None])
    BY <1>1, <2>2, <2>5, <2>7, Zenon DEF Shown, Sets!With
  <2>10. Sets!New(t)
    BY <1>1, <2>2, <2>8, <2>9, Zenon DEF Sets!New
  <2> QED
    BY <2>10
<1>6. ASSUME NEW t \in Tables, NEW k \in ZKeys, NEW v \in ZValues, InsertRow(t, k, v) PROVE Goal
  <2> DEFINE m == Shard(t, k)
  <2>1. t \in DOMAIN shards
    BY <1>6 DEF InsertRow, IsTable
  <2>2. m \in [DOMAIN m -> Rows]
    BY <2>1, ShardOfKeyOK, Zenon DEF ShardOK
  <2>3. GetWeight(t, k) = WeightIn(m, k)
    BY Zenon DEF GetWeight, WeightIn
  <2> HIDE DEF m
  <2>4. /\ WeightIn(Inserted(m, k, v), k) = GetWeight(t, k) + 1
        /\ ValueIn(Inserted(m, k, v), k) = IF GetWeight(t, k) >= 0 THEN v ELSE None
        /\ \A j : j # k => /\ WeightIn(Inserted(m, k, v), j) = WeightIn(m, j)
                           /\ ValueIn(Inserted(m, k, v), j) = ValueIn(m, j)
    BY <2>2, <2>3, InsertedRow, SMT, Z3
  <2>5. OnlyShard(t, ShardOf[k], Inserted(m, k, v))
    BY <1>6, InsertRowInv, ZenonT(30) DEF m
  <2>6. /\ Weights' = [Weights EXCEPT ![t][k] = GetWeight(t, k) + 1]
        /\ Shown' = [Shown EXCEPT ![t][k] = IF GetWeight(t, k) >= 0 THEN v ELSE None]
    BY <2>1, <2>4, <2>5, OneRow DEF m
  <2>7. Weights[t][k] = GetWeight(t, k)
    BY <1>3, <2>1, ZenonT(30)
  <2>8. Sets!Insert(t, k, v)
    BY <1>1, <2>1, <2>6, <2>7, Zenon DEF Sets!Insert
  <2> QED
    BY <2>8
<1>7. ASSUME NEW t \in Tables, NEW k \in ZKeys, RemoveRow(t, k) PROVE Goal
  <2> DEFINE m == Shard(t, k)
  <2>1. t \in DOMAIN shards
    BY <1>7 DEF RemoveRow, IsTable
  <2>2. m \in [DOMAIN m -> Rows]
    BY <2>1, ShardOfKeyOK DEF ShardOK
  <2>3. GetWeight(t, k) = WeightIn(m, k) /\ GetValue(t, k) = ValueIn(m, k)
    BY Zenon DEF GetWeight, GetValue, WeightIn, ValueIn
  <2> HIDE DEF m
  <2>4. /\ WeightIn(Removed(m, k), k) = GetWeight(t, k) - 1
        /\ ValueIn(Removed(m, k), k) = IF GetWeight(t, k) > 1 THEN GetValue(t, k) ELSE None
        /\ \A j : j # k => /\ WeightIn(Removed(m, k), j) = WeightIn(m, j)
                           /\ ValueIn(Removed(m, k), j) = ValueIn(m, j)
    BY <2>2, <2>3, RemovedRow
  <2>5. OnlyShard(t, ShardOf[k], Removed(m, k))
    BY <1>7, RemoveRowInv, ZenonT(30) DEF m
  <2>6. /\ Weights' = [Weights EXCEPT ![t][k] = GetWeight(t, k) - 1]
        /\ Shown' = [Shown EXCEPT ![t][k] = IF GetWeight(t, k) > 1 THEN GetValue(t, k) ELSE None]
    BY <2>1, <2>4, <2>5, OneRow DEF m
  <2>7. Weights[t][k] = GetWeight(t, k) /\ Shown[t][k] = GetValue(t, k)
    BY <1>3, <2>1, ZenonT(30)
  <2>8. Sets!Remove(t, k)
    BY <1>1, <2>1, <2>6, <2>7 DEF Sets!Remove
  <2> QED
    BY <2>8
<1>8. ASSUME NEW t \in Tables, NEW u \in Tables, Clone(t, u) PROVE Goal
  <2>1. /\ DOMAIN shards' = DOMAIN shards \cup {u} /\ t \in DOMAIN shards
        /\ u \notin DOMAIN shards /\ shards'[u] = shards[t] /\ heap' = heap
        /\ \A w \in DOMAIN shards : shards'[w] = shards[w]
    BY <1>8, Zenon DEF Clone, With, IsTable
  <2>2. \A w \in DOMAIN shards : Weights'[w] = Weights[w] /\ Shown'[w] = Shown[w]
    BY <2>1, OtherRows, Zenon
  <2>3. \A k \in ZKeys : GetWeight(u, k)' = GetWeight(t, k) /\ GetValue(u, k)' = GetValue(t, k)
    BY <2>1, Zenon DEF GetWeight, GetValue, Shard
  <2>4. Weights'[u] = Weights[t] /\ Shown'[u] = Shown[t]
    BY <2>1, <2>3, ZenonT(30) DEF Weights, Shown
  <2>5. Weights' = Sets!With(Weights, u, Weights[t])
    BY <1>1, <2>1, <2>2, <2>4 DEF Weights, Sets!With
  <2>6. Shown' = Sets!With(Shown, u, Shown[t])
    BY <1>1, <2>1, <2>2, <2>4, Zenon DEF Shown, Sets!With
  <2>7. Sets!Clone(t, u)
    BY <1>1, <2>1, <2>5, <2>6, Zenon DEF Sets!Clone
  <2> QED
    BY <2>7
<1>9. ASSUME NEW t \in Tables, Drop(t) PROVE Goal
  <2>1. /\ DOMAIN shards' = DOMAIN shards \ {t} /\ t \in DOMAIN shards
        /\ heap' = Freed(shards', tasks)
        /\ \A w \in DOMAIN shards' : shards'[w] = shards[w]
    BY <1>9, Zenon DEF Drop, Without, IsTable
  <2>2. DOMAIN heap \subseteq Cells
    BY Zenon DEF ZInv
  <2>3. /\ \A c \in DOMAIN heap' : heap'[c] = heap[c]
        /\ \A w \in DOMAIN shards', i \in Shards :
              shards'[w][i] \in DOMAIN heap => shards'[w][i] \in DOMAIN heap'
    BY <2>1, <2>2, FreedKeeps, ZenonT(30)
  <2>4. \A w \in DOMAIN shards', i \in Shards : heap'[shards'[w][i]] = heap[shards[w][i]]
    BY <2>1, <2>3 DEF ZInv
  <2>5. \A w \in DOMAIN shards' : Weights'[w] = Weights[w] /\ Shown'[w] = Shown[w]
    BY <2>1, <2>4, OtherRows, Zenon
  <2>6. Weights' = Sets!Without(Weights, t)
    BY <1>1, <2>1, <2>5, Zenon DEF Weights, Sets!Without
  <2>7. Shown' = Sets!Without(Shown, t)
    BY <1>1, <2>1, <2>5, Zenon DEF Shown, Sets!Without
  <2>8. Sets!Drop(t)
    BY <1>1, <2>1, <2>6, <2>7, Zenon DEF Sets!Drop
  <2> QED
    BY <2>8
<1>10. ASSUME NEW x \in tasks, NEW r, EndTask(x, r) PROVE Goal
  <2>1. shards' = shards /\ heap' = Freed(shards, tasks')
    BY <1>10, Zenon DEF EndTask
  <2>2. DOMAIN heap \subseteq Cells
    BY Zenon DEF ZInv
  <2>3. /\ \A c \in DOMAIN heap' : heap'[c] = heap[c]
        /\ \A w \in DOMAIN shards, i \in Shards :
              shards[w][i] \in DOMAIN heap => shards[w][i] \in DOMAIN heap'
    BY <2>1, <2>2, FreedKeeps, Zenon
  <2>4. \A w \in DOMAIN shards, i \in Shards : heap'[shards'[w][i]] = heap[shards[w][i]]
    BY <2>1, <2>3, ZenonT(30) DEF ZInv
  <2> QED
    BY <2>1, <2>4, SameRows, Zenon
<1> HIDE DEF Goal, Sets!Next
<1>11. ASSUME NEW t \in Tables, Spawn(t) \/ Return(t) \/ CallPanics(t) PROVE Goal
  BY <1>4, <1>11, Zenon DEF Spawn, Return, CallPanics
<1>12. ASSUME NEW x \in tasks, RunTask(x) \/ TaskPanics(x) PROVE Goal
  BY <1>10, <1>12 DEF RunTask, TaskPanics
<1>13. UNCHANGED ztable => Goal
  BY <1>4, Zenon DEF ztable
<1>14. ZNext => Goal
  BY <1>5, <1>6, <1>7, <1>8, <1>9, <1>11, <1>12, Zenon DEF ZNext
<1> QED
  BY <1>13, <1>14 DEF Goal

\* Every table and every clone has weights of its own: an insertion or a removal
\* shows in the table it was made in, by one, and nowhere else.
THEOREM TablesOwnTheirWeights == ZSpec => OwnWeights
<1>1. ZInit => Sets!Init
  BY DEF ZInit, Sets!Init, Weights, Shown
<1>2. ZInv /\ [ZNext]_ztable => [Sets!Next]_<<Weights, Shown>>
  BY TablesImplement
<1>3. TablesInv => ZInv
  BY DEF TablesInv
<1> QED
  BY <1>1, <1>2, <1>3, TablesConsistent, PTL DEF ZSpec, OwnWeights, Sets!Spec
=============================================================================
