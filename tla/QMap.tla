-------------------------------- MODULE QMap --------------------------------
(***************************************************************************)
(* The hash map of zhwkre/containers/unordered_map.c: an array of lists of *)
(* pairs of a key and a value.  All keys have the same length.             *)
(***************************************************************************)
EXTENDS QList

CONSTANT Maxhashv  \* the number of lists
ASSUME MapAssumption == Maxhashv \in Nat \ {0}

VARIABLES
    map,  \* the array and counts
    dict  \* the value each key should have, or Nil

mvars == <<map, dict>>

\* The hash function the caller passes in, as q__uhashf a remainder.
q__uhashf(k) == k % Maxhashv

qMap_constructor == [listArray |-> [h \in 0..(Maxhashv - 1) |-> qList_constructor], counts |-> 0]

\* The node of the first pair with the key k that a loop over a list meets, or NULL.
Find(L, k) ==
    LET ns == qList_foreach(L)
        at == {i \in DOMAIN ns : L.node[ns[i]].data.key = k}
    IN IF at = {} THEN Nil ELSE ns[Min(at)]

q__Map_ptr_at(m, k) ==
    LET L == m.listArray[q__uhashf(k)]
        n == Find(L, k)
    IN IF n = Nil THEN Nil ELSE L.node[n].data

\* Seeded fault: a key that is there is added again.
Map_insert_Again(m, k, v, outcome) ==
    [listArray |-> [m.listArray EXCEPT ![q__uhashf(k)] =
                       q__List_push_back(@, [key |-> k, value |-> v], "done")],
     counts    |-> m.counts + 1]

\* The value of a key that is there is replaced.  Otherwise a pair is made, if there is
\* memory for it (else -1), and pushed; whether the push succeeds is not looked at.
q__Map_insert(m, k, v, outcome) ==
    LET h == q__uhashf(k)
        n == Find(m.listArray[h], k)
    IN IF n # Nil THEN [m EXCEPT !.listArray[h].node[n].data.value = v]
       ELSE IF outcome = "pair" THEN m
       ELSE [listArray |-> [m.listArray EXCEPT ![h] =
                               q__List_push_back(@, [key |-> k, value |-> v], outcome)],
             counts    |-> m.counts + 1]

q__Map_erase(m, k) ==
    LET h == q__uhashf(k)
        n == Find(m.listArray[h], k)
    IN IF n = Nil THEN m
       ELSE [listArray |-> [m.listArray EXCEPT ![h] = q__List_erase_elem(@, n)],
             counts    |-> m.counts - 1]

q__Map_clear(m) ==
    [listArray |-> [h \in DOMAIN m.listArray |->
                       IF m.listArray[h].size = 0 THEN m.listArray[h] ELSE qList_constructor],
     counts    |-> 0]

-----------------------------------------------------------------------------
MapInit == map = qMap_constructor /\ dict = [k \in Items |-> Nil]

\* (A push that gets no memory for its data leaves a node without any, and the next
\* search of that list ends the program.)
MapInsert(k, v) ==
    \E outcome \in IF MallocFails THEN {"done", "pair", "node"} ELSE {"done"} :
        /\ map' = q__Map_insert(map, k, v, outcome)
        /\ dict' = IF outcome = "done" \/ dict[k] # Nil THEN [dict EXCEPT ![k] = v] ELSE dict

MapErase(k) == map' = q__Map_erase(map, k) /\ dict' = [dict EXCEPT ![k] = Nil]

MapClear == map' = q__Map_clear(map) /\ dict' = [k \in Items |-> Nil]

MapNext ==
    \/ \E k, v \in Items : MapInsert(k, v)
    \/ \E k \in Items : MapErase(k)
    \/ MapClear

MapSpec == MapInit /\ [][MapNext]_mvars

-----------------------------------------------------------------------------
\* A key leads to the value it was given last, in whatever order the keys of its list
\* came and went, and to nothing when it was erased; counts is the number of keys.
MapFound ==
    /\ \A k \in Items :
          LET found == q__Map_ptr_at(map, k)
          IN IF dict[k] = Nil THEN found = Nil ELSE found = [key |-> k, value |-> dict[k]]
    /\ map.counts = Cardinality({k \in Items : dict[k] # Nil})

\* The pairs of the keys ks with their values.
Pairs(len, ks, d) == [i \in 1..len |-> [key |-> ks[i], value |-> d[ks[i]]]]

\* The list L consists of len nodes ns with the keys ks: each key with the hash h that
\* has a value, once and with that value.
HashList(L, h, d, len, ns, ks) ==
    /\ len \in Nat
    /\ Represents(L, len, ns, Pairs(len, ks, d))
    /\ \A i, j \in 1..len : ks[i] = ks[j] => i = j
    /\ {ks[i] : i \in 1..len} = {k \in Items : d[k] # Nil /\ q__uhashf(k) = h}

\* The keys of a list, in the order of its nodes.
KeysOf(L) == LET ns == qList_foreach(L) IN [i \in DOMAIN ns |-> L.node[ns[i]].data.key]

\* There is a list for each hash.
Filed(listArray, d) ==
    /\ DOMAIN listArray = 0..(Maxhashv - 1)
    /\ \A h \in 0..(Maxhashv - 1) :
          LET L == listArray[h] IN HashList(L, h, d, L.size, qList_foreach(L), KeysOf(L))

\* Each list of the map has the keys of its hash, and counts is the number of all of them.
MapInv ==
    /\ dict \in [Items -> Items \cup {Nil}]
    /\ map = [listArray |-> map.listArray, counts |-> map.counts]
    /\ Filed(map.listArray, dict)
    /\ IsFiniteSet({k \in Items : dict[k] # Nil})
    /\ map.counts = Cardinality({k \in Items : dict[k] # Nil})
=============================================================================
