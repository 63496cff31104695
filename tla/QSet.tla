-------------------------------- MODULE QSet --------------------------------
(***************************************************************************)
(* The set of zhwkre/containers/set.c, an AVL tree under another name, the *)
(* operations on two sets it adds, and an iterator the program keeps while *)
(* it inserts and erases.                                                  *)
(***************************************************************************)
EXTENDS AVLTree, FiniteSets

CONSTANTS
    Others,   \* the second operands tried: sequences of keys, as they are inserted
    Dangling  \* an iterator whose node has been freed

ASSUME QSetAssumption ==
    /\ Others \subseteq Seq(Keys)
    /\ Dangling \notin Keys \cup {Nil}

VARIABLES
    sdesc,  \* the descriptor
    elems,  \* what was inserted and not erased
    siter   \* the element an iterator's node holds, Nil, or Dangling

svars == <<sdesc, elems, siter>>

SetInit == sdesc = qAVLTree_constructor /\ elems = {} /\ siter = Nil

\* qSet_insert: -1 and nothing to be changed when the element is there, or when
\* there is no memory.
SetInsert(k) ==
    \E ok \in IF MallocFails THEN BOOLEAN ELSE {TRUE} :
        LET ins == qAVLTree__insert(sdesc, k, ok)
        IN /\ sdesc' = ins.desc
           /\ elems' = IF ins.st = 0 THEN elems \cup {k} ELSE elems
           /\ siter' = siter

\* qSet_ptr_at, then qSet_erase with the iterator it has set.
SetErase(k) ==
    /\ qAVLTree__ptr_at(sdesc, k) = 0
    /\ sdesc' = qAVLTree__erase(sdesc, k)
    /\ elems' = elems \ {k}
    /\ LET freed == qAVLTree__freed(sdesc, k)
       IN siter' = CASE siter = freed -> Dangling
                     [] siter # freed /\ siter = k -> freed
                     [] OTHER -> siter

\* qSet_destructor, and a new set in its place.
SetDestructor ==
    /\ sdesc.root # Empty
    /\ sdesc' = qAVLTree_constructor
    /\ elems' = {}
    /\ siter' = IF siter = Nil THEN Nil ELSE Dangling

\* qSet_ptr_at, begin, end, next and prev: the iterator moves.
SetMove ==
    /\ siter' \in {k \in Keys : qAVLTree__ptr_at(sdesc, k) = 0}
                     \cup {qAVLTree_begin(sdesc), qAVLTree_end(sdesc)}
                     \cup (IF siter \in Keys THEN {sdesc.next[siter], sdesc.prev[siter]} ELSE {})
    /\ UNCHANGED <<sdesc, elems>>

SetNext ==
    \/ \E k \in Keys : SetInsert(k) \/ SetErase(k)
    \/ SetDestructor \/ SetMove

SetSpec == SetInit /\ [][SetNext]_svars

-----------------------------------------------------------------------------
(***************************************************************************)
(* The operations on two sets walk through one of them.                    *)
(***************************************************************************)
Iterated(d) == Follow(d.next, qAVLTree_begin(d), Cardinality(Keys) + 1)
\* A loop over the elements ks that inserts into d those that keep lets through.
InsertAll(d, ks, keep) ==
    LET with[i \in 0..Len(ks)] ==
            IF i = 0 THEN d
            ELSE IF keep[ks[i]] THEN qAVLTree__insert(with[i - 1], ks[i], TRUE).desc
                                ELSE with[i - 1]
    IN with[Len(ks)]

All == [k \in Keys |-> TRUE]
Within(d) == [k \in Keys |-> qAVLTree__ptr_at(d, k) = 0]
Outside(d) == [k \in Keys |-> qAVLTree__ptr_at(d, k) # 0]

qSet_union(a, b) == InsertAll(InsertAll(qAVLTree_constructor, Iterated(a), All), Iterated(b), All)
\* Seeded fault: the result of ptr_at taken for a truth value.
intersect_Inverted(a, b) == InsertAll(qAVLTree_constructor, Iterated(a), Outside(b))
qSet_intersect(a, b) == InsertAll(qAVLTree_constructor, Iterated(a), Within(b))
qSet_difference(a, b) == InsertAll(qAVLTree_constructor, Iterated(a), Outside(b))
qSet_issubset(a, b) == \A i \in DOMAIN Iterated(a) : qAVLTree__ptr_at(b, Iterated(a)[i]) = 0
qSet_isequal(a, b) == a.size = b.size /\ qSet_issubset(a, b)

-----------------------------------------------------------------------------
\* The subtrees at each depth of t.
Level(t) ==
    LET below[i \in 0..Deepest] ==
            IF i = 0 THEN {t} \ {Empty}
            ELSE (UNION {{s.l, s.r} : s \in below[i - 1]}) \ {Empty}
    IN below

\* Lookup finds exactly the elements inserted and not erased, and size is their
\* number, whatever rotations and swaps have happened in between.
SetFound ==
    /\ \A k \in Keys : (qAVLTree__ptr_at(sdesc, k) = 0) <=> (k \in elems)
    /\ sdesc.size = Cardinality(elems)

\* Iterating forwards and backwards visits each element once, in order; the
\* destructor, which frees along the list, frees each node once.
Threaded ==
    /\ Lists(Iterated(sdesc), elems)
    /\ Reverse(Iterated(sdesc)) = Follow(sdesc.prev, qAVLTree_end(sdesc), Cardinality(Keys) + 1)

\* The number of nodes on the longest way down from t.
TrueHeight(t) ==
    CHOOSE i \in 0..Deepest : Level(t)[i] = {} /\ \A j \in 0..(i - 1) : Level(t)[j] # {}
Subtrees(t) == UNION {Level(t)[i] : i \in 0..TrueHeight(t)}

\* The stored heights are the heights: recursive_delete frees the node it is at
\* when its stored height is 1, and would lose its children if that were wrong.
HeightsExact == \A t \in Subtrees(sdesc.root) : t.h = TrueHeight(t)

\* What left_balance and right_balance are for ("trigger rotation"): at no node the
\* heights of the two subtrees differ by more than one.
Balanced == \A t \in Subtrees(sdesc.root) : get_blfactor(t) \in -1..1

\* d is a threaded search tree of the elements S.
Builds(d, S) == /\ Lists(Iterated(d), S)
                /\ d.size = Cardinality(S) /\ \A k \in S : qAVLTree__ptr_at(d, k) = 0
\* What the set and d make together, where d holds S.
Agrees(d, S) ==
    /\ Builds(qSet_union(sdesc, d), elems \cup S)
    /\ Builds(qSet_intersect(sdesc, d), elems \cap S)
    /\ Builds(qSet_difference(sdesc, d), elems \ S)
    /\ qSet_isequal(sdesc, d) <=> elems = S
    /\ qSet_issubset(sdesc, d) <=> elems \subseteq S

\* Union, intersection, difference, equality and inclusion are those of sets, and
\* what they build is again a threaded search tree.
Algebra ==
    /\ Agrees(sdesc, elems)
    /\ \A ks \in Others : Agrees(InsertAll(qAVLTree_constructor, ks, All), ToSet(ks))

\* No element lies between j and k.
Neighbours(j, k, S) == ~\E x \in S : (j < x /\ x < k) \/ (k < x /\ x < j)

\* An erase leaves an iterator on another element where it is, unless that element
\* is next to the erased one, whose node may be the one that is freed; an iterator
\* on the erased element goes to such a neighbour or dangles.  So a program that
\* goes on with an iterator after erasing what is next to it reads freed memory.
IteratorsSurvive ==
    [][\A k \in elems : elems' = elems \ {k} /\ siter \in elems =>
          IF Neighbours(siter, k, elems) THEN siter' \in elems' \cup {Dangling}
                                              /\ (siter' # Dangling => Neighbours(siter', k, elems))
                                         ELSE siter' = siter]_svars
=============================================================================
