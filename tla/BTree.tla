------------------------------- MODULE BTree -------------------------------
(***************************************************************************)
(* The B-tree of zhwkre/containers/btree.c: one or two pairs in a node and *)
(* up to three children.  A pair is its key, a subtree is Absent or a      *)
(* record of the node's two arrays; kv[1] = Nil is a node with a single    *)
(* pair.  extrakv and extrachild hold what a full node was given too much  *)
(* until its parent splits it.  An iterator is the child numbers of its    *)
(* track and the index which of the pair it is at.                         *)
(***************************************************************************)
EXTENDS OrderedKeys

CONSTANTS
    BTreeKeys,  \* the keys of the pairs
    Ascending   \* does the caller insert in ascending order, as btree_test.c does?

ASSUME BTreeAssumption ==
    /\ BTreeKeys \subseteq Int /\ IsFiniteSet(BTreeKeys)
    /\ Nil \notin BTreeKeys /\ Nil \notin [track : Seq(0..2), which : 0..1]
    /\ Ascending \in BOOLEAN

VARIABLES
    broot,  \* desc.root
    bsize,  \* desc.size
    bkeys   \* what was inserted and not erased

bvars == <<broot, bsize, bkeys>>

\* NULL where a subtree is expected.
Absent == [kv |-> [i \in 0..1 |-> Nil]]

Node(k0, k1, c0, c1, c2) ==
    [kv |-> [i \in 0..1 |-> IF i = 0 THEN k0 ELSE k1],
     childs |-> [i \in 0..2 |-> IF i = 0 THEN c0 ELSE IF i = 1 THEN c1 ELSE c2],
     extrakv |-> Nil, extrachild |-> Absent]

WithPair(t, i, k) == [t EXCEPT !.kv[i] = k]
WithSub(t, i, c) == [t EXCEPT !.childs[i] = c]
Overfull(t, k, c) == [t EXCEPT !.extrakv = k, !.extrachild = c]

LastPair(t) == IF t.kv[1] = Nil THEN 0 ELSE 1
IsLeaf(t) == \A i \in 0..2 : t.childs[i] = Absent

-----------------------------------------------------------------------------
(***************************************************************************)
(* Walks.  A recursion on its way down goes from a node to one of its      *)
(* children; on its way back it deals with what has become of that child.  *)
(***************************************************************************)
\* No node lies deeper: each holds a key of its own.
BTreeDeepest == Cardinality(BTreeKeys)

\* The comparisons with the pairs of a node: the pair that holds k, or -1, and the
\* child to go on with.
PairOf(t, k) == CASE k = t.kv[0] -> 0 [] k # t.kv[0] /\ k = t.kv[1] -> 1 [] OTHER -> -1
Way(t, k) == CASE k < t.kv[0] -> 0
               [] k > t.kv[0] /\ (t.kv[1] = Nil \/ k < t.kv[1]) -> 1
               [] OTHER -> 2

\* The same on a walk towards k, or to the leftmost leaf, for which k is Nil.
Stops(t, k) == k # Nil /\ PairOf(t, k) # -1
Turn(t, k) == IF k = Nil THEN 0 ELSE Way(t, k)

\* The walk from t: the node at each depth, and Absent below the last one, which is
\* the one that holds k or has no child where k belongs.
Descent(t, k) ==
    LET at[i \in 0..BTreeDeepest] ==
            IF i = 0 THEN t
            ELSE LET s == at[i - 1]
                 IN IF s = Absent \/ Stops(s, k) THEN Absent ELSE s.childs[Turn(s, k)]
    IN at

\* The depth at which a walk has ended, and its last node.
Ground(walk) == CHOOSE i \in 0..BTreeDeepest :
                    walk[i] = Absent /\ (i > 0 => walk[i - 1] # Absent)
Lowest(walk) == walk[Ground(walk) - 1]

\* Where k is, by its way from the root; Nil if nowhere.
qBTree__ptr_at(k) ==
    LET walk == Descent(broot, k)
    IN IF broot = Absent \/ PairOf(Lowest(walk), k) = -1 THEN Nil
       ELSE [track |-> [i \in 1..(Ground(walk) - 1) |-> Way(walk[i - 1], k)],
             which |-> PairOf(Lowest(walk), k)]

\* The node an iterator's track leads to.
At(t, track) ==
    LET node[i \in 0..Len(track)] == IF i = 0 THEN t ELSE node[i - 1].childs[track[i]]
    IN node[Len(track)]

-----------------------------------------------------------------------------
(***************************************************************************)
(* Insertion.  st is the value returned (-1 there already, 0 done, 1 to be *)
(* split by the parent), t the subtree afterwards.                         *)
(***************************************************************************)
\* The promoted pair, the new left node and what is left of t.
qBTreeNode__split_up(t) ==
    CASE t.extrakv < t.kv[0] ->
           [up |-> t.kv[0], left |-> Node(t.extrakv, Nil, t.extrachild, t.childs[0], Absent),
            right |-> Node(t.kv[1], Nil, t.childs[1], t.childs[2], Absent)]
      [] t.extrakv >= t.kv[0] /\ t.extrakv < t.kv[1] ->
           [up |-> t.extrakv, left |-> Node(t.kv[0], Nil, t.childs[0], t.extrachild, Absent),
            right |-> Node(t.kv[1], Nil, t.childs[1], t.childs[2], Absent)]
      [] t.extrakv >= t.kv[0] /\ t.extrakv >= t.kv[1] ->
           [up |-> t.kv[1], left |-> Node(t.kv[0], Nil, t.childs[0], t.childs[1], Absent),
            right |-> Node(t.extrakv, Nil, t.extrachild, t.childs[2], Absent)]

\* A split of child i goes into t, as the second pair when there is none (also when
\* i is 0), else as the extra one.
Promoted(t, i, sp) ==
    LET split == WithSub(t, i, sp.right)
    IN IF t.kv[1] = Nil
       THEN [st |-> 0, t |-> WithSub(WithSub(WithPair(split, 1, sp.up), 1, sp.left),
                                     2, split.childs[1])]
       ELSE [st |-> 1, t |-> Overfull(split, sp.up, sp.left)]

\* Child i of t has been inserted into.
Absorb(t, i, ins) ==
    IF ins.st = 1 THEN Promoted(t, i, qBTreeNode__split_up(ins.t))
    ELSE [st |-> ins.st, t |-> WithSub(t, i, ins.t)]

\* A full leaf takes the pair without looking at its keys.
IntoLeaf(t, k) ==
    CASE t.kv[1] # Nil                -> [st |-> 1, t |-> Overfull(t, k, Absent)]
      [] t.kv[1] = Nil /\ k = t.kv[0] -> [st |-> -1, t |-> t]
      [] t.kv[1] = Nil /\ k > t.kv[0] -> [st |-> 0, t |-> WithPair(t, 1, k)]
      [] t.kv[1] = Nil /\ k < t.kv[0] -> [st |-> 0, t |-> Node(k, t.kv[0], Absent, Absent, Absent)]

\* A pair alone, in place of NULL.
Alone(k) == [st |-> 0, t |-> Node(k, Nil, Absent, Absent, Absent)]

\* At the last node of the way down.
InsertLast(t, k) ==
    CASE IsLeaf(t)                        -> IntoLeaf(t, k)
      [] ~IsLeaf(t) /\ PairOf(t, k) # -1 -> [st |-> -1, t |-> t]
      [] ~IsLeaf(t) /\ PairOf(t, k) = -1 -> Absorb(t, Way(t, k), Alone(k))

-----------------------------------------------------------------------------
(***************************************************************************)
(* Erasure.  st = 1: the node has no pair left, only what hangs on its     *)
(* childs[0], and its parent has to give it one or to merge it.            *)
(***************************************************************************)
CanRotateLeft(t, i) == i # 2 /\ t.childs[i + 1] # Absent /\ t.childs[i + 1].kv[1] # Nil
qBTree__rotate_left(t, i) ==
    LET l == t.childs[i]
        r == t.childs[i + 1]
        filled == WithSub(WithPair(l, 0, t.kv[i]), 1, r.childs[0])
        rest == Node(r.kv[1], Nil, r.childs[1], r.childs[2], Absent)
    IN WithSub(WithSub(WithPair(t, i, r.kv[0]), i, filled), i + 1, rest)

CanRotateRight(t, i) == i # 0 /\ t.childs[i - 1] # Absent /\ t.childs[i - 1].kv[1] # Nil
\* Seeded fault: what hung on the emptied child is overwritten.
rotate_right_NoShift(t, i) ==
    LET l == t.childs[i - 1]
        r == t.childs[i]
        filled == WithSub(WithPair(r, 0, t.kv[i - 1]), 0, l.childs[2])
        rest == WithSub(WithPair(l, 1, Nil), 2, Absent)
    IN WithSub(WithSub(WithPair(t, i - 1, l.kv[1]), i, filled), i - 1, rest)

qBTree__rotate_right(t, i) ==
    LET l == t.childs[i - 1]
        r == t.childs[i]
        filled == WithSub(WithSub(WithPair(r, 0, t.kv[i - 1]), 1, r.childs[0]), 0, l.childs[2])
        rest == WithSub(WithPair(l, 1, Nil), 2, Absent)
    IN WithSub(WithSub(WithPair(t, i - 1, l.kv[1]), i, filled), i - 1, rest)

\* Seeded fault: an emptied leaf is dropped, and its parent keeps a pair without a child.
merge_DropsChild(t, i) ==
    IF i = 2 THEN [st |-> 0, t |-> WithSub(t, 2, Absent)]
    ELSE [st |-> 0, t |-> WithSub(t, i, t.childs[i].childs[0])]

\* What hung on an emptied node hangs on its left sibling.
Hang(node, sub) == WithSub(node, IF node.childs[1] = Absent THEN 1 ELSE 2, sub)

\* The emptied child i and a sibling become one.
qBTree__merge(t, i) ==
    LET c0 == t.childs[0]
        c1 == t.childs[1]
        c2 == t.childs[2]
        both == CASE i = 0 -> Node(t.kv[0], c1.kv[0], c0.childs[0], c1.childs[0], c1.childs[1])
                  [] i = 1 -> WithPair(Hang(c0, c1.childs[0]), 1, t.kv[0])
                  [] i = 2 -> WithPair(Hang(c1, c2.childs[0]), 1, t.kv[1])
    IN IF i = 2
       THEN [st |-> 0, t |-> WithSub(WithSub(WithPair(t, 1, Nil), 1, both), 2, Absent)]
       ELSE [st |-> IF t.kv[1] = Nil THEN 1 ELSE 0, t |-> Node(t.kv[1], Nil, both, c2, Absent)]

\* Child i of t has been erased from; sides are the rotations that are tried.
Rebalanced(u, i, sides) ==
    CASE "left" \in sides /\ CanRotateLeft(u, i) -> [st |-> 0, t |-> qBTree__rotate_left(u, i)]
      [] "right" \in sides /\ CanRotateRight(u, i)
            /\ ~("left" \in sides /\ CanRotateLeft(u, i)) ->
           [st |-> 0, t |-> qBTree__rotate_right(u, i)]
      [] OTHER -> qBTree__merge(u, i)
Rebalance(t, i, del, sides) ==
    IF del.st = 1 THEN Rebalanced(WithSub(t, i, del.t), i, sides)
    ELSE [st |-> del.st, t |-> WithSub(t, i, del.t)]

\* The rotations tried where a child has been erased from.
Sides(t, i) == CASE i = 0 -> {"left"}
                 [] i = 1 /\ t.kv[1] # Nil -> {"left", "right"}
                 [] OTHER -> {"right"}

-----------------------------------------------------------------------------
\* What a node becomes on the way back from child i.
Returned(mode, t, i, res) ==
    IF mode = "insert" THEN Absorb(t, i, res) ELSE Rebalance(t, i, res, Sides(t, i))

\* The way back, from what the last node of the walk has become.
Ascent(walk, k, last, mode) ==
    LET end == Ground(walk) - 1
        up[i \in 0..end] == IF i = end THEN last
                            ELSE Returned(mode, walk[i], Turn(walk[i], k), up[i + 1])
    IN up[0]

qBTree__recursive_insert(t, k) ==
    IF t = Absent THEN Alone(k)
    ELSE LET walk == Descent(t, k)
         IN Ascent(walk, k, InsertLast(Lowest(walk), k), "insert")

\* The root has nobody above to split it.
Grown(ins) ==
    LET sp == qBTreeNode__split_up(ins.t)
    IN IF ins.st = 1 THEN [st |-> 0, t |-> Node(sp.up, Nil, sp.left, sp.right, Absent)] ELSE ins
qBTree__insert(k) == Grown(qBTree__recursive_insert(broot, k))

\* The first pair of a leaf goes.
Shifted(t) == [st |-> IF t.kv[1] # Nil THEN 0 ELSE 1,
               t |-> WithPair(WithPair(t, 0, t.kv[1]), 1, Nil)]

qBTree__recursive_erase_min(t) ==
    LET walk == Descent(t, Nil) IN Ascent(walk, Nil, Shifted(Lowest(walk)), "erase")

qBTree__get_min(t) == Lowest(Descent(t, Nil)).kv[0]

\* Pair i of t goes: it is replaced by the least one of the child after it.
ErasePair(t, i) ==
    LET next == t.childs[i + 1]
    IN CASE next # Absent -> Rebalance(WithPair(t, i, qBTree__get_min(next)), i + 1,
                                       qBTree__recursive_erase_min(next),
                                       IF i = 0 THEN {"left", "right"} ELSE {"right"})
         [] next = Absent /\ i = 0 -> qBTree__recursive_erase_min(t)
         [] next = Absent /\ i = 1 -> [st |-> 0, t |-> WithPair(t, 1, Nil)]

\* At the last node of the way down; -1 if the key is not there.
EraseLast(t, k) == IF PairOf(t, k) = -1 THEN [st |-> -1, t |-> t] ELSE ErasePair(t, PairOf(t, k))

qBTree__recursive_erase(t, k) ==
    LET walk == Descent(t, k) IN Ascent(walk, k, EraseLast(Lowest(walk), k), "erase")

\* What hangs on a root without a pair takes its place.
Shrunk(del) == IF del.st = 1 THEN [st |-> 1, t |-> del.t.childs[0]] ELSE del
qBTree__erase(k) == Shrunk(qBTree__recursive_erase(broot, k))

-----------------------------------------------------------------------------
BTreeInit == broot = Absent /\ bsize = 0 /\ bkeys = {}

\* The callers considered: one that inserts new keys, in ascending order or in
\* any, and tries a key again only where the tree looks for it.  (A full leaf takes
\* a key it has for a second time.)
MayInsert(k) ==
    IF k \in bkeys
    THEN LET t == Lowest(Descent(broot, k)) IN t.kv[1] = Nil \/ t.childs[0] # Absent
    ELSE Ascending => \A j \in bkeys : k > j

BTreeInsert(k) ==
    LET ins == qBTree__insert(k)
    IN /\ MayInsert(k)
       /\ broot' = ins.t
       /\ bsize' = bsize + ins.st + 1
       /\ bkeys' = IF ins.st = 0 THEN bkeys \cup {k} ELSE bkeys

\* ptr_at, then erase with the iterator it has set.
BTreeErase(k) ==
    LET del == qBTree__erase(k)
    IN /\ qBTree__ptr_at(k) # Nil
       /\ broot' = del.t
       /\ bsize' = IF del.st = -1 THEN bsize ELSE bsize - 1
       /\ bkeys' = bkeys \ {k}

BTreeNext == \E k \in BTreeKeys : BTreeInsert(k) \/ BTreeErase(k)

BTreeSpec == BTreeInit /\ [][BTreeNext]_bvars

-----------------------------------------------------------------------------
\* Every key inserted and not erased is found (btree_test.c: "While validating
\* %d ptr_at returned %d but it shouldn't.").
BTreeKeeps == \A k \in bkeys : qBTree__ptr_at(k) # Nil

\* Looking up a key leads to it exactly when it was inserted and not erased, and
\* size is the number of these keys, whatever splits, rotations and merges there
\* were.
BTreeFound ==
    /\ \A k \in BTreeKeys : qBTree__ptr_at(k) # Nil <=> k \in bkeys
    /\ \A k \in bkeys : LET it == qBTree__ptr_at(k) IN At(broot, it.track).kv[it.which] = k
    /\ bsize = Cardinality(bkeys)

\* The subtrees at each depth of t, with Absent for each child that is missing.
SubtreesAt(t) ==
    LET below[i \in 0..BTreeDeepest] ==
            IF i = 0 THEN {t}
            ELSE UNION {{s.childs[j] : j \in 0..(LastPair(s) + 1)} : s \in (below[i - 1] \ {Absent})}
    IN below

\* The leaves are all at the same depth and every branch has a child on either side of
\* each of its pairs, so that the depth is logarithmic and the track of an iterator,
\* track[100], never overflows.
BTreeEven ==
    \A i \in 0..BTreeDeepest : Absent \in SubtreesAt(broot)[i] => SubtreesAt(broot)[i] = {Absent}
=============================================================================
