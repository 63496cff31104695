------------------------------ MODULE AVLTree ------------------------------
(***************************************************************************)
(* The AVL tree of zhwkre/containers/AVLTree.c, as operators on            *)
(* descriptors.  A node is named by the key its data holds: keys are       *)
(* unique, and when an erase swaps the data of two nodes the surviving one *)
(* changes its name.  A subtree is Empty or a record of its root's key,    *)
(* its children and the stored height; prev and next are the list that     *)
(* threads the nodes.                                                      *)
(***************************************************************************)
EXTENDS OrderedKeys

\* NULL where a subtree is expected.
Empty == [key |-> Nil]

\* qAVLTree_constructor: an empty descriptor.
qAVLTree_constructor ==
    [size |-> 0, root |-> Empty, prev |-> [k \in Keys |-> Nil], next |-> [k \in Keys |-> Nil]]

Leaf(k) == [key |-> k, l |-> Empty, r |-> Empty, h |-> 1]

getHeight(t) == IF t = Empty THEN 0 ELSE t.h
Taller(x, y) == IF x > y THEN x ELSE y
updateHeight(t) == [t EXCEPT !.h = Taller(getHeight(t.l), getHeight(t.r)) + 1]
get_blfactor(t) == getHeight(t.r) - getHeight(t.l)

-----------------------------------------------------------------------------
(***************************************************************************)
(* Walks.  A loop, or a recursion on its way down, goes from a node to one *)
(* of its children; the recursion assigns what it has made of the child on *)
(* its way back.                                                           *)
(***************************************************************************)
\* No subtree lies deeper: each holds an element of its own.
Deepest == Cardinality(Keys)

Child(t, side) == IF side = "l" THEN t.l ELSE t.r
WithChild(t, side, u) == IF side = "l" THEN [t EXCEPT !.l = u] ELSE [t EXCEPT !.r = u]

\* The side taken at the node of each element: towards k, or always the same.
Towards(k) == [x \in Keys |-> IF k < x THEN "l" ELSE "r"]
Always(side) == [x \in Keys |-> side]

\* The walk from t: the subtree at each depth and Empty below the last one, which
\* is the one that holds stop or has no child on the side taken.
Walk(t, turn, stop) ==
    LET at[i \in 0..Deepest] ==
            IF i = 0 THEN t
            ELSE LET s == at[i - 1]
                 IN IF s = Empty \/ s.key = stop THEN Empty ELSE Child(s, turn[s.key])
    IN at

\* The depth at which a walk ends, and the subtree there.
Foot(walk) == CHOOSE i \in 0..Deepest :
                  walk[i] = Empty /\ (i > 0 => walk[i - 1] # Empty)
LastNode(walk) == walk[Foot(walk) - 1]

\* The search loop of qAVLTree__ptr_at.
qAVLTree__ptr_at(desc, k) ==
    IF desc.root = Empty THEN -1
    ELSE IF LastNode(Walk(desc.root, Towards(k), k)).key = k THEN 0 ELSE -1

-----------------------------------------------------------------------------
(***************************************************************************)
(* Rotations.                                                              *)
(***************************************************************************)
\* Seeded fault: the height of the old root is not updated.
LeftRotateStaleHeight(root) ==
    LET rr == root.r
        rrl == root.r.l
    IN IF rr.r = Empty
       THEN updateHeight([rrl EXCEPT !.l = [root EXCEPT !.r = rrl.l],
                                     !.r = updateHeight([rr EXCEPT !.l = rrl.r])])
       ELSE updateHeight([rr EXCEPT !.l = [root EXCEPT !.r = rrl]])

SimpleLeftRotate(root) ==
    LET rr == root.r
        rrl == root.r.l
    IN IF rr.r = Empty
       THEN updateHeight([rrl EXCEPT !.l = updateHeight([root EXCEPT !.r = rrl.l]),
                                     !.r = updateHeight([rr EXCEPT !.l = rrl.r])])
       ELSE updateHeight([rr EXCEPT !.l = updateHeight([root EXCEPT !.r = rrl])])

SimpleRightRotate(root) ==
    LET rl == root.l
        rlr == root.l.r
    IN IF rl.l = Empty
       THEN updateHeight([rlr EXCEPT !.l = updateHeight([rl EXCEPT !.r = rlr.l]),
                                     !.r = updateHeight([root EXCEPT !.l = rlr.r])])
       ELSE updateHeight([rl EXCEPT !.r = updateHeight([root EXCEPT !.l = rlr])])

LeftRightRotate(root) == SimpleRightRotate([root EXCEPT !.l = SimpleLeftRotate(root.l)])

RightLeftRotate(root) == SimpleLeftRotate([root EXCEPT !.r = SimpleRightRotate(root.r)])

\* The test for a double rotation looks at the grandchild.
left_balance(root) ==
    IF get_blfactor(root) > -2 THEN root
    ELSE IF root.l.r # Empty /\ get_blfactor(root.l.r) > 0
         THEN LeftRightRotate(root) ELSE SimpleRightRotate(root)

right_balance(root) ==
    IF get_blfactor(root) < 2 THEN root
    ELSE IF root.r.l # Empty /\ get_blfactor(root.r.l) < 0
         THEN RightLeftRotate(root) ELSE SimpleLeftRotate(root)

\* What a node becomes on the way back, after one of its children has been
\* replaced: an insertion, delete_leftmax and delete_rightmin balance for the side
\* they come from, a deletion for the other one, and a failure leaves it.
Mended(mode, side, t) ==
    IF mode = "failed" THEN t
    ELSE IF (side = "l") <=> (mode = "same") THEN left_balance(updateHeight(t))
                                             ELSE right_balance(updateHeight(t))

\* The way back: the last subtree of the walk is replaced by bottom.
Rebuilt(walk, turn, bottom, mode) ==
    LET end == Foot(walk) - 1
        new[i \in 0..end] ==
            IF i = end THEN bottom
            ELSE LET side == turn[walk[i].key]
                 IN Mended(mode, side, WithChild(walk[i], side, new[i + 1]))
    IN new[0]

-----------------------------------------------------------------------------
(***************************************************************************)
(* The list.                                                               *)
(***************************************************************************)
\* Seeded fault: the old neighbour of the parent is not told.
list_insert_Halfway(desc, parent, child) ==
    [desc EXCEPT !.next = [@ EXCEPT ![child] = parent],
                 !.prev = [@ EXCEPT ![child] = desc.prev[parent], ![parent] = child]]

list_insert_left(desc, parent, child) ==
    LET p == desc.prev[parent] IN
    [desc EXCEPT !.next = [x \in Keys |-> CASE x = child -> parent
                                            [] x = p /\ x # child -> child
                                            [] OTHER -> @[x]],
                 !.prev = [@ EXCEPT ![child] = p, ![parent] = child]]

list_insert_right(desc, parent, child) ==
    LET n == desc.next[parent] IN
    [desc EXCEPT !.prev = [x \in Keys |-> CASE x = child -> parent
                                            [] x = n /\ x # child -> child
                                            [] OTHER -> @[x]],
                 !.next = [@ EXCEPT ![child] = n, ![parent] = child]]

\* The node elem is taken out of the list and freed.
list_remove(desc, elem) ==
    LET p == desc.prev[elem]
        n == desc.next[elem]
    IN [desc EXCEPT !.next = [x \in Keys |-> CASE x = elem -> Nil [] x = p -> n [] OTHER -> @[x]],
                    !.prev = [x \in Keys |-> CASE x = elem -> Nil [] x = n -> p [] OTHER -> @[x]]]

-----------------------------------------------------------------------------
(***************************************************************************)
(* Insertion.  st is the value returned, new is *newrootptr (Empty where   *)
(* it is not set), at is the parent of the new node.  ok says whether      *)
(* malloc succeeds.                                                        *)
(***************************************************************************)
qAVLTree__recursive_insert(root, k, ok) ==
    LET walk == Walk(root, Towards(k), k)
        parent == LastNode(walk)
        attached == updateHeight(WithChild(parent, Towards(k)[parent.key], Leaf(k)))
    IN CASE parent.key = k        -> [st |-> -1, new |-> root, at |-> Nil]
         [] parent.key # k /\ ok  -> [st |-> 0, at |-> parent.key,
                                      new |-> Rebuilt(walk, Towards(k), attached, "same")]
         [] parent.key # k /\ ~ok -> [st |-> -1, at |-> Nil,
                                      new |-> Rebuilt(walk, Towards(k), Empty, "failed")]

\* The descriptor after the recursion.  A failed insertion returns before desc->root
\* is assigned, but the nodes on the path are the ones the recursion has written to.
Inserted(desc, k, ins) ==
    LET same == IF ins.new = Empty THEN desc.root ELSE ins.new
        linked == IF k < ins.at THEN list_insert_left(desc, ins.at, k)
                                ELSE list_insert_right(desc, ins.at, k)
    IN IF ins.st = 0 THEN [st |-> 0, desc |-> [linked EXCEPT !.root = ins.new, !.size = @ + 1]]
                     ELSE [st |-> -1, desc |-> [desc EXCEPT !.root = same]]

qAVLTree__insert(desc, k, ok) ==
    CASE desc.root # Empty -> Inserted(desc, k, qAVLTree__recursive_insert(desc.root, k, ok))
      [] desc.root = Empty /\ ok  -> [st |-> 0, desc |-> [desc EXCEPT !.root = Leaf(k), !.size = 1]]
      [] desc.root = Empty /\ ~ok -> [st |-> -1, desc |-> desc]

-----------------------------------------------------------------------------
(***************************************************************************)
(* Erasure.  new is what is left of the subtree, key is what the freed     *)
(* node held before the swap.                                              *)
(***************************************************************************)
\* Seeded fault: the leftmost node is taken in place of the rightmost one.
leftmax_TakesMin(root) ==
    LET walk == Walk(root, Always("l"), Nil)
    IN [new |-> Rebuilt(walk, Always("l"), LastNode(walk).r, "same"), key |-> LastNode(walk).key]

delete_leftmax(root) ==
    LET walk == Walk(root, Always("r"), Nil)
    IN [new |-> Rebuilt(walk, Always("r"), LastNode(walk).l, "same"), key |-> LastNode(walk).key]

\* Seeded fault: the right child of the leftmost node is dropped with it.
rightmin_DropsChild(root) ==
    LET walk == Walk(root, Always("l"), Nil)
    IN [new |-> Rebuilt(walk, Always("l"), Empty, "same"), key |-> LastNode(walk).key]

delete_rightmin(root) ==
    LET walk == Walk(root, Always("l"), Nil)
    IN [new |-> Rebuilt(walk, Always("l"), LastNode(walk).r, "same"), key |-> LastNode(walk).key]

\* The node that is to go: a leaf is freed, another takes the data of a neighbour.
Replaced(root) ==
    CASE getHeight(root) = 1 -> [new |-> Empty, key |-> root.key]
      [] getHeight(root) # 1 /\ get_blfactor(root) > 0 ->
           LET del == delete_rightmin(root.r)
           IN [new |-> right_balance(updateHeight([root EXCEPT !.r = del.new, !.key = del.key])),
               key |-> del.key]
      [] getHeight(root) # 1 /\ ~(get_blfactor(root) > 0) ->
           LET del == delete_leftmax(root.l)
           IN [new |-> left_balance(updateHeight([root EXCEPT !.l = del.new, !.key = del.key])),
               key |-> del.key]

\* The iterator's element is in the tree, so the search arrives at it.
qAVLTree__recursive_delete(root, k) ==
    LET walk == Walk(root, Towards(k), k)
        del == Replaced(LastNode(walk))
    IN [new |-> Rebuilt(walk, Towards(k), del.new, "opposite"), key |-> del.key]

\* The node that held old holds new: every pointer to it is known by the new name.
Renamed(desc, old, new) ==
    LET As(x) == IF x = old THEN new ELSE x
        Back(x) == IF x = new THEN old ELSE x
    IN [desc EXCEPT !.prev = [x \in Keys |-> IF x = old THEN Nil ELSE As(@[Back(x)])],
                    !.next = [x \in Keys |-> IF x = old THEN Nil ELSE As(@[Back(x)])]]

\* The element whose node is freed when k is erased: k, or the one its data is
\* swapped with.
qAVLTree__freed(desc, k) == qAVLTree__recursive_delete(desc.root, k).key

\* The descriptor after the recursion.
Deleted(desc, k, del) ==
    LET removed == list_remove(desc, del.key)
        named == IF del.key = k THEN removed ELSE Renamed(removed, k, del.key)
    IN [named EXCEPT !.root = del.new, !.size = @ - 1]

\* qAVLTree__erase with the iterator ptr_at gives for k.
qAVLTree__erase(desc, k) == Deleted(desc, k, qAVLTree__recursive_delete(desc.root, k))

-----------------------------------------------------------------------------
(***************************************************************************)
(* Iteration.                                                              *)
(***************************************************************************)
qAVLTree_begin(desc) ==
    IF desc.root = Empty THEN Nil ELSE LastNode(Walk(desc.root, Always("l"), Nil)).key
qAVLTree_end(desc) ==
    IF desc.root = Empty THEN Nil ELSE LastNode(Walk(desc.root, Always("r"), Nil)).key
=============================================================================
