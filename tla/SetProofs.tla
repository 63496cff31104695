----------------------------- MODULE SetProofs -----------------------------
(***************************************************************************)
(* The AVL tree and the set built on it keep what is put into them, for    *)
(* every finite set of keys and every sequence of operations, as long as   *)
(* malloc does not fail.                                                   *)
(***************************************************************************)
EXTENDS QSet, OrderedKeysProofs

\* The elements of D to the left and to the right of k.
Under(D, k) == {y \in D : y < k}
Over(D, k) == {y \in D : y > k}

\* The node above l and r, with the height that updateHeight gives it.
Node(k, l, r) == [key |-> k, l |-> l, r |-> r, h |-> Taller(getHeight(l), getHeight(r)) + 1]

\* In S, a set of subtrees with their elements, the children of every subtree are
\* there too, each with the elements on its side.
Closed(S) ==
    \A t, D : <<t, D>> \in S =>
        \/ t = Empty /\ D = {}
        \/ /\ t.key \in D /\ t.h \in Nat
           /\ t = Node(t.key, t.l, t.r)
           /\ <<t.l, Under(D, t.key)>> \in S
           /\ <<t.r, Over(D, t.key)>> \in S

\* t is a search tree of the elements D whose stored heights are right.
Tree(t, D) == D \subseteq Keys /\ \E S : Closed(S) /\ <<t, D>> \in S

-----------------------------------------------------------------------------
\* A node is not NULL.
LEMMA NodeFields ==
    ASSUME NEW k \in Keys, NEW l, NEW r
    PROVE  /\ Node(k, l, r) # Empty
           /\ Node(k, l, r).key = k /\ Node(k, l, r).l = l /\ Node(k, l, r).r = r
           /\ Node(k, l, r).h = Taller(getHeight(l), getHeight(r)) + 1
           /\ getHeight(Node(k, l, r)) = Taller(getHeight(l), getHeight(r)) + 1
  <1>1. /\ Node(k, l, r).key = k /\ Node(k, l, r).l = l /\ Node(k, l, r).r = r
        /\ Node(k, l, r).h = Taller(getHeight(l), getHeight(r)) + 1
    BY DEF Node
  <1>2. Empty.key = Nil /\ k # Nil
    BY KeysAssumption DEF Empty
  <1>3. Node(k, l, r) # Empty
    BY <1>1, <1>2
  <1>4. QED
    BY <1>1, <1>3 DEF getHeight

\* NULL is the search tree of no elements.
LEMMA EmptyTree == Tree(Empty, {})
  <1>1. Closed({<<Empty, {}>>})
    BY DEF Closed
  <1>2. QED
    BY <1>1 DEF Tree

\* And of no others.
LEMMA EmptyHasNone ==
    ASSUME NEW D, Tree(Empty, D)
    PROVE  D = {}
  <1>1. PICK S : Closed(S) /\ <<Empty, D>> \in S
    BY DEF Tree
  <1>2. SUFFICES ASSUME Empty.key \in D PROVE FALSE
    BY <1>1 DEF Closed
  <1>3. Empty.key = Nil /\ D \subseteq Keys
    BY DEF Empty, Tree
  <1>4. QED
    BY <1>2, <1>3, KeysAssumption

\* The children of a node are search trees of the elements on their sides.
LEMMA Split ==
    ASSUME NEW t, NEW D, Tree(t, D), t # Empty
    PROVE  /\ t.key \in D /\ t.key \in Keys /\ t.key \in Int /\ D \subseteq Int
           /\ t = Node(t.key, t.l, t.r)
           /\ t.h \in Nat
           /\ Tree(t.l, Under(D, t.key)) /\ Tree(t.r, Over(D, t.key))
  <1>1. PICK S : Closed(S) /\ <<t, D>> \in S
    BY DEF Tree
  <1>2. /\ t.key \in D /\ t.h \in Nat
        /\ t = Node(t.key, t.l, t.r)
        /\ <<t.l, Under(D, t.key)>> \in S
        /\ <<t.r, Over(D, t.key)>> \in S
    BY <1>1 DEF Closed
  <1>3. D \subseteq Keys /\ Under(D, t.key) \subseteq D /\ Over(D, t.key) \subseteq D
    BY DEF Tree, Under, Over
  <1>4. Tree(t.l, Under(D, t.key)) /\ Tree(t.r, Over(D, t.key))
    BY <1>1, <1>2, <1>3 DEF Tree
  <1>5. QED
    BY <1>2, <1>3, <1>4, KeysAssumption

\* Stored heights are natural numbers, 0 for NULL alone, and go down with depth.
LEMMA HeightNat ==
    ASSUME NEW t, NEW D, Tree(t, D)
    PROVE  /\ getHeight(t) \in Nat /\ (getHeight(t) = 0 <=> t = Empty)
           /\ t # Empty => /\ getHeight(t) = t.h
                           /\ getHeight(t.l) \in Nat /\ getHeight(t.r) \in Nat
                           /\ getHeight(t) = Taller(getHeight(t.l), getHeight(t.r)) + 1
                           /\ getHeight(t.l) < getHeight(t) /\ getHeight(t.r) < getHeight(t)
  <1>1. CASE t = Empty
    BY <1>1 DEF getHeight
  <1>2. CASE t # Empty
    <2>1. \A s, E : Tree(s, E) => getHeight(s) \in Nat
      <3>1. SUFFICES ASSUME NEW s, NEW E, Tree(s, E) PROVE getHeight(s) \in Nat
        OBVIOUS
      <3>2. CASE s = Empty
        BY <3>2 DEF getHeight
      <3>3. CASE s # Empty
        BY <3>1, <3>3, Split DEF getHeight
      <3>4. QED
        BY <3>2, <3>3
    <2>2. getHeight(t) \in Nat /\ getHeight(t.l) \in Nat /\ getHeight(t.r) \in Nat
      BY <1>2, <2>1, Split
    <2>3. getHeight(t) = t.h /\ t.h = Taller(getHeight(t.l), getHeight(t.r)) + 1
      BY <1>2, Split, NodeFields DEF getHeight
    <2>4. QED
      BY <1>2, <2>2, <2>3 DEF Taller
  <1>3. QED
    BY <1>1, <1>2

\* Two search trees and an element between them are a search tree.
LEMMA Join ==
    ASSUME NEW D \in SUBSET Keys, NEW k \in D, NEW l, NEW r,
           Tree(l, Under(D, k)), Tree(r, Over(D, k))
    PROVE  Tree(Node(k, l, r), D)
  <1>1. PICK L : Closed(L) /\ <<l, Under(D, k)>> \in L
    BY DEF Tree
  <1>2. PICK R : Closed(R) /\ <<r, Over(D, k)>> \in R
    BY DEF Tree
  <1> DEFINE t == Node(k, l, r)
             S == L \cup R \cup {<<t, D>>}
  <1>3. /\ t.key = k /\ t.l = l /\ t.r = r
        /\ t.h = Taller(getHeight(l), getHeight(r)) + 1
    BY NodeFields
  <1>4. t.h \in Nat
    BY <1>3, HeightNat DEF Taller
  <1>5. t = Node(t.key, t.l, t.r)
    BY <1>3
  <1> HIDE DEF t
  <1>6. ASSUME NEW s, NEW E, <<s, E>> \in S
        PROVE  \/ s = Empty /\ E = {}
               \/ /\ s.key \in E /\ s.h \in Nat
                  /\ s = Node(s.key, s.l, s.r)
                  /\ <<s.l, Under(E, s.key)>> \in S
                  /\ <<s.r, Over(E, s.key)>> \in S
    <2>1. CASE <<s, E>> \in L
      BY <1>1, <2>1 DEF Closed
    <2>2. CASE <<s, E>> \in R
      BY <1>2, <2>2 DEF Closed
    <2>3. CASE <<s, E>> = <<t, D>>
      <3>1. s = t /\ E = D
        BY <2>3
      <3>2. QED
        BY <1>1, <1>2, <1>3, <1>4, <1>5, <3>1
    <2>4. QED
      BY <1>6, <2>1, <2>2, <2>3
  <1>7. Closed(S)
    <2> HIDE DEF S
    <2> QED BY <1>6 DEF Closed
  <1>8. QED
    BY <1>7 DEF t, Tree

\* The parts of the parts on two sides of two elements.
LEMMA Parts ==
    ASSUME NEW D \in SUBSET Int, NEW a \in Int, NEW b \in Int, a < b
    PROVE  /\ Under(Under(D, b), a) = Under(D, a)
           /\ Over(Over(D, a), b) = Over(D, b)
           /\ Under(Over(D, a), b) = Over(Under(D, b), a)
           /\ (a \in D => a \in Under(D, b)) /\ (b \in D => b \in Over(D, a))
  <1>1. Under(Under(D, b), a) = Under(D, a)
    <2>1. \A y \in D : y \in Under(Under(D, b), a) <=> y \in Under(D, a)
      BY DEF Under
    <2> QED BY <2>1 DEF Under
  <1>2. Over(Over(D, a), b) = Over(D, b)
    <2>1. \A y \in D : y \in Over(Over(D, a), b) <=> y \in Over(D, b)
      BY DEF Over
    <2> QED BY <2>1 DEF Over
  <1>3. Under(Over(D, a), b) = Over(Under(D, b), a)
    <2>1. \A y : y \in Under(Over(D, a), b) <=> y \in Over(Under(D, b), a)
      BY DEF Under, Over
    <2> QED BY <2>1
  <1>4. QED
    BY <1>1, <1>2, <1>3 DEF Under, Over

-----------------------------------------------------------------------------
(***************************************************************************)
(* Rotations.                                                              *)
(***************************************************************************)
\* A node whose children have been assigned and whose height may be out of date.
Stale(k, l, r, h) == [key |-> k, l |-> l, r |-> r, h |-> h]

\* The fields of a node whose height may be wrong, and what updateHeight makes of it.
LEMMA StaleFields ==
    ASSUME NEW k, NEW l, NEW r, NEW h
    PROVE  /\ Stale(k, l, r, h).key = k /\ Stale(k, l, r, h).l = l
           /\ Stale(k, l, r, h).r = r /\ Stale(k, l, r, h).h = h
           /\ updateHeight(Stale(k, l, r, h)) = Node(k, l, r)
           /\ Node(k, l, r) = Stale(k, l, r, Node(k, l, r).h)
  <1>1. updateHeight(Stale(k, l, r, h)) =
            [Stale(k, l, r, h) EXCEPT !.h = Taller(getHeight(l), getHeight(r)) + 1]
    BY DEF Stale, updateHeight
  <1>2. updateHeight(Stale(k, l, r, h)) = Node(k, l, r)
    BY <1>1 DEF Stale, Node
  <1>3. QED
    BY <1>2 DEF Stale, Node

\* One child or both assigned, and the height brought up to date.
PutLeft(t, u) == [t EXCEPT !.l = u]
PutRight(t, u) == [t EXCEPT !.r = u]
PutBoth(t, u, v) == [t EXCEPT !.l = u, !.r = v]

\* What assigning its children makes of it.
LEMMA StalePut ==
    ASSUME NEW k, NEW l, NEW r, NEW h, NEW u, NEW v
    PROVE  /\ PutLeft(Stale(k, l, r, h), u) = Stale(k, u, r, h)
           /\ PutRight(Stale(k, l, r, h), v) = Stale(k, l, v, h)
           /\ PutBoth(Stale(k, l, r, h), u, v) = Stale(k, u, v, h)
           /\ updateHeight(PutLeft(Stale(k, l, r, h), u)) = Node(k, u, r)
           /\ updateHeight(PutRight(Stale(k, l, r, h), v)) = Node(k, l, v)
           /\ updateHeight(PutBoth(Stale(k, l, r, h), u, v)) = Node(k, u, v)
  <1>1. PutLeft(Stale(k, l, r, h), u) = Stale(k, u, r, h)
    BY DEF Stale, PutLeft
  <1>2. PutRight(Stale(k, l, r, h), v) = Stale(k, l, v, h)
    BY DEF Stale, PutRight
  <1>3. PutRight(Stale(k, u, r, h), v) = Stale(k, u, v, h)
    BY DEF Stale, PutRight
  <1>4. PutBoth(Stale(k, l, r, h), u, v) = PutRight(PutLeft(Stale(k, l, r, h), u), v)
    BY DEF PutBoth, PutLeft, PutRight
  <1>5. QED
    BY <1>1, <1>2, <1>3, <1>4, StaleFields

\* Every node has the shape of a record of four fields.
LEMMA TreeStale ==
    ASSUME NEW t, NEW D, Tree(t, D), t # Empty
    PROVE  t = Stale(t.key, t.l, t.r, t.h)
  BY Split, StaleFields, NodeFields

\* What the simple rotations make, in their two cases.
LEMMA RightRotated ==
    ASSUME NEW k, NEW h, NEW r, NEW kl, NEW ll, NEW lr, NEW hl
    PROVE  LET root == Stale(k, Stale(kl, ll, lr, hl), r, h)
           IN /\ ll # Empty => SimpleRightRotate(root) = Node(kl, ll, Node(k, lr, r))
              /\ \A km, ml, mr, hm : ll = Empty /\ lr = Stale(km, ml, mr, hm) =>
                    SimpleRightRotate(root) = Node(km, Node(kl, ll, ml), Node(k, mr, r))
  <1> DEFINE left == Stale(kl, ll, lr, hl)
             root == Stale(k, left, r, h)
  <1>1. root.l = left /\ left.l = ll /\ left.r = lr
    BY StaleFields
  <1>2. \A u : updateHeight(PutRight(left, u)) = Node(kl, ll, u)
    BY StalePut
  <1>3. \A u : updateHeight(PutLeft(root, u)) = Node(k, u, r)
    BY StalePut
  <1> HIDE DEF left, root
  <1>4. SimpleRightRotate(root) =
           IF ll = Empty
           THEN updateHeight(PutBoth(lr, updateHeight(PutRight(left, lr.l)),
                                         updateHeight(PutLeft(root, lr.r))))
           ELSE updateHeight(PutRight(left, updateHeight(PutLeft(root, lr))))
    BY <1>1 DEF SimpleRightRotate, PutLeft, PutRight, PutBoth
  <1>5. ASSUME ll # Empty PROVE SimpleRightRotate(root) = Node(kl, ll, Node(k, lr, r))
    BY <1>2, <1>3, <1>4, <1>5
  <1>6. ASSUME NEW km, NEW ml, NEW mr, NEW hm, ll = Empty, lr = Stale(km, ml, mr, hm)
        PROVE  SimpleRightRotate(root) = Node(km, Node(kl, ll, ml), Node(k, mr, r))
    <2>1. lr.l = ml /\ lr.r = mr
      BY <1>6, StaleFields
    <2>2. \A u, v : updateHeight(PutBoth(lr, u, v)) = Node(km, u, v)
      BY <1>6, StalePut
    <2>3. QED
      BY <1>2, <1>3, <1>4, <1>6, <2>1, <2>2
  <1>7. QED
    BY <1>5, <1>6 DEF root, left

\* What a left rotation makes of the nodes it moves.
LEMMA LeftRotated ==
    ASSUME NEW k, NEW h, NEW l, NEW kr, NEW rl, NEW rr, NEW hr
    PROVE  LET root == Stale(k, l, Stale(kr, rl, rr, hr), h)
           IN /\ rr # Empty => SimpleLeftRotate(root) = Node(kr, Node(k, l, rl), rr)
              /\ \A km, ml, mr, hm : rr = Empty /\ rl = Stale(km, ml, mr, hm) =>
                    SimpleLeftRotate(root) = Node(km, Node(k, l, ml), Node(kr, mr, rr))
  <1> DEFINE right == Stale(kr, rl, rr, hr)
             root == Stale(k, l, right, h)
  <1>1. root.r = right /\ right.l = rl /\ right.r = rr
    BY StaleFields
  <1>2. \A u : updateHeight(PutLeft(right, u)) = Node(kr, u, rr)
    BY StalePut
  <1>3. \A u : updateHeight(PutRight(root, u)) = Node(k, l, u)
    BY StalePut
  <1> HIDE DEF right, root
  <1>4. SimpleLeftRotate(root) =
           IF rr = Empty
           THEN updateHeight(PutBoth(rl, updateHeight(PutRight(root, rl.l)),
                                         updateHeight(PutLeft(right, rl.r))))
           ELSE updateHeight(PutLeft(right, updateHeight(PutRight(root, rl))))
    BY <1>1 DEF SimpleLeftRotate, PutLeft, PutRight, PutBoth
  <1>5. ASSUME rr # Empty PROVE SimpleLeftRotate(root) = Node(kr, Node(k, l, rl), rr)
    BY <1>2, <1>3, <1>4, <1>5
  <1>6. ASSUME NEW km, NEW ml, NEW mr, NEW hm, rr = Empty, rl = Stale(km, ml, mr, hm)
        PROVE  SimpleLeftRotate(root) = Node(km, Node(k, l, ml), Node(kr, mr, rr))
    <2>1. rl.l = ml /\ rl.r = mr
      BY <1>6, StaleFields
    <2>2. \A u, v : updateHeight(PutBoth(rl, u, v)) = Node(km, u, v)
      BY <1>6, StalePut
    <2>3. QED
      BY <1>2, <1>3, <1>4, <1>6, <2>1, <2>2
  <1>7. QED
    BY <1>5, <1>6 DEF root, right

\* A rotation keeps the elements in order, where there is a node to move up.
LEMMA RightRotateTree ==
    ASSUME NEW D \in SUBSET Keys, NEW k \in D, NEW l, NEW r, NEW h,
           Tree(l, Under(D, k)), Tree(r, Over(D, k)),
           l # Empty, l.l # Empty \/ l.r # Empty
    PROVE  Tree(SimpleRightRotate(Stale(k, l, r, h)), D)
  <1>1. k \in Int /\ D \subseteq Int
    BY KeysAssumption
  <1> DEFINE a == l.key
  <1>2. /\ a \in Under(D, k) /\ a \in Int /\ a \in D /\ a < k
        /\ Tree(l.l, Under(Under(D, k), a)) /\ Tree(l.r, Over(Under(D, k), a))
    BY Split DEF Under
  <1>3. l = Stale(a, l.l, l.r, l.h)
    BY TreeStale
  <1> HIDE DEF a
  <1>4. Tree(l.l, Under(D, a)) /\ Tree(l.r, Under(Over(D, a), k)) /\ Tree(r, Over(Over(D, a), k))
    BY <1>1, <1>2, Parts
  <1>5. Over(D, a) \in SUBSET Keys /\ k \in Over(D, a)
    BY <1>1, <1>2, Parts DEF Over
  <1>6. CASE l.l # Empty
    <2>1. SimpleRightRotate(Stale(k, l, r, h)) = Node(a, l.l, Node(k, l.r, r))
      BY <1>3, <1>6, RightRotated
    <2>2. Tree(Node(k, l.r, r), Over(D, a))
      BY <1>4, <1>5, Join
    <2>3. QED
      BY <1>2, <1>4, <2>1, <2>2, Join
  <1>7. CASE l.l = Empty
    <2> DEFINE b == l.r.key
               m == l.r
               B == Over(Under(D, k), a)
    <2>1. /\ b \in B /\ b \in Int
          /\ Tree(m.l, Under(B, b)) /\ Tree(m.r, Over(B, b))
      <3> HIDE DEF B
      <3> QED BY <1>2, <1>7, Split DEF B
    <2>2. b \in D /\ a < b /\ b < k
      BY <1>2, <2>1 DEF Under, Over
    <2>3. m = Stale(b, m.l, m.r, m.h)
      BY <1>2, <1>7, TreeStale
    <2>4. SimpleRightRotate(Stale(k, l, r, h)) = Node(b, Node(a, l.l, m.l), Node(k, m.r, r))
      BY <1>3, <1>7, <2>3, RightRotated
    <2> HIDE DEF b, m
    <2>5. Under(B, b) = Over(Under(D, b), a)
      <3>1. \A y \in D : y \in Under(B, b) <=> y \in Over(Under(D, b), a)
        BY <1>1, <1>2, <2>1, <2>2 DEF Under, Over
      <3> QED BY <3>1 DEF Under, Over
    <2>6. Over(B, b) = Under(Over(D, b), k)
      <3>1. \A y \in D : y \in Over(B, b) <=> y \in Under(Over(D, b), k)
        BY <1>1, <1>2, <2>1, <2>2 DEF Under, Over
      <3> QED BY <3>1 DEF Under, Over
    <2>7. Tree(Node(a, l.l, m.l), Under(D, b))
      <3>1. a \in Under(D, b) /\ Under(D, b) \in SUBSET Keys
        BY <1>2, <2>1, <2>2 DEF Under
      <3>2. Tree(l.l, Under(Under(D, b), a)) /\ Tree(m.l, Over(Under(D, b), a))
        BY <1>1, <1>2, <1>4, <2>1, <2>2, <2>5, Parts
      <3>3. QED
        BY <3>1, <3>2, Join
    <2>8. Tree(Node(k, m.r, r), Over(D, b))
      <3>1. k \in Over(D, b) /\ Over(D, b) \in SUBSET Keys
        BY <1>1, <2>1, <2>2 DEF Over
      <3>2. Tree(m.r, Under(Over(D, b), k)) /\ Tree(r, Over(Over(D, b), k))
        BY <1>1, <2>1, <2>2, <2>6, Parts
      <3>3. QED
        BY <3>1, <3>2, Join
    <2>9. QED
      BY <2>1, <2>2, <2>4, <2>7, <2>8, Join
  <1>8. QED
    BY <1>6, <1>7

\* A left rotation keeps a search tree of the same elements.
LEMMA LeftRotateTree ==
    ASSUME NEW D \in SUBSET Keys, NEW k \in D, NEW l, NEW r, NEW h,
           Tree(l, Under(D, k)), Tree(r, Over(D, k)),
           r # Empty, r.l # Empty \/ r.r # Empty
    PROVE  Tree(SimpleLeftRotate(Stale(k, l, r, h)), D)
  <1>1. k \in Int /\ D \subseteq Int
    BY KeysAssumption
  <1> DEFINE a == r.key
  <1>2. /\ a \in Over(D, k) /\ a \in Int /\ a \in D /\ k < a
        /\ Tree(r.l, Under(Over(D, k), a)) /\ Tree(r.r, Over(Over(D, k), a))
    BY Split DEF Over
  <1>3. r = Stale(a, r.l, r.r, r.h)
    BY TreeStale
  <1> HIDE DEF a
  <1>4. Tree(r.r, Over(D, a)) /\ Tree(r.l, Over(Under(D, a), k)) /\ Tree(l, Under(Under(D, a), k))
    BY <1>1, <1>2, Parts
  <1>5. Under(D, a) \in SUBSET Keys /\ k \in Under(D, a)
    BY <1>1, <1>2, Parts DEF Under
  <1>6. CASE r.r # Empty
    <2>1. SimpleLeftRotate(Stale(k, l, r, h)) = Node(a, Node(k, l, r.l), r.r)
      BY <1>3, <1>6, LeftRotated
    <2>2. Tree(Node(k, l, r.l), Under(D, a))
      BY <1>4, <1>5, Join
    <2>3. QED
      BY <1>2, <1>4, <2>1, <2>2, Join
  <1>7. CASE r.r = Empty
    <2> DEFINE b == r.l.key
               m == r.l
               B == Under(Over(D, k), a)
    <2>1. /\ b \in B /\ b \in Int
          /\ Tree(m.l, Under(B, b)) /\ Tree(m.r, Over(B, b))
      <3> HIDE DEF B
      <3> QED BY <1>2, <1>7, Split DEF B
    <2>2. b \in D /\ k < b /\ b < a
      BY <1>2, <2>1 DEF Under, Over
    <2>3. m = Stale(b, m.l, m.r, m.h)
      BY <1>2, <1>7, TreeStale
    <2>4. SimpleLeftRotate(Stale(k, l, r, h)) = Node(b, Node(k, l, m.l), Node(a, m.r, r.r))
      BY <1>3, <1>7, <2>3, LeftRotated
    <2> HIDE DEF b, m
    <2>5. Under(B, b) = Over(Under(D, b), k)
      <3>1. \A y \in D : y \in Under(B, b) <=> y \in Over(Under(D, b), k)
        BY <1>1, <1>2, <2>1, <2>2 DEF Under, Over
      <3> QED BY <3>1 DEF Under, Over
    <2>6. Over(B, b) = Under(Over(D, b), a)
      <3>1. \A y \in D : y \in Over(B, b) <=> y \in Under(Over(D, b), a)
        BY <1>1, <1>2, <2>1, <2>2 DEF Under, Over
      <3> QED BY <3>1 DEF Under, Over
    <2>7. Tree(Node(k, l, m.l), Under(D, b))
      <3>1. k \in Under(D, b) /\ Under(D, b) \in SUBSET Keys
        BY <1>2, <2>1, <2>2 DEF Under
      <3>2. Tree(l, Under(Under(D, b), k)) /\ Tree(m.l, Over(Under(D, b), k))
        BY <1>1, <1>2, <1>4, <2>1, <2>2, <2>5, Parts
      <3>3. QED
        BY <3>1, <3>2, Join
    <2>8. Tree(Node(a, m.r, r.r), Over(D, b))
      <3>1. a \in Over(D, b) /\ Over(D, b) \in SUBSET Keys
        BY <1>1, <1>2, <2>1, <2>2 DEF Over
      <3>2. Tree(m.r, Under(Over(D, b), a)) /\ Tree(r.r, Over(Over(D, b), a))
        BY <1>1, <1>2, <1>4, <2>1, <2>2, <2>6, Parts
      <3>3. QED
        BY <3>1, <3>2, Join
    <2>9. QED
      BY <2>1, <2>2, <2>4, <2>7, <2>8, Join
  <1>8. QED
    BY <1>6, <1>7

\* left_balance and right_balance keep the elements in order: the heights that
\* trigger a rotation also say that the nodes it moves are there.
LEMMA LeftBalanceTree ==
    ASSUME NEW D \in SUBSET Keys, NEW k \in D, NEW l, NEW r,
           Tree(l, Under(D, k)), Tree(r, Over(D, k))
    PROVE  Tree(left_balance(Node(k, l, r)), D)
  <1> DEFINE root == Node(k, l, r)
  <1>1. root.key = k /\ root.l = l /\ root.r = r
    BY NodeFields
  <1>2. root = Stale(k, l, r, root.h)
    BY StaleFields
  <1>3. getHeight(l) \in Nat /\ getHeight(r) \in Nat
    BY HeightNat
  <1>4. Tree(root, D)
    BY Join
  <1> HIDE DEF root
  <1>5. CASE get_blfactor(root) > -2
    BY <1>4, <1>5 DEF left_balance, root
  <1>6. CASE ~(get_blfactor(root) > -2)
    <2>1. getHeight(l) > 1
      BY <1>1, <1>3, <1>6 DEF get_blfactor
    <2>2. l # Empty
      BY <2>1 DEF getHeight
    <2> DEFINE E == Under(D, k)
    <2>3. /\ l.key \in E /\ E \in SUBSET Keys
          /\ Tree(l.l, Under(E, l.key)) /\ Tree(l.r, Over(E, l.key))
      <3>1. E \in SUBSET Keys
        BY DEF Under
      <3> HIDE DEF E
      <3> QED BY <2>2, <3>1, Split DEF E
    <2>4. l.l # Empty \/ l.r # Empty
      <3>1. getHeight(l) = Taller(getHeight(l.l), getHeight(l.r)) + 1
        BY <2>2, HeightNat
      <3>2. getHeight(Empty) = 0
        BY DEF getHeight
      <3>3. QED
        BY <2>1, <3>1, <3>2 DEF Taller
    <2>5. l = Stale(l.key, l.l, l.r, l.h)
      BY <2>2, TreeStale
    <2>6. CASE l.r # Empty /\ get_blfactor(l.r) > 0
      <3> DEFINE m == l.r
                 x == SimpleLeftRotate(l)
      <3>1. m.r # Empty
        <4>1. /\ getHeight(m.l) \in Nat /\ getHeight(m.r) \in Nat
          BY <2>3, <2>6, HeightNat
        <4>2. QED
          BY <2>6, <4>1 DEF get_blfactor, getHeight
      <3>2. m = Stale(m.key, m.l, m.r, m.h)
        BY <2>3, <2>6, TreeStale
      <3>3. x = Node(m.key, Node(l.key, l.l, m.l), m.r)
        <4>1. l = Stale(l.key, l.l, Stale(m.key, m.l, m.r, m.h), l.h)
          BY <2>5, <3>2
        <4>2. QED
          BY <3>1, <4>1, LeftRotated
      <3>4. m.key \in Keys
        BY <2>3, <2>6, Split
      <3>5. Tree(x, E)
        <4> HIDE DEF E
        <4>1. Tree(SimpleLeftRotate(Stale(l.key, l.l, l.r, l.h)), E)
          BY <2>3, <2>6, <3>1, LeftRotateTree
        <4>2. QED
          BY <2>5, <4>1
      <3> HIDE DEF x, m
      <3>6. x # Empty /\ x.r # Empty
        BY <3>1, <3>3, <3>4, NodeFields
      <3>7. PutLeft(root, x) = Stale(k, x, r, root.h)
        BY <1>2, StalePut
      <3>8. left_balance(root) = SimpleRightRotate(PutLeft(root, x))
        BY <1>1, <1>6, <2>6 DEF left_balance, LeftRightRotate, PutLeft, x
      <3>9. Tree(SimpleRightRotate(Stale(k, x, r, root.h)), D)
        BY <3>5, <3>6, RightRotateTree
      <3>10. QED
        BY <3>7, <3>8, <3>9 DEF root
    <2>7. CASE ~(l.r # Empty /\ get_blfactor(l.r) > 0)
      <3>1. left_balance(root) = SimpleRightRotate(root)
        BY <1>1, <1>6, <2>7 DEF left_balance
      <3>2. Tree(SimpleRightRotate(Stale(k, l, r, root.h)), D)
        BY <2>2, <2>4, RightRotateTree
      <3>3. QED
        BY <1>2, <3>1, <3>2 DEF root
    <2>8. QED
      BY <2>6, <2>7
  <1>7. QED
    BY <1>5, <1>6

\* right_balance keeps a search tree of the same elements, rotated or not.
LEMMA RightBalanceTree ==
    ASSUME NEW D \in SUBSET Keys, NEW k \in D, NEW l, NEW r,
           Tree(l, Under(D, k)), Tree(r, Over(D, k))
    PROVE  Tree(right_balance(Node(k, l, r)), D)
  <1> DEFINE root == Node(k, l, r)
  <1>1. root.key = k /\ root.l = l /\ root.r = r
    BY NodeFields
  <1>2. root = Stale(k, l, r, root.h)
    BY StaleFields
  <1>3. getHeight(l) \in Nat /\ getHeight(r) \in Nat
    BY HeightNat
  <1>4. Tree(root, D)
    BY Join
  <1> HIDE DEF root
  <1>5. CASE get_blfactor(root) < 2
    BY <1>4, <1>5 DEF right_balance, root
  <1>6. CASE ~(get_blfactor(root) < 2)
    <2>1. getHeight(r) > 1
      BY <1>1, <1>3, <1>6 DEF get_blfactor
    <2>2. r # Empty
      BY <2>1 DEF getHeight
    <2> DEFINE E == Over(D, k)
    <2>3. /\ r.key \in E /\ E \in SUBSET Keys
          /\ Tree(r.l, Under(E, r.key)) /\ Tree(r.r, Over(E, r.key))
      <3>1. E \in SUBSET Keys
        BY DEF Over
      <3> HIDE DEF E
      <3> QED BY <2>2, <3>1, Split DEF E
    <2>4. r.l # Empty \/ r.r # Empty
      <3>1. getHeight(r) = Taller(getHeight(r.l), getHeight(r.r)) + 1
        BY <2>2, HeightNat
      <3>2. getHeight(Empty) = 0
        BY DEF getHeight
      <3>3. QED
        BY <2>1, <3>1, <3>2 DEF Taller
    <2>5. r = Stale(r.key, r.l, r.r, r.h)
      BY <2>2, TreeStale
    <2>6. CASE r.l # Empty /\ get_blfactor(r.l) < 0
      <3> DEFINE m == r.l
                 x == SimpleRightRotate(r)
      <3>1. m.l # Empty
        <4>1. /\ getHeight(m.l) \in Nat /\ getHeight(m.r) \in Nat
          BY <2>3, <2>6, HeightNat
        <4>2. QED
          BY <2>6, <4>1 DEF get_blfactor, getHeight
      <3>2. m = Stale(m.key, m.l, m.r, m.h)
        BY <2>3, <2>6, TreeStale
      <3>3. x = Node(m.key, m.l, Node(r.key, m.r, r.r))
        <4>1. r = Stale(r.key, Stale(m.key, m.l, m.r, m.h), r.r, r.h)
          BY <2>5, <3>2
        <4>2. QED
          BY <3>1, <4>1, RightRotated
      <3>4. m.key \in Keys
        BY <2>3, <2>6, Split
      <3>5. Tree(x, E)
        <4> HIDE DEF E
        <4>1. Tree(SimpleRightRotate(Stale(r.key, r.l, r.r, r.h)), E)
          BY <2>3, <2>6, <3>1, RightRotateTree
        <4>2. QED
          BY <2>5, <4>1
      <3> HIDE DEF x, m
      <3>6. x # Empty /\ x.l # Empty
        BY <3>1, <3>3, <3>4, NodeFields
      <3>7. PutRight(root, x) = Stale(k, l, x, root.h)
        BY <1>2, StalePut
      <3>8. right_balance(root) = SimpleLeftRotate(PutRight(root, x))
        BY <1>1, <1>6, <2>6 DEF right_balance, RightLeftRotate, PutRight, x
      <3>9. Tree(SimpleLeftRotate(Stale(k, l, x, root.h)), D)
        BY <3>5, <3>6, LeftRotateTree
      <3>10. QED
        BY <3>7, <3>8, <3>9 DEF root
    <2>7. CASE ~(r.l # Empty /\ get_blfactor(r.l) < 0)
      <3>1. right_balance(root) = SimpleLeftRotate(root)
        BY <1>1, <1>6, <2>7 DEF right_balance
      <3>2. Tree(SimpleLeftRotate(Stale(k, l, r, root.h)), D)
        BY <2>2, <2>4, LeftRotateTree
      <3>3. QED
        BY <1>2, <3>1, <3>2 DEF root
    <2>8. QED
      BY <2>6, <2>7
  <1>7. QED
    BY <1>5, <1>6

\* A node mended after a change below it is a search tree again.
LEMMA MendedTree ==
    ASSUME NEW D \in SUBSET Keys, NEW t, NEW u, t = Stale(t.key, t.l, t.r, t.h), t.key \in D,
           NEW side \in {"l", "r"}, NEW mode \in {"same", "opposite"},
           Tree(IF side = "l" THEN u ELSE t.l, Under(D, t.key)),
           Tree(IF side = "l" THEN t.r ELSE u, Over(D, t.key))
    PROVE  Tree(Mended(mode, side, WithChild(t, side, u)), D)
  <1> DEFINE l == IF side = "l" THEN u ELSE t.l
             r == IF side = "l" THEN t.r ELSE u
             w == WithChild(t, side, u)
  <1>1. updateHeight(w) = Node(t.key, l, r)
    <2>1. CASE side = "l"
      <3>1. w = PutLeft(t, u)
        BY <2>1 DEF WithChild, PutLeft
      <3>2. updateHeight(PutLeft(t, u)) = Node(t.key, u, t.r)
        BY StalePut
      <3>3. QED
        BY <2>1, <3>1, <3>2
    <2>2. CASE side # "l"
      <3>1. w = PutRight(t, u)
        BY <2>2 DEF WithChild, PutRight
      <3>2. updateHeight(PutRight(t, u)) = Node(t.key, t.l, u)
        BY StalePut
      <3>3. QED
        BY <2>2, <3>1, <3>2
    <2>3. QED
      BY <2>1, <2>2
  <1> HIDE DEF l, r, w
  <1>2. Tree(left_balance(Node(t.key, l, r)), D)
    BY LeftBalanceTree DEF l, r
  <1>3. Tree(right_balance(Node(t.key, l, r)), D)
    BY RightBalanceTree DEF l, r
  <1>4. Mended(mode, side, w) \in {left_balance(updateHeight(w)), right_balance(updateHeight(w))}
    BY DEF Mended
  <1>5. QED
    BY <1>1, <1>2, <1>3, <1>4 DEF w

-----------------------------------------------------------------------------
(***************************************************************************)
(* Walks.                                                                  *)
(***************************************************************************)
\* A tree is no higher than it has elements.
LEMMA HeightBound ==
    ASSUME NEW t, NEW D, Tree(t, D)
    PROVE  /\ IsFiniteSet(D) /\ Cardinality(D) \in Nat
           /\ getHeight(t) <= Cardinality(D) /\ Cardinality(D) <= Deepest
  <1>1. \A E : E \subseteq Keys => /\ IsFiniteSet(E) /\ Cardinality(E) \in Nat
                                   /\ Cardinality(E) <= Deepest
    BY KeysAssumption, FS_Subset, FS_CardinalityType DEF Deepest
  <1> DEFINE T == {n \in Nat : \E s, E : Tree(s, E) /\ getHeight(s) = n /\ Cardinality(E) < n}
  <1>2. SUFFICES ASSUME T # {} PROVE FALSE
    <2>1. D \subseteq Keys /\ getHeight(t) \in Nat
      BY HeightNat DEF Tree
    <2>2. getHeight(t) \notin T => ~(Cardinality(D) < getHeight(t))
      BY <2>1
    <2>3. QED
      BY <1>1, <2>1, <2>2
  <1>3. T \in SUBSET Nat
    OBVIOUS
  <1>4. PICK n \in T : \A m \in T : n <= m
    <2> HIDE DEF T
    <2> QED BY <1>2, <1>3, Least
  <1>5. PICK s, E : Tree(s, E) /\ getHeight(s) = n /\ Cardinality(E) < n
    BY <1>4
  <1>6. E \subseteq Keys /\ IsFiniteSet(E) /\ Cardinality(E) \in Nat
    BY <1>1, <1>5 DEF Tree
  <1>7. s # Empty
    BY <1>5, <1>6 DEF getHeight
  <1> DEFINE L == Under(E, s.key)
             R == Over(E, s.key)
  <1>8. /\ s.key \in E /\ s.key \in Int /\ E \subseteq Int
        /\ Tree(s.l, L) /\ Tree(s.r, R)
    BY <1>5, <1>7, Split
  <1>9. /\ getHeight(s.l) \in Nat /\ getHeight(s.r) \in Nat
        /\ n = Taller(getHeight(s.l), getHeight(s.r)) + 1
        /\ getHeight(s.l) < n /\ getHeight(s.r) < n
    BY <1>5, <1>7, HeightNat
  <1>10. getHeight(s.l) <= Cardinality(L) /\ getHeight(s.r) <= Cardinality(R)
    <2>1. L \subseteq Keys /\ R \subseteq Keys
      BY <1>6 DEF Under, Over
    <2>2. Cardinality(L) \in Nat /\ Cardinality(R) \in Nat
      BY <1>1, <2>1
    <2>3. getHeight(s.l) \notin T /\ getHeight(s.r) \notin T
      <3> HIDE DEF T
      <3>1. n \in Nat
        BY <1>3
      <3>2. QED
        BY <1>4, <1>9, <3>1
    <2>4. ~(Cardinality(L) < getHeight(s.l)) /\ ~(Cardinality(R) < getHeight(s.r))
      <3> HIDE DEF L, R
      <3> QED BY <1>8, <1>9, <2>3
    <2>5. QED
      BY <1>9, <2>2, <2>4
  <1>11. /\ IsFiniteSet(E \ {s.key}) /\ Cardinality(E \ {s.key}) = Cardinality(E) - 1
    BY <1>6, <1>8, FS_RemoveElement
  <1>12. L \subseteq E \ {s.key} /\ R \subseteq E \ {s.key}
    BY <1>8 DEF Under, Over
  <1>13. /\ Cardinality(L) <= Cardinality(E) - 1 /\ Cardinality(R) <= Cardinality(E) - 1
         /\ Cardinality(L) \in Nat /\ Cardinality(R) \in Nat
    <2>1. \A F \in SUBSET (E \ {s.key}) : /\ Cardinality(F) <= Cardinality(E \ {s.key})
                                          /\ IsFiniteSet(F)
      BY <1>11, FS_Subset
    <2>2. QED
      BY <1>11, <1>12, <2>1, FS_CardinalityType
  <1> HIDE DEF L, R
  <1>14. QED
    BY <1>5, <1>6, <1>9, <1>10, <1>13 DEF Taller

\* The walk from t towards the sides that turn gives.
LEMMA WalkSteps ==
    ASSUME NEW t, NEW turn, NEW stop
    PROVE  LET w == Walk(t, turn, stop)
           IN /\ w[0] = t
              /\ \A i \in 0..(Deepest - 1) :
                    w[i + 1] = IF w[i] = Empty \/ w[i].key = stop THEN Empty
                               ELSE Child(w[i], turn[w[i].key])
  <1> DEFINE Visit(f, i) ==
                IF i = 0 THEN t
                ELSE LET s == f[i - 1]
                     IN IF s = Empty \/ s.key = stop THEN Empty ELSE Child(s, turn[s.key])
             Fits(f, n) == f = [i \in 0..n |-> Visit(f, i)]
             w == CHOOSE f : Fits(f, Deepest)
  <1>1. Deepest \in Nat
    BY KeysAssumption, FS_CardinalityType DEF Deepest
  <1>2. ASSUME NEW n \in Nat PROVE \E f : Fits(f, n)
    <2> DEFINE T == {m \in Nat : ~\E f : Fits(f, m)}
    <2>1. SUFFICES ASSUME T # {} PROVE FALSE
      OBVIOUS
    <2>2. T \in SUBSET Nat
      OBVIOUS
    <2>3. PICK x \in T : \A y \in T : x <= y
      <3> HIDE DEF T
      <3> QED BY <2>1, <2>2, Least
    <2>4. CASE x = 0
      <3> DEFINE f == [i \in 0..0 |-> t]
      <3>1. \A i \in 0..0 : Visit(f, i) = t
        OBVIOUS
      <3>2. Fits(f, 0)
        BY <3>1
      <3>3. QED
        BY <2>3, <2>4, <3>2
    <2>5. CASE x # 0
      <3>1. x - 1 \in Nat /\ x - 1 \notin T
        <4> HIDE DEF T
        <4>1. x \in Nat
          BY <2>2
        <4>2. QED
          BY <2>3, <2>5, <4>1
      <3>2. PICK f : Fits(f, x - 1)
        BY <3>1
      <3> DEFINE g == [i \in 0..x |-> IF i = x THEN Visit(f, x) ELSE f[i]]
      <3>3. \A i \in 0..(x - 1) : f[i] = Visit(f, i)
        BY <3>2
      <3>4. ASSUME NEW i \in 0..x PROVE Visit(g, i) = g[i]
        <4>1. CASE i = 0
          <5>1. 0 \in 0..(x - 1) /\ i # x
            BY <2>5, <3>1, <4>1
          <5>2. QED
            BY <3>3, <4>1, <5>1
        <4>2. CASE i # 0
          <5>1. i - 1 \in 0..x /\ i - 1 # x
            BY <4>2
          <5>2. g[i - 1] = f[i - 1]
            BY <5>1
          <5>3. Visit(g, i) = Visit(f, i)
            BY <5>2
          <5>4. i # x => i \in 0..(x - 1)
            BY <3>1
          <5>5. g[i] = IF i = x THEN Visit(f, x) ELSE f[i]
            OBVIOUS
          <5> HIDE DEF Visit, g
          <5>6. QED
            BY <3>3, <5>3, <5>4, <5>5
        <4>3. QED
          BY <4>1, <4>2
      <3>5. g = [i \in 0..x |-> g[i]]
        OBVIOUS
      <3> HIDE DEF g
      <3>6. Fits(g, x)
        BY <3>4, <3>5
      <3>7. QED
        BY <2>3, <3>6
    <2>6. QED
      BY <2>4, <2>5
  <1>3. Fits(w, Deepest)
    BY <1>1, <1>2
  <1>4. Walk(t, turn, stop) = w
    BY DEF Walk
  <1> HIDE DEF w
  <1>5. \A i \in 0..Deepest : w[i] = Visit(w, i)
    BY <1>3
  <1>6. w[0] = t
    BY <1>1, <1>5
  <1>7. ASSUME NEW i \in 0..(Deepest - 1)
        PROVE  w[i + 1] = IF w[i] = Empty \/ w[i].key = stop THEN Empty
                          ELSE Child(w[i], turn[w[i].key])
    <2>1. i + 1 \in 0..Deepest /\ i + 1 # 0 /\ (i + 1) - 1 = i
      BY <1>1
    <2>2. w[i + 1] = Visit(w, i + 1)
      BY <1>5, <2>1
    <2>3. QED
      BY <2>1, <2>2
  <1>8. QED
    BY <1>4, <1>6, <1>7

\* w goes from the node t down n nodes, to the one that holds stop or that has no
\* child on the side taken.
Goes(w, n, t, turn, stop) ==
    /\ n \in Nat /\ n > 0 /\ n <= Deepest /\ Foot(w) = n
    /\ w[0] = t
    /\ \A i \in 0..(n - 1) : w[i] # Empty /\ \E E : Tree(w[i], E)
    /\ \A i \in 0..(n - 1) : i < n - 1 =>
          w[i].key # stop /\ w[i + 1] = Child(w[i], turn[w[i].key])
    /\ w[n - 1].key = stop \/ Child(w[n - 1], turn[w[n - 1].key]) = Empty

\* Every walk comes to an end.
LEMMA WalkEnds ==
    ASSUME NEW t, NEW D, Tree(t, D), t # Empty,
           NEW turn \in [Keys -> {"l", "r"}], NEW stop
    PROVE  \E n : Goes(Walk(t, turn, stop), n, t, turn, stop)
  <1> DEFINE w == Walk(t, turn, stop)
             h == getHeight(t)
             Fine(i) == w[i] # Empty => \E E : Tree(w[i], E) /\ getHeight(w[i]) + i <= h
  <1>1. h \in Nat /\ h # 0 /\ h <= Deepest /\ Deepest \in Nat
    <2>1. h \in Nat /\ h # 0
      BY HeightNat
    <2>2. Deepest \in Nat
      BY KeysAssumption, FS_CardinalityType DEF Deepest
    <2>3. QED
      BY <2>1, <2>2, HeightBound
  <1>2. /\ w[0] = t
        /\ \A i \in 0..(Deepest - 1) :
              w[i + 1] = IF w[i] = Empty \/ w[i].key = stop THEN Empty
                         ELSE Child(w[i], turn[w[i].key])
    BY WalkSteps
  <1> HIDE DEF w, h
  <1>3. \A i \in 0..Deepest : Fine(i)
    <2> DEFINE T == {i \in 0..Deepest : ~Fine(i)}
    <2>1. SUFFICES ASSUME T # {} PROVE FALSE
      OBVIOUS
    <2>2. T \in SUBSET Nat
      BY <1>1
    <2>3. PICK x \in T : \A y \in T : x <= y
      <3> HIDE DEF T
      <3> QED BY <2>1, <2>2, Least
    <2>4. x \in 0..Deepest /\ ~Fine(x)
      OBVIOUS
    <2>5. x # 0
      <3>1. Tree(t, D) /\ h + 0 <= h
        BY <1>1
      <3>2. Fine(0)
        BY <1>2, <3>1 DEF h
      <3>3. QED
        BY <2>4, <3>2
    <2>6. x - 1 \in 0..Deepest /\ x - 1 \in 0..(Deepest - 1) /\ x - 1 \in Nat /\ (x - 1) + 1 = x
      BY <1>1, <2>4, <2>5
    <2>7. Fine(x - 1)
      <3>1. x - 1 \notin T
        <4> HIDE DEF T
        <4> QED BY <2>3, <2>6
      <3>2. QED
        BY <2>6, <3>1
    <2>8. /\ w[x] # Empty /\ w[x - 1] # Empty
          /\ w[x] = Child(w[x - 1], turn[w[x - 1].key])
      <3>1. w[x] # Empty
        BY <2>4
      <3>2. QED
        BY <1>2, <2>6, <3>1
    <2>9. PICK E : Tree(w[x - 1], E) /\ getHeight(w[x - 1]) + (x - 1) <= h
      BY <2>7, <2>8
    <2> DEFINE s == w[x - 1]
    <2>10. /\ Tree(s.l, Under(E, s.key)) /\ Tree(s.r, Over(E, s.key))
           /\ getHeight(s) \in Nat /\ getHeight(s.l) \in Nat /\ getHeight(s.r) \in Nat
           /\ getHeight(s.l) < getHeight(s) /\ getHeight(s.r) < getHeight(s)
      BY <2>8, <2>9, Split, HeightNat
    <2>11. w[x] = s.l \/ w[x] = s.r
      BY <2>8 DEF Child
    <2> HIDE DEF s
    <2>12. getHeight(w[x]) \in Nat /\ getHeight(w[x]) < getHeight(s) /\ \E F : Tree(w[x], F)
      BY <2>10, <2>11
    <2>13. getHeight(w[x]) + x <= h
      BY <1>1, <2>4, <2>9, <2>10, <2>12 DEF s
    <2>14. QED
      BY <2>4, <2>12, <2>13
  <1>4. w[h] = Empty
    <2>1. SUFFICES ASSUME w[h] # Empty PROVE FALSE
      OBVIOUS
    <2>2. PICK E : Tree(w[h], E) /\ getHeight(w[h]) + h <= h
      BY <1>1, <1>3, <2>1
    <2>3. getHeight(w[h]) \in Nat /\ getHeight(w[h]) # 0
      BY <2>1, <2>2, HeightNat
    <2>4. QED
      BY <1>1, <2>2, <2>3
  <1> DEFINE U == {i \in 0..Deepest : w[i] = Empty}
  <1>5. PICK n \in U : \A y \in U : n <= y
    <2>1. U # {} /\ U \in SUBSET Nat
      BY <1>1, <1>4
    <2> HIDE DEF U
    <2> QED BY <2>1, Least
  <1>6. /\ n \in 0..Deepest /\ w[n] = Empty /\ n # 0
        /\ \A i \in 0..(n - 1) : w[i] # Empty
    <2>1. n \in 0..Deepest /\ w[n] = Empty
      OBVIOUS
    <2>2. \A i \in 0..(n - 1) : i \in 0..Deepest /\ ~(n <= i)
      BY <1>1, <2>1
    <2>3. \A i \in 0..(n - 1) : w[i] # Empty
      BY <1>5, <2>2
    <2>4. n # 0
      BY <1>2, <2>1
    <2>5. QED
      BY <2>1, <2>3, <2>4
  <1> HIDE DEF U
  <1>7. \A i \in n..Deepest : w[i] = Empty
    <2> DEFINE T == {i \in n..Deepest : w[i] # Empty}
    <2>1. SUFFICES ASSUME T # {} PROVE FALSE
      OBVIOUS
    <2>2. T \in SUBSET Nat
      BY <1>1, <1>6
    <2>3. PICK x \in T : \A y \in T : x <= y
      <3> HIDE DEF T
      <3> QED BY <2>1, <2>2, Least
    <2>4. x \in n..Deepest /\ w[x] # Empty
      OBVIOUS
    <2>5. x # n
      BY <1>6, <2>4
    <2>6. x - 1 \in n..Deepest /\ x - 1 \in 0..(Deepest - 1) /\ (x - 1) + 1 = x /\ ~(x <= x - 1)
      BY <1>1, <1>6, <2>4, <2>5
    <2>7. w[x - 1] = Empty
      BY <2>3, <2>6
    <2>8. QED
      BY <1>2, <2>4, <2>6, <2>7
  <1>8. Foot(w) = n
    <2> DEFINE End(i) == w[i] = Empty /\ (i > 0 => w[i - 1] # Empty)
    <2>1. n - 1 \in 0..(n - 1)
      BY <1>6
    <2>2. End(n)
      BY <1>6, <2>1
    <2>3. ASSUME NEW i \in 0..Deepest, End(i) PROVE i = n
      <3>1. ~(i < n)
        BY <1>6, <2>3
      <3>2. ~(i > n)
        <4>1. i > n => i - 1 \in n..Deepest /\ i > 0
          BY <1>1, <1>6
        <4>2. QED
          BY <1>7, <2>3, <4>1
      <3>3. QED
        BY <1>6, <3>1, <3>2
    <2>4. Foot(w) = CHOOSE i \in 0..Deepest : End(i)
      BY DEF Foot
    <2> HIDE DEF End
    <2>5. QED
      BY <1>6, <2>2, <2>3, <2>4
  <1>9. ASSUME NEW i \in 0..(n - 1)
        PROVE  w[i] # Empty /\ \E E : Tree(w[i], E)
    <2>1. i \in 0..Deepest
      BY <1>1, <1>6
    <2>2. QED
      BY <1>3, <1>6, <2>1
  <1>10. ASSUME NEW i \in 0..(n - 1), i < n - 1
         PROVE  w[i].key # stop /\ w[i + 1] = Child(w[i], turn[w[i].key])
    <2>1. i \in 0..(Deepest - 1) /\ i + 1 \in 0..(n - 1)
      BY <1>1, <1>6, <1>10
    <2>2. QED
      BY <1>2, <1>6, <2>1
  <1>11. w[n - 1].key = stop \/ Child(w[n - 1], turn[w[n - 1].key]) = Empty
    <2>1. n - 1 \in 0..(Deepest - 1) /\ n - 1 \in 0..(n - 1) /\ (n - 1) + 1 = n
      BY <1>1, <1>6
    <2>2. QED
      BY <1>2, <1>6, <2>1
  <1>12. Goes(w, n, t, turn, stop)
    BY <1>1, <1>2, <1>6, <1>8, <1>9, <1>10, <1>11 DEF Goes
  <1>13. QED
    BY <1>12 DEF w

\* The way back, step by step.
LEMMA RebuiltSteps ==
    ASSUME NEW w, NEW turn, NEW bottom, NEW mode, NEW end \in Nat, Foot(w) - 1 = end
    PROVE  \E new : /\ Rebuilt(w, turn, bottom, mode) = new[0]
                    /\ new[end] = bottom
                    /\ \A i \in 0..end : i # end =>
                          new[i] = Mended(mode, turn[w[i].key],
                                          WithChild(w[i], turn[w[i].key], new[i + 1]))
  <1> DEFINE Made(f, i) == IF i = end THEN bottom
                           ELSE LET side == turn[w[i].key]
                                IN Mended(mode, side, WithChild(w[i], side, f[i + 1]))
             Fits(f, m) == f = [i \in m..end |-> Made(f, i)]
             new == CHOOSE f : Fits(f, 0)
  <1>1. ASSUME NEW n \in Nat PROVE \E f : Fits(f, end - n)
    <2> DEFINE T == {m \in Nat : ~\E f : Fits(f, end - m)}
    <2>1. SUFFICES ASSUME T # {} PROVE FALSE
      OBVIOUS
    <2>2. T \in SUBSET Nat
      OBVIOUS
    <2>3. PICK x \in T : \A y \in T : x <= y
      <3> HIDE DEF T
      <3> QED BY <2>1, <2>2, Least
    <2>4. CASE x = 0
      <3> DEFINE f == [i \in end..end |-> bottom]
      <3>1. \A i \in end..end : Made(f, i) = bottom
        OBVIOUS
      <3>2. Fits(f, end)
        BY <3>1
      <3>3. end - x = end
        BY <2>4
      <3>4. QED
        BY <2>3, <3>2, <3>3
    <2>5. CASE x # 0
      <3> DEFINE m == end - x
      <3>1. x - 1 \in Nat /\ x - 1 \notin T /\ end - (x - 1) = m + 1 /\ m \in Int /\ m < end
        <4> HIDE DEF T
        <4>1. x \in Nat
          BY <2>2
        <4>2. QED
          BY <2>3, <2>5, <4>1
      <3>2. PICK f : Fits(f, m + 1)
        BY <3>1
      <3> DEFINE g == [i \in m..end |-> IF i = m THEN Made(f, m) ELSE f[i]]
      <3> HIDE DEF m
      <3>3. \A i \in (m + 1)..end : f[i] = Made(f, i)
        BY <3>2
      <3>4. ASSUME NEW i \in m..end PROVE Made(g, i) = g[i]
        <4>1. Made(g, i) = Made(f, i)
          <5>1. CASE i = end
            BY <5>1
          <5>2. CASE i # end
            <6>1. i + 1 \in m..end /\ i + 1 # m
              BY <3>1, <5>2
            <6>2. g[i + 1] = f[i + 1]
              BY <6>1
            <6>3. QED
              BY <6>2
          <5>3. QED
            BY <5>1, <5>2
        <4>2. g[i] = IF i = m THEN Made(f, m) ELSE f[i]
          OBVIOUS
        <4>3. i # m => i \in (m + 1)..end
          BY <3>1
        <4> HIDE DEF Made, g
        <4>4. QED
          BY <3>3, <4>1, <4>2, <4>3
      <3>5. g = [i \in m..end |-> g[i]]
        OBVIOUS
      <3> HIDE DEF g
      <3>6. Fits(g, m)
        BY <3>4, <3>5
      <3>7. QED
        BY <2>3, <3>6 DEF m
    <2>6. QED
      BY <2>4, <2>5
  <1>2. Fits(new, 0)
    <2>1. end - end = 0
      OBVIOUS
    <2> HIDE DEF Fits
    <2>2. PICK f : Fits(f, end - end)
      BY <1>1
    <2>3. Fits(f, 0)
      BY <2>1, <2>2
    <2>4. QED
      BY <2>3
  <1>3. Rebuilt(w, turn, bottom, mode) = new[0]
    BY DEF Rebuilt
  <1> HIDE DEF new
  <1>4. \A i \in 0..end : new[i] = Made(new, i)
    BY <1>2
  <1>5. new[end] = bottom
    BY <1>4
  <1>6. QED
    BY <1>3, <1>4, <1>5

\* An element more or less.
Changed(op, E, x) == IF op = "add" THEN E \cup {x} ELSE E \ {x}

\* On both sides of another element.
LEMMA ChangedParts ==
    ASSUME NEW op, NEW E \in SUBSET Keys, NEW x \in Keys, NEW k \in E, x # k
    PROVE  /\ Changed(op, E, x) \in SUBSET Keys /\ k \in Changed(op, E, x)
           /\ x < k => /\ Under(Changed(op, E, x), k) = Changed(op, Under(E, k), x)
                       /\ Over(Changed(op, E, x), k) = Over(E, k)
           /\ ~(x < k) => /\ Under(Changed(op, E, x), k) = Under(E, k)
                          /\ Over(Changed(op, E, x), k) = Changed(op, Over(E, k), x)
  <1>1. x \in Int /\ k \in Int /\ \A y \in Keys : y \in Int
    BY KeysAssumption
  <1>2. CASE op = "add"
    <2>1. Changed(op, E, x) \in SUBSET Keys /\ k \in Changed(op, E, x)
      BY <1>2 DEF Changed
    <2>2. ASSUME x < k
          PROVE  /\ Under(Changed(op, E, x), k) = Changed(op, Under(E, k), x)
                 /\ Over(Changed(op, E, x), k) = Over(E, k)
      BY <1>1, <1>2, <2>2 DEF Under, Over, Changed
    <2>3. ASSUME ~(x < k)
          PROVE  /\ Under(Changed(op, E, x), k) = Under(E, k)
                 /\ Over(Changed(op, E, x), k) = Changed(op, Over(E, k), x)
      BY <1>1, <1>2, <2>3 DEF Under, Over, Changed
    <2>4. QED
      BY <2>1, <2>2, <2>3
  <1>3. CASE op # "add"
    <2>1. Changed(op, E, x) \in SUBSET Keys /\ k \in Changed(op, E, x)
      BY <1>3 DEF Changed
    <2>2. ASSUME x < k
          PROVE  /\ Under(Changed(op, E, x), k) = Changed(op, Under(E, k), x)
                 /\ Over(Changed(op, E, x), k) = Over(E, k)
      BY <1>1, <1>3, <2>2 DEF Under, Over, Changed
    <2>3. ASSUME ~(x < k)
          PROVE  /\ Under(Changed(op, E, x), k) = Under(E, k)
                 /\ Over(Changed(op, E, x), k) = Changed(op, Over(E, k), x)
      BY <1>1, <1>3, <2>3 DEF Under, Over, Changed
    <2>4. QED
      BY <2>1, <2>2, <2>3
  <1>4. QED
    BY <1>2, <1>3

\* A change at the foot of a walk is the same change of the whole tree.
LEMMA RebuiltTree ==
    ASSUME NEW t, NEW D, Tree(t, D), NEW turn, NEW stop, NEW w, NEW n,
           Goes(w, n, t, turn, stop),
           NEW x \in Keys, NEW op, NEW mode \in {"same", "opposite"}, NEW bottom,
           \A i \in 0..(n - 1) : i < n - 1 =>
              x # w[i].key /\ turn[w[i].key] = IF x < w[i].key THEN "l" ELSE "r",
           \A E : Tree(w[n - 1], E) => Tree(bottom, Changed(op, E, x))
    PROVE  Tree(Rebuilt(w, turn, bottom, mode), Changed(op, D, x))
  <1> DEFINE end == n - 1
  <1>1. end \in Nat /\ Foot(w) - 1 = end
    BY DEF Goes
  <1>2. PICK new : /\ Rebuilt(w, turn, bottom, mode) = new[0]
                   /\ new[end] = bottom
                   /\ \A i \in 0..end : i # end =>
                         new[i] = Mended(mode, turn[w[i].key],
                                         WithChild(w[i], turn[w[i].key], new[i + 1]))
    <2> HIDE DEF end
    <2> QED BY <1>1, RebuiltSteps
  <1> DEFINE Fine(i) == \A E : Tree(w[i], E) => Tree(new[i], Changed(op, E, x))
             T == {j \in 0..end : ~Fine(end - j)}
  <1>3. T = {}
    <2>1. SUFFICES ASSUME T # {} PROVE FALSE
      OBVIOUS
    <2>2. T \in SUBSET Nat
      BY <1>1
    <2>3. PICK j \in T : \A y \in T : j <= y
      <3> HIDE DEF T
      <3> QED BY <2>1, <2>2, Least
    <2>4. j \in 0..end /\ ~Fine(end - j)
      OBVIOUS
    <2>5. j # 0
      <3>1. Fine(end)
        BY <1>2
      <3>2. end - 0 = end
        BY <1>1
      <3>3. QED
        BY <2>4, <3>1, <3>2
    <2> DEFINE i == end - j
    <2>6. j - 1 \in 0..end /\ end - (j - 1) = i + 1 /\ i \in 0..end /\ i # end /\ ~(j <= j - 1)
      BY <1>1, <2>4, <2>5
    <2>7. Fine(i + 1)
      <3>1. j - 1 \notin T
        <4> HIDE DEF T
        <4> QED BY <2>3, <2>6
      <3>2. QED
        BY <2>6, <3>1
    <2> HIDE DEF i
    <2>8. i \in 0..(n - 1) /\ i < n - 1
      BY <1>1, <2>6
    <2> DEFINE s == w[i]
               k == w[i].key
               side == IF x < k THEN "l" ELSE "r"
               u == new[i + 1]
    <2>9. /\ x # k /\ turn[k] = side /\ s # Empty
          /\ w[i + 1] = Child(s, side)
      BY <2>8 DEF Goes
    <2>10. new[i] = Mended(mode, side, WithChild(s, side, u))
      BY <1>2, <2>6, <2>9
    <2>11. ASSUME NEW E, Tree(s, E) PROVE Tree(new[i], Changed(op, E, x))
      <3>1. /\ k \in E /\ k \in Keys /\ E \in SUBSET Keys
            /\ Tree(s.l, Under(E, k)) /\ Tree(s.r, Over(E, k))
            /\ s = Stale(s.key, s.l, s.r, s.h)
        BY <2>9, <2>11, Split, TreeStale DEF Tree
      <3> DEFINE F == Changed(op, E, x)
      <3>2. /\ F \in SUBSET Keys /\ k \in F
            /\ x < k => /\ Under(F, k) = Changed(op, Under(E, k), x)
                        /\ Over(F, k) = Over(E, k)
            /\ ~(x < k) => /\ Under(F, k) = Under(E, k)
                           /\ Over(F, k) = Changed(op, Over(E, k), x)
        <4>1. x # k /\ k \in E /\ E \in SUBSET Keys
          BY <2>9, <3>1
        <4> HIDE DEF k, s, side, u
        <4>2. QED
          BY <4>1, ChangedParts
      <3>3. x < k => Tree(u, Changed(op, Under(E, k), x))
        BY <2>7, <2>9, <3>1 DEF Child
      <3>4. ~(x < k) => Tree(u, Changed(op, Over(E, k), x))
        BY <2>7, <2>9, <3>1 DEF Child
      <3>5. /\ Tree(IF side = "l" THEN u ELSE s.l, Under(F, k))
            /\ Tree(IF side = "l" THEN s.r ELSE u, Over(F, k))
        <4> HIDE DEF F
        <4> QED BY <3>1, <3>2, <3>3, <3>4
      <3>6. side \in {"l", "r"}
        OBVIOUS
      <3> HIDE DEF F, side, u
      <3>7. Tree(Mended(mode, side, WithChild(s, side, u)), F)
        <4>1. s.key = k
          OBVIOUS
        <4> HIDE DEF k, s
        <4>2. QED
          BY <3>1, <3>2, <3>5, <3>6, <4>1, MendedTree
      <3>8. QED
        BY <2>10, <3>7 DEF F
    <2>12. QED
      BY <2>4, <2>11 DEF i
  <1>4. Fine(0)
    <2>1. end \in 0..end /\ end - end = 0
      BY <1>1
    <2>2. QED
      BY <1>3, <2>1
  <1>5. QED
    BY <1>2, <1>4 DEF Goes

\* The elements E of D lie together, k among them or next to them.
Together(E, D, k) ==
    /\ E \subseteq D
    /\ \A y \in D : y \notin E => \/ y < k /\ \A e \in E : y < e
                                  \/ k < y /\ \A e \in E : e < y

\* The side of a node on which k belongs lies together as well.
LEMMA TogetherSide ==
    ASSUME NEW D \in SUBSET Int, NEW E, NEW k \in Int, NEW q \in E, q # k, Together(E, D, k)
    PROVE  Together(IF k < q THEN Under(E, q) ELSE Over(E, q), D, k)
  <1>1. q \in Int /\ E \subseteq Int
    BY DEF Together
  <1>2. CASE k < q
    <2>1. Under(E, q) \subseteq E /\ Under(E, q) \subseteq D
      BY DEF Under, Together
    <2>2. ASSUME NEW y \in D, y \notin Under(E, q)
          PROVE  \/ y < k /\ \A e \in Under(E, q) : y < e
                 \/ k < y /\ \A e \in Under(E, q) : e < y
      <3>1. CASE y \notin E
        BY <2>1, <3>1 DEF Together
      <3>2. CASE y \in E
        <4>1. ~(y < q) /\ y \in Int
          BY <2>2, <3>2 DEF Under
        <4>2. QED
          BY <1>1, <1>2, <4>1 DEF Under
      <3>3. QED
        BY <3>1, <3>2
    <2>3. QED
      BY <1>2, <2>1, <2>2 DEF Together
  <1>3. CASE ~(k < q)
    <2>1. Over(E, q) \subseteq E /\ Over(E, q) \subseteq D
      BY DEF Over, Together
    <2>2. ASSUME NEW y \in D, y \notin Over(E, q)
          PROVE  \/ y < k /\ \A e \in Over(E, q) : y < e
                 \/ k < y /\ \A e \in Over(E, q) : e < y
      <3>1. CASE y \notin E
        BY <2>1, <3>1 DEF Together
      <3>2. CASE y \in E
        <4>1. ~(y > q) /\ y \in Int
          BY <2>2, <3>2 DEF Over
        <4>2. QED
          BY <1>1, <1>3, <4>1 DEF Over
      <3>3. QED
        BY <3>1, <3>2
    <2>3. QED
      BY <1>3, <2>1, <2>2 DEF Together
  <1>4. QED
    BY <1>2, <1>3

\* The sides the two kinds of walks take.
LEMMA Turns ==
    ASSUME NEW k
    PROVE  /\ Towards(k) \in [Keys -> {"l", "r"}]
           /\ \A side \in {"l", "r"} : Always(side) \in [Keys -> {"l", "r"}]
           /\ \A x \in Keys : Towards(k)[x] = IF k < x THEN "l" ELSE "r"
           /\ \A side, x : x \in Keys => Always(side)[x] = side
  BY DEF Towards, Always

\* A search ends at k, or next to where k belongs.
LEMMA WalkTowards ==
    ASSUME NEW t, NEW D, Tree(t, D), NEW k \in Keys, NEW w, NEW n,
           Goes(w, n, t, Towards(k), k)
    PROVE  /\ \A i \in 0..(n - 1) : i < n - 1 =>
                 /\ k # w[i].key /\ w[i].key \in Keys
                 /\ Towards(k)[w[i].key] = IF k < w[i].key THEN "l" ELSE "r"
           /\ \E E : Tree(w[n - 1], E) /\ Together(E, D, k)
  <1>1. n \in Nat /\ n > 0 /\ D \subseteq Int /\ k \in Int
    BY KeysAssumption DEF Goes, Tree
  <1>2. ASSUME NEW i \in 0..(n - 1)
        PROVE  w[i].key \in Keys /\ w[i] # Empty
    BY Split DEF Goes
  <1>3. ASSUME NEW i \in 0..(n - 1), i < n - 1
        PROVE  /\ k # w[i].key /\ w[i].key \in Keys
               /\ Towards(k)[w[i].key] = IF k < w[i].key THEN "l" ELSE "r"
               /\ w[i + 1] = Child(w[i], Towards(k)[w[i].key])
    BY <1>2, <1>3, Turns DEF Goes
  <1> DEFINE Fine(i) == \E E : Tree(w[i], E) /\ Together(E, D, k)
             T == {i \in 0..(n - 1) : ~Fine(i)}
  <1>4. T = {}
    <2>1. SUFFICES ASSUME T # {} PROVE FALSE
      OBVIOUS
    <2>2. T \in SUBSET Nat
      BY <1>1
    <2>3. PICK x \in T : \A y \in T : x <= y
      <3> HIDE DEF T
      <3> QED BY <2>1, <2>2, Least
    <2>4. x \in 0..(n - 1) /\ ~Fine(x)
      OBVIOUS
    <2>5. x # 0
      <3>1. Together(D, D, k)
        BY DEF Together
      <3>2. QED
        BY <2>4, <3>1 DEF Goes
    <2> DEFINE i == x - 1
    <2>6. i \in 0..(n - 1) /\ i < n - 1 /\ i + 1 = x /\ ~(x <= i)
      BY <1>1, <2>4, <2>5
    <2>7. Fine(i)
      <3>1. i \notin T
        <4> HIDE DEF T, i
        <4> QED BY <2>3, <2>6
      <3>2. QED
        BY <2>6, <3>1
    <2> HIDE DEF i
    <2>8. PICK E : Tree(w[i], E) /\ Together(E, D, k)
      BY <2>7
    <2> DEFINE q == w[i].key
    <2>9. q \in E /\ Tree(w[i].l, Under(E, q)) /\ Tree(w[i].r, Over(E, q))
      BY <1>2, <2>6, <2>8, Split
    <2>10. q # k /\ w[x] = IF k < q THEN w[i].l ELSE w[i].r
      BY <1>3, <2>6 DEF Child
    <2> HIDE DEF q
    <2>11. Together(IF k < q THEN Under(E, q) ELSE Over(E, q), D, k)
      BY <1>1, <2>8, <2>9, <2>10, TogetherSide
    <2>12. QED
      BY <2>4, <2>9, <2>10, <2>11
  <1>5. n - 1 \in 0..(n - 1)
    BY <1>1
  <1>6. QED
    BY <1>3, <1>4, <1>5

\* Lookup: the search ends at k if and only if k is there.
LEMMA SearchFinds ==
    ASSUME NEW t, NEW D, Tree(t, D), NEW k \in Keys, NEW w, NEW n,
           Goes(w, n, t, Towards(k), k)
    PROVE  /\ w[n - 1].key \in D
           /\ k \in D <=> w[n - 1].key = k
           /\ k \notin D =>
                IF k < w[n - 1].key
                THEN w[n - 1].l = Empty /\ \A y \in D : y < k \/ w[n - 1].key <= y
                ELSE w[n - 1].r = Empty /\ \A y \in D : y <= w[n - 1].key \/ k < y
  <1>1. n \in Nat /\ n > 0 /\ D \subseteq Int /\ k \in Int /\ w[n - 1] # Empty
    BY KeysAssumption DEF Goes, Tree
  <1>2. PICK E : Tree(w[n - 1], E) /\ Together(E, D, k)
    BY WalkTowards
  <1> DEFINE s == w[n - 1]
             p == s.key
  <1>3. /\ p \in E /\ p \in Keys /\ p \in Int /\ E \subseteq Int
        /\ Tree(s.l, Under(E, p)) /\ Tree(s.r, Over(E, p))
    BY <1>1, <1>2, Split
  <1>4. p \in D
    BY <1>2, <1>3 DEF Together
  <1>5. k \in D => k \in E
    BY <1>1, <1>2 DEF Together
  <1>6. p # k => IF k < p THEN s.l = Empty ELSE s.r = Empty
    <2>1. Towards(k)[p] = IF k < p THEN "l" ELSE "r"
      BY <1>3, Turns
    <2>2. QED
      BY <2>1 DEF Goes, Child
  <1> HIDE DEF s, p
  <1>7. p # k => IF k < p THEN Under(E, p) = {} ELSE Over(E, p) = {}
    BY <1>3, <1>6, EmptyHasNone
  <1>8. k \in D => p = k
    <2>1. SUFFICES ASSUME k \in D, p # k PROVE FALSE
      OBVIOUS
    <2>2. QED
      BY <1>1, <1>3, <1>5, <1>7, <2>1 DEF Under, Over
  <1>9. ASSUME k \notin D, k < p PROVE s.l = Empty /\ \A y \in D : y < k \/ p <= y
    <2>1. s.l = Empty /\ Under(E, p) = {}
      BY <1>1, <1>3, <1>6, <1>7, <1>9
    <2>2. \A y \in E : p <= y
      BY <1>3, <2>1 DEF Under
    <2>3. ASSUME NEW y \in D, y \notin E PROVE y < k \/ p <= y
      <3>1. y < k \/ p < y
        BY <1>2, <1>3, <2>3 DEF Together
      <3>2. y \in Int
        BY <1>1
      <3>3. QED
        BY <1>3, <3>1, <3>2
    <2>4. QED
      BY <2>1, <2>2, <2>3
  <1>10. ASSUME k \notin D, ~(k < p) PROVE s.r = Empty /\ \A y \in D : y <= p \/ k < y
    <2>1. s.r = Empty /\ Over(E, p) = {}
      BY <1>1, <1>3, <1>4, <1>6, <1>7, <1>10
    <2>2. \A y \in E : y <= p
      BY <1>3, <2>1 DEF Over
    <2>3. \A y \in D : y \notin E => y <= p \/ k < y
      BY <1>1, <1>2, <1>3 DEF Together
    <2>4. QED
      BY <2>1, <2>2, <2>3
  <1>11. QED
    BY <1>4, <1>8, <1>9, <1>10 DEF s, p

\* The walk that always takes the left side ends at the least element, the one
\* that always takes the right side at the greatest.
LEMMA WalkLeft ==
    ASSUME NEW t, NEW D, Tree(t, D), NEW w, NEW n, Goes(w, n, t, Always("l"), Nil)
    PROVE  /\ w[n - 1].key \in D /\ w[n - 1].l = Empty
           /\ \A y \in D : w[n - 1].key <= y
           /\ \A i \in 0..(n - 1) : i < n - 1 => w[i].key \in Keys /\ w[n - 1].key < w[i].key
  <1>1. n \in Nat /\ n > 0 /\ D \subseteq Int /\ D \subseteq Keys
    BY KeysAssumption DEF Goes, Tree
  <1>2. ASSUME NEW i \in 0..(n - 1)
        PROVE  w[i].key \in Keys /\ w[i] # Empty
    BY Split DEF Goes
  <1>3. ASSUME NEW i \in 0..(n - 1), i < n - 1
        PROVE  w[i + 1] = w[i].l
    BY <1>2, <1>3, Turns DEF Goes, Child
  <1> DEFINE Fine(i) == \E E : /\ Tree(w[i], E) /\ E \subseteq D
                               /\ \A y \in D : y \notin E => \A e \in E : e < y
                               /\ \A j \in 0..(i - 1) : w[j].key \in D /\ w[j].key \notin E
             T == {i \in 0..(n - 1) : ~Fine(i)}
  <1>4. T = {}
    <2>1. SUFFICES ASSUME T # {} PROVE FALSE
      OBVIOUS
    <2>2. T \in SUBSET Nat
      BY <1>1
    <2>3. PICK x \in T : \A y \in T : x <= y
      <3> HIDE DEF T
      <3> QED BY <2>1, <2>2, Least
    <2>4. x \in 0..(n - 1) /\ ~Fine(x)
      OBVIOUS
    <2>5. x # 0
      <3>1. w[0] = t /\ 0..(0 - 1) = {}
        BY DEF Goes
      <3>2. Fine(0)
        BY <3>1
      <3>3. QED
        BY <2>4, <3>2
    <2> DEFINE i == x - 1
    <2>6. i \in 0..(n - 1) /\ i < n - 1 /\ i + 1 = x /\ ~(x <= i)
      BY <1>1, <2>4, <2>5
    <2>7. Fine(i)
      <3>1. i \notin T
        <4> HIDE DEF T, i
        <4> QED BY <2>3, <2>6
      <3>2. QED
        BY <2>6, <3>1
    <2>8. PICK E : /\ Tree(w[i], E) /\ E \subseteq D
                   /\ \A y \in D : y \notin E => \A e \in E : e < y
                   /\ \A j \in 0..(i - 1) : w[j].key \in D /\ w[j].key \notin E
      BY <2>7
    <2> DEFINE q == w[i].key
               F == Under(E, q)
    <2>9. q \in E /\ q \in Int /\ E \subseteq Int /\ Tree(w[x], F) /\ F \subseteq E
      <3>1. F \subseteq E
        BY DEF Under
      <3> HIDE DEF F, i
      <3>2. QED
        BY <1>2, <1>3, <2>6, <2>8, <3>1, Split DEF F
    <2>10. ASSUME NEW y \in D, y \notin F PROVE \A e \in F : e < y
      <3>1. CASE y \notin E
        BY <2>8, <2>9, <3>1
      <3>2. CASE y \in E
        <4>1. ~(y < q) /\ y \in Int
          BY <2>9, <2>10, <3>2 DEF Under
        <4>2. \A e \in F : e < q /\ e \in Int
          BY <2>9 DEF Under
        <4> HIDE DEF F, q
        <4>3. QED
          BY <2>9, <4>1, <4>2
      <3>3. QED
        BY <3>1, <3>2
    <2>11. ASSUME NEW j \in 0..(x - 1) PROVE w[j].key \in D /\ w[j].key \notin F
      <3>1. CASE j = i
        <4>1. q \notin F
          BY <2>9 DEF Under
        <4>2. QED
          BY <2>8, <2>9, <3>1, <4>1
      <3>2. CASE j # i
        <4>1. j \in 0..(i - 1)
          BY <2>6, <3>2
        <4>2. QED
          BY <2>8, <2>9, <4>1
      <3>3. QED
        BY <3>1, <3>2
    <2> HIDE DEF F
    <2>12. Fine(x)
      BY <2>8, <2>9, <2>10, <2>11
    <2>13. QED
      BY <2>4, <2>12
  <1>5. n - 1 \in 0..(n - 1)
    BY <1>1
  <1> DEFINE s == w[n - 1]
             p == s.key
  <1>6. PICK E : /\ Tree(s, E) /\ E \subseteq D
                 /\ \A y \in D : y \notin E => \A e \in E : e < y
                 /\ \A j \in 0..((n - 1) - 1) : w[j].key \in D /\ w[j].key \notin E
    BY <1>4, <1>5
  <1>7. p \in E /\ p \in Int /\ p \in Keys /\ E \subseteq Int /\ Tree(s.l, Under(E, p))
    BY <1>2, <1>5, <1>6, Split
  <1>8. s.l = Empty
    <2>1. p # Nil
      BY <1>7, KeysAssumption
    <2>2. QED
      BY <1>7, <2>1, Turns DEF Goes, Child
  <1>9. Under(E, p) = {}
    BY <1>7, <1>8, EmptyHasNone
  <1>10. ASSUME NEW y \in D PROVE p <= y
    <2>1. CASE y \in E
      BY <1>7, <1>9, <2>1 DEF Under
    <2>2. CASE y \notin E
      <3>1. p < y /\ y \in Int
        BY <1>1, <1>6, <1>7, <2>2
      <3>2. QED
        BY <1>7, <3>1
    <2>3. QED
      BY <2>1, <2>2
  <1>11. ASSUME NEW i \in 0..(n - 1), i < n - 1 PROVE w[i].key \in Keys /\ p < w[i].key
    <2>1. i \in 0..((n - 1) - 1)
      BY <1>1, <1>11
    <2>2. w[i].key \in D /\ w[i].key \notin E
      BY <1>6, <2>1
    <2>3. QED
      BY <1>1, <1>6, <1>7, <2>2
  <1>12. QED
    BY <1>6, <1>7, <1>8, <1>10, <1>11

\* A walk to the right ends at the greatest element, which has no right child.
LEMMA WalkRight ==
    ASSUME NEW t, NEW D, Tree(t, D), NEW w, NEW n, Goes(w, n, t, Always("r"), Nil)
    PROVE  /\ w[n - 1].key \in D /\ w[n - 1].r = Empty
           /\ \A y \in D : y <= w[n - 1].key
           /\ \A i \in 0..(n - 1) : i < n - 1 => w[i].key \in Keys /\ w[i].key < w[n - 1].key
  <1>1. n \in Nat /\ n > 0 /\ D \subseteq Int /\ D \subseteq Keys
    BY KeysAssumption DEF Goes, Tree
  <1>2. ASSUME NEW i \in 0..(n - 1)
        PROVE  w[i].key \in Keys /\ w[i] # Empty
    BY Split DEF Goes
  <1>3. ASSUME NEW i \in 0..(n - 1), i < n - 1
        PROVE  w[i + 1] = w[i].r
    BY <1>2, <1>3, Turns DEF Goes, Child
  <1> DEFINE Fine(i) == \E E : /\ Tree(w[i], E) /\ E \subseteq D
                               /\ \A y \in D : y \notin E => \A e \in E : y < e
                               /\ \A j \in 0..(i - 1) : w[j].key \in D /\ w[j].key \notin E
             T == {i \in 0..(n - 1) : ~Fine(i)}
  <1>4. T = {}
    <2>1. SUFFICES ASSUME T # {} PROVE FALSE
      OBVIOUS
    <2>2. T \in SUBSET Nat
      BY <1>1
    <2>3. PICK x \in T : \A y \in T : x <= y
      <3> HIDE DEF T
      <3> QED BY <2>1, <2>2, Least
    <2>4. x \in 0..(n - 1) /\ ~Fine(x)
      OBVIOUS
    <2>5. x # 0
      <3>1. w[0] = t /\ 0..(0 - 1) = {}
        BY DEF Goes
      <3>2. Fine(0)
        BY <3>1
      <3>3. QED
        BY <2>4, <3>2
    <2> DEFINE i == x - 1
    <2>6. i \in 0..(n - 1) /\ i < n - 1 /\ i + 1 = x /\ ~(x <= i)
      BY <1>1, <2>4, <2>5
    <2>7. Fine(i)
      <3>1. i \notin T
        <4> HIDE DEF T, i
        <4> QED BY <2>3, <2>6
      <3>2. QED
        BY <2>6, <3>1
    <2>8. PICK E : /\ Tree(w[i], E) /\ E \subseteq D
                   /\ \A y \in D : y \notin E => \A e \in E : y < e
                   /\ \A j \in 0..(i - 1) : w[j].key \in D /\ w[j].key \notin E
      BY <2>7
    <2> DEFINE q == w[i].key
               F == Over(E, q)
    <2>9. q \in E /\ q \in Int /\ E \subseteq Int /\ Tree(w[x], F) /\ F \subseteq E
      <3>1. F \subseteq E
        BY DEF Over
      <3> HIDE DEF F, i
      <3>2. QED
        BY <1>2, <1>3, <2>6, <2>8, <3>1, Split DEF F
    <2>10. ASSUME NEW y \in D, y \notin F PROVE \A e \in F : y < e
      <3>1. CASE y \notin E
        BY <2>8, <2>9, <3>1
      <3>2. CASE y \in E
        <4>1. ~(y > q) /\ y \in Int
          BY <2>9, <2>10, <3>2 DEF Over
        <4>2. \A e \in F : e > q /\ e \in Int
          BY <2>9 DEF Over
        <4> HIDE DEF F, q
        <4>3. QED
          BY <2>9, <4>1, <4>2
      <3>3. QED
        BY <3>1, <3>2
    <2>11. ASSUME NEW j \in 0..(x - 1) PROVE w[j].key \in D /\ w[j].key \notin F
      <3>1. CASE j = i
        <4>1. q \notin F
          BY <2>9 DEF Over
        <4>2. QED
          BY <2>8, <2>9, <3>1, <4>1
      <3>2. CASE j # i
        <4>1. j \in 0..(i - 1)
          BY <2>6, <3>2
        <4>2. QED
          BY <2>8, <2>9, <4>1
      <3>3. QED
        BY <3>1, <3>2
    <2> HIDE DEF F
    <2>12. Fine(x)
      BY <2>8, <2>9, <2>10, <2>11
    <2>13. QED
      BY <2>4, <2>12
  <1>5. n - 1 \in 0..(n - 1)
    BY <1>1
  <1> DEFINE s == w[n - 1]
             p == s.key
  <1>6. PICK E : /\ Tree(s, E) /\ E \subseteq D
                 /\ \A y \in D : y \notin E => \A e \in E : y < e
                 /\ \A j \in 0..((n - 1) - 1) : w[j].key \in D /\ w[j].key \notin E
    BY <1>4, <1>5
  <1>7. p \in E /\ p \in Int /\ p \in Keys /\ E \subseteq Int /\ Tree(s.r, Over(E, p))
    BY <1>2, <1>5, <1>6, Split
  <1>8. s.r = Empty
    <2>1. p # Nil
      BY <1>7, KeysAssumption
    <2>2. QED
      BY <1>7, <2>1, Turns DEF Goes, Child
  <1>9. Over(E, p) = {}
    BY <1>7, <1>8, EmptyHasNone
  <1>10. ASSUME NEW y \in D PROVE y <= p
    <2>1. CASE y \in E
      BY <1>7, <1>9, <2>1 DEF Over
    <2>2. CASE y \notin E
      <3>1. y < p /\ y \in Int
        BY <1>1, <1>6, <1>7, <2>2
      <3>2. QED
        BY <1>7, <3>1
    <2>3. QED
      BY <2>1, <2>2
  <1>11. ASSUME NEW i \in 0..(n - 1), i < n - 1 PROVE w[i].key \in Keys /\ w[i].key < p
    <2>1. i \in 0..((n - 1) - 1)
      BY <1>1, <1>11
    <2>2. w[i].key \in D /\ w[i].key \notin E
      BY <1>6, <2>1
    <2>3. QED
      BY <1>1, <1>6, <1>7, <2>2
  <1>12. QED
    BY <1>6, <1>7, <1>8, <1>10, <1>11

-----------------------------------------------------------------------------
(***************************************************************************)
(* Erasure.                                                                *)
(***************************************************************************)
\* delete_rightmin takes out the least element.
LEMMA RightMinTree ==
    ASSUME NEW t, NEW D, Tree(t, D), t # Empty
    PROVE  LET del == delete_rightmin(t)
           IN /\ del.key \in D /\ \A y \in D : del.key <= y
              /\ Tree(del.new, D \ {del.key})
  <1> DEFINE w == Walk(t, Always("l"), Nil)
             turn == Always("l")
  <1>1. turn \in [Keys -> {"l", "r"}] /\ \A x \in Keys : turn[x] = "l"
    BY Turns
  <1>2. PICK n : Goes(w, n, t, turn, Nil)
    BY <1>1, WalkEnds
  <1> DEFINE s == w[n - 1]
             p == s.key
  <1>3. LastNode(w) = s /\ n \in Nat /\ n > 0
    BY <1>2 DEF LastNode, Goes
  <1>4. /\ p \in D /\ s.l = Empty
        /\ \A y \in D : p <= y
        /\ \A i \in 0..(n - 1) : i < n - 1 => w[i].key \in Keys /\ p < w[i].key
    BY <1>2, WalkLeft
  <1>5. p \in Keys /\ p \in Int
    BY <1>4, KeysAssumption DEF Tree
  <1>6. ASSUME NEW E, Tree(s, E) PROVE Tree(s.r, Changed("remove", E, p))
    <2>1. s # Empty
      BY <1>2, <1>3 DEF Goes
    <2>2. /\ Tree(s.r, Over(E, p)) /\ Tree(Empty, Under(E, p)) /\ E \subseteq Int /\ p \in E
      BY <1>4, <1>6, <2>1, Split
    <2>3. Under(E, p) = {}
      BY <2>2, EmptyHasNone
    <2> HIDE DEF s, p
    <2>4. \A y \in E : y > p <=> y # p
      BY <1>5, <2>2, <2>3 DEF Under
    <2>5. Over(E, p) = Changed("remove", E, p)
      BY <2>4 DEF Over, Changed
    <2>6. QED
      BY <2>2, <2>5
  <1>7. ASSUME NEW i \in 0..(n - 1), i < n - 1
        PROVE  p # w[i].key /\ turn[w[i].key] = IF p < w[i].key THEN "l" ELSE "r"
    <2>1. w[i].key \in Keys /\ p < w[i].key /\ w[i].key \in Int
      BY <1>4, <1>7, KeysAssumption
    <2> HIDE DEF p, turn, w, s
    <2>2. QED
      BY <1>1, <1>5, <2>1
  <1>8. Tree(Rebuilt(w, turn, s.r, "same"), Changed("remove", D, p))
    <2> HIDE DEF w, turn, p
    <2> QED BY <1>2, <1>5, <1>6, <1>7, RebuiltTree
  <1>9. delete_rightmin(t) = [new |-> Rebuilt(w, turn, s.r, "same"), key |-> p]
    BY <1>3 DEF delete_rightmin
  <1>10. D \ {p} = Changed("remove", D, p)
    BY DEF Changed
  <1> HIDE DEF w, turn, s, p
  <1>11. QED
    BY <1>4, <1>8, <1>9, <1>10

\* delete_leftmax takes out the greatest element.
LEMMA LeftMaxTree ==
    ASSUME NEW t, NEW D, Tree(t, D), t # Empty
    PROVE  LET del == delete_leftmax(t)
           IN /\ del.key \in D /\ \A y \in D : y <= del.key
              /\ Tree(del.new, D \ {del.key})
  <1> DEFINE w == Walk(t, Always("r"), Nil)
             turn == Always("r")
  <1>1. turn \in [Keys -> {"l", "r"}] /\ \A x \in Keys : turn[x] = "r"
    BY Turns
  <1>2. PICK n : Goes(w, n, t, turn, Nil)
    BY <1>1, WalkEnds
  <1> DEFINE s == w[n - 1]
             p == s.key
  <1>3. LastNode(w) = s /\ n \in Nat /\ n > 0
    BY <1>2 DEF LastNode, Goes
  <1>4. /\ p \in D /\ s.r = Empty
        /\ \A y \in D : y <= p
        /\ \A i \in 0..(n - 1) : i < n - 1 => w[i].key \in Keys /\ w[i].key < p
    BY <1>2, WalkRight
  <1>5. p \in Keys /\ p \in Int
    BY <1>4, KeysAssumption DEF Tree
  <1>6. ASSUME NEW E, Tree(s, E) PROVE Tree(s.l, Changed("remove", E, p))
    <2>1. s # Empty
      BY <1>2, <1>3 DEF Goes
    <2>2. /\ Tree(s.l, Under(E, p)) /\ Tree(Empty, Over(E, p)) /\ E \subseteq Int /\ p \in E
      BY <1>4, <1>6, <2>1, Split
    <2>3. Over(E, p) = {}
      BY <2>2, EmptyHasNone
    <2> HIDE DEF s, p
    <2>4. \A y \in E : y < p <=> y # p
      BY <1>5, <2>2, <2>3 DEF Over
    <2>5. Under(E, p) = Changed("remove", E, p)
      BY <2>4 DEF Under, Changed
    <2>6. QED
      BY <2>2, <2>5
  <1>7. ASSUME NEW i \in 0..(n - 1), i < n - 1
        PROVE  p # w[i].key /\ turn[w[i].key] = IF p < w[i].key THEN "l" ELSE "r"
    <2>1. w[i].key \in Keys /\ w[i].key < p /\ w[i].key \in Int
      BY <1>4, <1>7, KeysAssumption
    <2> HIDE DEF p, turn, w, s
    <2>2. QED
      BY <1>1, <1>5, <2>1
  <1>8. Tree(Rebuilt(w, turn, s.l, "same"), Changed("remove", D, p))
    <2> HIDE DEF w, turn, p
    <2> QED BY <1>2, <1>5, <1>6, <1>7, RebuiltTree
  <1>9. delete_leftmax(t) = [new |-> Rebuilt(w, turn, s.l, "same"), key |-> p]
    BY <1>3 DEF delete_leftmax
  <1>10. D \ {p} = Changed("remove", D, p)
    BY DEF Changed
  <1> HIDE DEF w, turn, s, p
  <1>11. QED
    BY <1>4, <1>8, <1>9, <1>10

\* The node that is to go is freed, or takes the data of the node that is.
LEMMA ReplacedTree ==
    ASSUME NEW t, NEW D, Tree(t, D), t # Empty
    PROVE  LET del == Replaced(t)
           IN /\ Tree(del.new, D \ {t.key})
              /\ del.key \in D /\ Neighbours(del.key, t.key, D)
  <1> DEFINE k == t.key
             L == Under(D, k)
             R == Over(D, k)
             del == Replaced(t)
  <1>1. /\ k \in D /\ k \in Keys /\ k \in Int /\ D \subseteq Int /\ D \subseteq Keys
        /\ Tree(t.l, L) /\ Tree(t.r, R)
    BY Split DEF Tree
  <1>2. /\ getHeight(t) = Taller(getHeight(t.l), getHeight(t.r)) + 1
        /\ getHeight(t.l) \in Nat /\ getHeight(t.r) \in Nat
        /\ (getHeight(t.l) = 0 <=> t.l = Empty) /\ (getHeight(t.r) = 0 <=> t.r = Empty)
    BY <1>1, HeightNat
  <1>3. t = Stale(t.key, t.l, t.r, t.h)
    BY TreeStale
  <1>4. \A y \in D : y # k => y \in L \/ y \in R
    BY <1>1 DEF Under, Over
  <1>5. /\ \A y \in L : y \in D /\ y < k /\ y \in Int
        /\ \A y \in R : y \in D /\ k < y /\ y \in Int
    BY <1>1 DEF Under, Over
  <1> HIDE DEF L, R, k
  <1>6. CASE getHeight(t) = 1
    <2>1. t.l = Empty /\ t.r = Empty
      BY <1>2, <1>6 DEF Taller
    <2>2. L = {} /\ R = {}
      BY <1>1, <2>1, EmptyHasNone
    <2>3. D \ {k} = {}
      BY <1>4, <2>2
    <2>4. del = [new |-> Empty, key |-> k]
      BY <1>6 DEF Replaced, k
    <2>5. Neighbours(k, k, D)
      BY <1>1 DEF Neighbours
    <2> HIDE DEF del
    <2>6. QED
      BY <1>1, <2>3, <2>4, <2>5, EmptyTree DEF del, k
  <1>7. CASE getHeight(t) # 1 /\ get_blfactor(t) > 0
    <2>1. t.r # Empty
      BY <1>2, <1>7 DEF get_blfactor
    <2> DEFINE d == delete_rightmin(t.r)
               m == d.key
               new == [t EXCEPT !.r = d.new, !.key = d.key]
    <2>2. m \in R /\ (\A y \in R : m <= y) /\ Tree(d.new, R \ {m})
      BY <1>1, <2>1, RightMinTree
    <2>3. updateHeight(new) = Node(m, t.l, d.new)
      <3>1. new = Stale(m, t.l, d.new, t.h)
        <4> HIDE DEF d
        <4>1. PutRight(t, d.new) = Stale(t.key, t.l, d.new, t.h)
          BY <1>3, StalePut
        <4>2. new = [PutRight(t, d.new) EXCEPT !.key = d.key]
          BY DEF PutRight
        <4>3. [Stale(t.key, t.l, d.new, t.h) EXCEPT !.key = d.key] = Stale(m, t.l, d.new, t.h)
          BY DEF Stale
        <4>4. QED
          BY <4>1, <4>2, <4>3
      <3>2. QED
        BY <3>1, StaleFields
    <2>4. del = [new |-> right_balance(updateHeight(new)), key |-> m]
      BY <1>7 DEF Replaced
    <2> HIDE DEF d, m, new, del
    <2> DEFINE F == D \ {k}
    <2>5. m \in F /\ F \in SUBSET Keys /\ m \in D
      BY <1>1, <1>5, <2>2
    <2>6. Under(F, m) = L
      <3>1. ASSUME NEW y \in D PROVE y \in Under(F, m) <=> y \in L
        <4>1. y \in Int /\ m \in Int /\ k < m /\ (y \in R => m <= y)
          BY <1>1, <1>5, <2>2
        <4>2. y \in Under(F, m) <=> y # k /\ y < m
          BY <4>1 DEF Under
        <4>3. y \in R => ~(y < m)
          BY <4>1
        <4>4. y \in L => y # k /\ y < m
          BY <1>1, <1>5, <4>1
        <4>5. QED
          BY <1>4, <4>2, <4>3, <4>4
      <3>2. QED
        BY <1>5, <3>1 DEF Under
    <2>7. Over(F, m) = R \ {m}
      <3>1. \A y \in D : y \in Over(F, m) <=> y \in R \ {m}
        BY <1>1, <1>4, <1>5, <2>2, <2>5 DEF Over
      <3>2. QED
        BY <1>5, <3>1 DEF Over
    <2>8. Tree(right_balance(Node(m, t.l, d.new)), F)
      <3> HIDE DEF F
      <3> QED BY <1>1, <2>2, <2>5, <2>6, <2>7, RightBalanceTree
    <2>9. Neighbours(m, k, D)
      BY <1>1, <1>4, <1>5, <2>2 DEF Neighbours
    <2>10. QED
      BY <2>3, <2>4, <2>5, <2>8, <2>9 DEF del, k
  <1>8. CASE getHeight(t) # 1 /\ ~(get_blfactor(t) > 0)
    <2>1. t.l # Empty
      BY <1>2, <1>8 DEF get_blfactor, Taller
    <2> DEFINE d == delete_leftmax(t.l)
               m == d.key
               new == [t EXCEPT !.l = d.new, !.key = d.key]
    <2>2. m \in L /\ (\A y \in L : y <= m) /\ Tree(d.new, L \ {m})
      BY <1>1, <2>1, LeftMaxTree
    <2>3. updateHeight(new) = Node(m, d.new, t.r)
      <3>1. new = Stale(m, d.new, t.r, t.h)
        <4> HIDE DEF d
        <4>1. PutLeft(t, d.new) = Stale(t.key, d.new, t.r, t.h)
          BY <1>3, StalePut
        <4>2. new = [PutLeft(t, d.new) EXCEPT !.key = d.key]
          BY DEF PutLeft
        <4>3. [Stale(t.key, d.new, t.r, t.h) EXCEPT !.key = d.key] = Stale(m, d.new, t.r, t.h)
          BY DEF Stale
        <4>4. QED
          BY <4>1, <4>2, <4>3
      <3>2. QED
        BY <3>1, StaleFields
    <2>4. del = [new |-> left_balance(updateHeight(new)), key |-> m]
      BY <1>8 DEF Replaced
    <2> HIDE DEF d, m, new, del
    <2> DEFINE F == D \ {k}
    <2>5. m \in F /\ F \in SUBSET Keys /\ m \in D
      BY <1>1, <1>5, <2>2
    <2>6. Over(F, m) = R
      <3>1. ASSUME NEW y \in D PROVE y \in Over(F, m) <=> y \in R
        <4>1. y \in Int /\ m \in Int /\ m < k /\ (y \in L => y <= m)
          BY <1>1, <1>5, <2>2
        <4>2. y \in Over(F, m) <=> y # k /\ y > m
          BY <4>1 DEF Over
        <4>3. y \in L => ~(y > m)
          BY <4>1
        <4>4. y \in R => y # k /\ y > m
          BY <1>1, <1>5, <4>1
        <4>5. QED
          BY <1>4, <4>2, <4>3, <4>4
      <3>2. QED
        BY <1>5, <3>1 DEF Over
    <2>7. Under(F, m) = L \ {m}
      <3>1. \A y \in D : y \in Under(F, m) <=> y \in L \ {m}
        BY <1>1, <1>4, <1>5, <2>2, <2>5 DEF Under
      <3>2. QED
        BY <1>5, <3>1 DEF Under
    <2>8. Tree(left_balance(Node(m, d.new, t.r)), F)
      <3> HIDE DEF F
      <3> QED BY <1>1, <2>2, <2>5, <2>6, <2>7, LeftBalanceTree
    <2>9. Neighbours(m, k, D)
      <3>1. m \in Int /\ m < k
        BY <1>5, <2>2
      <3>2. ASSUME NEW y \in D, y # k PROVE y <= m \/ k < y
        BY <1>4, <1>5, <2>2, <3>2
      <3>3. QED
        BY <1>1, <3>1, <3>2 DEF Neighbours
    <2>10. QED
      BY <2>3, <2>4, <2>5, <2>8, <2>9 DEF del, k
  <1>9. QED
    BY <1>6, <1>7, <1>8

\* What is left of the tree when k has been erased, and the element whose node
\* was freed.
LEMMA DeleteTree ==
    ASSUME NEW t, NEW D, Tree(t, D), NEW k \in D
    PROVE  LET del == qAVLTree__recursive_delete(t, k)
           IN /\ Tree(del.new, D \ {k})
              /\ del.key \in D /\ Neighbours(del.key, k, D)
  <1> DEFINE w == Walk(t, Towards(k), k)
             turn == Towards(k)
  <1>1. t # Empty
    BY EmptyHasNone
  <1>2. turn \in [Keys -> {"l", "r"}] /\ k \in Keys /\ k \in Int /\ D \subseteq Int
    BY KeysAssumption, Turns DEF Tree
  <1>3. PICK n : Goes(w, n, t, turn, k)
    BY <1>1, <1>2, WalkEnds
  <1> DEFINE s == w[n - 1]
             del == Replaced(s)
  <1>4. LastNode(w) = s /\ s # Empty
    BY <1>3 DEF LastNode, Goes
  <1>5. s.key = k
    BY <1>2, <1>3, SearchFinds
  <1>6. /\ \A i \in 0..(n - 1) : i < n - 1 =>
              k # w[i].key /\ turn[w[i].key] = IF k < w[i].key THEN "l" ELSE "r"
        /\ \E E : Tree(s, E) /\ Together(E, D, k)
    BY <1>2, <1>3, WalkTowards
  <1>7. \A E : Tree(s, E) => Tree(del.new, Changed("remove", E, k))
    BY <1>4, <1>5, ReplacedTree DEF Changed
  <1>8. Tree(Rebuilt(w, turn, del.new, "opposite"), Changed("remove", D, k))
    <2> HIDE DEF w, turn, del
    <2> QED BY <1>2, <1>3, <1>6, <1>7, RebuiltTree
  <1>9. PICK E : Tree(s, E) /\ Together(E, D, k)
    BY <1>6
  <1>10. del.key \in E /\ Neighbours(del.key, k, E)
    BY <1>4, <1>5, <1>9, ReplacedTree
  <1>11. k \in E
    BY <1>4, <1>5, <1>9, Split
  <1>12. qAVLTree__recursive_delete(t, k) =
            [new |-> Rebuilt(w, turn, del.new, "opposite"), key |-> del.key]
    BY <1>4 DEF qAVLTree__recursive_delete
  <1>13. D \ {k} = Changed("remove", D, k)
    BY DEF Changed
  <1> HIDE DEF w, turn, s, del
  <1>14. del.key \in D /\ Neighbours(del.key, k, D)
    <2>1. del.key \in D /\ del.key \in Int
      BY <1>2, <1>9, <1>10 DEF Together
    <2>2. ASSUME NEW y \in D, y \notin E
          PROVE  (y < k /\ y < del.key) \/ (k < y /\ del.key < y)
      BY <1>9, <1>10, <1>11, <2>2 DEF Together
    <2>3. QED
      BY <1>2, <1>10, <2>1, <2>2 DEF Neighbours
  <1>15. QED
    BY <1>8, <1>12, <1>13, <1>14
\* Lookup finds exactly the elements of the tree.
LEMMA FoundTree ==
    ASSUME NEW d, NEW D, Tree(d.root, D), NEW k \in Keys
    PROVE  (qAVLTree__ptr_at(d, k) = 0) <=> k \in D
  <1>1. CASE d.root = Empty
    BY <1>1, EmptyHasNone DEF qAVLTree__ptr_at
  <1>2. CASE d.root # Empty
    <2> DEFINE w == Walk(d.root, Towards(k), k)
    <2>1. PICK n : Goes(w, n, d.root, Towards(k), k)
      BY <1>2, Turns, WalkEnds
    <2>2. LastNode(w) = w[n - 1]
      BY <2>1 DEF LastNode, Goes
    <2>3. k \in D <=> w[n - 1].key = k
      <3> HIDE DEF w
      <3> QED BY <2>1, SearchFinds
    <2>4. qAVLTree__ptr_at(d, k) = IF w[n - 1].key = k THEN 0 ELSE -1
      BY <1>2, <2>2 DEF qAVLTree__ptr_at
    <2>5. QED
      BY <2>3, <2>4
  <1>3. QED
    BY <1>1, <1>2

\* A node without children.
LEMMA LeafTree ==
    ASSUME NEW k \in Keys
    PROVE  Leaf(k) = Node(k, Empty, Empty) /\ Leaf(k) # Empty /\ Tree(Leaf(k), {k})
  <1>1. Leaf(k) = Node(k, Empty, Empty)
    BY DEF Leaf, Node, getHeight, Taller
  <1>2. Under({k}, k) = {} /\ Over({k}, k) = {}
    BY KeysAssumption DEF Under, Over
  <1>3. Tree(Node(k, Empty, Empty), {k})
    BY <1>2, EmptyTree, Join
  <1>4. QED
    BY <1>1, <1>3, NodeFields

\* An insertion adds its element next to the node it reports.
LEMMA InsertTree ==
    ASSUME NEW t, NEW D, Tree(t, D), t # Empty, NEW k \in Keys
    PROVE  LET ins == qAVLTree__recursive_insert(t, k, TRUE)
           IN /\ k \in D => ins.st = -1 /\ ins.new = t
              /\ k \notin D => /\ ins.st = 0 /\ ins.at \in D
                               /\ Tree(ins.new, D \cup {k})
                               /\ IF k < ins.at THEN \A y \in D : y < k \/ ins.at <= y
                                                ELSE \A y \in D : y <= ins.at \/ k < y
  <1> DEFINE turn == Towards(k)
             w == Walk(t, turn, k)
             ins == qAVLTree__recursive_insert(t, k, TRUE)
  <1>1. turn \in [Keys -> {"l", "r"}] /\ k \in Int /\ D \subseteq Int /\ D \subseteq Keys
    BY KeysAssumption, Turns DEF Tree
  <1>2. PICK n : Goes(w, n, t, turn, k)
    BY <1>1, WalkEnds
  <1> DEFINE s == w[n - 1]
             p == s.key
             bottom == updateHeight(WithChild(s, turn[p], Leaf(k)))
  <1>3. LastNode(w) = s /\ s # Empty
    BY <1>2 DEF LastNode, Goes
  <1>4. /\ p \in D /\ (k \in D <=> p = k)
        /\ k \notin D => IF k < p THEN s.l = Empty /\ \A y \in D : y < k \/ p <= y
                                  ELSE s.r = Empty /\ \A y \in D : y <= p \/ k < y
    <2> HIDE DEF w
    <2> QED BY <1>2, SearchFinds
  <1>5. CASE k \in D
    <2>1. ins = [st |-> -1, new |-> t, at |-> Nil]
      BY <1>3, <1>4, <1>5 DEF qAVLTree__recursive_insert
    <2> HIDE DEF ins
    <2>2. ins.st = -1 /\ ins.new = t
      BY <2>1
    <2>3. QED
      BY <1>5, <2>2 DEF ins
  <1>6. CASE k \notin D
    <2>1. ins = [st |-> 0, at |-> p, new |-> Rebuilt(w, turn, bottom, "same")]
      BY <1>3, <1>4, <1>6 DEF qAVLTree__recursive_insert
    <2>2. \A i \in 0..(n - 1) : i < n - 1 =>
              k # w[i].key /\ turn[w[i].key] = IF k < w[i].key THEN "l" ELSE "r"
      BY <1>2, WalkTowards
    <2>3. turn[p] = IF k < p THEN "l" ELSE "r"
      <3>1. \A x \in Keys : turn[x] = IF k < x THEN "l" ELSE "r"
        BY Turns
      <3> HIDE DEF turn, p
      <3>2. QED
        BY <1>1, <1>4, <3>1
    <2> HIDE DEF turn, w
    <2>4. ASSUME NEW E, Tree(s, E) PROVE Tree(bottom, Changed("add", E, k))
      <3> HIDE DEF s, p
      <3>1. /\ p \in E /\ p \in Keys /\ p \in Int /\ E \subseteq Int /\ E \subseteq Keys
            /\ Tree(s.l, Under(E, p)) /\ Tree(s.r, Over(E, p))
        BY <1>3, <2>4, Split DEF p, Tree
      <3>2. p # k
        BY <1>4, <1>6
      <3>3. s = Stale(p, s.l, s.r, s.h)
        BY <1>3, <2>4, TreeStale DEF p
      <3>4. Tree(Leaf(k), {k}) /\ {k} = Changed("add", {}, k)
        BY LeafTree DEF Changed
      <3> DEFINE F == Changed("add", E, k)
      <3>5. /\ F \in SUBSET Keys /\ p \in F
            /\ k < p => /\ Under(F, p) = Changed("add", Under(E, p), k)
                        /\ Over(F, p) = Over(E, p)
            /\ ~(k < p) => /\ Under(F, p) = Under(E, p)
                           /\ Over(F, p) = Changed("add", Over(E, p), k)
        BY <3>1, <3>2, ChangedParts
      <3> HIDE DEF F
      <3>6. CASE k < p
        <4>1. bottom = Node(p, Leaf(k), s.r)
          <5>1. bottom = updateHeight(PutLeft(s, Leaf(k)))
            BY <2>3, <3>6 DEF WithChild, PutLeft
          <5>2. QED
            BY <3>3, <5>1, StalePut
        <4>2. Under(E, p) = {}
          BY <1>4, <1>6, <3>1, <3>6, EmptyHasNone
        <4>3. Tree(Leaf(k), Under(F, p)) /\ Tree(s.r, Over(F, p))
          BY <3>1, <3>4, <3>5, <3>6, <4>2
        <4>4. QED
          BY <3>5, <4>1, <4>3, Join DEF F
      <3>7. CASE ~(k < p)
        <4>1. bottom = Node(p, s.l, Leaf(k))
          <5>1. bottom = updateHeight(PutRight(s, Leaf(k)))
            BY <2>3, <3>7 DEF WithChild, PutRight
          <5>2. QED
            BY <3>3, <5>1, StalePut
        <4>2. Over(E, p) = {}
          BY <1>4, <1>6, <3>1, <3>7, EmptyHasNone
        <4>3. Tree(s.l, Under(F, p)) /\ Tree(Leaf(k), Over(F, p))
          BY <3>1, <3>4, <3>5, <3>7, <4>2
        <4>4. QED
          BY <3>5, <4>1, <4>3, Join DEF F
      <3>8. QED
        BY <3>6, <3>7
    <2> HIDE DEF bottom
    <2>5. Tree(Rebuilt(w, turn, bottom, "same"), Changed("add", D, k))
      BY <1>2, <2>2, <2>4, RebuiltTree
    <2>6. Changed("add", D, k) = D \cup {k}
      BY DEF Changed
    <2> HIDE DEF ins, s, p
    <2>7. ins.st = 0 /\ ins.at = p /\ ins.new = Rebuilt(w, turn, bottom, "same")
      BY <2>1
    <2>8. QED
      BY <1>4, <1>6, <2>5, <2>6, <2>7 DEF ins
  <1>7. QED
    BY <1>5, <1>6
-----------------------------------------------------------------------------
(***************************************************************************)
(* The list.                                                               *)
(***************************************************************************)
\* s is the element of E after x, or NULL where there is none; p the one before.
After(s, x, E) ==
    IF s = Nil THEN \A y \in E : y <= x
    ELSE s \in E /\ x < s /\ \A y \in E : y <= x \/ s <= y
Before(p, x, E) ==
    IF p = Nil THEN \A y \in E : x <= y
    ELSE p \in E /\ p < x /\ \A y \in E : y <= p \/ x <= y

\* The links thread the elements of E in order.
Linked(next, prev, E) ==
    /\ next \in [Keys -> Keys \cup {Nil}] /\ prev \in [Keys -> Keys \cup {Nil}]
    /\ \A x \in E : After(next[x], x, E) /\ Before(prev[x], x, E)
    /\ \A x \in Keys \ E : next[x] = Nil /\ prev[x] = Nil

Links == [Keys -> Keys \cup {Nil}]

\* The links after k has been put in before or after a, after m has been taken
\* out, and after the node of k has been given to m.
PutBefore(next, prev, a, k, next2, prev2) ==
    \A x \in Keys : /\ next2[x] = IF x = k THEN a ELSE IF x = prev[a] THEN k ELSE next[x]
                    /\ prev2[x] = IF x = a THEN k ELSE IF x = k THEN prev[a] ELSE prev[x]
PutAfter(next, prev, a, k, next2, prev2) ==
    \A x \in Keys : /\ prev2[x] = IF x = k THEN a ELSE IF x = next[a] THEN k ELSE prev[x]
                    /\ next2[x] = IF x = a THEN k ELSE IF x = k THEN next[a] ELSE next[x]
TakenOut(next, prev, m, next2, prev2) ==
    \A x \in Keys :
       /\ next2[x] = IF x = m THEN Nil ELSE IF x = prev[m] THEN next[m] ELSE next[x]
       /\ prev2[x] = IF x = m THEN Nil ELSE IF x = next[m] THEN prev[m] ELSE prev[x]
HandedOn(next, prev, k, m, next2, prev2) ==
    \A x \in Keys :
       /\ next2[x] = IF x = k THEN Nil
                     ELSE LET n == next[IF x = m THEN k ELSE x] IN IF n = k THEN m ELSE n
       /\ prev2[x] = IF x = k THEN Nil
                     ELSE LET p == prev[IF x = m THEN k ELSE x] IN IF p = k THEN m ELSE p

\* The neighbours agree: p is before x where x is after p.
LEMMA LinksAgree ==
    ASSUME NEW E \in SUBSET Keys, NEW next, NEW prev, Linked(next, prev, E),
           NEW x \in E, NEW y \in E
    PROVE  next[x] = y <=> prev[y] = x
  <1>1. E \subseteq Int /\ x \in Int /\ y \in Int /\ Nil \notin E
    BY KeysAssumption
  <1>2. /\ After(next[x], x, E) /\ Before(prev[x], x, E)
        /\ After(next[y], y, E) /\ Before(prev[y], y, E)
    BY DEF Linked
  <1>3. ASSUME next[x] = y PROVE prev[y] = x
    <2>1. x < y /\ \A z \in E : z <= x \/ y <= z
      BY <1>1, <1>2, <1>3 DEF After
    <2>2. prev[y] # Nil
      BY <1>1, <1>2, <2>1 DEF Before
    <2> DEFINE z == prev[y]
    <2>3. z \in E /\ z < y /\ (x <= z \/ y <= x)
      BY <1>2, <2>2 DEF Before
    <2> HIDE DEF z
    <2>4. z \in Int /\ (z <= x \/ y <= z)
      BY <1>1, <2>1, <2>3
    <2>5. z = x
      BY <1>1, <2>1, <2>3, <2>4
    <2>6. QED
      BY <2>5 DEF z
  <1>4. ASSUME prev[y] = x PROVE next[x] = y
    <2>1. x < y /\ \A z \in E : z <= x \/ y <= z
      BY <1>1, <1>2, <1>4 DEF Before
    <2>2. next[x] # Nil
      BY <1>1, <1>2, <2>1 DEF After
    <2> DEFINE z == next[x]
    <2>3. z \in E /\ x < z /\ (y <= x \/ z <= y)
      BY <1>2, <2>2 DEF After
    <2> HIDE DEF z
    <2>4. z \in Int /\ (z <= x \/ y <= z)
      BY <1>1, <2>1, <2>3
    <2>5. z = y
      BY <1>1, <2>1, <2>3, <2>4
    <2>6. QED
      BY <2>5 DEF z
  <1>5. QED
    BY <1>3, <1>4

\* A new element is linked in before a.
LEMMA LinkedLeft ==
    ASSUME NEW E \in SUBSET Keys, NEW next, NEW prev, Linked(next, prev, E),
           NEW a \in E, NEW k \in Keys \ E, k < a, \A y \in E : y < k \/ a <= y,
           NEW next2 \in Links, NEW prev2 \in Links,
           PutBefore(next, prev, a, k, next2, prev2)
    PROVE  Linked(next2, prev2, E \cup {k})
  <1> USE DEF PutBefore, Links
  <1> DEFINE F == E \cup {k}
             p == prev[a]
  <1>1. /\ E \subseteq Int /\ a \in Int /\ k \in Int /\ Nil \notin Keys
        /\ \A x \in E : x \in Keys
    BY KeysAssumption
  <1>2. Before(p, a, E)
    BY DEF Linked
  <1>3. ASSUME NEW x \in E PROVE After(next2[x], x, F)
    <2>1. After(next[x], x, E) /\ x # k /\ x \in Int
      BY <1>1 DEF Linked
    <2>2. CASE x = p
      <3>1. next2[x] = k /\ x < a /\ (\A y \in E : y <= x \/ a <= y)
        BY <1>1, <1>2, <2>1, <2>2 DEF Before
      <3>2. x < k
        BY <1>1, <2>1, <3>1
      <3>3. \A y \in F : y <= x \/ k <= y
        BY <1>1, <2>1, <3>1
      <3>4. QED
        BY <1>1, <3>1, <3>2, <3>3 DEF After
    <2>3. CASE x # p
      <3>1. next2[x] = next[x] /\ next[x] # a
        BY <1>1, <2>1, <2>3, LinksAgree
      <3>2. CASE next[x] = Nil
        <4>1. \A y \in E : y <= x
          BY <2>1, <3>2 DEF After
        <4>2. k <= x
          BY <1>1, <2>1, <4>1
        <4>3. QED
          BY <3>1, <3>2, <4>1, <4>2 DEF After
      <3>3. CASE next[x] # Nil
        <4> DEFINE z == next[x]
        <4>1. z \in E /\ x < z /\ \A y \in E : y <= x \/ z <= y
          BY <2>1, <3>3 DEF After
        <4> HIDE DEF z
        <4>2. /\ z \in Int /\ z # a /\ (z < k \/ a <= z) /\ (x < k \/ a <= x)
              /\ (a <= x \/ z <= a)
          BY <1>1, <3>1, <4>1 DEF z
        <4>3. k <= x \/ z <= k
          BY <1>1, <2>1, <4>1, <4>2
        <4>4. QED
          BY <3>1, <3>3, <4>1, <4>3 DEF After, z
      <3>4. QED
        BY <3>2, <3>3
    <2>4. QED
      BY <2>2, <2>3
  <1>4. After(next2[k], k, F)
    <2>1. next2[k] = a /\ a # Nil
      BY <1>1
    <2>2. \A y \in F : y <= k \/ a <= y
      BY <1>1
    <2>3. QED
      BY <2>1, <2>2 DEF After
  <1>5. ASSUME NEW x \in E PROVE Before(prev2[x], x, F)
    <2>1. Before(prev[x], x, E) /\ x # k /\ x \in Int
      BY <1>1 DEF Linked
    <2>2. CASE x = a
      <3>1. prev2[x] = k /\ k # Nil
        BY <1>1, <2>2
      <3>2. \A y \in F : y <= k \/ x <= y
        BY <1>1, <2>2
      <3>3. QED
        BY <2>2, <3>1, <3>2 DEF Before
    <2>3. CASE x # a
      <3>1. prev2[x] = prev[x]
        BY <1>1, <2>1, <2>3
      <3>2. CASE prev[x] = Nil
        <4>1. \A y \in E : x <= y
          BY <2>1, <3>2 DEF Before
        <4>2. x <= k
          BY <1>1, <2>1, <2>3, <4>1
        <4>3. QED
          BY <3>1, <3>2, <4>1, <4>2 DEF Before
      <3>3. CASE prev[x] # Nil
        <4> DEFINE z == prev[x]
        <4>1. z \in E /\ z < x /\ \A y \in E : y <= z \/ x <= y
          BY <2>1, <3>3 DEF Before
        <4> HIDE DEF z
        <4>2. /\ z \in Int /\ (z < k \/ a <= z) /\ (x < k \/ a <= x)
              /\ (a <= z \/ x <= a)
          BY <1>1, <4>1
        <4>3. k <= z \/ x <= k
          BY <1>1, <2>1, <2>3, <4>1, <4>2
        <4>4. QED
          BY <3>1, <3>3, <4>1, <4>3 DEF Before, z
      <3>4. QED
        BY <3>2, <3>3
    <2>4. QED
      BY <2>2, <2>3
  <1>6. Before(prev2[k], k, F)
    <2>1. prev2[k] = p
      BY <1>1
    <2>2. CASE p = Nil
      <3>1. \A y \in E : a <= y
        BY <1>2, <2>2 DEF Before
      <3>2. \A y \in F : k <= y
        BY <1>1, <3>1
      <3>3. QED
        BY <2>1, <2>2, <3>2 DEF Before
    <2>3. CASE p # Nil
      <3>1. p \in E /\ p < a /\ \A y \in E : y <= p \/ a <= y
        BY <1>2, <2>3 DEF Before
      <3> HIDE DEF p
      <3>2. p < k
        BY <1>1, <3>1
      <3>3. \A y \in F : y <= p \/ k <= y
        BY <1>1, <3>1
      <3>4. QED
        BY <2>1, <2>3, <3>1, <3>2, <3>3 DEF Before
    <2>4. QED
      BY <2>2, <2>3
  <1>7. ASSUME NEW x \in Keys, x \notin F PROVE next2[x] = Nil /\ prev2[x] = Nil
    <2>1. x # k /\ x \notin E /\ next[x] = Nil /\ prev[x] = Nil
      BY <1>7 DEF Linked
    <2>2. x # p /\ x # a
      BY <1>1, <1>2, <2>1 DEF Before
    <2>3. QED
      BY <2>1, <2>2
  <1> HIDE DEF p
  <1>8. QED
    BY <1>3, <1>4, <1>5, <1>6, <1>7 DEF Linked

\* A new element is linked in after a.
LEMMA LinkedRight ==
    ASSUME NEW E \in SUBSET Keys, NEW next, NEW prev, Linked(next, prev, E),
           NEW a \in E, NEW k \in Keys \ E, k > a, \A y \in E : y > k \/ a >= y,
           NEW prev2 \in Links, NEW next2 \in Links,
           PutAfter(next, prev, a, k, next2, prev2)
    PROVE  Linked(next2, prev2, E \cup {k})
  <1> USE DEF PutAfter, Links
  <1> DEFINE F == E \cup {k}
             n == next[a]
  <1>1. /\ E \subseteq Int /\ a \in Int /\ k \in Int /\ Nil \notin Keys
        /\ \A x \in E : x \in Keys
    BY KeysAssumption
  <1>2. After(n, a, E)
    BY DEF Linked
  <1>3. ASSUME NEW x \in E PROVE Before(prev2[x], x, F)
    <2>1. Before(prev[x], x, E) /\ x # k /\ x \in Int
      BY <1>1 DEF Linked
    <2>2. CASE x = n
      <3>1. prev2[x] = k /\ x > a /\ (\A y \in E : y >= x \/ a >= y)
        BY <1>1, <1>2, <2>1, <2>2 DEF After
      <3>2. x > k
        BY <1>1, <2>1, <3>1
      <3>3. \A y \in F : y >= x \/ k >= y
        BY <1>1, <2>1, <3>1
      <3>4. QED
        BY <1>1, <3>1, <3>2, <3>3 DEF Before
    <2>3. CASE x # n
      <3>1. prev2[x] = prev[x] /\ prev[x] # a
        BY <1>1, <2>1, <2>3, LinksAgree
      <3>2. CASE prev[x] = Nil
        <4>1. \A y \in E : y >= x
          BY <2>1, <3>2 DEF Before
        <4>2. k >= x
          BY <1>1, <2>1, <4>1
        <4>3. QED
          BY <3>1, <3>2, <4>1, <4>2 DEF Before
      <3>3. CASE prev[x] # Nil
        <4> DEFINE z == prev[x]
        <4>1. z \in E /\ x > z /\ \A y \in E : y >= x \/ z >= y
          BY <2>1, <3>3 DEF Before
        <4> HIDE DEF z
        <4>2. /\ z \in Int /\ z # a /\ (z > k \/ a >= z) /\ (x > k \/ a >= x)
              /\ (a >= x \/ z >= a)
          BY <1>1, <3>1, <4>1 DEF z
        <4>3. k >= x \/ z >= k
          BY <1>1, <2>1, <4>1, <4>2
        <4>4. QED
          BY <3>1, <3>3, <4>1, <4>3 DEF Before, z
      <3>4. QED
        BY <3>2, <3>3
    <2>4. QED
      BY <2>2, <2>3
  <1>4. Before(prev2[k], k, F)
    <2>1. prev2[k] = a /\ a # Nil
      BY <1>1
    <2>2. \A y \in F : y >= k \/ a >= y
      BY <1>1
    <2>3. QED
      BY <2>1, <2>2 DEF Before
  <1>5. ASSUME NEW x \in E PROVE After(next2[x], x, F)
    <2>1. After(next[x], x, E) /\ x # k /\ x \in Int
      BY <1>1 DEF Linked
    <2>2. CASE x = a
      <3>1. next2[x] = k /\ k # Nil
        BY <1>1, <2>2
      <3>2. \A y \in F : y >= k \/ x >= y
        BY <1>1, <2>2
      <3>3. QED
        BY <2>2, <3>1, <3>2 DEF After
    <2>3. CASE x # a
      <3>1. next2[x] = next[x]
        BY <1>1, <2>1, <2>3
      <3>2. CASE next[x] = Nil
        <4>1. \A y \in E : x >= y
          BY <2>1, <3>2 DEF After
        <4>2. x >= k
          BY <1>1, <2>1, <2>3, <4>1
        <4>3. QED
          BY <3>1, <3>2, <4>1, <4>2 DEF After
      <3>3. CASE next[x] # Nil
        <4> DEFINE z == next[x]
        <4>1. z \in E /\ z > x /\ \A y \in E : y >= z \/ x >= y
          BY <2>1, <3>3 DEF After
        <4> HIDE DEF z
        <4>2. /\ z \in Int /\ (z > k \/ a >= z) /\ (x > k \/ a >= x)
              /\ (a >= z \/ x >= a)
          BY <1>1, <4>1
        <4>3. k >= z \/ x >= k
          BY <1>1, <2>1, <2>3, <4>1, <4>2
        <4>4. QED
          BY <3>1, <3>3, <4>1, <4>3 DEF After, z
      <3>4. QED
        BY <3>2, <3>3
    <2>4. QED
      BY <2>2, <2>3
  <1>6. After(next2[k], k, F)
    <2>1. next2[k] = n
      BY <1>1
    <2>2. CASE n = Nil
      <3>1. \A y \in E : a >= y
        BY <1>2, <2>2 DEF After
      <3>2. \A y \in F : k >= y
        BY <1>1, <3>1
      <3>3. QED
        BY <2>1, <2>2, <3>2 DEF After
    <2>3. CASE n # Nil
      <3>1. n \in E /\ n > a /\ \A y \in E : y >= n \/ a >= y
        BY <1>2, <2>3 DEF After
      <3> HIDE DEF n
      <3>2. n > k
        BY <1>1, <3>1
      <3>3. \A y \in F : y >= n \/ k >= y
        BY <1>1, <3>1
      <3>4. QED
        BY <2>1, <2>3, <3>1, <3>2, <3>3 DEF After
    <2>4. QED
      BY <2>2, <2>3
  <1>7. ASSUME NEW x \in Keys, x \notin F PROVE prev2[x] = Nil /\ next2[x] = Nil
    <2>1. x # k /\ x \notin E /\ prev[x] = Nil /\ next[x] = Nil
      BY <1>7 DEF Linked
    <2>2. x # n /\ x # a
      BY <1>1, <1>2, <2>1 DEF After
    <2>3. QED
      BY <2>1, <2>2
  <1> HIDE DEF n
  <1>8. QED
    BY <1>3, <1>4, <1>5, <1>6, <1>7 DEF Linked
\* An element is taken out.
LEMMA LinkedWithout ==
    ASSUME NEW E \in SUBSET Keys, NEW next, NEW prev, Linked(next, prev, E), NEW m \in E,
           NEW next2 \in Links, NEW prev2 \in Links,
           TakenOut(next, prev, m, next2, prev2)
    PROVE  Linked(next2, prev2, E \ {m})
  <1> USE DEF TakenOut, Links
  <1> DEFINE F == E \ {m}
             p == prev[m]
             n == next[m]
  <1>1. /\ E \subseteq Int /\ m \in Int /\ Nil \notin Keys
        /\ \A x \in E : x \in Keys
    BY KeysAssumption
  <1>2. Before(p, m, E) /\ After(n, m, E)
    BY DEF Linked
  <1>3. ASSUME NEW x \in F PROVE After(next2[x], x, F)
    <2>1. After(next[x], x, E) /\ x # m /\ x \in Int /\ x \in E
      BY <1>1 DEF Linked
    <2>2. CASE x = p
      <3>1. next2[x] = n /\ x < m /\ (\A y \in E : y <= x \/ m <= y)
        BY <1>1, <1>2, <2>1, <2>2 DEF Before
      <3> HIDE DEF n
      <3>2. CASE n = Nil
        <4>1. \A y \in E : y <= m
          BY <1>2, <3>2 DEF After
        <4>2. ASSUME NEW y \in F PROVE y <= x
          <5>1. y \in Int /\ y <= m /\ (y <= x \/ m <= y) /\ y # m
            BY <1>1, <3>1, <4>1
          <5>2. QED
            BY <1>1, <2>1, <5>1
        <4>3. QED
          BY <3>1, <3>2, <4>2 DEF After
      <3>3. CASE n # Nil
        <4>1. n \in E /\ m < n /\ \A y \in E : y <= m \/ n <= y
          BY <1>2, <3>3 DEF After
        <4>2. n \in F /\ x < n /\ n \in Int
          BY <1>1, <2>1, <3>1, <4>1
        <4>3. ASSUME NEW y \in F PROVE y <= x \/ n <= y
          <5>1. y \in Int /\ (y <= m \/ n <= y) /\ (y <= x \/ m <= y) /\ y # m
            BY <1>1, <3>1, <4>1
          <5>2. QED
            BY <1>1, <2>1, <4>2, <5>1
        <4>4. QED
          BY <3>1, <3>3, <4>2, <4>3 DEF After
      <3>4. QED
        BY <3>2, <3>3
    <2>3. CASE x # p
      <3>1. next2[x] = next[x] /\ next[x] # m
        BY <1>1, <2>1, <2>3, LinksAgree
      <3>2. QED
        BY <2>1, <3>1 DEF After
    <2>4. QED
      BY <2>2, <2>3
  <1>4. ASSUME NEW x \in F PROVE Before(prev2[x], x, F)
    <2>1. Before(prev[x], x, E) /\ x # m /\ x \in Int /\ x \in E
      BY <1>1 DEF Linked
    <2>2. CASE x = n
      <3>1. prev2[x] = p /\ m < x /\ (\A y \in E : y <= m \/ x <= y)
        BY <1>1, <1>2, <2>1, <2>2 DEF After
      <3> HIDE DEF p
      <3>2. CASE p = Nil
        <4>1. \A y \in E : m <= y
          BY <1>2, <3>2 DEF Before
        <4>2. ASSUME NEW y \in F PROVE x <= y
          <5>1. y \in Int /\ m <= y /\ (y <= m \/ x <= y) /\ y # m
            BY <1>1, <3>1, <4>1
          <5>2. QED
            BY <1>1, <2>1, <5>1
        <4>3. QED
          BY <3>1, <3>2, <4>2 DEF Before
      <3>3. CASE p # Nil
        <4>1. p \in E /\ p < m /\ \A y \in E : y <= p \/ m <= y
          BY <1>2, <3>3 DEF Before
        <4>2. p \in F /\ p < x /\ p \in Int
          BY <1>1, <2>1, <3>1, <4>1
        <4>3. ASSUME NEW y \in F PROVE y <= p \/ x <= y
          <5>1. y \in Int /\ (y <= p \/ m <= y) /\ (y <= m \/ x <= y) /\ y # m
            BY <1>1, <3>1, <4>1
          <5>2. QED
            BY <1>1, <2>1, <4>2, <5>1
        <4>4. QED
          BY <3>1, <3>3, <4>2, <4>3 DEF Before
      <3>4. QED
        BY <3>2, <3>3
    <2>3. CASE x # n
      <3>1. next[m] = x <=> prev[x] = m
        BY <2>1, LinksAgree
      <3>2. prev2[x] = prev[x] /\ prev[x] # m
        BY <1>1, <2>1, <2>3, <3>1
      <3>3. QED
        BY <2>1, <3>2 DEF Before
    <2>4. QED
      BY <2>2, <2>3
  <1>5. ASSUME NEW x \in Keys, x \notin F PROVE next2[x] = Nil /\ prev2[x] = Nil
    <2>1. CASE x = m
      BY <2>1
    <2>2. CASE x # m
      <3>1. x \notin E /\ next[x] = Nil /\ prev[x] = Nil
        BY <1>5, <2>2 DEF Linked
      <3>2. x # p /\ x # n
        BY <1>1, <1>2, <3>1 DEF Before, After
      <3>3. QED
        BY <2>2, <3>1, <3>2
    <2>3. QED
      BY <2>1, <2>2
  <1> HIDE DEF p, n
  <1>6. QED
    BY <1>3, <1>4, <1>5 DEF Linked

\* An element gives its node to one that takes its place in the order.
LEMMA LinkedRenamed ==
    ASSUME NEW E \in SUBSET Keys, NEW next, NEW prev, Linked(next, prev, E),
           NEW k \in E, NEW m \in Keys \ E,
           \A y \in E : y # k => (y < k <=> y < m),
           NEW next2 \in Links, NEW prev2 \in Links,
           HandedOn(next, prev, k, m, next2, prev2)
    PROVE  Linked(next2, prev2, (E \ {k}) \cup {m})
  <1> USE DEF HandedOn, Links
  <1> DEFINE F == (E \ {k}) \cup {m}
             As(x) == IF x = k THEN m ELSE x
             Back(x) == IF x = m THEN k ELSE x
  <1>1. /\ E \subseteq Int /\ m \in Int /\ k \in Int /\ Nil \notin Keys
        /\ \A x \in E : x \in Keys
    BY KeysAssumption
  <1>2. ASSUME NEW x \in F
        PROVE  Back(x) \in E /\ x = As(Back(x)) /\ x \in Int /\ x \in Keys /\ x # k
    BY <1>1
  <1>3. ASSUME NEW x \in E PROVE As(x) \in F /\ Back(As(x)) = x /\ x \in Int /\ As(x) \in Int
    BY <1>1
  <1>4. ASSUME NEW x \in E, NEW y \in E
        PROVE  (x < y <=> As(x) < As(y)) /\ (x <= y <=> As(x) <= As(y))
    <2>1. x \in Int /\ y \in Int /\ As(x) \in Int /\ As(y) \in Int
      BY <1>3
    <2>2. /\ x # k => (x < k <=> x < m) /\ x # m /\ As(x) = x
          /\ y # k => (y < k <=> y < m) /\ y # m /\ As(y) = y
          /\ x = k => As(x) = m
          /\ y = k => As(y) = m
      OBVIOUS
    <2> HIDE DEF As
    <2>3. QED
      BY <1>1, <2>1, <2>2
  <1>5. As(Nil) = Nil /\ \A x \in E : As(x) # Nil /\ x # Nil
    BY <1>1
  <1>6. \A x \in F : next2[x] = As(next[Back(x)]) /\ prev2[x] = As(prev[Back(x)])
    BY <1>2
  <1>7. \A y \in F : \E z \in E : y = As(z)
    BY <1>2
  <1> HIDE DEF As, Back, F
  <1>8. ASSUME NEW x \in F PROVE After(next2[x], x, F)
    <2> DEFINE z == Back(x)
               s == next[z]
    <2>1. z \in E /\ x = As(z) /\ next2[x] = As(s)
      BY <1>2, <1>6
    <2>2. After(s, z, E)
      BY <2>1 DEF Linked
    <2> HIDE DEF z, s
    <2>3. CASE s = Nil
      <3>1. \A y \in E : As(y) <= x
        BY <1>4, <2>1, <2>2, <2>3 DEF After
      <3>2. QED
        BY <1>5, <1>7, <2>1, <2>3, <3>1 DEF After
    <2>4. CASE s # Nil
      <3>1. s \in E /\ z < s /\ \A y \in E : y <= z \/ s <= y
        BY <2>2, <2>4 DEF After
      <3>2. As(s) \in F /\ As(s) # Nil /\ x < As(s)
        BY <1>3, <1>4, <1>5, <2>1, <3>1
      <3>3. \A y \in E : As(y) <= x \/ As(s) <= As(y)
        BY <1>4, <2>1, <3>1
      <3>4. QED
        BY <1>7, <2>1, <3>2, <3>3 DEF After
    <2>5. QED
      BY <2>3, <2>4
  <1>9. ASSUME NEW x \in F PROVE Before(prev2[x], x, F)
    <2> DEFINE z == Back(x)
               s == prev[z]
    <2>1. z \in E /\ x = As(z) /\ prev2[x] = As(s)
      BY <1>2, <1>6
    <2>2. Before(s, z, E)
      BY <2>1 DEF Linked
    <2> HIDE DEF z, s
    <2>3. CASE s = Nil
      <3>1. \A y \in E : x <= As(y)
        BY <1>4, <2>1, <2>2, <2>3 DEF Before
      <3>2. QED
        BY <1>5, <1>7, <2>1, <2>3, <3>1 DEF Before
    <2>4. CASE s # Nil
      <3>1. s \in E /\ s < z /\ \A y \in E : y <= s \/ z <= y
        BY <2>2, <2>4 DEF Before
      <3>2. As(s) \in F /\ As(s) # Nil /\ As(s) < x
        BY <1>3, <1>4, <1>5, <2>1, <3>1
      <3>3. \A y \in E : As(y) <= As(s) \/ x <= As(y)
        BY <1>4, <2>1, <3>1
      <3>4. QED
        BY <1>7, <2>1, <3>2, <3>3 DEF Before
    <2>5. QED
      BY <2>3, <2>4
  <1>10. ASSUME NEW x \in Keys, x \notin F PROVE next2[x] = Nil /\ prev2[x] = Nil
    <2>1. CASE x = k
      BY <2>1
    <2>2. CASE x # k
      <3>1. x \notin E /\ x # m
        BY <1>10, <2>2 DEF F
      <3>2. next[x] = Nil /\ prev[x] = Nil
        BY <3>1 DEF Linked
      <3>3. QED
        BY <1>1, <2>2, <3>1, <3>2
    <2>3. QED
      BY <2>1, <2>2
  <1>11. QED
    BY <1>8, <1>9, <1>10 DEF Linked, F
\* A descriptor, field by field, and what the list operations make of it.
Desc(size, root, prev, next) == [size |-> size, root |-> root, prev |-> prev, next |-> next]

PutNext(d, next) == [d EXCEPT !.next = next]
PutPrev(d, prev) == [d EXCEPT !.prev = prev]
PutRoot(d, root) == [d EXCEPT !.root = root]
PutSize(d, size) == [d EXCEPT !.size = size]

\* The fields of a descriptor.
LEMMA DescFields ==
    ASSUME NEW size, NEW root, NEW prev, NEW next
    PROVE  /\ Desc(size, root, prev, next).size = size /\ Desc(size, root, prev, next).root = root
           /\ Desc(size, root, prev, next).prev = prev /\ Desc(size, root, prev, next).next = next
  BY DEF Desc

\* What assigning one of them makes of it.
LEMMA DescPut ==
    ASSUME NEW size, NEW root, NEW prev, NEW next, NEW v
    PROVE  /\ PutNext(Desc(size, root, prev, next), v) = Desc(size, root, prev, v)
           /\ PutPrev(Desc(size, root, prev, next), v) = Desc(size, root, v, next)
           /\ PutRoot(Desc(size, root, prev, next), v) = Desc(size, v, prev, next)
           /\ PutSize(Desc(size, root, prev, next), v) = Desc(v, root, prev, next)
  BY DEF Desc, PutNext, PutPrev, PutRoot, PutSize

\* What list_insert_left does to the links.
LEMMA InsertLeftLinks ==
    ASSUME NEW size, NEW root, NEW prev \in Links, NEW next \in Links,
           NEW a \in Keys, NEW k \in Keys, a # k
    PROVE  \E next2, prev2 \in Links :
              /\ list_insert_left(Desc(size, root, prev, next), a, k)
                    = Desc(size, root, prev2, next2)
              /\ PutBefore(next, prev, a, k, next2, prev2)
  <1> DEFINE d == Desc(size, root, prev, next)
             next2 == [x \in Keys |-> CASE x = k -> a
                                        [] x = prev[a] /\ x # k -> k
                                        [] OTHER -> next[x]]
             prev2 == [prev EXCEPT ![k] = prev[a], ![a] = k]
  <1>1. d.prev = prev /\ d.next = next
    BY DescFields
  <1>2. list_insert_left(d, a, k) = PutPrev(PutNext(d, next2), prev2)
    <2> HIDE DEF d
    <2> QED BY <1>1 DEF list_insert_left, PutNext, PutPrev
  <1>3. /\ next2 \in Links /\ prev2 \in Links
        /\ \A x \in Keys : next2[x] = IF x = k THEN a ELSE IF x = prev[a] THEN k ELSE next[x]
        /\ \A x \in Keys : prev2[x] = IF x = a THEN k ELSE IF x = k THEN prev[a] ELSE prev[x]
    BY DEF Links
  <1> HIDE DEF next2, prev2
  <1>4. QED
    BY <1>2, <1>3, DescPut DEF PutBefore

\* What list_insert_right does to the links.
LEMMA InsertRightLinks ==
    ASSUME NEW size, NEW root, NEW prev \in Links, NEW next \in Links,
           NEW a \in Keys, NEW k \in Keys, a # k
    PROVE  \E next2, prev2 \in Links :
              /\ list_insert_right(Desc(size, root, prev, next), a, k)
                    = Desc(size, root, prev2, next2)
              /\ PutAfter(next, prev, a, k, next2, prev2)
  <1> DEFINE d == Desc(size, root, prev, next)
             prev2 == [x \in Keys |-> CASE x = k -> a
                                        [] x = next[a] /\ x # k -> k
                                        [] OTHER -> prev[x]]
             next2 == [next EXCEPT ![k] = next[a], ![a] = k]
  <1>1. d.prev = prev /\ d.next = next
    BY DescFields
  <1>2. list_insert_right(d, a, k) = PutNext(PutPrev(d, prev2), next2)
    <2> HIDE DEF d
    <2> QED BY <1>1 DEF list_insert_right, PutNext, PutPrev
  <1>3. /\ next2 \in Links /\ prev2 \in Links
        /\ \A x \in Keys : prev2[x] = IF x = k THEN a ELSE IF x = next[a] THEN k ELSE prev[x]
        /\ \A x \in Keys : next2[x] = IF x = a THEN k ELSE IF x = k THEN next[a] ELSE next[x]
    BY DEF Links
  <1> HIDE DEF next2, prev2
  <1>4. QED
    BY <1>2, <1>3, DescPut DEF PutAfter

\* What list_remove does to the links.
LEMMA RemoveLinks ==
    ASSUME NEW size, NEW root, NEW prev \in Links, NEW next \in Links, NEW m \in Keys,
           prev[m] # m, next[m] # m
    PROVE  \E next2, prev2 \in Links :
              /\ list_remove(Desc(size, root, prev, next), m) = Desc(size, root, prev2, next2)
              /\ TakenOut(next, prev, m, next2, prev2)
  <1> DEFINE d == Desc(size, root, prev, next)
             p == prev[m]
             n == next[m]
             next2 == [x \in Keys |-> CASE x = m -> Nil [] x = p -> n [] OTHER -> next[x]]
             prev2 == [x \in Keys |-> CASE x = m -> Nil [] x = n -> p [] OTHER -> prev[x]]
  <1>1. d.prev = prev /\ d.next = next
    BY DescFields
  <1>2. list_remove(d, m) = PutPrev(PutNext(d, next2), prev2)
    <2> HIDE DEF d
    <2> QED BY <1>1 DEF list_remove, PutNext, PutPrev
  <1>3. /\ next2 \in Links /\ prev2 \in Links
        /\ \A x \in Keys : next2[x] = IF x = m THEN Nil ELSE IF x = p THEN n ELSE next[x]
        /\ \A x \in Keys : prev2[x] = IF x = m THEN Nil ELSE IF x = n THEN p ELSE prev[x]
    BY DEF Links
  <1> HIDE DEF next2, prev2
  <1>4. QED
    BY <1>2, <1>3, DescPut DEF TakenOut

\* What the swap of the data of two nodes does to the links.
LEMMA RenameLinks ==
    ASSUME NEW size, NEW root, NEW prev \in Links, NEW next \in Links,
           NEW k \in Keys, NEW m \in Keys
    PROVE  \E next2, prev2 \in Links :
              /\ Renamed(Desc(size, root, prev, next), k, m) = Desc(size, root, prev2, next2)
              /\ HandedOn(next, prev, k, m, next2, prev2)
  <1> DEFINE d == Desc(size, root, prev, next)
             As(x) == IF x = k THEN m ELSE x
             Back(x) == IF x = m THEN k ELSE x
             next2 == [x \in Keys |-> IF x = k THEN Nil ELSE As(next[Back(x)])]
             prev2 == [x \in Keys |-> IF x = k THEN Nil ELSE As(prev[Back(x)])]
  <1>1. d.prev = prev /\ d.next = next
    BY DescFields
  <1>2. Renamed(d, k, m) = PutNext(PutPrev(d, prev2), next2)
    <2> HIDE DEF d
    <2> QED BY <1>1 DEF Renamed, PutNext, PutPrev
  <1>3. /\ next2 \in Links /\ prev2 \in Links
        /\ \A x \in Keys : next2[x] = IF x = k THEN Nil ELSE As(next[Back(x)])
        /\ \A x \in Keys : prev2[x] = IF x = k THEN Nil ELSE As(prev[Back(x)])
    BY DEF Links
  <1> HIDE DEF next2, prev2
  <1>4. QED
    BY <1>2, <1>3, DescPut DEF HandedOn
-----------------------------------------------------------------------------
(***************************************************************************)
(* Descriptors.                                                            *)
(***************************************************************************)
\* The descriptor d holds the elements E: in its tree, in its list, and counted.
Represents(d, E) ==
    /\ d = Desc(d.size, d.root, d.prev, d.next)
    /\ Tree(d.root, E)
    /\ Linked(d.next, d.prev, E)
    /\ d.size = Cardinality(E)

\* A tree, links and a size that agree are a set.
LEMMA Represented ==
    ASSUME NEW E, NEW root, NEW prev, NEW next, NEW size,
           Tree(root, E), Linked(next, prev, E), size = Cardinality(E)
    PROVE  Represents(Desc(size, root, prev, next), E)
  BY DescFields DEF Represents

\* The constructor makes an empty set.
LEMMA EmptyRepresents == Represents(qAVLTree_constructor, {})
  <1> DEFINE none == [x \in Keys |-> Nil]
  <1>1. qAVLTree_constructor = Desc(0, Empty, none, none)
    BY DEF qAVLTree_constructor, Desc
  <1>2. Linked(none, none, {})
    BY DEF Linked
  <1> HIDE DEF none
  <1>3. QED
    BY <1>1, <1>2, EmptyTree, FS_EmptySet, Represented

\* An element that is not there is inserted, one that is there is refused.
LEMMA InsertRepresents ==
    ASSUME NEW d, NEW E, Represents(d, E), NEW k \in Keys
    PROVE  LET ins == qAVLTree__insert(d, k, TRUE)
           IN /\ k \in E => ins.st = -1 /\ ins.desc = d
              /\ k \notin E => ins.st = 0 /\ Represents(ins.desc, E \cup {k})
  <1> DEFINE ins == qAVLTree__insert(d, k, TRUE)
             n == d.size
             t == d.root
             prev == d.prev
             next == d.next
             down == qAVLTree__recursive_insert(t, k, TRUE)
             a == down.at
  <1>1. /\ d = Desc(n, t, prev, next) /\ Tree(t, E) /\ Linked(next, prev, E)
        /\ n = Cardinality(E) /\ E \in SUBSET Keys /\ prev \in Links /\ next \in Links
    BY DEF Represents, Tree, Linked, Links
  <1>2. k \notin E => Cardinality(E \cup {k}) = n + 1
    <2>1. IsFiniteSet(E)
      BY <1>1, HeightBound
    <2>2. QED
      BY <1>1, <2>1, FS_AddElement
  <1>3. CASE t = Empty
    <2>1. E = {} /\ k \notin E
      BY <1>1, <1>3, EmptyHasNone
    <2>2. ins = [st |-> 0, desc |-> [d EXCEPT !.root = Leaf(k), !.size = 1]]
      BY <1>3 DEF qAVLTree__insert, Inserted
    <2> HIDE DEF n, t, prev, next, ins
    <2>3. ins.st = 0 /\ ins.desc = PutSize(PutRoot(d, Leaf(k)), 1)
      BY <2>2 DEF PutSize, PutRoot
    <2>4. ins.desc = Desc(1, Leaf(k), prev, next)
      BY <1>1, <2>3, DescPut
    <2>5. Tree(Leaf(k), E \cup {k}) /\ 1 = Cardinality(E \cup {k})
      BY <2>1, LeafTree, FS_Singleton
    <2>6. Linked(next, prev, E \cup {k})
      <3>1. \A x \in Keys : next[x] = Nil /\ prev[x] = Nil
        BY <1>1, <2>1 DEF Linked
      <3>2. After(Nil, k, {k}) /\ Before(Nil, k, {k})
        BY KeysAssumption DEF After, Before
      <3>3. QED
        BY <1>1, <2>1, <3>1, <3>2 DEF Linked, Links
    <2>7. Represents(ins.desc, E \cup {k})
      BY <2>4, <2>5, <2>6, Represented
    <2>8. QED
      BY <2>1, <2>3, <2>7 DEF ins
  <1>4. CASE t # Empty /\ k \in E
    <2>1. down.st = -1 /\ down.new = t
      BY <1>1, <1>4, InsertTree
    <2>2. ins = [st |-> -1, desc |-> [d EXCEPT !.root = t]]
      <3> DEFINE same == IF down.new = Empty THEN t ELSE down.new
                 linked == IF k < a THEN list_insert_left(d, a, k) ELSE list_insert_right(d, a, k)
                 done == [st |-> 0, desc |-> [linked EXCEPT !.root = down.new, !.size = @ + 1]]
                 refused == [st |-> -1, desc |-> [d EXCEPT !.root = same]]
      <3>1. ins = IF t = Empty THEN [st |-> 0, desc |-> [d EXCEPT !.root = Leaf(k), !.size = 1]]
                  ELSE IF down.st = 0 THEN done ELSE refused
        BY DEF qAVLTree__insert, Inserted
      <3>2. same = t
        BY <2>1
      <3> HIDE DEF ins, down, t, done, refused
      <3>3. ins = refused
        BY <1>4, <2>1, <3>1
      <3>4. QED
        BY <3>2, <3>3 DEF refused
    <2> HIDE DEF n, t, prev, next, ins, down
    <2>3. ins.st = -1 /\ ins.desc = PutRoot(d, t)
      BY <2>2 DEF PutRoot
    <2>4. ins.desc = d
      BY <1>1, <2>3, DescPut
    <2>5. QED
      BY <1>4, <2>3, <2>4 DEF ins
  <1>5. CASE t # Empty /\ k \notin E
    <2>1. /\ down.st = 0 /\ a \in E /\ Tree(down.new, E \cup {k})
          /\ IF k < a THEN \A y \in E : y < k \/ a <= y ELSE \A y \in E : y <= a \/ k < y
      <3> HIDE DEF t
      <3> QED BY <1>1, <1>5, InsertTree
    <2>2. a # k /\ a \in Keys /\ a \in Int /\ k \in Int /\ E \subseteq Int
      BY <1>1, <1>5, <2>1, KeysAssumption
    <2> DEFINE linked == IF k < a THEN list_insert_left(d, a, k) ELSE list_insert_right(d, a, k)
    <2>3. ins = [st |-> 0, desc |-> [linked EXCEPT !.root = down.new, !.size = @ + 1]]
      <3> HIDE DEF down
      <3> QED BY <1>5, <2>1 DEF qAVLTree__insert, Inserted, down
    <2>4. /\ ins.st = 0
          /\ ins.desc = PutSize(PutRoot(linked, down.new), PutRoot(linked, down.new).size + 1)
      <3> HIDE DEF linked, down, ins
      <3>1. [linked EXCEPT !.root = down.new].size = linked.size
        OBVIOUS
      <3>2. QED
        BY <2>3, <3>1 DEF PutSize, PutRoot
    <2> HIDE DEF n, t, prev, next, ins, a, down
    <2>5. PICK next2, prev2 : linked = Desc(n, t, prev2, next2) /\ Linked(next2, prev2, E \cup {k})
      <3>1. CASE k < a
        <4>1. PICK next2, prev2 \in Links :
                 /\ list_insert_left(Desc(n, t, prev, next), a, k) = Desc(n, t, prev2, next2)
                 /\ PutBefore(next, prev, a, k, next2, prev2)
          BY <1>1, <2>2, InsertLeftLinks
        <4>2. Linked(next2, prev2, E \cup {k})
          BY <1>1, <1>5, <2>1, <3>1, <4>1, LinkedLeft
        <4>3. QED
          BY <1>1, <3>1, <4>1, <4>2
      <3>2. CASE ~(k < a)
        <4>1. PICK next2, prev2 \in Links :
                 /\ list_insert_right(Desc(n, t, prev, next), a, k) = Desc(n, t, prev2, next2)
                 /\ PutAfter(next, prev, a, k, next2, prev2)
          BY <1>1, <2>2, InsertRightLinks
        <4>2. k > a /\ \A y \in E : y > k \/ a >= y
          BY <2>1, <2>2, <3>2
        <4>3. Linked(next2, prev2, E \cup {k})
          BY <1>1, <1>5, <2>1, <4>1, <4>2, LinkedRight
        <4>4. QED
          BY <1>1, <3>2, <4>1, <4>3
      <3>3. QED
        BY <3>1, <3>2
    <2> HIDE DEF linked
    <2>6. PutRoot(linked, down.new) = Desc(n, down.new, prev2, next2)
      BY <2>5, DescPut
    <2>7. ins.desc = Desc(n + 1, down.new, prev2, next2)
      BY <2>4, <2>6, DescPut, DescFields
    <2>8. Represents(ins.desc, E \cup {k})
      BY <1>2, <1>5, <2>1, <2>5, <2>7, Represented
    <2>9. QED
      BY <1>5, <2>4, <2>8 DEF ins
  <1>6. QED
    BY <1>3, <1>4, <1>5

\* What is erased is no longer there; the node freed is the one of the element or
\* of one of its neighbours.
LEMMA EraseRepresents ==
    ASSUME NEW d, NEW E, Represents(d, E), NEW k \in E
    PROVE  /\ Represents(qAVLTree__erase(d, k), E \ {k})
           /\ qAVLTree__freed(d, k) \in E /\ Neighbours(qAVLTree__freed(d, k), k, E)
  <1> DEFINE n == d.size
             t == d.root
             prev == d.prev
             next == d.next
             del == qAVLTree__recursive_delete(t, k)
             m == del.key
             removed == list_remove(d, m)
             named == IF m = k THEN removed ELSE Renamed(removed, k, m)
  <1>1. /\ d = Desc(n, t, prev, next) /\ Tree(t, E) /\ Linked(next, prev, E)
        /\ n = Cardinality(E) /\ E \in SUBSET Keys /\ prev \in Links /\ next \in Links
        /\ E \subseteq Int /\ Nil \notin E
    BY KeysAssumption DEF Represents, Tree, Linked, Links
  <1>2. Cardinality(E \ {k}) = n - 1
    <2>1. IsFiniteSet(E)
      BY <1>1, HeightBound
    <2>2. QED
      BY <1>1, <2>1, FS_RemoveElement
  <1>3. Tree(del.new, E \ {k}) /\ m \in E /\ Neighbours(m, k, E)
    BY <1>1, DeleteTree
  <1>4. m = qAVLTree__freed(d, k)
    BY DEF qAVLTree__freed
  <1>5. qAVLTree__erase(d, k) = [named EXCEPT !.root = del.new, !.size = @ - 1]
    BY DEF qAVLTree__erase, Deleted
  <1>6. qAVLTree__erase(d, k) = PutSize(PutRoot(named, del.new), PutRoot(named, del.new).size - 1)
    <2> HIDE DEF named, del
    <2> QED BY <1>5 DEF PutSize, PutRoot
  <1> HIDE DEF n, t, prev, next, del, m
  <1>7. prev[m] # m /\ next[m] # m
    <2>1. After(next[m], m, E) /\ Before(prev[m], m, E) /\ m \in Int /\ m # Nil
      BY <1>1, <1>3 DEF Linked
    <2>2. QED
      BY <2>1 DEF After, Before
  <1>8. PICK next1, prev1 \in Links :
          /\ list_remove(Desc(n, t, prev, next), m) = Desc(n, t, prev1, next1)
          /\ TakenOut(next, prev, m, next1, prev1)
    BY <1>1, <1>3, <1>7, RemoveLinks
  <1>9. removed = Desc(n, t, prev1, next1) /\ Linked(next1, prev1, E \ {m})
    <2>1. Linked(next1, prev1, E \ {m})
      BY <1>1, <1>3, <1>8, LinkedWithout
    <2>2. QED
      BY <1>1, <1>8, <2>1
  <1> HIDE DEF removed
  <1>10. PICK next2, prev2 : named = Desc(n, t, prev2, next2) /\ Linked(next2, prev2, E \ {k})
    <2>1. CASE m = k
      BY <1>9, <2>1
    <2>2. CASE m # k
      <3>1. PICK next2, prev2 \in Links :
              /\ Renamed(Desc(n, t, prev1, next1), k, m) = Desc(n, t, prev2, next2)
              /\ HandedOn(next1, prev1, k, m, next2, prev2)
        BY <1>1, <1>3, RenameLinks
      <3> DEFINE F == E \ {m}
      <3>2. F \in SUBSET Keys /\ k \in F /\ m \in Keys \ F
        BY <1>1, <1>3, <2>2
      <3>3. ASSUME NEW y \in F, y # k PROVE y < k <=> y < m
        <4>1. /\ y \in Int /\ k \in Int /\ m \in Int /\ y # m /\ m # k
              /\ ~(m < y /\ y < k) /\ ~(k < y /\ y < m)
          BY <1>1, <1>3, <2>2 DEF Neighbours
        <4>2. QED
          BY <3>3, <4>1
      <3>4. (F \ {k}) \cup {m} = E \ {k}
        BY <1>3, <2>2
      <3> HIDE DEF F
      <3>5. Linked(next2, prev2, (F \ {k}) \cup {m})
        BY <1>9, <3>1, <3>2, <3>3, LinkedRenamed DEF F
      <3>6. QED
        BY <1>9, <2>2, <3>1, <3>4, <3>5
    <2>3. QED
      BY <2>1, <2>2
  <1> HIDE DEF named
  <1>11. PutRoot(named, del.new) = Desc(n, del.new, prev2, next2)
    BY <1>10, DescPut
  <1>12. qAVLTree__erase(d, k) = Desc(n - 1, del.new, prev2, next2)
    BY <1>6, <1>11, DescPut, DescFields
  <1>13. Represents(qAVLTree__erase(d, k), E \ {k})
    BY <1>2, <1>3, <1>10, <1>12, Represented
  <1>14. QED
    BY <1>3, <1>4, <1>13
-----------------------------------------------------------------------------
(***************************************************************************)
(* Heights.                                                                *)
(***************************************************************************)
\* The subtrees of t, level by level.
LEMMA LevelSteps ==
    ASSUME NEW t
    PROVE  /\ Level(t)[0] = {t} \ {Empty}
           /\ \A i \in 0..(Deepest - 1) :
                 Level(t)[i + 1] = (UNION {{s.l, s.r} : s \in Level(t)[i]}) \ {Empty}
  <1> DEFINE Visit(f, i) == IF i = 0 THEN {t} \ {Empty}
                            ELSE (UNION {{s.l, s.r} : s \in f[i - 1]}) \ {Empty}
             Fits(f, n) == f = [i \in 0..n |-> Visit(f, i)]
             w == CHOOSE f : Fits(f, Deepest)
  <1>1. Deepest \in Nat
    BY KeysAssumption, FS_CardinalityType DEF Deepest
  <1>2. ASSUME NEW n \in Nat PROVE \E f : Fits(f, n)
    <2> DEFINE T == {m \in Nat : ~\E f : Fits(f, m)}
    <2>1. SUFFICES ASSUME T # {} PROVE FALSE
      OBVIOUS
    <2>2. T \in SUBSET Nat
      OBVIOUS
    <2>3. PICK x \in T : \A y \in T : x <= y
      <3> HIDE DEF T
      <3> QED BY <2>1, <2>2, Least
    <2>4. CASE x = 0
      <3> DEFINE f == [i \in 0..0 |-> {t} \ {Empty}]
      <3>1. \A i \in 0..0 : Visit(f, i) = {t} \ {Empty}
        OBVIOUS
      <3>2. Fits(f, 0)
        BY <3>1
      <3>3. QED
        BY <2>3, <2>4, <3>2
    <2>5. CASE x # 0
      <3>1. x - 1 \in Nat /\ x - 1 \notin T
        <4> HIDE DEF T
        <4>1. x \in Nat
          BY <2>2
        <4>2. QED
          BY <2>3, <2>5, <4>1
      <3>2. PICK f : Fits(f, x - 1)
        BY <3>1
      <3> DEFINE g == [i \in 0..x |-> IF i = x THEN Visit(f, x) ELSE f[i]]
      <3>3. \A i \in 0..(x - 1) : f[i] = Visit(f, i)
        BY <3>2
      <3>4. ASSUME NEW i \in 0..x PROVE Visit(g, i) = g[i]
        <4>1. CASE i = 0
          <5>1. 0 \in 0..(x - 1) /\ i # x
            BY <2>5, <3>1, <4>1
          <5>2. QED
            BY <3>3, <4>1, <5>1
        <4>2. CASE i # 0
          <5>1. i - 1 \in 0..x /\ i - 1 # x
            BY <4>2
          <5>2. g[i - 1] = f[i - 1]
            BY <5>1
          <5>3. Visit(g, i) = Visit(f, i)
            BY <5>2
          <5>4. i # x => i \in 0..(x - 1)
            BY <3>1
          <5>5. g[i] = IF i = x THEN Visit(f, x) ELSE f[i]
            OBVIOUS
          <5> HIDE DEF Visit, g
          <5>6. QED
            BY <3>3, <5>3, <5>4, <5>5
        <4>3. QED
          BY <4>1, <4>2
      <3>5. g = [i \in 0..x |-> g[i]]
        OBVIOUS
      <3> HIDE DEF g
      <3>6. Fits(g, x)
        BY <3>4, <3>5
      <3>7. QED
        BY <2>3, <3>6
    <2>6. QED
      BY <2>4, <2>5
  <1>3. Fits(w, Deepest)
    BY <1>1, <1>2
  <1>4. Level(t) = w
    BY DEF Level
  <1> HIDE DEF w
  <1>5. \A i \in 0..Deepest : w[i] = Visit(w, i)
    BY <1>3
  <1>6. w[0] = {t} \ {Empty}
    <2>1. Visit(w, 0) = {t} \ {Empty}
      OBVIOUS
    <2> HIDE DEF Visit
    <2>2. QED
      BY <1>1, <1>5, <2>1
  <1>7. ASSUME NEW i \in 0..(Deepest - 1)
        PROVE  w[i + 1] = (UNION {{s.l, s.r} : s \in w[i]}) \ {Empty}
    <2>1. i + 1 \in 0..Deepest /\ i + 1 # 0 /\ (i + 1) - 1 = i
      BY <1>1
    <2>2. w[i + 1] = Visit(w, i + 1)
      BY <1>5, <2>1
    <2>3. QED
      BY <2>1, <2>2
  <1>8. QED
    BY <1>4, <1>6, <1>7

\* The subtrees at depth i are search trees, no higher than the way down leaves.
LEMMA LevelTrees ==
    ASSUME NEW t, NEW D, Tree(t, D)
    PROVE  \A i \in 0..Deepest : \A s \in Level(t)[i] :
              s # Empty /\ (\E E : Tree(s, E)) /\ getHeight(s) + i <= getHeight(t)
  <1> DEFINE h == getHeight(t)
             lev == Level(t)
             Fine(i) == \A s \in lev[i] : s # Empty /\ (\E E : Tree(s, E)) /\ getHeight(s) + i <= h
             T == {i \in 0..Deepest : ~Fine(i)}
  <1>1. Deepest \in Nat /\ h \in Nat
    BY KeysAssumption, FS_CardinalityType, HeightNat DEF Deepest
  <1>2. lev[0] = {t} \ {Empty}
    BY LevelSteps
  <1>3. \A i \in 0..(Deepest - 1) : lev[i + 1] = (UNION {{s.l, s.r} : s \in lev[i]}) \ {Empty}
    BY LevelSteps
  <1> HIDE DEF lev, h
  <1>4. SUFFICES ASSUME T # {} PROVE FALSE
    BY DEF lev, h
  <1>5. T \in SUBSET Nat
    OBVIOUS
  <1>6. PICK x \in T : \A y \in T : x <= y
    <2> HIDE DEF T
    <2> QED BY <1>4, <1>5, Least
  <1>7. x \in 0..Deepest /\ ~Fine(x)
    OBVIOUS
  <1>8. Fine(0)
    BY <1>1, <1>2 DEF h
  <1>9. x # 0
    BY <1>7, <1>8
  <1> DEFINE z == x - 1
  <1>10. z \in 0..Deepest /\ z \in 0..(Deepest - 1) /\ z + 1 = x /\ z < x
    BY <1>1, <1>7, <1>9
  <1>11. Fine(z)
    <2>1. z \in Nat /\ x \in Nat
      BY <1>10
    <2>2. z \notin T
      <3> HIDE DEF T, z
      <3> QED BY <1>6, <1>10, <2>1
    <2>3. QED
      BY <1>10, <2>2
  <1>12. PICK s \in lev[x] : ~(s # Empty /\ (\E E : Tree(s, E)) /\ getHeight(s) + x <= h)
    BY <1>7
  <1> HIDE DEF z
  <1>13. PICK q \in lev[z] : (s = q.l \/ s = q.r) /\ s # Empty
    BY <1>3, <1>10, <1>12
  <1>14. q # Empty /\ (\E E : Tree(q, E)) /\ getHeight(q) + z <= h
    BY <1>11
  <1>15. PICK E : Tree(q, E)
    BY <1>14
  <1>16. /\ Tree(q.l, Under(E, q.key)) /\ Tree(q.r, Over(E, q.key))
         /\ getHeight(q) \in Nat /\ getHeight(q.l) \in Nat /\ getHeight(q.r) \in Nat
         /\ getHeight(q.l) < getHeight(q) /\ getHeight(q.r) < getHeight(q)
    BY <1>14, <1>15, Split, HeightNat
  <1>17. (\E F : Tree(s, F)) /\ getHeight(s) \in Nat /\ getHeight(s) < getHeight(q)
    BY <1>13, <1>16
  <1>18. getHeight(s) + x <= h
    <2>1. z \in Nat /\ x = z + 1
      BY <1>10
    <2>2. QED
      BY <1>1, <1>14, <1>16, <1>17, <2>1
  <1>19. QED
    BY <1>12, <1>13, <1>17, <1>18

\* Some way down is as long as the height says.
LEMMA LevelDepth ==
    ASSUME NEW t, NEW D, Tree(t, D)
    PROVE  \A i \in 0..(getHeight(t) - 1) : \E s \in Level(t)[i] : getHeight(s) + i = getHeight(t)
  <1> DEFINE h == getHeight(t)
             lev == Level(t)
             Deep(i) == \E s \in lev[i] : getHeight(s) + i = h
             T == {i \in 0..(h - 1) : ~Deep(i)}
  <1>1. Deepest \in Nat /\ h \in Nat /\ h <= Deepest /\ (h = 0 <=> t = Empty)
    BY HeightNat, HeightBound, KeysAssumption, FS_CardinalityType DEF Deepest
  <1>2. lev[0] = {t} \ {Empty}
    BY LevelSteps
  <1>3. \A i \in 0..(Deepest - 1) : lev[i + 1] = (UNION {{s.l, s.r} : s \in lev[i]}) \ {Empty}
    BY LevelSteps
  <1>4. \A i \in 0..Deepest : \A s \in lev[i] :
           s # Empty /\ (\E E : Tree(s, E)) /\ getHeight(s) + i <= h
    BY LevelTrees
  <1>5. 0 + h = h /\ getHeight(t) + 0 = h
    BY <1>1
  <1> HIDE DEF lev, h
  <1>6. SUFFICES ASSUME T # {} PROVE FALSE
    BY DEF lev, h
  <1>7. T \in SUBSET Nat
    OBVIOUS
  <1>8. PICK x \in T : \A y \in T : x <= y
    <2> HIDE DEF T
    <2> QED BY <1>6, <1>7, Least
  <1>9. x \in 0..(h - 1) /\ ~Deep(x)
    OBVIOUS
  <1>10. x # 0
    <2>1. SUFFICES ASSUME x = 0 PROVE Deep(0)
      BY <1>9
    <2>2. t # Empty
      BY <1>1, <1>9, <2>1
    <2>3. QED
      BY <1>2, <1>5, <2>2
  <1> DEFINE z == x - 1
  <1>11. /\ z \in Nat /\ z \in 0..(h - 1) /\ z \in 0..(Deepest - 1) /\ z \in 0..Deepest
         /\ z + 1 = x /\ x < h
    BY <1>1, <1>9, <1>10
  <1>12. Deep(z)
    <2>1. z \notin T
      <3>1. x \in Nat
        BY <1>9
      <3> HIDE DEF T, z
      <3> QED BY <1>8, <1>11, <3>1
    <2>2. QED
      BY <1>11, <2>1
  <1> HIDE DEF z
  <1>13. PICK q \in lev[z] : getHeight(q) + z = h
    BY <1>12
  <1>14. PICK E : Tree(q, E)
    BY <1>4, <1>11
  <1>15. q # Empty
    BY <1>4, <1>11
  <1>16. /\ getHeight(q) = Taller(getHeight(q.l), getHeight(q.r)) + 1
         /\ getHeight(q) \in Nat /\ getHeight(q.l) \in Nat /\ getHeight(q.r) \in Nat
    BY <1>14, <1>15, HeightNat
  <1>17. getHeight(Empty) = 0
    BY DEF getHeight
  <1>18. PICK s \in {q.l, q.r} : getHeight(s) + 1 = getHeight(q)
    BY <1>16 DEF Taller
  <1>19. getHeight(s) + x = h /\ s # Empty
    <2>1. getHeight(s) \in Nat
      BY <1>16
    <2>2. getHeight(s) + x = h
      BY <1>1, <1>11, <1>13, <1>16, <1>18, <2>1
    <2>3. getHeight(s) # 0
      BY <1>1, <1>11, <2>1, <2>2
    <2>4. QED
      BY <1>17, <2>2, <2>3
  <1>20. s \in lev[x]
    BY <1>3, <1>11, <1>19
  <1>21. QED
    BY <1>9, <1>19, <1>20

\* The stored height is the true one, in every subtree.
LEMMA TrueHeights ==
    ASSUME NEW t, NEW D, Tree(t, D)
    PROVE  TrueHeight(t) = getHeight(t) /\ \A s \in Subtrees(t) : s.h = TrueHeight(s)
  <1>1. ASSUME NEW s, NEW E, Tree(s, E) PROVE TrueHeight(s) = getHeight(s)
    <2> DEFINE h == getHeight(s)
               lev == Level(s)
               Ends(i) == lev[i] = {} /\ \A j \in 0..(i - 1) : lev[j] # {}
    <2>1. Deepest \in Nat /\ h \in Nat /\ h <= Deepest
      BY <1>1, HeightNat, HeightBound, KeysAssumption, FS_CardinalityType DEF Deepest
    <2>2. \A i \in 0..Deepest : \A q \in lev[i] :
             q # Empty /\ (\E F : Tree(q, F)) /\ getHeight(q) + i <= h
      BY <1>1, LevelTrees
    <2>3. \A i \in 0..(h - 1) : lev[i] # {}
      BY <1>1, LevelDepth
    <2>4. lev[h] = {}
      <3>1. SUFFICES ASSUME NEW q \in lev[h] PROVE FALSE
        OBVIOUS
      <3>2. h \in 0..Deepest
        BY <2>1
      <3>3. q # Empty /\ (\E F : Tree(q, F)) /\ getHeight(q) + h <= h
        BY <2>2, <3>2
      <3>4. getHeight(q) \in Nat /\ getHeight(q) # 0
        BY <3>3, HeightNat
      <3> HIDE DEF h
      <3>5. QED
        BY <2>1, <3>3, <3>4
    <2>5. TrueHeight(s) = CHOOSE i \in 0..Deepest : Ends(i)
      BY DEF TrueHeight
    <2> HIDE DEF h, lev
    <2>6. h \in 0..Deepest /\ Ends(h)
      BY <2>1, <2>3, <2>4
    <2>7. ASSUME NEW i \in 0..Deepest, Ends(i) PROVE i = h
      <3>1. CASE i < h
        BY <2>1, <2>3, <2>7, <3>1
      <3>2. CASE h < i
        BY <2>1, <2>4, <2>7, <3>2
      <3>3. QED
        BY <2>1, <3>1, <3>2
    <2> HIDE DEF Ends
    <2>8. QED
      BY <2>5, <2>6, <2>7 DEF h
  <1>2. TrueHeight(t) = getHeight(t)
    BY <1>1
  <1>3. ASSUME NEW s \in Subtrees(t) PROVE s.h = TrueHeight(s)
    <2>1. PICK i \in 0..TrueHeight(t) : s \in Level(t)[i]
      BY DEF Subtrees
    <2>2. i \in 0..Deepest
      <3>1. /\ TrueHeight(t) \in Nat /\ Cardinality(D) \in Nat /\ Deepest \in Nat
            /\ TrueHeight(t) <= Cardinality(D) /\ Cardinality(D) <= Deepest
        BY <1>2, HeightNat, HeightBound, KeysAssumption, FS_CardinalityType DEF Deepest
      <3>2. QED
        BY <3>1
    <2>3. s # Empty /\ \E E : Tree(s, E)
      BY <2>1, <2>2, LevelTrees
    <2>4. QED
      BY <1>1, <2>3 DEF getHeight
  <1>4. QED
    BY <1>2, <1>3
-----------------------------------------------------------------------------
(***************************************************************************)
(* Iteration.                                                              *)
(***************************************************************************)
LEMMA Begins ==
    ASSUME NEW d, NEW E, Tree(d.root, E)
    PROVE  IF E = {} THEN qAVLTree_begin(d) = Nil
           ELSE qAVLTree_begin(d) \in E /\ \A y \in E : qAVLTree_begin(d) <= y
  <1> DEFINE t == d.root
             turn == Always("l")
             w == Walk(t, turn, Nil)
  <1>1. CASE t = Empty
    BY <1>1, EmptyHasNone DEF qAVLTree_begin
  <1>2. CASE t # Empty
    <2>1. turn \in [Keys -> {"l", "r"}] /\ E # {}
      BY <1>2, Turns, Split
    <2>2. PICK n : Goes(w, n, t, turn, Nil)
      BY <1>2, <2>1, WalkEnds
    <2>3. LastNode(w) = w[n - 1]
      BY <2>2 DEF LastNode, Goes
    <2>4. w[n - 1].key \in E /\ \A y \in E : w[n - 1].key <= y
      <3> HIDE DEF w, t
      <3> QED BY <2>2, WalkLeft DEF t
    <2>5. qAVLTree_begin(d) = w[n - 1].key
      BY <1>2, <2>3 DEF qAVLTree_begin
    <2> HIDE DEF w
    <2>6. QED
      BY <2>1, <2>4, <2>5
  <1>3. QED
    BY <1>1, <1>2

\* qAVLTree_end is the greatest element.
LEMMA Ends ==
    ASSUME NEW d, NEW E, Tree(d.root, E)
    PROVE  IF E = {} THEN qAVLTree_end(d) = Nil
           ELSE qAVLTree_end(d) \in E /\ \A y \in E : y <= qAVLTree_end(d)
  <1> DEFINE t == d.root
             turn == Always("r")
             w == Walk(t, turn, Nil)
  <1>1. CASE t = Empty
    BY <1>1, EmptyHasNone DEF qAVLTree_end
  <1>2. CASE t # Empty
    <2>1. turn \in [Keys -> {"l", "r"}] /\ E # {}
      BY <1>2, Turns, Split
    <2>2. PICK n : Goes(w, n, t, turn, Nil)
      BY <1>2, <2>1, WalkEnds
    <2>3. LastNode(w) = w[n - 1]
      BY <2>2 DEF LastNode, Goes
    <2>4. w[n - 1].key \in E /\ \A y \in E : y <= w[n - 1].key
      <3> HIDE DEF w, t
      <3> QED BY <2>2, WalkRight DEF t
    <2>5. qAVLTree_end(d) = w[n - 1].key
      BY <1>2, <2>3 DEF qAVLTree_end
    <2> HIDE DEF w
    <2>6. QED
      BY <2>1, <2>4, <2>5
  <1>3. QED
    BY <1>1, <1>2

\* Order in an increasing list is order of places.
LEMMA IncreasingOrder ==
    ASSUME NEW E \in SUBSET Int, NEW len \in Nat, NEW ns, Increasing(ns, len, E),
           NEW i \in 1..len, NEW j \in 1..len
    PROVE  /\ ns[i] \in E /\ ns[i] \in Int /\ ns[j] \in Int
           /\ ns[i] < ns[j] <=> i < j
           /\ ns[i] <= ns[j] <=> i <= j
           /\ ns[i] = ns[j] <=> i = j
  <1>1. ns[i] \in E /\ ns[i] \in Int /\ ns[j] \in Int
    BY DEF Increasing
  <1>2. (i < j => ns[i] < ns[j]) /\ (j < i => ns[j] < ns[i]) /\ (i = j => ns[i] = ns[j])
    BY DEF Increasing
  <1>3. i < j \/ j < i \/ i = j
    OBVIOUS
  <1> DEFINE u == ns[i]
             v == ns[j]
  <1> HIDE DEF u, v
  <1>4. /\ u \in Int /\ v \in Int
        /\ (i < j => u < v) /\ (j < i => v < u) /\ (i = j => u = v)
    BY <1>1, <1>2 DEF u, v
  <1>5. (u < v <=> i < j) /\ (u <= v <=> i <= j) /\ (u = v <=> i = j)
    BY <1>3, <1>4
  <1>6. QED
    BY <1>1, <1>5 DEF u, v

\* The links lead from each element of the list to the one after and before it.
LEMMA ChainLinks ==
    ASSUME NEW E \in SUBSET Keys, NEW next, NEW prev, Linked(next, prev, E),
           NEW len \in Nat, NEW ns, Increasing(ns, len, E), NEW i \in 1..len
    PROVE  /\ next[ns[i]] = IF i = len THEN Nil ELSE ns[i + 1]
           /\ prev[ns[i]] = IF i = 1 THEN Nil ELSE ns[i - 1]
  <1>1. E \in SUBSET Int /\ Nil \notin E
    BY KeysAssumption
  <1> DEFINE x == ns[i]
             s == next[x]
             p == prev[x]
  <1>2. x \in E /\ x \in Int
    BY <1>1, IncreasingOrder
  <1>3. After(s, x, E) /\ Before(p, x, E)
    BY <1>2 DEF Linked
  <1>4. \A y \in E : \E j \in 1..len : ns[j] = y
    BY DEF Increasing
  <1>5. \A j \in 1..len : /\ ns[j] \in E /\ ns[j] \in Int
                          /\ (ns[j] <= x <=> j <= i) /\ (x <= ns[j] <=> i <= j)
                          /\ (x < ns[j] <=> i < j) /\ (ns[j] < x <=> j < i)
    BY <1>1, IncreasingOrder
  <1>6. s = IF i = len THEN Nil ELSE ns[i + 1]
    <2>1. CASE i = len
      <3>1. SUFFICES ASSUME s # Nil PROVE FALSE
        BY <2>1
      <3>2. s \in E /\ x < s
        BY <1>3, <3>1 DEF After
      <3>3. PICK j \in 1..len : ns[j] = s
        BY <1>4, <3>2
      <3>4. i < j
        BY <1>5, <3>2, <3>3
      <3>5. QED
        BY <2>1, <3>4
    <2>2. CASE i # len
      <3>1. i + 1 \in 1..len
        BY <2>2
      <3> DEFINE y == ns[i + 1]
      <3>2. y \in E /\ x < y /\ ~(y <= x)
        BY <1>5, <3>1
      <3> HIDE DEF s, x, y
      <3>3. s # Nil
        BY <1>3, <3>2 DEF After
      <3>4. s \in E /\ x < s /\ (y <= x \/ s <= y)
        BY <1>3, <3>2, <3>3 DEF After
      <3>5. PICK j \in 1..len : ns[j] = s
        BY <1>4, <3>4
      <3>6. i < j
        BY <1>5, <3>4, <3>5 DEF x
      <3>7. ns[j] <= ns[i + 1] <=> j <= i + 1
        BY <1>1, <3>1, IncreasingOrder
      <3>8. j <= i + 1
        BY <3>2, <3>4, <3>5, <3>7 DEF y
      <3>9. j = i + 1
        BY <3>6, <3>8
      <3>10. QED
        BY <2>2, <3>5, <3>9
    <2>3. QED
      BY <2>1, <2>2
  <1>7. p = IF i = 1 THEN Nil ELSE ns[i - 1]
    <2>1. CASE i = 1
      <3>1. SUFFICES ASSUME p # Nil PROVE FALSE
        BY <2>1
      <3>2. p \in E /\ p < x
        BY <1>3, <3>1 DEF Before
      <3>3. PICK j \in 1..len : ns[j] = p
        BY <1>4, <3>2
      <3>4. j < i
        BY <1>5, <3>2, <3>3
      <3>5. QED
        BY <2>1, <3>4
    <2>2. CASE i # 1
      <3>1. i - 1 \in 1..len
        BY <2>2
      <3> DEFINE y == ns[i - 1]
      <3>2. y \in E /\ y < x /\ ~(x <= y)
        BY <1>5, <3>1
      <3> HIDE DEF p, x, y
      <3>3. p # Nil
        BY <1>3, <3>2 DEF Before
      <3>4. p \in E /\ p < x /\ (y <= p \/ x <= y)
        BY <1>3, <3>2, <3>3 DEF Before
      <3>5. PICK j \in 1..len : ns[j] = p
        BY <1>4, <3>4
      <3>6. j < i
        BY <1>5, <3>4, <3>5 DEF x
      <3>7. ns[i - 1] <= ns[j] <=> i - 1 <= j
        <4>1. \A q \in 1..len : ns[q] <= ns[j] <=> q <= j
          BY <1>1, IncreasingOrder
        <4>2. QED
          BY <3>1, <4>1
      <3>8. i - 1 <= j
        BY <3>2, <3>4, <3>5, <3>7 DEF y
      <3>9. j = i - 1
        BY <3>6, <3>8
      <3>10. QED
        BY <2>2, <3>5, <3>9
    <2>3. QED
      BY <2>1, <2>2
  <1>8. QED
    BY <1>6, <1>7
\* The loops over a descriptor that holds E visit E from the least element to the
\* greatest, and back.
LEMMA Iterates ==
    ASSUME NEW d, NEW E, Represents(d, E)
    PROVE  \E ns : /\ Increasing(ns, Cardinality(E), E)
                   /\ Iterated(d) = ns /\ ns \in Seq(E) /\ Len(ns) = Cardinality(E)
                   /\ Follow(d.prev, qAVLTree_end(d), Cardinality(Keys) + 1) = Reverse(ns)
  <1> DEFINE len == Cardinality(E)
             fuel == Cardinality(Keys) + 1
             next == d.next
             prev == d.prev
             first == qAVLTree_begin(d)
             last == qAVLTree_end(d)
  <1>1. /\ Tree(d.root, E) /\ Linked(next, prev, E) /\ E \in SUBSET Keys
        /\ E \in SUBSET Int /\ Nil \notin E
    BY KeysAssumption DEF Represents, Tree
  <1>2. len \in Nat /\ fuel \in Nat /\ len < fuel /\ IsFiniteSet(E)
    <2>1. IsFiniteSet(E) /\ len \in Nat /\ len <= Deepest
      BY <1>1, HeightBound
    <2>2. Deepest \in Nat /\ fuel = Deepest + 1
      BY KeysAssumption, FS_CardinalityType DEF Deepest
    <2> HIDE DEF fuel, len
    <2>3. QED
      BY <2>1, <2>2
  <1>3. PICK ns : Increasing(ns, len, E)
    BY <1>1, <1>2, Enumerated
  <1>4. E = {} <=> len = 0
    BY <1>2, FS_EmptySet
  <1>5. /\ IF E = {} THEN first = Nil ELSE first \in E /\ \A y \in E : first <= y
        /\ IF E = {} THEN last = Nil ELSE last \in E /\ \A y \in E : y <= last
    BY <1>1, Begins, Ends
  <1> HIDE DEF len, fuel, next, prev, first, last
  <1>6. ns \in [1..len -> E]
    BY <1>3 DEF Increasing
  <1>7. first = IF len = 0 THEN Nil ELSE ns[1]
    <2>1. CASE len = 0
      BY <1>4, <1>5, <2>1
    <2>2. CASE len # 0
      <3>1. 1 \in 1..len
        BY <1>2, <2>2
      <3>2. PICK j \in 1..len : ns[j] = first
        BY <1>3, <1>4, <1>5, <2>2 DEF Increasing
      <3>3. ns[j] <= ns[1]
        BY <1>4, <1>5, <1>6, <2>2, <3>1, <3>2
      <3>4. ns[j] <= ns[1] <=> j <= 1
        BY <1>1, <1>2, <1>3, <3>1, IncreasingOrder
      <3>5. QED
        BY <2>2, <3>2, <3>3, <3>4
    <2>3. QED
      BY <2>1, <2>2
  <1>8. last = IF len = 0 THEN Nil ELSE ns[len]
    <2>1. CASE len = 0
      BY <1>4, <1>5, <2>1
    <2>2. CASE len # 0
      <3>1. len \in 1..len
        BY <1>2, <2>2
      <3>2. PICK j \in 1..len : ns[j] = last
        BY <1>3, <1>4, <1>5, <2>2 DEF Increasing
      <3>3. ns[len] <= ns[j]
        BY <1>4, <1>5, <1>6, <2>2, <3>1, <3>2
      <3>4. ns[len] <= ns[j] <=> len <= j
        BY <1>1, <1>2, <1>3, <3>1, IncreasingOrder
      <3>5. j = len
        BY <1>2, <3>3, <3>4
      <3>6. QED
        BY <2>2, <3>2, <3>5
    <2>3. QED
      BY <2>1, <2>2
  <1>9. \A i \in 1..len : /\ next[ns[i]] = IF i = len THEN Nil ELSE ns[i + 1]
                          /\ prev[ns[i]] = IF i = 1 THEN Nil ELSE ns[i - 1]
    BY <1>1, <1>2, <1>3, ChainLinks
  <1>10. Follow(next, first, fuel) = ns
    BY <1>1, <1>2, <1>6, <1>7, <1>9, FollowsChain
  <1> DEFINE ms == [i \in 1..len |-> ns[(len - i) + 1]]
  <1>11. \A i \in 1..len : (len - i) + 1 \in 1..len /\ ms[i] = ns[(len - i) + 1]
    BY <1>2
  <1>12. ms \in [1..len -> E]
    BY <1>6, <1>11
  <1>13. last = IF len = 0 THEN Nil ELSE ms[1]
    <2>1. len # 0 => ms[1] = ns[len]
      <3>1. len # 0 => 1 \in 1..len /\ (len - 1) + 1 = len
        BY <1>2
      <3>2. QED
        BY <3>1
    <2>2. QED
      BY <1>8, <2>1
  <1>14. ASSUME NEW i \in 1..len PROVE prev[ms[i]] = IF i = len THEN Nil ELSE ms[i + 1]
    <2> DEFINE j == (len - i) + 1
    <2>1. j \in 1..len /\ ms[i] = ns[j] /\ (j = 1 <=> i = len)
      BY <1>2, <1>11
    <2>2. prev[ms[i]] = IF j = 1 THEN Nil ELSE ns[j - 1]
      <3> HIDE DEF j, ms
      <3> QED BY <1>9, <2>1
    <2>3. i # len => ms[i + 1] = ns[j - 1]
      <3>1. i # len => i + 1 \in 1..len /\ (len - (i + 1)) + 1 = j - 1
        BY <1>2
      <3>2. QED
        BY <3>1
    <2> HIDE DEF j, ms
    <2>4. QED
      BY <2>1, <2>2, <2>3
  <1>15. Follow(prev, last, fuel) = ms
    <2> HIDE DEF ms
    <2> QED BY <1>1, <1>2, <1>12, <1>13, <1>14, FollowsChain
  <1>16. ns \in Seq(E) /\ Len(ns) = len
    <2>1. ns \in Seq(E)
      BY <1>2, <1>6
    <2>2. QED
      BY <1>2, <1>6, <2>1
  <1>17. Reverse(ns) = ms
    BY <1>16 DEF Reverse
  <1> HIDE DEF ms
  <1>18. Iterated(d) = ns
    BY <1>10 DEF Iterated, next, first, fuel
  <1>19. QED
    BY <1>3, <1>15, <1>16, <1>17, <1>18 DEF len, fuel, prev, last

\* Iterating lists the elements in order, and backwards the other way round.
LEMMA IteratesLists ==
    ASSUME NEW d, NEW E, Represents(d, E)
    PROVE  /\ Lists(Iterated(d), E)
           /\ Reverse(Iterated(d)) = Follow(d.prev, qAVLTree_end(d), Cardinality(Keys) + 1)
           /\ Iterated(d) \in Seq(E)
           /\ DOMAIN Iterated(d) = 1..Len(Iterated(d))
           /\ \A x \in E : \E i \in DOMAIN Iterated(d) : Iterated(d)[i] = x
  <1> DEFINE len == Cardinality(E)
  <1>1. PICK ns : /\ Increasing(ns, len, E)
                  /\ Iterated(d) = ns /\ ns \in Seq(E) /\ Len(ns) = len
                  /\ Follow(d.prev, qAVLTree_end(d), Cardinality(Keys) + 1) = Reverse(ns)
    BY Iterates
  <1>2. len \in Nat
    BY HeightBound DEF Represents
  <1> HIDE DEF len
  <1>3. /\ DOMAIN ns = 1..len /\ ns \in [1..len -> E]
        /\ \A x \in E : \E i \in DOMAIN ns : ns[i] = x
    BY <1>1 DEF Increasing
  <1>4. ToSet(ns) = E
    BY <1>3 DEF ToSet
  <1>5. ASSUME NEW i \in 1..(len - 1) PROVE ns[i] < ns[i + 1]
    <2>1. i \in 1..len /\ i + 1 \in 1..len /\ i < i + 1
      BY <1>2
    <2>2. QED
      BY <1>1, <2>1 DEF Increasing
  <1>6. Lists(ns, E)
    BY <1>1, <1>4, <1>5 DEF Lists
  <1>7. QED
    BY <1>1, <1>3, <1>6
-----------------------------------------------------------------------------
(***************************************************************************)
(* The operations on two sets.                                             *)
(***************************************************************************)
\* A loop of insertions, step by step.
Step(e, ks, keep, i) == IF keep[ks[i]] THEN qAVLTree__insert(e, ks[i], TRUE).desc ELSE e

\* A loop of insertions, one step after the other.
LEMMA InsertAllSteps ==
    ASSUME NEW d, NEW ks, NEW keep, NEW len \in Nat, Len(ks) = len
    PROVE  \E w : /\ InsertAll(d, ks, keep) = w[len] /\ w[0] = d
                  /\ \A i \in 0..len : i # 0 => w[i] = Step(w[i - 1], ks, keep, i)
  <1> DEFINE Visit(f, i) == IF i = 0 THEN d ELSE Step(f[i - 1], ks, keep, i)
             Fits(f, n) == f = [i \in 0..n |-> Visit(f, i)]
             w == CHOOSE f : Fits(f, len)
  <1>1. ASSUME NEW n \in Nat PROVE \E f : Fits(f, n)
    <2> DEFINE T == {m \in Nat : ~\E f : Fits(f, m)}
    <2>1. SUFFICES ASSUME T # {} PROVE FALSE
      OBVIOUS
    <2>2. T \in SUBSET Nat
      OBVIOUS
    <2>3. PICK x \in T : \A y \in T : x <= y
      <3> HIDE DEF T
      <3> QED BY <2>1, <2>2, Least
    <2>4. CASE x = 0
      <3> DEFINE f == [i \in 0..0 |-> d]
      <3>1. \A i \in 0..0 : Visit(f, i) = d
        OBVIOUS
      <3>2. Fits(f, 0)
        BY <3>1
      <3>3. QED
        BY <2>3, <2>4, <3>2
    <2>5. CASE x # 0
      <3>1. x - 1 \in Nat /\ x - 1 \notin T
        <4> HIDE DEF T
        <4>1. x \in Nat
          BY <2>2
        <4>2. QED
          BY <2>3, <2>5, <4>1
      <3>2. PICK f : Fits(f, x - 1)
        BY <3>1
      <3> DEFINE g == [i \in 0..x |-> IF i = x THEN Visit(f, x) ELSE f[i]]
      <3>3. \A i \in 0..(x - 1) : f[i] = Visit(f, i)
        BY <3>2
      <3>4. ASSUME NEW i \in 0..x PROVE Visit(g, i) = g[i]
        <4>1. CASE i = 0
          <5>1. 0 \in 0..(x - 1) /\ i # x
            BY <2>5, <3>1, <4>1
          <5>2. QED
            BY <3>3, <4>1, <5>1
        <4>2. CASE i # 0
          <5>1. i - 1 \in 0..x /\ i - 1 # x
            BY <4>2
          <5>2. g[i - 1] = f[i - 1]
            BY <5>1
          <5>3. Visit(g, i) = Visit(f, i)
            BY <5>2
          <5>4. i # x => i \in 0..(x - 1)
            BY <3>1
          <5>5. g[i] = IF i = x THEN Visit(f, x) ELSE f[i]
            OBVIOUS
          <5> HIDE DEF Visit, g
          <5>6. QED
            BY <3>3, <5>3, <5>4, <5>5
        <4>3. QED
          BY <4>1, <4>2
      <3>5. g = [i \in 0..x |-> g[i]]
        OBVIOUS
      <3> HIDE DEF g
      <3>6. Fits(g, x)
        BY <3>4, <3>5
      <3>7. QED
        BY <2>3, <3>6
    <2>6. QED
      BY <2>4, <2>5
  <1>2. Fits(w, len)
    BY <1>1
  <1>3. InsertAll(d, ks, keep) = w[len]
    BY DEF InsertAll, Step
  <1> HIDE DEF w
  <1>4. \A i \in 0..len : w[i] = Visit(w, i)
    BY <1>2
  <1>5. w[0] = d
    BY <1>4
  <1>6. \A i \in 0..len : i # 0 => w[i] = Step(w[i - 1], ks, keep, i)
    BY <1>4
  <1>7. QED
    BY <1>3, <1>5, <1>6

\* What a loop adds.
Kept(ks, keep) == {x \in ToSet(ks) : keep[x]}

\* A loop of insertions adds the elements that it lets through.
LEMMA InsertAllRepresents ==
    ASSUME NEW d, NEW E, Represents(d, E), NEW ks \in Seq(Keys), NEW keep \in [Keys -> BOOLEAN]
    PROVE  Represents(InsertAll(d, ks, keep), E \cup Kept(ks, keep))
  <1> DEFINE len == Len(ks)
             Added(i) == {x \in Keys : keep[x] /\ \E j \in 1..i : ks[j] = x}
  <1>1. len \in Nat /\ ks \in [1..len -> Keys] /\ DOMAIN ks = 1..len
    OBVIOUS
  <1>2. E \subseteq Keys
    BY DEF Represents, Tree
  <1>3. Kept(ks, keep) = Added(len)
    BY <1>1 DEF ToSet, Kept
  <1>4. PICK w : /\ InsertAll(d, ks, keep) = w[len] /\ w[0] = d
                 /\ \A i \in 0..len : i # 0 => w[i] = Step(w[i - 1], ks, keep, i)
    BY <1>1, InsertAllSteps
  <1> HIDE DEF len
  <1> DEFINE Fine(i) == Represents(w[i], E \cup Added(i))
             T == {i \in 0..len : ~Fine(i)}
  <1>5. Fine(0)
    <2>1. Added(0) = {}
      OBVIOUS
    <2> HIDE DEF Added
    <2>2. QED
      BY <1>4, <2>1
  <1>6. ASSUME NEW i \in 0..len, i # 0, Fine(i - 1) PROVE Fine(i)
    <2> DEFINE k == ks[i]
               D == E \cup Added(i - 1)
    <2>1. k \in Keys /\ i \in 1..len
      BY <1>1, <1>6
    <2>2. Added(i) = IF keep[k] THEN Added(i - 1) \cup {k} ELSE Added(i - 1)
      <3>1. ASSUME NEW x \in Keys
            PROVE  (\E j \in 1..i : ks[j] = x) <=> x = k \/ \E j \in 1..(i - 1) : ks[j] = x
        <4>1. ASSUME NEW j \in 1..i PROVE j = i \/ j \in 1..(i - 1)
          BY <1>1, <2>1
        <4>2. ASSUME NEW j \in 1..(i - 1) PROVE j \in 1..i
          BY <1>1, <2>1
        <4>3. i \in 1..i
          BY <1>1, <2>1
        <4>4. QED
          BY <4>1, <4>2, <4>3
      <3>2. ASSUME NEW x \in Keys
            PROVE  x \in Added(i) <=> x \in Added(i - 1) \/ (x = k /\ keep[k])
        <4> HIDE DEF k
        <4> QED BY <3>1
      <3>3. Added(i) \subseteq Keys /\ Added(i - 1) \subseteq Keys
        OBVIOUS
      <3> HIDE DEF Added, k
      <3>4. QED
        BY <2>1, <3>2, <3>3
    <2> HIDE DEF Added
    <2>3. Represents(w[i - 1], D)
      BY <1>6
    <2>4. w[i] = IF keep[k] THEN qAVLTree__insert(w[i - 1], k, TRUE).desc ELSE w[i - 1]
      BY <1>4, <1>6 DEF Step
    <2> HIDE DEF k
    <2>5. CASE keep[k]
      <3> DEFINE ins == qAVLTree__insert(w[i - 1], k, TRUE)
      <3>1. E \cup Added(i) = D \cup {k}
        BY <2>2, <2>5
      <3> HIDE DEF D
      <3>2. /\ k \in D => ins.desc = w[i - 1]
            /\ k \notin D => Represents(ins.desc, D \cup {k})
        BY <2>1, <2>3, InsertRepresents
      <3>3. k \in D => D \cup {k} = D
        OBVIOUS
      <3> HIDE DEF ins
      <3>4. Represents(ins.desc, D \cup {k})
        BY <2>3, <3>2, <3>3
      <3>5. QED
        BY <2>4, <2>5, <3>1, <3>4 DEF ins
    <2>6. CASE ~keep[k]
      BY <2>2, <2>3, <2>4, <2>6
    <2>7. QED
      BY <2>5, <2>6
  <1> HIDE DEF Fine
  <1>7. T = {}
    <2>1. SUFFICES ASSUME T # {} PROVE FALSE
      OBVIOUS
    <2>2. T \in SUBSET Nat
      OBVIOUS
    <2>3. PICK x \in T : \A y \in T : x <= y
      <3> HIDE DEF T
      <3> QED BY <2>1, <2>2, Least
    <2>4. x \in 0..len /\ ~Fine(x) /\ x # 0
      BY <1>5
    <2>5. x - 1 \in 0..len /\ ~(x <= x - 1)
      BY <1>1, <2>4
    <2>6. Fine(x - 1)
      BY <2>3, <2>5
    <2>7. QED
      BY <1>6, <2>4, <2>6
  <1>8. Fine(len)
    BY <1>1, <1>7
  <1>9. QED
    BY <1>3, <1>4, <1>8 DEF Fine

-----------------------------------------------------------------------------
(***************************************************************************)
(* The specification.                                                      *)
(***************************************************************************)
\* The inductive invariant: tree, list and size hold exactly what was inserted and
\* not erased, and an iterator is at an element, NULL, or known to dangle.
SetInv ==
    /\ Represents(sdesc, elems)
    /\ siter \in elems \cup {Nil, Dangling}

\* The invariant of the set, action by action: the constructor.
LEMMA SetInitInv == SetInit => SetInv
  BY EmptyRepresents DEF SetInit, SetInv

\* An insertion adds elements only and leaves the iterator.
LEMMA SetInsertInv ==
    ASSUME SetInv, ~MallocFails, NEW k \in Keys, SetInsert(k)
    PROVE  SetInv' /\ elems \subseteq elems' /\ siter' = siter
  <1> DEFINE ins == qAVLTree__insert(sdesc, k, TRUE)
  <1>1. /\ sdesc' = ins.desc /\ siter' = siter
        /\ elems' = IF ins.st = 0 THEN elems \cup {k} ELSE elems
    BY DEF SetInsert
  <1>2. /\ k \in elems => ins.st = -1 /\ ins.desc = sdesc
        /\ k \notin elems => ins.st = 0 /\ Represents(ins.desc, elems \cup {k})
    BY InsertRepresents DEF SetInv
  <1> HIDE DEF ins
  <1>3. CASE k \in elems
    BY <1>1, <1>2, <1>3 DEF SetInv
  <1>4. CASE k \notin elems
    BY <1>1, <1>2, <1>4 DEF SetInv
  <1>5. QED
    BY <1>3, <1>4

\* An erase takes the element out; where it leaves the iterator.
LEMMA SetEraseInv ==
    ASSUME SetInv, NEW k \in Keys, SetErase(k)
    PROVE  /\ SetInv' /\ k \in elems /\ elems' = elems \ {k}
           /\ siter \in elems =>
                \/ Neighbours(siter, k, elems) /\ siter' = Dangling
                \/ /\ siter = k /\ siter' \in elems'
                   /\ Neighbours(siter', k, elems) /\ Neighbours(siter, k, elems)
                \/ siter # k /\ siter' = siter /\ siter' \in elems'
  <1> DEFINE freed == qAVLTree__freed(sdesc, k)
             left == qAVLTree__erase(sdesc, k)
  <1>1. k \in elems
    BY FoundTree DEF SetErase, SetInv, Represents
  <1>2. Represents(left, elems \ {k}) /\ freed \in elems /\ Neighbours(freed, k, elems)
    BY <1>1, EraseRepresents DEF SetInv
  <1>3. /\ sdesc' = left /\ elems' = elems \ {k}
        /\ siter' = CASE siter = freed -> Dangling
                      [] siter # freed /\ siter = k -> freed
                      [] OTHER -> siter
    BY DEF SetErase
  <1> HIDE DEF freed, left
  <1>4. elems \subseteq Keys /\ siter \in elems \cup {Nil, Dangling}
    BY DEF SetInv, Represents, Tree
  <1>5. Neighbours(k, k, elems)
    BY <1>4, KeysAssumption DEF Neighbours
  <1>6. CASE siter = freed
    <2>1. siter' = Dangling
      BY <1>3, <1>6
    <2>2. QED
      BY <1>1, <1>2, <1>3, <1>6, <2>1 DEF SetInv
  <1>7. CASE siter # freed /\ siter = k
    <2>1. siter' = freed /\ freed \in elems'
      BY <1>2, <1>3, <1>7
    <2>2. QED
      BY <1>1, <1>2, <1>3, <1>5, <1>7, <2>1 DEF SetInv
  <1>8. CASE siter # freed /\ siter # k
    <2>1. siter' = siter
      BY <1>3, <1>8
    <2>2. QED
      BY <1>1, <1>2, <1>3, <1>4, <1>8, <2>1 DEF SetInv
  <1>9. QED
    BY <1>6, <1>7, <1>8

\* The destructor leaves no element, and no iterator on one.
LEMMA SetDestructorInv ==
    ASSUME SetInv, SetDestructor
    PROVE  SetInv' /\ elems' = {} /\ (siter \in elems => siter' = Dangling)
  <1>1. elems \subseteq Keys
    BY DEF SetInv, Represents, Tree
  <1>2. QED
    BY <1>1, EmptyRepresents, KeysAssumption DEF SetDestructor, SetInv

\* An iterator that moves is on an element or NULL.
LEMMA SetMoveInv ==
    ASSUME SetInv, SetMove
    PROVE  SetInv' /\ UNCHANGED <<sdesc, elems>>
  <1>1. UNCHANGED <<sdesc, elems>>
    BY DEF SetMove
  <1>2. /\ Tree(sdesc.root, elems) /\ Linked(sdesc.next, sdesc.prev, elems)
        /\ siter \in elems \cup {Nil, Dangling}
    BY DEF SetInv, Represents
  <1>3. \A k \in Keys : qAVLTree__ptr_at(sdesc, k) = 0 => k \in elems
    BY <1>2, FoundTree
  <1>4. qAVLTree_begin(sdesc) \in elems \cup {Nil} /\ qAVLTree_end(sdesc) \in elems \cup {Nil}
    BY <1>2, Begins, Ends
  <1>5. ASSUME siter \in Keys
        PROVE  sdesc.next[siter] \in elems \cup {Nil} /\ sdesc.prev[siter] \in elems \cup {Nil}
    <2>1. siter \in elems
      BY <1>2, <1>5, KeysAssumption, QSetAssumption
    <2>2. QED
      BY <1>2, <2>1 DEF Linked, After, Before
  <1>6. siter' \in elems \cup {Nil}
    BY <1>3, <1>4, <1>5 DEF SetMove
  <1>7. QED
    BY <1>1, <1>6 DEF SetInv

\* Every step of the set keeps the invariant.
LEMMA SetNextInv ==
    ASSUME SetInv, ~MallocFails, [SetNext]_svars
    PROVE  SetInv'
  <1>1. CASE UNCHANGED svars
    BY <1>1 DEF svars, SetInv
  <1>2. CASE SetNext
    <2>1. ASSUME NEW k \in Keys, SetInsert(k) PROVE SetInv'
      BY <2>1, SetInsertInv
    <2>2. ASSUME NEW k \in Keys, SetErase(k) PROVE SetInv'
      BY <2>2, SetEraseInv
    <2>3. ASSUME SetDestructor PROVE SetInv'
      BY <2>3, SetDestructorInv
    <2>4. ASSUME SetMove PROVE SetInv'
      BY <2>4, SetMoveInv
    <2>5. QED
      BY <1>2, <2>1, <2>2, <2>3, <2>4 DEF SetNext
  <1>3. QED
    BY <1>1, <1>2

\* The set holds what was put into it in every reachable state.
THEOREM SetInvariant ==
    ASSUME ~MallocFails
    PROVE  SetSpec => []SetInv
  <1>1. SetInv /\ [SetNext]_svars => SetInv'
    BY SetNextInv
  <1>2. QED
    BY <1>1, SetInitInv, PTL DEF SetSpec

\* Lookup finds exactly the elements inserted and not erased, and size counts them.
THEOREM SetFoundAlways ==
    ASSUME ~MallocFails
    PROVE  SetSpec => []SetFound
  <1>1. SetInv => SetFound
    BY FoundTree DEF SetInv, Represents, SetFound
  <1>2. QED
    BY <1>1, SetInvariant, PTL

\* Iteration visits every element once, in order, in both directions.
THEOREM ThreadedAlways ==
    ASSUME ~MallocFails
    PROVE  SetSpec => []Threaded
  <1>1. SetInv => Threaded
    BY IteratesLists DEF SetInv, Threaded
  <1>2. QED
    BY <1>1, SetInvariant, PTL

\* The stored heights, on which recursive_delete relies to know a leaf, are right.
THEOREM HeightsExactAlways ==
    ASSUME ~MallocFails
    PROVE  SetSpec => []HeightsExact
  <1>1. SetInv => HeightsExact
    BY TrueHeights DEF SetInv, Represents, HeightsExact
  <1>2. QED
    BY <1>1, SetInvariant, PTL

\* What represents a set is a threaded search tree of it.
LEMMA RepresentsBuilds ==
    ASSUME NEW d, NEW S, Represents(d, S)
    PROVE  Builds(d, S)
  <1>1. Lists(Iterated(d), S)
    BY IteratesLists
  <1>2. \A k \in S : qAVLTree__ptr_at(d, k) = 0
    BY FoundTree DEF Represents, Tree
  <1>3. QED
    BY <1>1, <1>2 DEF Builds, Represents

\* The operations on two descriptors are those on the sets they hold.
LEMMA RepresentsAgrees ==
    ASSUME SetInv, NEW d, NEW S, Represents(d, S)
    PROVE  Agrees(d, S)
  <1> DEFINE a == sdesc
             A == elems
             none == qAVLTree_constructor
             as == Iterated(a)
             ss == Iterated(d)
  <1>1. /\ Represents(a, A) /\ Represents(none, {})
        /\ A \subseteq Keys /\ S \subseteq Keys
    BY EmptyRepresents DEF SetInv, Represents, Tree
  <1>2. /\ as \in Seq(Keys) /\ ToSet(as) = A
        /\ ss \in Seq(Keys) /\ ToSet(ss) = S
    BY <1>1, IteratesLists DEF Lists
  <1>3. /\ All \in [Keys -> BOOLEAN] /\ \A k \in Keys : All[k] = TRUE
        /\ Within(d) \in [Keys -> BOOLEAN] /\ \A k \in Keys : Within(d)[k] <=> k \in S
        /\ Outside(d) \in [Keys -> BOOLEAN] /\ \A k \in Keys : Outside(d)[k] <=> k \notin S
    <2>1. \A k \in Keys : qAVLTree__ptr_at(d, k) = 0 <=> k \in S
      BY FoundTree DEF Represents
    <2>2. QED
      BY <2>1 DEF All, Within, Outside
  <1> HIDE DEF a, A, none, as, ss
  <1>4. Builds(qSet_union(a, d), A \cup S)
    <2> DEFINE one == InsertAll(none, as, All)
    <2>1. Represents(one, {} \cup Kept(as, All))
      BY <1>1, <1>2, <1>3, InsertAllRepresents
    <2>2. {} \cup Kept(as, All) = A
      BY <1>1, <1>2, <1>3 DEF Kept
    <2> HIDE DEF one
    <2>3. Represents(InsertAll(one, ss, All), A \cup Kept(ss, All))
      BY <1>2, <1>3, <2>1, <2>2, InsertAllRepresents
    <2>4. Kept(ss, All) = S
      BY <1>1, <1>2, <1>3 DEF Kept
    <2>5. qSet_union(a, d) = InsertAll(one, ss, All)
      BY DEF qSet_union, one, none, as, ss
    <2>6. QED
      BY <2>3, <2>4, <2>5, RepresentsBuilds
  <1>5. Builds(qSet_intersect(a, d), A \cap S)
    <2>1. Represents(InsertAll(none, as, Within(d)), {} \cup Kept(as, Within(d)))
      BY <1>1, <1>2, <1>3, InsertAllRepresents
    <2>2. {} \cup Kept(as, Within(d)) = A \cap S
      BY <1>1, <1>2, <1>3 DEF Kept
    <2>3. qSet_intersect(a, d) = InsertAll(none, as, Within(d))
      BY DEF qSet_intersect, none, as
    <2>4. QED
      BY <2>1, <2>2, <2>3, RepresentsBuilds
  <1>6. Builds(qSet_difference(a, d), A \ S)
    <2>1. Represents(InsertAll(none, as, Outside(d)), {} \cup Kept(as, Outside(d)))
      BY <1>1, <1>2, <1>3, InsertAllRepresents
    <2>2. {} \cup Kept(as, Outside(d)) = A \ S
      BY <1>1, <1>2, <1>3 DEF Kept
    <2>3. qSet_difference(a, d) = InsertAll(none, as, Outside(d))
      BY DEF qSet_difference, none, as
    <2>4. QED
      BY <2>1, <2>2, <2>3, RepresentsBuilds
  <1>7. qSet_issubset(a, d) <=> A \subseteq S
    <2>1. \A i \in DOMAIN as : as[i] \in A
      BY <1>2 DEF ToSet
    <2>2. \A x \in A : \E i \in DOMAIN as : as[i] = x
      BY <1>2 DEF ToSet
    <2>3. \A k \in Keys : qAVLTree__ptr_at(d, k) = 0 <=> k \in S
      BY FoundTree DEF Represents
    <2>4. qSet_issubset(a, d) <=> \A i \in DOMAIN as : qAVLTree__ptr_at(d, as[i]) = 0
      BY DEF qSet_issubset, as
    <2>5. QED
      BY <1>1, <2>1, <2>2, <2>3, <2>4
  <1>8. qSet_isequal(a, d) <=> A = S
    <2>1. /\ a.size = Cardinality(A) /\ d.size = Cardinality(S)
          /\ IsFiniteSet(A) /\ IsFiniteSet(S)
      BY <1>1, HeightBound DEF Represents
    <2>2. A \subseteq S /\ Cardinality(A) = Cardinality(S) => A = S
      BY <2>1, FS_Subset
    <2>3. QED
      BY <1>7, <2>1, <2>2 DEF qSet_isequal
  <1>9. QED
    BY <1>4, <1>5, <1>6, <1>7, <1>8 DEF Agrees, a, A

\* Union, intersection, difference, equality and inclusion are those of sets.
THEOREM AlgebraAlways ==
    ASSUME ~MallocFails
    PROVE  SetSpec => []Algebra
  <1>1. ASSUME NEW ks \in Others
        PROVE  Represents(InsertAll(qAVLTree_constructor, ks, All), ToSet(ks))
    <2>1. ks \in Seq(Keys) /\ All \in [Keys -> BOOLEAN] /\ \A k \in Keys : All[k] = TRUE
      BY QSetAssumption DEF All
    <2>2. Represents(InsertAll(qAVLTree_constructor, ks, All), {} \cup Kept(ks, All))
      BY <2>1, EmptyRepresents, InsertAllRepresents
    <2>3. {} \cup Kept(ks, All) = ToSet(ks)
      BY <2>1 DEF ToSet, Kept
    <2>4. QED
      BY <2>2, <2>3
  <1>2. SetInv => Algebra
    <2>1. SUFFICES ASSUME SetInv PROVE Algebra
      OBVIOUS
    <2>2. Agrees(sdesc, elems)
      BY <2>1, RepresentsAgrees DEF SetInv
    <2>3. \A ks \in Others : Agrees(InsertAll(qAVLTree_constructor, ks, All), ToSet(ks))
      BY <1>1, <2>1, RepresentsAgrees
    <2>4. QED
      BY <2>2, <2>3 DEF Algebra
  <1>3. QED
    BY <1>2, SetInvariant, PTL

\* What an erase does to an iterator the program keeps.
THEOREM IteratorsSurviveErase ==
    ASSUME ~MallocFails
    PROVE  SetSpec => IteratorsSurvive
  <1> DEFINE Survives ==
        \A k \in elems : elems' = elems \ {k} /\ siter \in elems =>
           IF Neighbours(siter, k, elems) THEN siter' \in elems' \cup {Dangling}
                                               /\ (siter' # Dangling => Neighbours(siter', k, elems))
                                          ELSE siter' = siter
  <1>1. ASSUME SetInv, [SetNext]_svars PROVE [Survives]_svars
    <2>1. SUFFICES ASSUME SetNext, NEW k \in elems, elems' = elems \ {k}, siter \in elems
                   PROVE  IF Neighbours(siter, k, elems)
                          THEN /\ siter' \in elems' \cup {Dangling}
                               /\ siter' # Dangling => Neighbours(siter', k, elems)
                          ELSE siter' = siter
      BY <1>1
    <2>2. elems \subseteq Keys
      BY <1>1 DEF SetInv, Represents, Tree
    <2>3. ASSUME NEW j \in Keys, SetInsert(j) PROVE FALSE
      BY <1>1, <2>1, <2>3, SetInsertInv
    <2>4. ~SetMove
      BY <1>1, <2>1, SetMoveInv
    <2>5. CASE SetDestructor
      <3>1. siter' = Dangling /\ elems' = {}
        BY <1>1, <2>1, <2>5, SetDestructorInv
      <3>2. siter = k
        BY <2>1, <3>1
      <3>3. Neighbours(siter, k, elems)
        BY <2>2, <3>2, KeysAssumption DEF Neighbours
      <3>4. QED
        BY <3>1, <3>3
    <2>6. ASSUME NEW j \in Keys, SetErase(j)
          PROVE  IF Neighbours(siter, k, elems)
                 THEN /\ siter' \in elems' \cup {Dangling}
                      /\ siter' # Dangling => Neighbours(siter', k, elems)
                 ELSE siter' = siter
      <3>1. /\ j \in elems /\ elems' = elems \ {j}
            /\ \/ Neighbours(siter, j, elems) /\ siter' = Dangling
               \/ /\ siter = j /\ siter' \in elems'
                  /\ Neighbours(siter', j, elems) /\ Neighbours(siter, j, elems)
               \/ siter # j /\ siter' = siter /\ siter' \in elems'
        BY <1>1, <2>1, <2>6, SetEraseInv
      <3>2. j = k
        BY <2>1, <3>1
      <3>3. QED
        BY <3>1, <3>2
    <2>7. QED
      BY <2>1, <2>3, <2>4, <2>5, <2>6 DEF SetNext
  <1>2. QED
    BY <1>1, SetInvariant, PTL DEF SetSpec, IteratorsSurvive
=============================================================================
