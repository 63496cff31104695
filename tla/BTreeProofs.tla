---------------------------- MODULE BTreeProofs ----------------------------
(***************************************************************************)
(* The B-tree keeps what is put into it and stays even, for every set of   *)
(* keys and every sequence of insertions in ascending order and erasures.  *)
(***************************************************************************)
EXTENDS BTree, OrderedKeysProofs

\* The elements of D to the left of k, to the right of it, and between two.
Under(D, k) == {y \in D : y < k}
Over(D, k) == {y \in D : y > k}
Amid(D, j, k) == {y \in D : j < y /\ y < k}

\* In S, a set of subtrees with their keys and heights, the children of a node are
\* there too, each with the keys on its side and one less high.
OneIn(S, t, D, h) ==
    /\ h \in Nat /\ h # 0
    /\ t.kv[0] \in D /\ t = Node(t.kv[0], Nil, t.childs[0], t.childs[1], Absent)
    /\ <<t.childs[0], Under(D, t.kv[0]), h - 1>> \in S
    /\ <<t.childs[1], Over(D, t.kv[0]), h - 1>> \in S
TwoIn(S, t, D, h) ==
    /\ h \in Nat /\ h # 0
    /\ t.kv[0] \in D /\ t.kv[1] \in D /\ t.kv[0] < t.kv[1]
    /\ t = Node(t.kv[0], t.kv[1], t.childs[0], t.childs[1], t.childs[2])
    /\ <<t.childs[0], Under(D, t.kv[0]), h - 1>> \in S
    /\ <<t.childs[1], Amid(D, t.kv[0], t.kv[1]), h - 1>> \in S
    /\ <<t.childs[2], Over(D, t.kv[1]), h - 1>> \in S
NoneIn(t, D, h) == t = Absent /\ D = {} /\ h = 0
Closed(S) ==
    \A t, D, h : <<t, D, h>> \in S => NoneIn(t, D, h) \/ OneIn(S, t, D, h) \/ TwoIn(S, t, D, h)

\* t is a search tree of the keys D, with all its leaves at depth h.
Tree(t, D, h) == D \subseteq BTreeKeys /\ \E S : Closed(S) /\ <<t, D, h>> \in S

\* The same, said of the node and its children.
IsOne(t, D, h, a, l, r) ==
    /\ t = Node(a, Nil, l, r, Absent) /\ a \in D
    /\ Tree(l, Under(D, a), h - 1) /\ Tree(r, Over(D, a), h - 1)
IsTwo(t, D, h, a, b, l, m, r) ==
    /\ t = Node(a, b, l, m, r) /\ a \in D /\ b \in D /\ a < b
    /\ Tree(l, Under(D, a), h - 1) /\ Tree(m, Amid(D, a, b), h - 1) /\ Tree(r, Over(D, b), h - 1)

-----------------------------------------------------------------------------
\* The fields of a node, and of NULL.
LEMMA NodeFields ==
    ASSUME NEW a, NEW b, NEW l, NEW m, NEW r
    PROVE  /\ Node(a, b, l, m, r).kv[0] = a /\ Node(a, b, l, m, r).kv[1] = b
           /\ Node(a, b, l, m, r).childs[0] = l /\ Node(a, b, l, m, r).childs[1] = m
           /\ Node(a, b, l, m, r).childs[2] = r
           /\ Absent.kv[0] = Nil
           /\ a # Nil => Node(a, b, l, m, r) # Absent
  <1> DEFINE n == Node(a, b, l, m, r)
  <1>1. /\ n.kv = [i \in 0..1 |-> IF i = 0 THEN a ELSE b]
        /\ n.childs = [i \in 0..2 |-> IF i = 0 THEN l ELSE IF i = 1 THEN m ELSE r]
        /\ Absent.kv = [i \in 0..1 |-> Nil]
    BY DEF Node, Absent
  <1>2. n.kv[0] = a /\ n.kv[1] = b /\ n.childs[0] = l /\ n.childs[1] = m /\ n.childs[2] = r
    <2> HIDE DEF n
    <2> QED BY <1>1
  <1>3. Absent.kv[0] = Nil
    BY <1>1
  <1> HIDE DEF n
  <1>4. n.kv[0] # Absent.kv[0] => n # Absent
    OBVIOUS
  <1>5. QED
    BY <1>2, <1>3, <1>4 DEF n

\* A node with a pair or a child replaced.
LEMMA NodeWith ==
    ASSUME NEW a, NEW b, NEW l, NEW m, NEW r, NEW x
    PROVE  /\ WithPair(Node(a, b, l, m, r), 0, x) = Node(x, b, l, m, r)
           /\ WithPair(Node(a, b, l, m, r), 1, x) = Node(a, x, l, m, r)
           /\ WithSub(Node(a, b, l, m, r), 0, x) = Node(a, b, x, m, r)
           /\ WithSub(Node(a, b, l, m, r), 1, x) = Node(a, b, l, x, r)
           /\ WithSub(Node(a, b, l, m, r), 2, x) = Node(a, b, l, m, x)
  <1> DEFINE f == [i \in 0..1 |-> IF i = 0 THEN a ELSE b]
             g == [i \in 0..2 |-> IF i = 0 THEN l ELSE IF i = 1 THEN m ELSE r]
  <1>1a. [f EXCEPT ![0] = x] = [i \in 0..1 |-> IF i = 0 THEN x ELSE b]
    <2> DEFINE e == [f EXCEPT ![0] = x]
               d == [i \in 0..1 |-> IF i = 0 THEN x ELSE b]
    <2>1. e = [i \in 0..1 |-> IF i = 0 THEN x ELSE f[i]]
      OBVIOUS
    <2>2. \A i \in 0..1 : (IF i = 0 THEN x ELSE f[i]) = IF i = 0 THEN x ELSE b
      OBVIOUS
    <2>3. QED
      BY <2>1, <2>2
  <1>1b. [f EXCEPT ![1] = x] = [i \in 0..1 |-> IF i = 0 THEN a ELSE x]
    <2> DEFINE e == [f EXCEPT ![1] = x]
               d == [i \in 0..1 |-> IF i = 0 THEN a ELSE x]
    <2>1. e = [i \in 0..1 |-> IF i = 1 THEN x ELSE f[i]]
      OBVIOUS
    <2>2. \A i \in 0..1 : (IF i = 1 THEN x ELSE f[i]) = IF i = 0 THEN a ELSE x
      OBVIOUS
    <2>3. QED
      BY <2>1, <2>2
  <1>2a. [g EXCEPT ![0] = x] = [i \in 0..2 |-> IF i = 0 THEN x ELSE IF i = 1 THEN m ELSE r]
    <2> DEFINE e == [g EXCEPT ![0] = x]
               d == [i \in 0..2 |-> IF i = 0 THEN x ELSE IF i = 1 THEN m ELSE r]
    <2>1. e = [i \in 0..2 |-> IF i = 0 THEN x ELSE g[i]]
      OBVIOUS
    <2>2. \A i \in 0..2 : (IF i = 0 THEN x ELSE g[i]) = IF i = 0 THEN x ELSE IF i = 1 THEN m ELSE r
      OBVIOUS
    <2>3. QED
      BY <2>1, <2>2
  <1>2b. [g EXCEPT ![1] = x] = [i \in 0..2 |-> IF i = 0 THEN l ELSE IF i = 1 THEN x ELSE r]
    <2> DEFINE e == [g EXCEPT ![1] = x]
               d == [i \in 0..2 |-> IF i = 0 THEN l ELSE IF i = 1 THEN x ELSE r]
    <2>1. e = [i \in 0..2 |-> IF i = 1 THEN x ELSE g[i]]
      OBVIOUS
    <2>2. \A i \in 0..2 : (IF i = 1 THEN x ELSE g[i]) = IF i = 0 THEN l ELSE IF i = 1 THEN x ELSE r
      OBVIOUS
    <2>3. QED
      BY <2>1, <2>2
  <1>2c. [g EXCEPT ![2] = x] = [i \in 0..2 |-> IF i = 0 THEN l ELSE IF i = 1 THEN m ELSE x]
    <2> DEFINE e == [g EXCEPT ![2] = x]
               d == [i \in 0..2 |-> IF i = 0 THEN l ELSE IF i = 1 THEN m ELSE x]
    <2>1. e = [i \in 0..2 |-> IF i = 2 THEN x ELSE g[i]]
      OBVIOUS
    <2>2. \A i \in 0..2 : (IF i = 2 THEN x ELSE g[i]) = IF i = 0 THEN l ELSE IF i = 1 THEN m ELSE x
      OBVIOUS
    <2>3. QED
      BY <2>1, <2>2
  <1> DEFINE n == Node(a, b, l, m, r)
  <1>3. n = [kv |-> f, childs |-> g, extrakv |-> Nil, extrachild |-> Absent]
    BY DEF Node
  <1>4. /\ WithPair(n, 0, x) = [n EXCEPT !.kv = [f EXCEPT ![0] = x]]
        /\ WithPair(n, 1, x) = [n EXCEPT !.kv = [f EXCEPT ![1] = x]]
    <2> HIDE DEF f, g, n
    <2> QED BY <1>3 DEF WithPair
  <1>5. /\ WithSub(n, 0, x) = [n EXCEPT !.childs = [g EXCEPT ![0] = x]]
        /\ WithSub(n, 1, x) = [n EXCEPT !.childs = [g EXCEPT ![1] = x]]
        /\ WithSub(n, 2, x) = [n EXCEPT !.childs = [g EXCEPT ![2] = x]]
    <2> HIDE DEF f, g, n
    <2> QED BY <1>3 DEF WithSub
  <1>6. \A q : /\ [n EXCEPT !.kv = q]
                    = [kv |-> q, childs |-> g, extrakv |-> Nil, extrachild |-> Absent]
              /\ [n EXCEPT !.childs = q]
                    = [kv |-> f, childs |-> q, extrakv |-> Nil, extrachild |-> Absent]
    <2> HIDE DEF f, g, n
    <2> QED BY <1>3
  <1>7. QED
    <2> HIDE DEF n
    <2> QED BY <1>1a, <1>1b, <1>2a, <1>2b, <1>2c, <1>4, <1>5, <1>6 DEF Node, n

\* NULL is the tree of no keys, and has no other.
LEMMA NoTree == Tree(Absent, {}, 0)
  <1>1. Closed({<<Absent, {}, 0>>})
    BY DEF Closed, NoneIn
  <1>2. QED
    BY <1>1 DEF Tree

\* What a tree is made of.
LEMMA Split ==
    ASSUME NEW t, NEW D, NEW h, Tree(t, D, h)
    PROVE  /\ h \in Nat /\ D \in SUBSET BTreeKeys /\ D \subseteq Int
           /\ t = Absent <=> h = 0
           /\ t = Absent => D = {}
           /\ t # Absent => \/ \E a, l, r : IsOne(t, D, h, a, l, r)
                            \/ \E a, b, l, m, r : IsTwo(t, D, h, a, b, l, m, r)
  <1>1. PICK S : Closed(S) /\ <<t, D, h>> \in S
    BY DEF Tree
  <1>2. D \in SUBSET BTreeKeys /\ D \subseteq Int /\ Nil \notin D
    BY BTreeAssumption DEF Tree
  <1>3. CASE NoneIn(t, D, h)
    BY <1>2, <1>3 DEF NoneIn
  <1>4. CASE OneIn(S, t, D, h)
    <2> DEFINE a == t.kv[0]
               l == t.childs[0]
               r == t.childs[1]
    <2>1. /\ h \in Nat /\ h # 0 /\ a \in D /\ t = Node(a, Nil, l, r, Absent)
          /\ <<l, Under(D, a), h - 1>> \in S /\ <<r, Over(D, a), h - 1>> \in S
      BY <1>4 DEF OneIn
    <2> HIDE DEF a, l, r
    <2>2. Under(D, a) \subseteq BTreeKeys /\ Over(D, a) \subseteq BTreeKeys
      BY <1>2 DEF Under, Over
    <2>3. Tree(l, Under(D, a), h - 1) /\ Tree(r, Over(D, a), h - 1)
      BY <1>1, <2>1, <2>2 DEF Tree
    <2>4. IsOne(t, D, h, a, l, r)
      BY <2>1, <2>3 DEF IsOne
    <2>5. t # Absent
      BY <1>2, <2>1, NodeFields
    <2>6. QED
      BY <1>2, <2>1, <2>4, <2>5
  <1>5. CASE TwoIn(S, t, D, h)
    <2> DEFINE a == t.kv[0]
               b == t.kv[1]
               l == t.childs[0]
               m == t.childs[1]
               r == t.childs[2]
    <2>1. /\ h \in Nat /\ h # 0 /\ a \in D /\ b \in D /\ a < b /\ t = Node(a, b, l, m, r)
          /\ <<l, Under(D, a), h - 1>> \in S /\ <<m, Amid(D, a, b), h - 1>> \in S
          /\ <<r, Over(D, b), h - 1>> \in S
      BY <1>5 DEF TwoIn
    <2> HIDE DEF a, b, l, m, r
    <2>2. /\ Under(D, a) \subseteq BTreeKeys /\ Over(D, b) \subseteq BTreeKeys
          /\ Amid(D, a, b) \subseteq BTreeKeys
      BY <1>2 DEF Under, Over, Amid
    <2>3. /\ Tree(l, Under(D, a), h - 1) /\ Tree(m, Amid(D, a, b), h - 1)
          /\ Tree(r, Over(D, b), h - 1)
      BY <1>1, <2>1, <2>2 DEF Tree
    <2>4. IsTwo(t, D, h, a, b, l, m, r)
      BY <2>1, <2>3 DEF IsTwo
    <2>5. t # Absent
      BY <1>2, <2>1, NodeFields
    <2>6. QED
      BY <1>2, <2>1, <2>4, <2>5
  <1>6. QED
    BY <1>1, <1>3, <1>4, <1>5 DEF Closed

\* Two trees of the same height and a key between them are a tree.
LEMMA JoinOne ==
    ASSUME NEW D \in SUBSET BTreeKeys, NEW g, NEW a \in D, NEW l, NEW r,
           Tree(l, Under(D, a), g), Tree(r, Over(D, a), g)
    PROVE  Tree(Node(a, Nil, l, r, Absent), D, g + 1)
  <1>1. PICK L : Closed(L) /\ <<l, Under(D, a), g>> \in L
    BY DEF Tree
  <1>2. PICK R : Closed(R) /\ <<r, Over(D, a), g>> \in R
    BY DEF Tree
  <1>3. g \in Nat
    BY Split
  <1> DEFINE t == Node(a, Nil, l, r, Absent)
             S == L \cup R \cup {<<t, D, g + 1>>}
  <1>4. t.kv[0] = a /\ t.childs[0] = l /\ t.childs[1] = r
    BY NodeFields
  <1>5. t = Node(a, Nil, l, r, Absent)
    OBVIOUS
  <1> HIDE DEF t
  <1>6. OneIn(S, t, D, g + 1)
    <2>1. (g + 1) - 1 = g /\ g + 1 \in Nat /\ g + 1 # 0
      BY <1>3
    <2>2. <<l, Under(D, a), g>> \in S /\ <<r, Over(D, a), g>> \in S
      BY <1>1, <1>2
    <2> HIDE DEF S
    <2>3. QED
      BY <1>4, <1>5, <2>1, <2>2 DEF OneIn
  <1>7. Closed(S)
    <2>1. ASSUME NEW u, NEW E, NEW i, <<u, E, i>> \in S
          PROVE  NoneIn(u, E, i) \/ OneIn(S, u, E, i) \/ TwoIn(S, u, E, i)
      <3>1. CASE <<u, E, i>> \in L
        BY <1>1, <3>1 DEF Closed, OneIn, TwoIn
      <3>2. CASE <<u, E, i>> \in R
        BY <1>2, <3>2 DEF Closed, OneIn, TwoIn
      <3>3. CASE <<u, E, i>> = <<t, D, g + 1>>
        <4>1. u = t /\ E = D /\ i = g + 1
          BY <3>3
        <4> HIDE DEF S
        <4>2. QED
          BY <1>6, <4>1
      <3>4. QED
        BY <2>1, <3>1, <3>2, <3>3
    <2> HIDE DEF S
    <2>2. QED
      BY <2>1 DEF Closed
  <1>8. <<t, D, g + 1>> \in S
    OBVIOUS
  <1> HIDE DEF S
  <1>9. QED
    BY <1>7, <1>8 DEF Tree, t

\* And so are three and two keys between them.
LEMMA JoinTwo ==
    ASSUME NEW D \in SUBSET BTreeKeys, NEW g, NEW a \in D, NEW b \in D, a < b,
           NEW l, NEW m, NEW r,
           Tree(l, Under(D, a), g), Tree(m, Amid(D, a, b), g), Tree(r, Over(D, b), g)
    PROVE  Tree(Node(a, b, l, m, r), D, g + 1)
  <1>1. PICK L : Closed(L) /\ <<l, Under(D, a), g>> \in L
    BY DEF Tree
  <1>2. PICK R : Closed(R) /\ <<r, Over(D, b), g>> \in R
    BY DEF Tree
  <1>0. PICK M : Closed(M) /\ <<m, Amid(D, a, b), g>> \in M
    BY DEF Tree
  <1>3. g \in Nat
    BY Split
  <1> DEFINE t == Node(a, b, l, m, r)
             S == L \cup M \cup R \cup {<<t, D, g + 1>>}
  <1>4. t.kv[0] = a /\ t.kv[1] = b /\ t.childs[0] = l /\ t.childs[1] = m /\ t.childs[2] = r
    BY NodeFields
  <1>5. t = Node(a, b, l, m, r)
    OBVIOUS
  <1> HIDE DEF t
  <1>6. TwoIn(S, t, D, g + 1)
    <2>1. (g + 1) - 1 = g /\ g + 1 \in Nat /\ g + 1 # 0
      BY <1>3
    <2>2. /\ <<l, Under(D, a), g>> \in S /\ <<m, Amid(D, a, b), g>> \in S
          /\ <<r, Over(D, b), g>> \in S
      BY <1>0, <1>1, <1>2
    <2> HIDE DEF S
    <2>3. QED
      BY <1>4, <1>5, <2>1, <2>2 DEF TwoIn
  <1>7. Closed(S)
    <2>1. ASSUME NEW u, NEW E, NEW i, <<u, E, i>> \in S
          PROVE  NoneIn(u, E, i) \/ OneIn(S, u, E, i) \/ TwoIn(S, u, E, i)
      <3>1. CASE <<u, E, i>> \in L
        BY <1>1, <3>1 DEF Closed, OneIn, TwoIn
      <3>2. CASE <<u, E, i>> \in R
        BY <1>2, <3>2 DEF Closed, OneIn, TwoIn
      <3>3. CASE <<u, E, i>> = <<t, D, g + 1>>
        <4>1. u = t /\ E = D /\ i = g + 1
          BY <3>3
        <4> HIDE DEF S
        <4>2. QED
          BY <1>6, <4>1
      <3>4. CASE <<u, E, i>> \in M
        BY <1>0, <3>4 DEF Closed, OneIn, TwoIn
      <3>5. QED
        BY <2>1, <3>1, <3>2, <3>3, <3>4
    <2> HIDE DEF S
    <2>2. QED
      BY <2>1 DEF Closed
  <1>8. <<t, D, g + 1>> \in S
    OBVIOUS
  <1> HIDE DEF S
  <1>9. QED
    BY <1>7, <1>8 DEF Tree, t

-----------------------------------------------------------------------------
(***************************************************************************)
(* Rotations and merges.                                                   *)
(***************************************************************************)
\* A node without a pair, on which c hangs.
Gap(c) == Node(Nil, Nil, c, Absent, Absent)

\* What rotations make of the nodes they move.
LEMMA Rotated ==
    ASSUME NEW a, NEW b, NEW c, NEW z, NEW p, NEW q, NEW s, NEW x, NEW w
    PROVE  LET full == Node(b, c, p, q, s)
               ax == Node(a, Nil, x, p, Absent)
               cq == Node(c, Nil, q, s, Absent)
               bp == Node(b, Nil, p, q, Absent)
               sx == Node(a, Nil, s, x, Absent)
           IN /\ qBTree__rotate_left(Node(a, z, Gap(x), full, w), 0) = Node(b, z, ax, cq, w)
              /\ qBTree__rotate_left(Node(z, a, w, Gap(x), full), 1) = Node(z, b, w, ax, cq)
              /\ qBTree__rotate_right(Node(a, z, full, Gap(x), w), 1) = Node(c, z, bp, sx, w)
              /\ qBTree__rotate_right(Node(z, a, w, full, Gap(x)), 2) = Node(z, c, w, bp, sx)
  <1> DEFINE full == Node(b, c, p, q, s)
             ax == Node(a, Nil, x, p, Absent)
             cq == Node(c, Nil, q, s, Absent)
             bp == Node(b, Nil, p, q, Absent)
             sx == Node(a, Nil, s, x, Absent)
  <1>1. /\ full.kv[0] = b /\ full.kv[1] = c /\ full.childs[0] = p
        /\ full.childs[1] = q /\ full.childs[2] = s /\ Gap(x).childs[0] = x
    BY NodeFields DEF Gap
  <1>2. WithSub(WithPair(Gap(x), 0, a), 1, p) = ax
    BY NodeWith DEF Gap
  <1>3. WithSub(WithSub(WithPair(Gap(x), 0, a), 1, x), 0, s) = sx
    BY NodeWith DEF Gap
  <1>4. WithSub(WithPair(full, 1, Nil), 2, Absent) = bp
    BY NodeWith
  <1> HIDE DEF full, ax, bp, sx
  <1>5. qBTree__rotate_left(Node(a, z, Gap(x), full, w), 0) = Node(b, z, ax, cq, w)
    <2> DEFINE t == Node(a, z, Gap(x), full, w)
    <2>1. t.kv[0] = a /\ t.childs[0] = Gap(x) /\ t.childs[1] = full /\ 0 + 1 = 1
      BY NodeFields
    <2>2. WithSub(WithSub(WithPair(t, 0, b), 0, ax), 1, cq) = Node(b, z, ax, cq, w)
      BY NodeWith
    <2> HIDE DEF t, cq
    <2>3. qBTree__rotate_left(t, 0) = WithSub(WithSub(WithPair(t, 0, b), 0, ax), 1, cq)
      BY <1>1, <1>2, <2>1 DEF qBTree__rotate_left, cq
    <2>4. QED
      BY <2>2, <2>3 DEF t
  <1>6. qBTree__rotate_left(Node(z, a, w, Gap(x), full), 1) = Node(z, b, w, ax, cq)
    <2> DEFINE t == Node(z, a, w, Gap(x), full)
    <2>1. t.kv[1] = a /\ t.childs[1] = Gap(x) /\ t.childs[2] = full /\ 1 + 1 = 2
      BY NodeFields
    <2>2. WithSub(WithSub(WithPair(t, 1, b), 1, ax), 2, cq) = Node(z, b, w, ax, cq)
      BY NodeWith
    <2> HIDE DEF t, cq
    <2>3. qBTree__rotate_left(t, 1) = WithSub(WithSub(WithPair(t, 1, b), 1, ax), 2, cq)
      BY <1>1, <1>2, <2>1 DEF qBTree__rotate_left, cq
    <2>4. QED
      BY <2>2, <2>3 DEF t
  <1>7. qBTree__rotate_right(Node(a, z, full, Gap(x), w), 1) = Node(c, z, bp, sx, w)
    <2> DEFINE t == Node(a, z, full, Gap(x), w)
    <2>1. t.kv[0] = a /\ t.childs[0] = full /\ t.childs[1] = Gap(x) /\ 1 - 1 = 0
      BY NodeFields
    <2>2. WithSub(WithSub(WithPair(t, 0, c), 1, sx), 0, bp) = Node(c, z, bp, sx, w)
      BY NodeWith
    <2> HIDE DEF t
    <2>3. qBTree__rotate_right(t, 1) = WithSub(WithSub(WithPair(t, 0, c), 1, sx), 0, bp)
      BY <1>1, <1>3, <1>4, <2>1 DEF qBTree__rotate_right
    <2>4. QED
      BY <2>2, <2>3 DEF t
  <1>8. qBTree__rotate_right(Node(z, a, w, full, Gap(x)), 2) = Node(z, c, w, bp, sx)
    <2> DEFINE t == Node(z, a, w, full, Gap(x))
    <2>1. t.kv[1] = a /\ t.childs[1] = full /\ t.childs[2] = Gap(x) /\ 2 - 1 = 1
      BY NodeFields
    <2>2. WithSub(WithSub(WithPair(t, 1, c), 2, sx), 1, bp) = Node(z, c, w, bp, sx)
      BY NodeWith
    <2> HIDE DEF t
    <2>3. qBTree__rotate_right(t, 2) = WithSub(WithSub(WithPair(t, 1, c), 2, sx), 1, bp)
      BY <1>1, <1>3, <1>4, <2>1 DEF qBTree__rotate_right
    <2>4. QED
      BY <2>2, <2>3 DEF t
  <1>9. QED
    BY <1>5, <1>6, <1>7, <1>8 DEF full, ax, cq, bp, sx

\* What merges make of them.
LEMMA Merged ==
    ASSUME NEW a, NEW b, NEW z, NEW p, NEW q, NEW x, NEW w, q = Absent => x = Absent
    PROVE  LET one == Node(b, Nil, p, q, Absent)
               ab == Node(a, b, x, p, q)
               ba == Node(b, a, p, q, x)
               st == IF z = Nil THEN 1 ELSE 0
           IN /\ qBTree__merge(Node(a, z, Gap(x), one, w), 0)
                    = [st |-> st, t |-> Node(z, Nil, ab, w, Absent)]
              /\ qBTree__merge(Node(a, z, one, Gap(x), w), 1)
                    = [st |-> st, t |-> Node(z, Nil, ba, w, Absent)]
              /\ qBTree__merge(Node(z, a, w, one, Gap(x)), 2)
                    = [st |-> 0, t |-> Node(z, Nil, w, ba, Absent)]
  <1> DEFINE one == Node(b, Nil, p, q, Absent)
             ab == Node(a, b, x, p, q)
             ba == Node(b, a, p, q, x)
             st == IF z = Nil THEN 1 ELSE 0
  <1>1. one.kv[0] = b /\ one.childs[0] = p /\ one.childs[1] = q /\ Gap(x).childs[0] = x
    BY NodeFields DEF Gap
  <1>2. WithPair(Hang(one, x), 1, a) = ba
    <2>1. CASE q = Absent
      <3>1. Hang(one, x) = Node(b, Nil, p, x, Absent)
        <4>1. Hang(one, x) = WithSub(one, 1, x)
          BY <1>1, <2>1 DEF Hang
        <4>2. QED
          BY <4>1, NodeWith
      <3>2. WithPair(Node(b, Nil, p, x, Absent), 1, a) = Node(b, a, p, x, Absent)
        BY NodeWith
      <3>3. QED
        BY <2>1, <3>1, <3>2
    <2>2. CASE q # Absent
      <3>1. Hang(one, x) = Node(b, Nil, p, q, x)
        <4>1. Hang(one, x) = WithSub(one, 2, x)
          BY <1>1, <2>2 DEF Hang
        <4>2. QED
          BY <4>1, NodeWith
      <3>2. WithPair(Node(b, Nil, p, q, x), 1, a) = Node(b, a, p, q, x)
        BY NodeWith
      <3>3. QED
        BY <3>1, <3>2
    <2>3. QED
      BY <2>1, <2>2
  <1> HIDE DEF one
  <1>3. qBTree__merge(Node(a, z, Gap(x), one, w), 0) = [st |-> st, t |-> Node(z, Nil, ab, w, Absent)]
    <2> DEFINE t == Node(a, z, Gap(x), one, w)
    <2>1. t.kv[0] = a /\ t.kv[1] = z /\ t.childs[0] = Gap(x) /\ t.childs[1] = one /\ t.childs[2] = w
      BY NodeFields
    <2> HIDE DEF t
    <2>2. qBTree__merge(t, 0) = [st |-> st, t |-> Node(z, Nil, ab, w, Absent)]
      BY <1>1, <2>1 DEF qBTree__merge
    <2>3. QED
      BY <2>2 DEF t
  <1> HIDE DEF ba
  <1>4. qBTree__merge(Node(a, z, one, Gap(x), w), 1) = [st |-> st, t |-> Node(z, Nil, ba, w, Absent)]
    <2> DEFINE t == Node(a, z, one, Gap(x), w)
    <2>1. t.kv[0] = a /\ t.kv[1] = z /\ t.childs[0] = one /\ t.childs[1] = Gap(x) /\ t.childs[2] = w
      BY NodeFields
    <2> HIDE DEF t
    <2>2. qBTree__merge(t, 1) = [st |-> st, t |-> Node(z, Nil, ba, w, Absent)]
      BY <1>1, <1>2, <2>1 DEF qBTree__merge
    <2>3. QED
      BY <2>2 DEF t
  <1>5. qBTree__merge(Node(z, a, w, one, Gap(x)), 2) = [st |-> 0, t |-> Node(z, Nil, w, ba, Absent)]
    <2> DEFINE t == Node(z, a, w, one, Gap(x))
    <2>1. t.kv[1] = a /\ t.childs[1] = one /\ t.childs[2] = Gap(x)
      BY NodeFields
    <2>2. WithSub(WithSub(WithPair(t, 1, Nil), 1, ba), 2, Absent) = Node(z, Nil, w, ba, Absent)
      BY NodeWith
    <2> HIDE DEF t
    <2>3. qBTree__merge(t, 2)
             = [st |-> 0, t |-> WithSub(WithSub(WithPair(t, 1, Nil), 1, ba), 2, Absent)]
      BY <1>1, <1>2, <2>1 DEF qBTree__merge
    <2>4. QED
      BY <2>2, <2>3 DEF t
  <1>6. QED
    BY <1>3, <1>4, <1>5 DEF one, ba

-----------------------------------------------------------------------------
(***************************************************************************)
(* A child that was erased from.                                           *)
(***************************************************************************)
\* Parts of parts of a set of keys.
LEMMA Nested ==
    ASSUME NEW E \in SUBSET Int, NEW a \in Int, NEW z \in Int, a < z
    PROVE  /\ Under(Under(E, z), a) = Under(E, a) /\ Over(Under(E, z), a) = Amid(E, a, z)
           /\ Under(Over(E, a), z) = Amid(E, a, z) /\ Over(Over(E, a), z) = Over(E, z)
           /\ \A c \in Int : /\ Amid(Over(E, a), z, c) = Amid(E, z, c)
                             /\ Amid(Under(E, z), c, a) = Amid(E, c, a)
  <1>1. Under(Under(E, z), a) = Under(E, a)
    <2>1. \A y \in E : y \in Under(Under(E, z), a) <=> y \in Under(E, a)
      BY DEF Under, Over, Amid
    <2> QED BY <2>1 DEF Under, Over, Amid
  <1>2. Over(Under(E, z), a) = Amid(E, a, z)
    <2>1. \A y \in E : y \in Over(Under(E, z), a) <=> y \in Amid(E, a, z)
      BY DEF Under, Over, Amid
    <2> QED BY <2>1 DEF Under, Over, Amid
  <1>3. Under(Over(E, a), z) = Amid(E, a, z)
    <2>1. \A y \in E : y \in Under(Over(E, a), z) <=> y \in Amid(E, a, z)
      BY DEF Under, Over, Amid
    <2> QED BY <2>1 DEF Under, Over, Amid
  <1>4. Over(Over(E, a), z) = Over(E, z)
    <2>1. \A y \in E : y \in Over(Over(E, a), z) <=> y \in Over(E, z)
      BY DEF Under, Over, Amid
    <2> QED BY <2>1 DEF Under, Over, Amid
  <1>5. ASSUME NEW c \in Int PROVE Amid(Over(E, a), z, c) = Amid(E, z, c)
    <2>1. \A y \in E : y \in Amid(Over(E, a), z, c) <=> y \in Amid(E, z, c)
      BY DEF Under, Over, Amid
    <2> QED BY <2>1 DEF Under, Over, Amid
  <1>6. ASSUME NEW c \in Int PROVE Amid(Under(E, z), c, a) = Amid(E, c, a)
    <2>1. \A y \in E : y \in Amid(Under(E, z), c, a) <=> y \in Amid(E, c, a)
      BY DEF Under, Over, Amid
    <2> QED BY <2>1 DEF Under, Over, Amid
  <1>7. QED
    BY <1>1, <1>2, <1>3, <1>4, <1>5, <1>6

\* An emptied tree is put right by a key and a tree on its right that is one higher:
\* a tree with one pair is made one with it.
LEMMA FillRight ==
    ASSUME NEW E \in SUBSET BTreeKeys, NEW a \in E, NEW g, NEW x, NEW t, NEW b, NEW p, NEW q,
           Tree(x, Under(E, a), g - 1), Tree(t, Over(E, a), g),
           IsOne(t, Over(E, a), g, b, p, q)
    PROVE  Tree(Node(a, b, x, p, q), E, g) /\ (q = Absent => x = Absent)
  <1>0. g \in Nat
    BY Split
  <1>1. E \subseteq Int /\ a \in Int /\ (g - 1) + 1 = g
    BY <1>0, BTreeAssumption
  <1>2. b \in E /\ b \in Int /\ a < b
    BY <1>1 DEF IsOne, Over
  <1>3. Tree(p, Amid(E, a, b), g - 1) /\ Tree(q, Over(E, b), g - 1)
    BY <1>1, <1>2, Nested DEF IsOne
  <1>4. Tree(Node(a, b, x, p, q), E, (g - 1) + 1)
    BY <1>2, <1>3, JoinTwo
  <1>5. q = Absent => x = Absent
    BY <1>3, Split
  <1>6. QED
    BY <1>1, <1>4, <1>5

\* One with two pairs gives one up.
LEMMA FixRight ==
    ASSUME NEW E \in SUBSET BTreeKeys, NEW a \in E, NEW g, NEW x, NEW t,
           NEW b, NEW c, NEW p, NEW q, NEW s,
           Tree(x, Under(E, a), g - 1), Tree(t, Over(E, a), g),
           IsTwo(t, Over(E, a), g, b, c, p, q, s)
    PROVE  /\ b \in E /\ a < b
           /\ Tree(Node(a, Nil, x, p, Absent), Under(E, b), g)
           /\ Tree(Node(c, Nil, q, s, Absent), Over(E, b), g)
  <1>0. g \in Nat
    BY Split
  <1>1. E \subseteq Int /\ a \in Int /\ (g - 1) + 1 = g
    BY <1>0, BTreeAssumption
  <1>2. /\ b \in E /\ b \in Int /\ a < b /\ c \in E /\ c \in Int /\ b < c /\ a < c
    BY <1>1 DEF IsTwo, Over
  <1>3. /\ Tree(p, Under(Over(E, a), b), g - 1) /\ Tree(q, Amid(Over(E, a), b, c), g - 1)
        /\ Tree(s, Over(Over(E, a), c), g - 1)
    BY DEF IsTwo
  <1>4. /\ Under(Over(E, a), b) = Over(Under(E, b), a)
        /\ Under(Under(E, b), a) = Under(E, a)
    BY <1>1, <1>2, Nested
  <1>5. Amid(Over(E, a), b, c) = Under(Over(E, b), c)
    BY <1>1, <1>2, Nested
  <1>6. Over(Over(E, a), c) = Over(Over(E, b), c)
    BY <1>1, <1>2, Nested
  <1>7. /\ a \in Under(E, b) /\ c \in Over(E, b)
        /\ Under(E, b) \in SUBSET BTreeKeys /\ Over(E, b) \in SUBSET BTreeKeys
    BY <1>2 DEF Under, Over
  <1>8. Tree(Node(a, Nil, x, p, Absent), Under(E, b), (g - 1) + 1)
    BY <1>3, <1>4, <1>7, JoinOne
  <1>9. Tree(Node(c, Nil, q, s, Absent), Over(E, b), (g - 1) + 1)
    BY <1>3, <1>5, <1>6, <1>7, JoinOne
  <1>10. QED
    BY <1>1, <1>2, <1>8, <1>9

\* And by a key and a tree on its left, in the same two ways.
LEMMA FillLeft ==
    ASSUME NEW E \in SUBSET BTreeKeys, NEW a \in E, NEW g, NEW x, NEW t, NEW b, NEW p, NEW q,
           Tree(x, Over(E, a), g - 1), Tree(t, Under(E, a), g),
           IsOne(t, Under(E, a), g, b, p, q)
    PROVE  Tree(Node(b, a, p, q, x), E, g) /\ (q = Absent => x = Absent)
  <1>0. g \in Nat
    BY Split
  <1>1. E \subseteq Int /\ a \in Int /\ (g - 1) + 1 = g
    BY <1>0, BTreeAssumption
  <1>2. b \in E /\ b \in Int /\ b < a
    BY <1>1 DEF IsOne, Under
  <1>3. Tree(p, Under(E, b), g - 1) /\ Tree(q, Amid(E, b, a), g - 1)
    BY <1>1, <1>2, Nested DEF IsOne
  <1>4. Tree(Node(b, a, p, q, x), E, (g - 1) + 1)
    BY <1>2, <1>3, JoinTwo
  <1>5. q = Absent => x = Absent
    BY <1>3, Split
  <1>6. QED
    BY <1>1, <1>4, <1>5

\* The second of them.
LEMMA FixLeft ==
    ASSUME NEW E \in SUBSET BTreeKeys, NEW a \in E, NEW g, NEW x, NEW t,
           NEW b, NEW c, NEW p, NEW q, NEW s,
           Tree(x, Over(E, a), g - 1), Tree(t, Under(E, a), g),
           IsTwo(t, Under(E, a), g, b, c, p, q, s)
    PROVE  /\ c \in E /\ c < a
           /\ Tree(Node(b, Nil, p, q, Absent), Under(E, c), g)
           /\ Tree(Node(a, Nil, s, x, Absent), Over(E, c), g)
  <1>0. g \in Nat
    BY Split
  <1>1. E \subseteq Int /\ a \in Int /\ (g - 1) + 1 = g
    BY <1>0, BTreeAssumption
  <1>2. /\ b \in E /\ b \in Int /\ b < a /\ c \in E /\ c \in Int /\ b < c /\ c < a
    BY <1>1 DEF IsTwo, Under
  <1>3. /\ Tree(p, Under(Under(E, a), b), g - 1) /\ Tree(q, Amid(Under(E, a), b, c), g - 1)
        /\ Tree(s, Over(Under(E, a), c), g - 1)
    BY DEF IsTwo
  <1>4. /\ Over(Under(E, a), c) = Under(Over(E, c), a)
        /\ Over(Over(E, c), a) = Over(E, a)
    BY <1>1, <1>2, Nested
  <1>5. Amid(Under(E, a), b, c) = Over(Under(E, c), b)
    BY <1>1, <1>2, Nested
  <1>6. Under(Under(E, a), b) = Under(Under(E, c), b)
    BY <1>1, <1>2, Nested
  <1>7. /\ b \in Under(E, c) /\ a \in Over(E, c)
        /\ Under(E, c) \in SUBSET BTreeKeys /\ Over(E, c) \in SUBSET BTreeKeys
    BY <1>2 DEF Under, Over
  <1>8. Tree(Node(b, Nil, p, q, Absent), Under(E, c), (g - 1) + 1)
    BY <1>3, <1>5, <1>6, <1>7, JoinOne
  <1>9. Tree(Node(a, Nil, s, x, Absent), Over(E, c), (g - 1) + 1)
    BY <1>3, <1>4, <1>7, JoinOne
  <1>10. QED
    BY <1>1, <1>2, <1>8, <1>9

\* When a pair is rotated in from the right.
LEMMA RotatesLeft ==
    ASSUME NEW a, NEW b, NEW c, NEW z, NEW p, NEW q, NEW s, NEW x, NEW w, NEW sides,
           b # Nil, c # Nil, "left" \in sides
    PROVE  LET full == Node(b, c, p, q, s)
               ax == Node(a, Nil, x, p, Absent)
               cq == Node(c, Nil, q, s, Absent)
           IN /\ Rebalanced(Node(a, z, Gap(x), full, w), 0, sides)
                    = [st |-> 0, t |-> Node(b, z, ax, cq, w)]
              /\ Rebalanced(Node(z, a, w, Gap(x), full), 1, sides)
                    = [st |-> 0, t |-> Node(z, b, w, ax, cq)]
  <1> DEFINE full == Node(b, c, p, q, s)
             u == Node(a, z, Gap(x), full, w)
             v == Node(z, a, w, Gap(x), full)
  <1>1. full # Absent /\ full.kv[1] # Nil /\ u.childs[1] = full /\ v.childs[2] = full
    BY NodeFields
  <1> HIDE DEF full, u, v
  <1>2. CanRotateLeft(u, 0) /\ CanRotateLeft(v, 1)
    <2>1. 0 + 1 = 1 /\ 1 + 1 = 2 /\ 0 # 2 /\ 1 # 2
      OBVIOUS
    <2>2. QED
      BY <1>1, <2>1 DEF CanRotateLeft
  <1>3. /\ Rebalanced(u, 0, sides) = [st |-> 0, t |-> qBTree__rotate_left(u, 0)]
        /\ Rebalanced(v, 1, sides) = [st |-> 0, t |-> qBTree__rotate_left(v, 1)]
    BY <1>2 DEF Rebalanced
  <1>4. QED
    BY <1>3, Rotated DEF full, u, v

\* When one is rotated in from the left.
LEMMA RotatesRight ==
    ASSUME NEW a, NEW b, NEW c, NEW z, NEW p, NEW q, NEW s, NEW x, NEW w, NEW sides,
           b # Nil, c # Nil, "right" \in sides
    PROVE  LET full == Node(b, c, p, q, s)
               bp == Node(b, Nil, p, q, Absent)
               sx == Node(a, Nil, s, x, Absent)
           IN /\ w = Absent \/ w.kv[1] = Nil =>
                    Rebalanced(Node(a, z, full, Gap(x), w), 1, sides)
                       = [st |-> 0, t |-> Node(c, z, bp, sx, w)]
              /\ Rebalanced(Node(z, a, w, full, Gap(x)), 2, sides)
                    = [st |-> 0, t |-> Node(z, c, w, bp, sx)]
  <1> DEFINE full == Node(b, c, p, q, s)
             u == Node(a, z, full, Gap(x), w)
             v == Node(z, a, w, full, Gap(x))
  <1>1. /\ full # Absent /\ full.kv[1] # Nil
        /\ u.childs[0] = full /\ u.childs[2] = w /\ v.childs[1] = full
    BY NodeFields
  <1> HIDE DEF full, u, v
  <1>2. /\ CanRotateRight(u, 1) /\ CanRotateRight(v, 2) /\ ~CanRotateLeft(v, 2)
        /\ w = Absent \/ w.kv[1] = Nil => ~CanRotateLeft(u, 1)
    <2>1. 1 + 1 = 2 /\ 1 # 0 /\ 2 # 0 /\ 1 - 1 = 0 /\ 2 - 1 = 1
      OBVIOUS
    <2>2. QED
      BY <1>1, <2>1 DEF CanRotateLeft, CanRotateRight
  <1>3. /\ w = Absent \/ w.kv[1] = Nil =>
              Rebalanced(u, 1, sides) = [st |-> 0, t |-> qBTree__rotate_right(u, 1)]
        /\ Rebalanced(v, 2, sides) = [st |-> 0, t |-> qBTree__rotate_right(v, 2)]
    BY <1>2 DEF Rebalanced
  <1>4. QED
    BY <1>3, Rotated DEF full, u, v

\* When an emptied node is merged with the one on its left.
LEMMA MergesOther ==
    ASSUME NEW a, NEW b, NEW z, NEW p, NEW q, NEW x, NEW w, NEW sides,
           b # Nil, q = Absent => x = Absent
    PROVE  LET one == Node(b, Nil, p, q, Absent)
               ba == Node(b, a, p, q, x)
           IN /\ w = Absent \/ w.kv[1] = Nil =>
                    Rebalanced(Node(a, z, one, Gap(x), w), 1, sides)
                       = [st |-> IF z = Nil THEN 1 ELSE 0, t |-> Node(z, Nil, ba, w, Absent)]
              /\ Rebalanced(Node(z, a, w, one, Gap(x)), 2, sides)
                    = [st |-> 0, t |-> Node(z, Nil, w, ba, Absent)]
  <1> DEFINE one == Node(b, Nil, p, q, Absent)
             u == Node(a, z, one, Gap(x), w)
             v == Node(z, a, w, one, Gap(x))
  <1>1. one.kv[1] = Nil /\ u.childs[0] = one /\ u.childs[2] = w /\ v.childs[1] = one
    BY NodeFields
  <1> HIDE DEF one, u, v
  <1>2. /\ ~CanRotateRight(u, 1) /\ ~CanRotateRight(v, 2) /\ ~CanRotateLeft(v, 2)
        /\ w = Absent \/ w.kv[1] = Nil => ~CanRotateLeft(u, 1)
    <2>1. 1 + 1 = 2 /\ 1 # 0 /\ 2 # 0 /\ 1 - 1 = 0 /\ 2 - 1 = 1
      OBVIOUS
    <2>2. QED
      BY <1>1, <2>1 DEF CanRotateLeft, CanRotateRight
  <1>3. /\ w = Absent \/ w.kv[1] = Nil => Rebalanced(u, 1, sides) = qBTree__merge(u, 1)
        /\ Rebalanced(v, 2, sides) = qBTree__merge(v, 2)
    BY <1>2 DEF Rebalanced
  <1>4. QED
    BY <1>3, Merged DEF one, u, v

\* When an emptied first child is merged.
LEMMA MergesFirst ==
    ASSUME NEW a, NEW b, NEW z, NEW p, NEW q, NEW x, NEW w, NEW sides,
           q = Absent => x = Absent
    PROVE  Rebalanced(Node(a, z, Gap(x), Node(b, Nil, p, q, Absent), w), 0, sides)
              = [st |-> IF z = Nil THEN 1 ELSE 0,
                 t |-> Node(z, Nil, Node(a, b, x, p, q), w, Absent)]
  <1> DEFINE one == Node(b, Nil, p, q, Absent)
             u == Node(a, z, Gap(x), one, w)
  <1>1. one.kv[1] = Nil /\ u.childs[1] = one
    BY NodeFields
  <1> HIDE DEF one, u
  <1>2. ~CanRotateLeft(u, 0) /\ ~CanRotateRight(u, 0)
    <2>1. 0 + 1 = 1
      OBVIOUS
    <2>2. QED
      BY <1>1, <2>1 DEF CanRotateLeft, CanRotateRight
  <1>3. Rebalanced(u, 0, sides) = qBTree__merge(u, 0)
    BY <1>2 DEF Rebalanced
  <1>4. QED
    BY <1>3, Merged DEF one, u

\* What an erasure leaves of a subtree: a tree of the keys D, as high as it was, or one
\* lower, hanging on a node without a pair.
Emptied(t, D, h) == \E c : t = Gap(c) /\ Tree(c, D, h - 1)
Erased(del, D, h) ==
    /\ h \in Nat /\ h # 0
    /\ \/ del.st = 0 /\ Tree(del.t, D, h)
       \/ del.st = 1 /\ Emptied(del.t, D, h)

\* The same in a record made up of the two.
LEMMA ErasedFields ==
    ASSUME NEW t, NEW D, NEW h \in Nat, h # 0
    PROVE  /\ Tree(t, D, h) => Erased([st |-> 0, t |-> t], D, h)
           /\ Emptied(t, D, h) => Erased([st |-> 1, t |-> t], D, h)
  BY DEF Erased

\* A node with one pair, of whose first child something was erased, is put right.
LEMMA RebalanceOne0 ==
    ASSUME NEW E \in SUBSET BTreeKeys, NEW a \in E, NEW g, NEW l, NEW r, NEW del, NEW sides,
           "left" \in sides, Erased(del, Under(E, a), g), Tree(r, Over(E, a), g)
    PROVE  Erased(Rebalance(Node(a, Nil, l, r, Absent), 0, del, sides), E, g + 1)
  <1> DEFINE t == Node(a, Nil, l, r, Absent)
             res == Rebalance(t, 0, del, sides)
  <1>1. g \in Nat /\ g # 0 /\ g + 1 \in Nat /\ g + 1 # 0 /\ (g + 1) - 1 = g
    BY DEF Erased
  <1>2. \A d : WithSub(t, 0, d) = Node(a, Nil, d, r, Absent)
    BY NodeWith
  <1>3. CASE del.st = 0 /\ Tree(del.t, Under(E, a), g)
    <2>1. res = [st |-> 0, t |-> Node(a, Nil, del.t, r, Absent)]
      <3> HIDE DEF t
      <3> QED BY <1>2, <1>3 DEF Rebalance
    <2>2. Tree(Node(a, Nil, del.t, r, Absent), E, g + 1)
      BY <1>3, JoinOne
    <2> HIDE DEF res
    <2>3. QED
      BY <1>1, <2>1, <2>2, ErasedFields DEF res
  <1>4. CASE del.st = 1 /\ Emptied(del.t, Under(E, a), g)
    <2>1. PICK x : del.t = Gap(x) /\ Tree(x, Under(E, a), g - 1)
      BY <1>4 DEF Emptied
    <2>2. res = Rebalanced(Node(a, Nil, Gap(x), r, Absent), 0, sides)
      <3> HIDE DEF t
      <3> QED BY <1>2, <1>4, <2>1 DEF Rebalance
    <2> HIDE DEF res, t
    <2>3. r # Absent /\ Nil \notin Over(E, a)
      BY <1>1, Split, BTreeAssumption DEF Over
    <2>4. CASE \E b, p, q : IsOne(r, Over(E, a), g, b, p, q)
      <3>1. PICK b, p, q : IsOne(r, Over(E, a), g, b, p, q)
        BY <2>4
      <3>2. Tree(Node(a, b, x, p, q), E, g) /\ (q = Absent => x = Absent)
        BY <2>1, <3>1, FillRight
      <3>3. r = Node(b, Nil, p, q, Absent)
        BY <3>1 DEF IsOne
      <3>4. res = [st |-> 1, t |-> Gap(Node(a, b, x, p, q))]
        BY <2>2, <3>2, <3>3, MergesFirst DEF Gap
      <3>5. Emptied(Gap(Node(a, b, x, p, q)), E, g + 1)
        BY <1>1, <3>2 DEF Emptied
      <3>6. QED
        BY <1>1, <3>4, <3>5, ErasedFields DEF res, t
    <2>5. CASE \E b, c, p, q, s : IsTwo(r, Over(E, a), g, b, c, p, q, s)
      <3>1. PICK b, c, p, q, s : IsTwo(r, Over(E, a), g, b, c, p, q, s)
        BY <2>5
      <3>2. /\ b \in E /\ a < b
            /\ Tree(Node(a, Nil, x, p, Absent), Under(E, b), g)
            /\ Tree(Node(c, Nil, q, s, Absent), Over(E, b), g)
        BY <2>1, <3>1, FixRight
      <3>3. r = Node(b, c, p, q, s) /\ b # Nil /\ c # Nil
        BY <2>3, <3>1 DEF IsTwo
      <3> DEFINE n == Node(b, Nil, Node(a, Nil, x, p, Absent), Node(c, Nil, q, s, Absent), Absent)
      <3>4. res = [st |-> 0, t |-> n]
        BY <2>2, <3>3, RotatesLeft
      <3>5. Tree(n, E, g + 1)
        BY <3>2, JoinOne
      <3> HIDE DEF n
      <3>6. QED
        BY <1>1, <3>4, <3>5, ErasedFields DEF res, t
    <2>6. QED
      BY <2>3, <2>4, <2>5, Split
  <1>5. QED
    BY <1>3, <1>4 DEF Erased

\* Or of whose second child.
LEMMA RebalanceOne1 ==
    ASSUME NEW E \in SUBSET BTreeKeys, NEW a \in E, NEW g, NEW l, NEW r, NEW del, NEW sides,
           "right" \in sides, Erased(del, Over(E, a), g), Tree(l, Under(E, a), g)
    PROVE  Erased(Rebalance(Node(a, Nil, l, r, Absent), 1, del, sides), E, g + 1)
  <1> DEFINE t == Node(a, Nil, l, r, Absent)
             res == Rebalance(t, 1, del, sides)
  <1>1. g \in Nat /\ g # 0 /\ g + 1 \in Nat /\ g + 1 # 0 /\ (g + 1) - 1 = g
    BY DEF Erased
  <1>2. \A d : WithSub(t, 1, d) = Node(a, Nil, l, d, Absent)
    BY NodeWith
  <1>3. CASE del.st = 0 /\ Tree(del.t, Over(E, a), g)
    <2>1. res = [st |-> 0, t |-> Node(a, Nil, l, del.t, Absent)]
      <3> HIDE DEF t
      <3> QED BY <1>2, <1>3 DEF Rebalance
    <2>2. Tree(Node(a, Nil, l, del.t, Absent), E, g + 1)
      BY <1>3, JoinOne
    <2> HIDE DEF res
    <2>3. QED
      BY <1>1, <2>1, <2>2, ErasedFields DEF res
  <1>4. CASE del.st = 1 /\ Emptied(del.t, Over(E, a), g)
    <2>1. PICK x : del.t = Gap(x) /\ Tree(x, Over(E, a), g - 1)
      BY <1>4 DEF Emptied
    <2>2. res = Rebalanced(Node(a, Nil, l, Gap(x), Absent), 1, sides)
      <3> HIDE DEF t
      <3> QED BY <1>2, <1>4, <2>1 DEF Rebalance
    <2> HIDE DEF res, t
    <2>3. l # Absent /\ Nil \notin Under(E, a)
      BY <1>1, Split, BTreeAssumption DEF Under
    <2>4. CASE \E b, p, q : IsOne(l, Under(E, a), g, b, p, q)
      <3>1. PICK b, p, q : IsOne(l, Under(E, a), g, b, p, q)
        BY <2>4
      <3>2. Tree(Node(b, a, p, q, x), E, g) /\ (q = Absent => x = Absent)
        BY <2>1, <3>1, FillLeft
      <3>3. l = Node(b, Nil, p, q, Absent) /\ b # Nil
        BY <2>3, <3>1 DEF IsOne
      <3>4. res = [st |-> 1, t |-> Gap(Node(b, a, p, q, x))]
        BY <2>2, <3>2, <3>3, MergesOther DEF Gap
      <3>5. Emptied(Gap(Node(b, a, p, q, x)), E, g + 1)
        BY <1>1, <3>2 DEF Emptied
      <3>6. QED
        BY <1>1, <3>4, <3>5, ErasedFields DEF res, t
    <2>5. CASE \E b, c, p, q, s : IsTwo(l, Under(E, a), g, b, c, p, q, s)
      <3>1. PICK b, c, p, q, s : IsTwo(l, Under(E, a), g, b, c, p, q, s)
        BY <2>5
      <3>2. /\ c \in E /\ c < a
            /\ Tree(Node(b, Nil, p, q, Absent), Under(E, c), g)
            /\ Tree(Node(a, Nil, s, x, Absent), Over(E, c), g)
        BY <2>1, <3>1, FixLeft
      <3>3. l = Node(b, c, p, q, s) /\ b # Nil /\ c # Nil
        BY <2>3, <3>1 DEF IsTwo
      <3> DEFINE n == Node(c, Nil, Node(b, Nil, p, q, Absent), Node(a, Nil, s, x, Absent), Absent)
      <3>4. res = [st |-> 0, t |-> n]
        BY <2>2, <3>3, RotatesRight
      <3>5. Tree(n, E, g + 1)
        BY <3>2, JoinOne
      <3> HIDE DEF n
      <3>6. QED
        BY <1>1, <3>4, <3>5, ErasedFields DEF res, t
    <2>6. QED
      BY <2>3, <2>4, <2>5, Split
  <1>5. QED
    BY <1>3, <1>4 DEF Erased

\* A node with two pairs, of whose first child something was erased, is put right.
LEMMA RebalanceTwo0 ==
    ASSUME NEW E \in SUBSET BTreeKeys, NEW a \in E, NEW z \in E, a < z,
           NEW g, NEW l, NEW m, NEW r, NEW del, NEW sides, "left" \in sides,
           Erased(del, Under(E, a), g), Tree(m, Amid(E, a, z), g), Tree(r, Over(E, z), g)
    PROVE  Erased(Rebalance(Node(a, z, l, m, r), 0, del, sides), E, g + 1)
  <1> DEFINE t == Node(a, z, l, m, r)
             res == Rebalance(t, 0, del, sides)
             W == Under(E, z)
  <1>1. /\ g \in Nat /\ g # 0 /\ g + 1 \in Nat /\ g + 1 # 0 /\ (g + 1) - 1 = g
        /\ E \in SUBSET Int /\ a \in Int /\ z \in Int /\ Nil \notin E
    <2>1. g \in Nat /\ g # 0
      BY DEF Erased
    <2>2. E \in SUBSET Int /\ Nil \notin E
      BY BTreeAssumption
    <2>3. QED
      BY <2>1, <2>2
  <1>2. \A d : WithSub(t, 0, d) = Node(a, z, d, m, r)
    BY NodeWith
  <1>3. /\ W \in SUBSET BTreeKeys /\ a \in W
        /\ Under(W, a) = Under(E, a) /\ Over(W, a) = Amid(E, a, z)
    <2>1. W \in SUBSET BTreeKeys /\ a \in W
      BY <1>1 DEF Under, Over
    <2>2. QED
      BY <1>1, <2>1, Nested
  <1>4. CASE del.st = 0 /\ Tree(del.t, Under(E, a), g)
    <2>1. res = [st |-> 0, t |-> Node(a, z, del.t, m, r)]
      <3> HIDE DEF t
      <3> QED BY <1>2, <1>4 DEF Rebalance
    <2>2. Tree(Node(a, z, del.t, m, r), E, g + 1)
      BY <1>4, JoinTwo
    <2> HIDE DEF res
    <2>3. QED
      BY <1>1, <2>1, <2>2, ErasedFields DEF res
  <1>5. CASE del.st = 1 /\ Emptied(del.t, Under(E, a), g)
    <2>1. PICK x : del.t = Gap(x) /\ Tree(x, Under(E, a), g - 1)
      BY <1>5 DEF Emptied
    <2>2. res = Rebalanced(Node(a, z, Gap(x), m, r), 0, sides)
      <3> HIDE DEF t
      <3> QED BY <1>2, <1>5, <2>1 DEF Rebalance
    <2> HIDE DEF res, t
    <2>3. m # Absent /\ Tree(m, Over(W, a), g) /\ Tree(x, Under(W, a), g - 1)
      BY <1>1, <1>3, <2>1, Split
    <2>4. CASE \E b, p, q : IsOne(m, Over(W, a), g, b, p, q)
      <3>1. PICK b, p, q : IsOne(m, Over(W, a), g, b, p, q)
        BY <2>4
      <3>2. Tree(Node(a, b, x, p, q), W, g) /\ (q = Absent => x = Absent)
        <4> HIDE DEF W
        <4> QED BY <1>3, <2>3, <3>1, FillRight
      <3>3. m = Node(b, Nil, p, q, Absent) /\ z # Nil
        BY <1>1, <3>1 DEF IsOne
      <3> DEFINE n == Node(z, Nil, Node(a, b, x, p, q), r, Absent)
      <3>4. res = [st |-> 0, t |-> n]
        BY <2>2, <3>2, <3>3, MergesFirst
      <3>5. Tree(n, E, g + 1)
        BY <3>2, JoinOne
      <3> HIDE DEF n
      <3>6. QED
        BY <1>1, <3>4, <3>5, ErasedFields DEF res, t
    <2>5. CASE \E b, c, p, q, s : IsTwo(m, Over(W, a), g, b, c, p, q, s)
      <3>1. PICK b, c, p, q, s : IsTwo(m, Over(W, a), g, b, c, p, q, s)
        BY <2>5
      <3>2. /\ b \in W /\ a < b
            /\ Tree(Node(a, Nil, x, p, Absent), Under(W, b), g)
            /\ Tree(Node(c, Nil, q, s, Absent), Over(W, b), g)
        <4> HIDE DEF W
        <4> QED BY <1>3, <2>3, <3>1, FixRight
      <3>3. m = Node(b, c, p, q, s) /\ b # Nil /\ c # Nil
        BY <1>1, <3>1 DEF IsTwo, Over, Under
      <3>4. b \in E /\ b \in Int /\ b < z
        BY <1>1, <3>2 DEF Under
      <3>5. Under(W, b) = Under(E, b) /\ Over(W, b) = Amid(E, b, z)
        BY <1>1, <3>4, Nested
      <3> DEFINE n == Node(b, z, Node(a, Nil, x, p, Absent), Node(c, Nil, q, s, Absent), r)
      <3>6. res = [st |-> 0, t |-> n]
        BY <2>2, <3>3, RotatesLeft
      <3>7. Tree(n, E, g + 1)
        BY <3>2, <3>4, <3>5, JoinTwo
      <3> HIDE DEF n
      <3>8. QED
        BY <1>1, <3>6, <3>7, ErasedFields DEF res, t
    <2>6. QED
      BY <2>3, <2>4, <2>5, Split
  <1>6. QED
    BY <1>4, <1>5 DEF Erased

\* Or of whose middle one.
LEMMA RebalanceTwo1 ==
    ASSUME NEW E \in SUBSET BTreeKeys, NEW a \in E, NEW z \in E, a < z,
           NEW g, NEW l, NEW m, NEW r, NEW del, NEW sides, "left" \in sides, "right" \in sides,
           Tree(l, Under(E, a), g), Erased(del, Amid(E, a, z), g), Tree(r, Over(E, z), g)
    PROVE  Erased(Rebalance(Node(a, z, l, m, r), 1, del, sides), E, g + 1)
  <1> DEFINE t == Node(a, z, l, m, r)
             res == Rebalance(t, 1, del, sides)
             W == Under(E, z)
  <1>1. /\ g \in Nat /\ g # 0 /\ g + 1 \in Nat /\ g + 1 # 0 /\ (g + 1) - 1 = g
        /\ E \in SUBSET Int /\ a \in Int /\ z \in Int /\ Nil \notin E
    <2>1. g \in Nat /\ g # 0
      BY DEF Erased
    <2>2. E \in SUBSET Int /\ Nil \notin E
      BY BTreeAssumption
    <2>3. QED
      BY <2>1, <2>2
  <1>2. \A d : WithSub(t, 1, d) = Node(a, z, l, d, r)
    BY NodeWith
  <1>3. /\ W \in SUBSET BTreeKeys /\ a \in W
        /\ Under(W, a) = Under(E, a) /\ Over(W, a) = Amid(E, a, z)
    <2>1. W \in SUBSET BTreeKeys /\ a \in W
      BY <1>1 DEF Under, Over
    <2>2. QED
      BY <1>1, <2>1, Nested
  <1>4. CASE del.st = 0 /\ Tree(del.t, Amid(E, a, z), g)
    <2>1. res = [st |-> 0, t |-> Node(a, z, l, del.t, r)]
      <3> HIDE DEF t
      <3> QED BY <1>2, <1>4 DEF Rebalance
    <2>2. Tree(Node(a, z, l, del.t, r), E, g + 1)
      BY <1>4, JoinTwo
    <2> HIDE DEF res
    <2>3. QED
      BY <1>1, <2>1, <2>2, ErasedFields DEF res
  <1>5. CASE del.st = 1 /\ Emptied(del.t, Amid(E, a, z), g)
    <2>1. PICK x : del.t = Gap(x) /\ Tree(x, Amid(E, a, z), g - 1)
      BY <1>5 DEF Emptied
    <2>2. res = Rebalanced(Node(a, z, l, Gap(x), r), 1, sides)
      <3> HIDE DEF t
      <3> QED BY <1>2, <1>5, <2>1 DEF Rebalance
    <2> HIDE DEF res, t
    <2>3. l # Absent /\ r # Absent /\ Tree(l, Under(W, a), g) /\ Tree(x, Over(W, a), g - 1)
      BY <1>1, <1>3, <2>1, Split
    <2>4. CASE \E b, c, p, q, s : IsTwo(r, Over(E, z), g, b, c, p, q, s)
      <3> DEFINE V == Over(E, a)
      <3>1. /\ V \in SUBSET BTreeKeys /\ z \in V
            /\ Under(V, z) = Amid(E, a, z) /\ Over(V, z) = Over(E, z)
        <4>1. V \in SUBSET BTreeKeys /\ z \in V
          BY <1>1 DEF Over
        <4>2. QED
          BY <1>1, <4>1, Nested
      <3>2. PICK b, c, p, q, s : IsTwo(r, Over(V, z), g, b, c, p, q, s)
        BY <2>4, <3>1
      <3>3. /\ b \in V /\ z < b
            /\ Tree(Node(z, Nil, x, p, Absent), Under(V, b), g)
            /\ Tree(Node(c, Nil, q, s, Absent), Over(V, b), g)
        <4>1. Tree(x, Under(V, z), g - 1) /\ Tree(r, Over(V, z), g)
          BY <2>1, <3>1
        <4> HIDE DEF V
        <4> QED BY <3>1, <3>2, <4>1, FixRight
      <3>4. r = Node(b, c, p, q, s) /\ b # Nil /\ c # Nil
        BY <1>1, <3>1, <3>2 DEF IsTwo, Over
      <3>5. b \in E /\ b \in Int /\ a < b
        BY <1>1, <3>3 DEF Over
      <3>6. Under(V, b) = Amid(E, a, b) /\ Over(V, b) = Over(E, b)
        BY <1>1, <3>5, Nested
      <3> DEFINE n == Node(a, b, l, Node(z, Nil, x, p, Absent), Node(c, Nil, q, s, Absent))
      <3>7. res = [st |-> 0, t |-> n]
        BY <2>2, <3>4, RotatesLeft
      <3>8. Tree(n, E, g + 1)
        BY <3>3, <3>5, <3>6, JoinTwo
      <3> HIDE DEF n
      <3>9. QED
        BY <1>1, <3>7, <3>8, ErasedFields DEF res, t
    <2>5. CASE \E b, p, q : IsOne(r, Over(E, z), g, b, p, q)
      <3>1. r.kv[1] = Nil
        BY <2>5, NodeFields DEF IsOne
      <3>2. CASE \E b, p, q : IsOne(l, Under(W, a), g, b, p, q)
        <4>1. PICK b, p, q : IsOne(l, Under(W, a), g, b, p, q)
          BY <3>2
        <4>2. Tree(Node(b, a, p, q, x), W, g) /\ (q = Absent => x = Absent)
          <5> HIDE DEF W
          <5> QED BY <1>3, <2>3, <4>1, FillLeft
        <4>3. l = Node(b, Nil, p, q, Absent) /\ b # Nil /\ z # Nil
          BY <1>1, <4>1 DEF IsOne, Over, Under
        <4> DEFINE n == Node(z, Nil, Node(b, a, p, q, x), r, Absent)
        <4>4. res = [st |-> 0, t |-> n]
          BY <2>2, <3>1, <4>2, <4>3, MergesOther
        <4>5. Tree(n, E, g + 1)
          BY <4>2, JoinOne
        <4> HIDE DEF n
        <4>6. QED
          BY <1>1, <4>4, <4>5, ErasedFields DEF res, t
      <3>3. CASE \E b, c, p, q, s : IsTwo(l, Under(W, a), g, b, c, p, q, s)
        <4>1. PICK b, c, p, q, s : IsTwo(l, Under(W, a), g, b, c, p, q, s)
          BY <3>3
        <4>2. /\ c \in W /\ c < a
              /\ Tree(Node(b, Nil, p, q, Absent), Under(W, c), g)
              /\ Tree(Node(a, Nil, s, x, Absent), Over(W, c), g)
          <5> HIDE DEF W
          <5> QED BY <1>3, <2>3, <4>1, FixLeft
        <4>3. l = Node(b, c, p, q, s) /\ b # Nil /\ c # Nil
          BY <1>1, <4>1 DEF IsTwo, Over, Under
        <4>4. c \in E /\ c \in Int /\ c < z
          BY <1>1, <4>2 DEF Under
        <4>5. Under(W, c) = Under(E, c) /\ Over(W, c) = Amid(E, c, z)
          BY <1>1, <4>4, Nested
        <4> DEFINE n == Node(c, z, Node(b, Nil, p, q, Absent), Node(a, Nil, s, x, Absent), r)
        <4>6. res = [st |-> 0, t |-> n]
          BY <2>2, <3>1, <4>3, RotatesRight
        <4>7. Tree(n, E, g + 1)
          BY <4>2, <4>4, <4>5, JoinTwo
        <4> HIDE DEF n
        <4>8. QED
          BY <1>1, <4>6, <4>7, ErasedFields DEF res, t
      <3>4. QED
        BY <2>3, <3>2, <3>3, Split
    <2>6. QED
      BY <2>3, <2>4, <2>5, Split
  <1>6. QED
    BY <1>4, <1>5 DEF Erased

\* Or of whose last child.
LEMMA RebalanceTwo2 ==
    ASSUME NEW E \in SUBSET BTreeKeys, NEW a \in E, NEW z \in E, a < z,
           NEW g, NEW l, NEW m, NEW r, NEW del, NEW sides, "right" \in sides,
           Tree(l, Under(E, a), g), Tree(m, Amid(E, a, z), g), Erased(del, Over(E, z), g)
    PROVE  Erased(Rebalance(Node(a, z, l, m, r), 2, del, sides), E, g + 1)
  <1> DEFINE t == Node(a, z, l, m, r)
             res == Rebalance(t, 2, del, sides)
             W == Over(E, a)
  <1>1. /\ g \in Nat /\ g # 0 /\ g + 1 \in Nat /\ g + 1 # 0 /\ (g + 1) - 1 = g
        /\ E \in SUBSET Int /\ a \in Int /\ z \in Int /\ Nil \notin E
    <2>1. g \in Nat /\ g # 0
      BY DEF Erased
    <2>2. E \in SUBSET Int /\ Nil \notin E
      BY BTreeAssumption
    <2>3. QED
      BY <2>1, <2>2
  <1>2. \A d : WithSub(t, 2, d) = Node(a, z, l, m, d)
    BY NodeWith
  <1>3. /\ W \in SUBSET BTreeKeys /\ z \in W
        /\ Under(W, z) = Amid(E, a, z) /\ Over(W, z) = Over(E, z)
    <2>1. W \in SUBSET BTreeKeys /\ z \in W
      BY <1>1 DEF Under, Over
    <2>2. QED
      BY <1>1, <2>1, Nested
  <1>4. CASE del.st = 0 /\ Tree(del.t, Over(E, z), g)
    <2>1. res = [st |-> 0, t |-> Node(a, z, l, m, del.t)]
      <3> HIDE DEF t
      <3> QED BY <1>2, <1>4 DEF Rebalance
    <2>2. Tree(Node(a, z, l, m, del.t), E, g + 1)
      BY <1>4, JoinTwo
    <2> HIDE DEF res
    <2>3. QED
      BY <1>1, <2>1, <2>2, ErasedFields DEF res
  <1>5. CASE del.st = 1 /\ Emptied(del.t, Over(E, z), g)
    <2>1. PICK x : del.t = Gap(x) /\ Tree(x, Over(E, z), g - 1)
      BY <1>5 DEF Emptied
    <2>2. res = Rebalanced(Node(a, z, l, m, Gap(x)), 2, sides)
      <3> HIDE DEF t
      <3> QED BY <1>2, <1>5, <2>1 DEF Rebalance
    <2> HIDE DEF res, t
    <2>3. m # Absent /\ Tree(m, Under(W, z), g) /\ Tree(x, Over(W, z), g - 1)
      BY <1>1, <1>3, <2>1, Split
    <2>4. CASE \E b, p, q : IsOne(m, Under(W, z), g, b, p, q)
      <3>1. PICK b, p, q : IsOne(m, Under(W, z), g, b, p, q)
        BY <2>4
      <3>2. Tree(Node(b, z, p, q, x), W, g) /\ (q = Absent => x = Absent)
        <4> HIDE DEF W
        <4> QED BY <1>3, <2>3, <3>1, FillLeft
      <3>3. m = Node(b, Nil, p, q, Absent) /\ b # Nil
        BY <1>1, <3>1 DEF IsOne, Over, Under
      <3> DEFINE n == Node(a, Nil, l, Node(b, z, p, q, x), Absent)
      <3>4. res = [st |-> 0, t |-> n]
        BY <2>2, <3>2, <3>3, MergesOther
      <3>5. Tree(n, E, g + 1)
        BY <3>2, JoinOne
      <3> HIDE DEF n
      <3>6. QED
        BY <1>1, <3>4, <3>5, ErasedFields DEF res, t
    <2>5. CASE \E b, c, p, q, s : IsTwo(m, Under(W, z), g, b, c, p, q, s)
      <3>1. PICK b, c, p, q, s : IsTwo(m, Under(W, z), g, b, c, p, q, s)
        BY <2>5
      <3>2. /\ c \in W /\ c < z
            /\ Tree(Node(b, Nil, p, q, Absent), Under(W, c), g)
            /\ Tree(Node(z, Nil, s, x, Absent), Over(W, c), g)
        <4> HIDE DEF W
        <4> QED BY <1>3, <2>3, <3>1, FixLeft
      <3>3. m = Node(b, c, p, q, s) /\ b # Nil /\ c # Nil
        BY <1>1, <3>1 DEF IsTwo, Over, Under
      <3>4. c \in E /\ c \in Int /\ a < c
        BY <1>1, <3>2 DEF Over
      <3>5. Under(W, c) = Amid(E, a, c) /\ Over(W, c) = Over(E, c)
        BY <1>1, <3>4, Nested
      <3> DEFINE n == Node(a, c, l, Node(b, Nil, p, q, Absent), Node(z, Nil, s, x, Absent))
      <3>6. res = [st |-> 0, t |-> n]
        BY <2>2, <3>3, RotatesRight
      <3>7. Tree(n, E, g + 1)
        BY <3>2, <3>4, <3>5, JoinTwo
      <3> HIDE DEF n
      <3>8. QED
        BY <1>1, <3>6, <3>7, ErasedFields DEF res, t
    <2>6. QED
      BY <2>3, <2>4, <2>5, Split
  <1>6. QED
    BY <1>4, <1>5 DEF Erased

-----------------------------------------------------------------------------
(***************************************************************************)
(* Walks.                                                                  *)
(***************************************************************************)
\* Sets of keys are finite.
LEMMA KeySets ==
    /\ BTreeDeepest \in Nat
    /\ \A E \in SUBSET BTreeKeys : /\ IsFiniteSet(E) /\ Cardinality(E) \in Nat
                                   /\ Cardinality(E) <= BTreeDeepest
  BY BTreeAssumption, FS_Subset, FS_CardinalityType DEF BTreeDeepest

\* A tree is no higher than it has keys.
LEMMA TreeBound ==
    ASSUME NEW t, NEW D, NEW h, Tree(t, D, h)
    PROVE  h <= Cardinality(D) /\ h <= BTreeDeepest
  <1> DEFINE T == {n \in Nat : \E s, E : Tree(s, E, n) /\ Cardinality(E) < n}
  <1>1. SUFFICES ASSUME T # {} PROVE FALSE
    <2>1. D \in SUBSET BTreeKeys /\ h \in Nat
      BY Split
    <2>2. ~(Cardinality(D) < h)
      BY <2>1
    <2> HIDE DEF T
    <2>3. Cardinality(D) \in Nat /\ Cardinality(D) <= BTreeDeepest /\ BTreeDeepest \in Nat
      BY <2>1, KeySets
    <2>4. QED
      BY <2>1, <2>2, <2>3
  <1>2. T \in SUBSET Nat
    OBVIOUS
  <1>3. PICK n \in T : \A m \in T : n <= m
    <2> HIDE DEF T
    <2> QED BY <1>1, <1>2, Least
  <1>4. PICK s, E : Tree(s, E, n) /\ Cardinality(E) < n
    BY <1>3
  <1>5. /\ n \in Nat /\ E \in SUBSET BTreeKeys /\ IsFiniteSet(E) /\ Cardinality(E) \in Nat
    BY <1>2, <1>4, Split, KeySets
  <1>6. PICK l, a : a \in E /\ Tree(l, Under(E, a), n - 1)
    <2>1. s # Absent
      BY <1>4, <1>5, Split
    <2>2. \/ \E a, l, r : IsOne(s, E, n, a, l, r)
          \/ \E a, b, l, m, r : IsTwo(s, E, n, a, b, l, m, r)
      BY <1>4, <2>1, Split
    <2>3. QED
      BY <2>2 DEF IsOne, IsTwo
  <1>7. IsFiniteSet(E \ {a}) /\ Cardinality(E \ {a}) = Cardinality(E) - 1
    BY <1>5, <1>6, FS_RemoveElement
  <1>8. Under(E, a) \subseteq E \ {a} /\ Under(E, a) \in SUBSET BTreeKeys
    <2>1. a \in Int /\ E \subseteq BTreeKeys
      BY <1>5, <1>6, BTreeAssumption
    <2> HIDE DEF T
    <2>2. QED
      BY <2>1 DEF Under
  <1>9. Cardinality(Under(E, a)) <= Cardinality(E) - 1 /\ Cardinality(Under(E, a)) \in Nat
    <2>1. Cardinality(Under(E, a)) <= Cardinality(E \ {a})
      BY <1>7, <1>8, FS_Subset
    <2>2. QED
      BY <1>7, <1>8, <2>1, KeySets
  <1>10. n - 1 \in Nat /\ n - 1 \notin T
    <2>1. n - 1 \in Nat
      BY <1>6, Split
    <2> HIDE DEF T
    <2>2. QED
      BY <1>3, <1>5, <2>1
  <1>11. ~(Cardinality(Under(E, a)) < n - 1)
    BY <1>6, <1>10
  <1> HIDE DEF T
  <1>12. QED
    BY <1>4, <1>5, <1>9, <1>11

\* The walk from t towards k, step by step.
LEMMA DescentSteps ==
    ASSUME NEW t, NEW k
    PROVE  LET w == Descent(t, k)
           IN /\ w[0] = t
              /\ \A i \in 0..(BTreeDeepest - 1) :
                    w[i + 1] = IF w[i] = Absent \/ Stops(w[i], k) THEN Absent
                               ELSE w[i].childs[Turn(w[i], k)]
  <1> DEFINE Visit(f, i) ==
                IF i = 0 THEN t
                ELSE LET s == f[i - 1]
                     IN IF s = Absent \/ Stops(s, k) THEN Absent ELSE s.childs[Turn(s, k)]
             Fits(f, n) == f = [i \in 0..n |-> Visit(f, i)]
             w == CHOOSE f : Fits(f, BTreeDeepest)
  <1>1. BTreeDeepest \in Nat
    BY KeySets
  <1>2. ASSUME NEW n \in Nat PROVE \E f : Fits(f, n)
    <2> DEFINE T == {m \in Nat : ~\E f : Fits(f, m)}
    <2>1. SUFFICES ASSUME T # {} PROVE FALSE
      OBVIOUS
    <2>2. T \in SUBSET Nat
      OBVIOUS
    <2>3. PICK x \in T : \A y \in T : x <= y
      <3> HIDE DEF T
      <3> QED BY <2>1, <2>2, Least
    <2>4. CASE x = 0
      <3> DEFINE f == [i \in 0..0 |-> t]
      <3>1. \A i \in 0..0 : Visit(f, i) = t
        OBVIOUS
      <3>2. Fits(f, 0)
        BY <3>1
      <3>3. QED
        BY <2>3, <2>4, <3>2
    <2>5. CASE x # 0
      <3>1. x - 1 \in Nat /\ x - 1 \notin T
        <4> HIDE DEF T
        <4>1. x \in Nat
          BY <2>2
        <4>2. QED
          BY <2>3, <2>5, <4>1
      <3>2. PICK f : Fits(f, x - 1)
        BY <3>1
      <3> DEFINE g == [i \in 0..x |-> IF i = x THEN Visit(f, x) ELSE f[i]]
      <3>3. \A i \in 0..(x - 1) : f[i] = Visit(f, i)
        BY <3>2
      <3>4. ASSUME NEW i \in 0..x PROVE Visit(g, i) = g[i]
        <4>1. CASE i = 0
          <5>1. 0 \in 0..(x - 1) /\ i # x
            BY <2>5, <3>1, <4>1
          <5>2. QED
            BY <3>3, <4>1, <5>1
        <4>2. CASE i # 0
          <5>1. i - 1 \in 0..x /\ i - 1 # x
            BY <4>2
          <5>2. g[i - 1] = f[i - 1]
            BY <5>1
          <5>3. Visit(g, i) = Visit(f, i)
            BY <5>2
          <5>4. i # x => i \in 0..(x - 1)
            BY <3>1
          <5>5. g[i] = IF i = x THEN Visit(f, x) ELSE f[i]
            OBVIOUS
          <5> HIDE DEF Visit, g
          <5>6. QED
            BY <3>3, <5>3, <5>4, <5>5
        <4>3. QED
          BY <4>1, <4>2
      <3>5. g = [i \in 0..x |-> g[i]]
        OBVIOUS
      <3> HIDE DEF g
      <3>6. Fits(g, x)
        BY <3>4, <3>5
      <3>7. QED
        BY <2>3, <3>6
    <2>6. QED
      BY <2>4, <2>5
  <1>3. Fits(w, BTreeDeepest)
    BY <1>1, <1>2
  <1>4. Descent(t, k) = w
    BY DEF Descent
  <1> HIDE DEF w
  <1>5. \A i \in 0..BTreeDeepest : w[i] = Visit(w, i)
    BY <1>3
  <1>6. w[0] = t
    BY <1>1, <1>5
  <1>7. ASSUME NEW i \in 0..(BTreeDeepest - 1)
        PROVE  w[i + 1] = IF w[i] = Absent \/ Stops(w[i], k) THEN Absent
                          ELSE w[i].childs[Turn(w[i], k)]
    <2>1. i + 1 \in 0..BTreeDeepest /\ i + 1 # 0 /\ (i + 1) - 1 = i
      BY <1>1
    <2>2. w[i + 1] = Visit(w, i + 1)
      BY <1>5, <2>1
    <2>3. QED
      BY <2>1, <2>2
  <1>8. QED
    BY <1>4, <1>6, <1>7

\* Where the comparisons with the pairs of a node lead.
LEMMA OneWay ==
    ASSUME NEW t, NEW E \in SUBSET BTreeKeys, NEW h, NEW a, NEW l, NEW r,
           IsOne(t, E, h, a, l, r), NEW k \in BTreeKeys
    PROVE  /\ PairOf(t, k) = IF k = a THEN 0 ELSE -1
           /\ k < a => Way(t, k) = 0 /\ t.childs[Way(t, k)] = l
           /\ k > a => Way(t, k) = 1 /\ t.childs[Way(t, k)] = r
  <1>1. /\ t.kv[0] = a /\ t.kv[1] = Nil /\ t.childs[0] = l /\ t.childs[1] = r
    BY NodeFields DEF IsOne
  <1>2. k \in Int /\ a \in Int /\ k # Nil
    BY BTreeAssumption DEF IsOne
  <1>3. PairOf(t, k) = IF k = a THEN 0 ELSE -1
    BY <1>1, <1>2 DEF PairOf
  <1>4. (k < a => Way(t, k) = 0) /\ (k > a => Way(t, k) = 1)
    BY <1>1, <1>2 DEF Way
  <1>5. QED
    BY <1>1, <1>3, <1>4

\* The same for a node with two pairs.
LEMMA TwoWay ==
    ASSUME NEW t, NEW E \in SUBSET BTreeKeys, NEW h, NEW a, NEW b, NEW l, NEW m, NEW r,
           IsTwo(t, E, h, a, b, l, m, r), NEW k \in BTreeKeys
    PROVE  /\ PairOf(t, k) = IF k = a THEN 0 ELSE IF k = b THEN 1 ELSE -1
           /\ k < a => Way(t, k) = 0 /\ t.childs[Way(t, k)] = l
           /\ a < k /\ k < b => Way(t, k) = 1 /\ t.childs[Way(t, k)] = m
           /\ b < k => Way(t, k) = 2 /\ t.childs[Way(t, k)] = r
  <1>1. /\ t.kv[0] = a /\ t.kv[1] = b /\ t.childs[0] = l /\ t.childs[1] = m /\ t.childs[2] = r
    BY NodeFields DEF IsTwo
  <1>2. k \in Int /\ a \in Int /\ b \in Int /\ k # Nil /\ b # Nil /\ a < b
    BY BTreeAssumption DEF IsTwo
  <1>3. PairOf(t, k) = IF k = a THEN 0 ELSE IF k = b THEN 1 ELSE -1
    BY <1>1, <1>2 DEF PairOf
  <1>4. /\ k < a => Way(t, k) = 0
        /\ a < k /\ k < b => Way(t, k) = 1
        /\ b < k => Way(t, k) = 2
    BY <1>1, <1>2 DEF Way
  <1>5. QED
    BY <1>1, <1>3, <1>4

\* The way towards a greater key.
LEMMA LastWay ==
    ASSUME NEW t, NEW E \in SUBSET BTreeKeys, NEW h, NEW a, NEW b, NEW l, NEW m, NEW r,
           IsTwo(t, E, h, a, b, l, m, r), NEW k \in BTreeKeys, b < k
    PROVE  Way(t, k) = 2 /\ t.childs[2] = r
  <1>1. t.kv[0] = a /\ t.kv[1] = b /\ t.childs[2] = r
    BY NodeFields DEF IsTwo
  <1>2. k \in Int /\ a \in Int /\ b \in Int /\ b # Nil /\ a < b
    BY BTreeAssumption DEF IsTwo
  <1>3. QED
    BY <1>1, <1>2 DEF Way

\* The part E of D on the way towards k, or to the least key if k is Nil.
Part(E, D, k) ==
    /\ E \subseteq D
    /\ k # Nil /\ k \in D => k \in E
    /\ k = Nil => \A y \in E, z \in D : z \notin E => y < z

\* The child on the way is the tree of such a part.
LEMMA Below ==
    ASSUME NEW t, NEW E, NEW h, Tree(t, E, h), t # Absent,
           NEW k \in BTreeKeys \cup {Nil}, ~Stops(t, k)
    PROVE  \E F : Tree(t.childs[Turn(t, k)], F, h - 1) /\ Part(F, E, k)
  <1>1. E \in SUBSET BTreeKeys /\ E \subseteq Int
    BY Split
  <1>2. CASE \E a, l, r : IsOne(t, E, h, a, l, r)
    <2>1. PICK a, l, r : IsOne(t, E, h, a, l, r)
      BY <1>2
    <2>2. /\ a \in E /\ a \in Int /\ t.childs[0] = l
          /\ Tree(l, Under(E, a), h - 1) /\ Tree(r, Over(E, a), h - 1)
      BY <1>1, <2>1, NodeFields DEF IsOne
    <2>3. CASE k = Nil
      <3>1. Part(Under(E, a), E, k)
        BY <1>1, <2>2, <2>3 DEF Part, Under
      <3>2. Turn(t, k) = 0
        BY <2>3 DEF Turn
      <3>3. QED
        BY <2>2, <3>1, <3>2
    <2>4. CASE k # Nil
      <3>1. k \in BTreeKeys /\ k \in Int /\ Turn(t, k) = Way(t, k) /\ PairOf(t, k) = -1
        BY <2>4, BTreeAssumption DEF Turn, Stops
      <3>2. /\ k # a
            /\ k < a => t.childs[Turn(t, k)] = l
            /\ k > a => t.childs[Turn(t, k)] = r
        BY <1>1, <2>1, <3>1, OneWay
      <3>3. CASE k < a
        <4>1. Part(Under(E, a), E, k)
          BY <2>4, <3>3 DEF Part, Under
        <4>2. QED
          BY <2>2, <3>2, <3>3, <4>1
      <3>4. CASE k > a
        <4>1. Part(Over(E, a), E, k)
          BY <2>4, <3>4 DEF Part, Over
        <4>2. QED
          BY <2>2, <3>2, <3>4, <4>1
      <3>5. QED
        BY <2>2, <3>1, <3>2, <3>3, <3>4
    <2>5. QED
      BY <2>3, <2>4
  <1>3. CASE \E a, b, l, m, r : IsTwo(t, E, h, a, b, l, m, r)
    <2>1. PICK a, b, l, m, r : IsTwo(t, E, h, a, b, l, m, r)
      BY <1>3
    <2>2. /\ a \in E /\ a \in Int /\ b \in E /\ b \in Int /\ a < b /\ t.childs[0] = l
          /\ Tree(l, Under(E, a), h - 1) /\ Tree(m, Amid(E, a, b), h - 1)
          /\ Tree(r, Over(E, b), h - 1)
      BY <1>1, <2>1, NodeFields DEF IsTwo
    <2>3. CASE k = Nil
      <3>1. Part(Under(E, a), E, k)
        BY <1>1, <2>2, <2>3 DEF Part, Under
      <3>2. Turn(t, k) = 0
        BY <2>3 DEF Turn
      <3>3. QED
        BY <2>2, <3>1, <3>2
    <2>4. CASE k # Nil
      <3>1. k \in BTreeKeys /\ k \in Int /\ Turn(t, k) = Way(t, k) /\ PairOf(t, k) = -1
        BY <2>4, BTreeAssumption DEF Turn, Stops
      <3>2. /\ k # a /\ k # b
            /\ k < a => t.childs[Turn(t, k)] = l
            /\ a < k /\ k < b => t.childs[Turn(t, k)] = m
            /\ b < k => t.childs[Turn(t, k)] = r
        BY <1>1, <2>1, <3>1, TwoWay
      <3>3. CASE k < a
        <4>1. Part(Under(E, a), E, k)
          BY <2>4, <3>3 DEF Part, Under
        <4>2. QED
          BY <2>2, <3>2, <3>3, <4>1
      <3>4. CASE a < k /\ k < b
        <4>1. Part(Amid(E, a, b), E, k)
          BY <2>4, <3>4 DEF Part, Amid
        <4>2. QED
          BY <2>2, <3>2, <3>4, <4>1
      <3>5. CASE b < k
        <4>1. Part(Over(E, b), E, k)
          BY <2>4, <3>5 DEF Part, Over
        <4>2. QED
          BY <2>2, <3>2, <3>5, <4>1
      <3>6. QED
        BY <2>2, <3>1, <3>2, <3>3, <3>4, <3>5
    <2>5. QED
      BY <2>3, <2>4
  <1>4. QED
    BY <1>2, <1>3, Split

\* w goes from t, a tree of D, down n nodes, to the one that holds k or has no child
\* where k belongs.
Goes(w, n, t, D, h, k) ==
    /\ n \in Nat /\ n > 0 /\ n <= BTreeDeepest /\ Ground(w) = n
    /\ w[0] = t
    /\ \A i \in 0..(n - 1) : w[i] # Absent /\ \E E : Tree(w[i], E, h - i) /\ Part(E, D, k)
    /\ \A i \in 0..(n - 1) : i < n - 1 =>
          ~Stops(w[i], k) /\ w[i + 1] = w[i].childs[Turn(w[i], k)]
    /\ Stops(w[n - 1], k) \/ w[n - 1].childs[Turn(w[n - 1], k)] = Absent

\* Every walk comes to an end.
LEMMA DescentEnds ==
    ASSUME NEW t, NEW D, NEW h, Tree(t, D, h), t # Absent, NEW k \in BTreeKeys \cup {Nil}
    PROVE  \E n : Goes(Descent(t, k), n, t, D, h, k)
  <1> DEFINE w == Descent(t, k)
             Fine(i) == w[i] # Absent => \E E : Tree(w[i], E, h - i) /\ Part(E, D, k)
  <1>1. h \in Nat /\ h # 0 /\ h <= BTreeDeepest /\ BTreeDeepest \in Nat
    BY Split, TreeBound, KeySets
  <1>2. /\ w[0] = t
        /\ \A i \in 0..(BTreeDeepest - 1) :
              w[i + 1] = IF w[i] = Absent \/ Stops(w[i], k) THEN Absent
                         ELSE w[i].childs[Turn(w[i], k)]
    BY DescentSteps
  <1> HIDE DEF w
  <1>3. \A i \in 0..BTreeDeepest : Fine(i)
    <2> DEFINE T == {i \in 0..BTreeDeepest : ~Fine(i)}
    <2>1. SUFFICES ASSUME T # {} PROVE FALSE
      OBVIOUS
    <2>2. T \in SUBSET Nat
      BY <1>1
    <2>3. PICK x \in T : \A y \in T : x <= y
      <3> HIDE DEF T
      <3> QED BY <2>1, <2>2, Least
    <2>4. x \in 0..BTreeDeepest /\ ~Fine(x)
      OBVIOUS
    <2>5. x # 0
      <3>1. Tree(t, D, h - 0) /\ Part(D, D, k)
        BY <1>1 DEF Part
      <3>2. Fine(0)
        BY <1>2, <3>1
      <3>3. QED
        BY <2>4, <3>2
    <2> DEFINE z == x - 1
    <2>6. /\ z \in 0..BTreeDeepest /\ z \in 0..(BTreeDeepest - 1) /\ z \in Nat /\ z + 1 = x
          /\ ~(x <= z) /\ (h - z) - 1 = h - x
      BY <1>1, <2>4, <2>5
    <2>7. Fine(z)
      <3>1. z \notin T
        <4> HIDE DEF T, z
        <4> QED BY <2>3, <2>6
      <3>2. QED
        BY <2>6, <3>1
    <2> HIDE DEF z
    <2>8. /\ w[x] # Absent /\ w[z] # Absent /\ ~Stops(w[z], k)
          /\ w[x] = w[z].childs[Turn(w[z], k)]
      <3>1. w[x] # Absent
        BY <2>4
      <3>2. QED
        BY <1>2, <2>6, <3>1
    <2>9. PICK E : Tree(w[z], E, h - z) /\ Part(E, D, k)
      BY <2>7, <2>8
    <2>10. PICK F : Tree(w[x], F, (h - z) - 1) /\ Part(F, E, k)
      BY <2>8, <2>9, Below
    <2>11. Part(F, D, k)
      BY <2>9, <2>10 DEF Part
    <2>12. QED
      BY <2>4, <2>6, <2>10, <2>11
  <1>4. w[h] = Absent
    <2>1. SUFFICES ASSUME w[h] # Absent PROVE FALSE
      OBVIOUS
    <2>2. PICK E : Tree(w[h], E, h - h)
      BY <1>1, <1>3, <2>1
    <2>3. h - h = 0
      BY <1>1
    <2>4. QED
      BY <2>1, <2>2, <2>3, Split
  <1> DEFINE U == {i \in 0..BTreeDeepest : w[i] = Absent}
  <1>5. PICK n \in U : \A y \in U : n <= y
    <2>1. U # {} /\ U \in SUBSET Nat
      BY <1>1, <1>4
    <2> HIDE DEF U
    <2> QED BY <2>1, Least
  <1>6. /\ n \in 0..BTreeDeepest /\ w[n] = Absent /\ n # 0
        /\ \A i \in 0..(n - 1) : w[i] # Absent
    <2>1. n \in 0..BTreeDeepest /\ w[n] = Absent
      OBVIOUS
    <2>2. \A i \in 0..(n - 1) : i \in 0..BTreeDeepest /\ ~(n <= i)
      BY <1>1, <2>1
    <2>3. \A i \in 0..(n - 1) : w[i] # Absent
      BY <1>5, <2>2
    <2>4. n # 0
      BY <1>2, <2>1
    <2>5. QED
      BY <2>1, <2>3, <2>4
  <1> HIDE DEF U
  <1>7. \A i \in n..BTreeDeepest : w[i] = Absent
    <2> DEFINE T == {i \in n..BTreeDeepest : w[i] # Absent}
    <2>1. SUFFICES ASSUME T # {} PROVE FALSE
      OBVIOUS
    <2>2. T \in SUBSET Nat
      BY <1>1, <1>6
    <2>3. PICK x \in T : \A y \in T : x <= y
      <3> HIDE DEF T
      <3> QED BY <2>1, <2>2, Least
    <2>4. x \in n..BTreeDeepest /\ w[x] # Absent
      OBVIOUS
    <2>5. x # n
      BY <1>6, <2>4
    <2>6. /\ x - 1 \in n..BTreeDeepest /\ x - 1 \in 0..(BTreeDeepest - 1) /\ (x - 1) + 1 = x
          /\ ~(x <= x - 1)
      BY <1>1, <1>6, <2>4, <2>5
    <2>7. w[x - 1] = Absent
      BY <2>3, <2>6
    <2>8. QED
      BY <1>2, <2>4, <2>6, <2>7
  <1>8. Ground(w) = n
    <2> DEFINE End(i) == w[i] = Absent /\ (i > 0 => w[i - 1] # Absent)
    <2>1. n - 1 \in 0..(n - 1)
      BY <1>6
    <2>2. End(n)
      BY <1>6, <2>1
    <2>3. ASSUME NEW i \in 0..BTreeDeepest, End(i) PROVE i = n
      <3>1. ~(i < n)
        BY <1>6, <2>3
      <3>2. ~(i > n)
        <4>1. i > n => i - 1 \in n..BTreeDeepest /\ i > 0
          BY <1>1, <1>6
        <4>2. QED
          BY <1>7, <2>3, <4>1
      <3>3. QED
        BY <1>6, <3>1, <3>2
    <2>4. Ground(w) = CHOOSE i \in 0..BTreeDeepest : End(i)
      BY DEF Ground
    <2> HIDE DEF End
    <2>5. QED
      BY <1>6, <2>2, <2>3, <2>4
  <1>9. ASSUME NEW i \in 0..(n - 1)
        PROVE  w[i] # Absent /\ \E E : Tree(w[i], E, h - i) /\ Part(E, D, k)
    <2>1. i \in 0..BTreeDeepest
      BY <1>1, <1>6
    <2>2. QED
      BY <1>3, <1>6, <2>1
  <1>10. ASSUME NEW i \in 0..(n - 1), i < n - 1
         PROVE  ~Stops(w[i], k) /\ w[i + 1] = w[i].childs[Turn(w[i], k)]
    <2>1. i \in 0..(BTreeDeepest - 1) /\ i + 1 \in 0..(n - 1)
      BY <1>1, <1>6, <1>10
    <2>2. QED
      BY <1>2, <1>6, <2>1
  <1>11. Stops(w[n - 1], k) \/ w[n - 1].childs[Turn(w[n - 1], k)] = Absent
    <2>1. n - 1 \in 0..(BTreeDeepest - 1) /\ n - 1 \in 0..(n - 1) /\ (n - 1) + 1 = n
      BY <1>1, <1>6
    <2>2. QED
      BY <1>2, <1>6, <2>1
  <1>12. Goes(w, n, t, D, h, k)
    BY <1>1, <1>2, <1>6, <1>8, <1>9, <1>10, <1>11 DEF Goes
  <1>13. QED
    BY <1>12 DEF w

\* The pair that holds k.
LEMMA Holds ==
    ASSUME NEW t, NEW E, NEW h, Tree(t, E, h), t # Absent, NEW k \in BTreeKeys
    PROVE  /\ PairOf(t, k) \in {-1, 0, 1}
           /\ PairOf(t, k) # -1 => k \in E /\ t.kv[PairOf(t, k)] = k
  <1>1. E \in SUBSET BTreeKeys
    BY Split
  <1>2. CASE \E a, l, r : IsOne(t, E, h, a, l, r)
    <2>1. PICK a, l, r : IsOne(t, E, h, a, l, r)
      BY <1>2
    <2>2. a \in E /\ t.kv[0] = a
      BY <2>1, NodeFields DEF IsOne
    <2>3. PairOf(t, k) = IF k = a THEN 0 ELSE -1
      BY <1>1, <2>1, OneWay
    <2>4. QED
      BY <2>2, <2>3
  <1>3. CASE \E a, b, l, m, r : IsTwo(t, E, h, a, b, l, m, r)
    <2>1. PICK a, b, l, m, r : IsTwo(t, E, h, a, b, l, m, r)
      BY <1>3
    <2>2. a \in E /\ t.kv[0] = a /\ b \in E /\ t.kv[1] = b
      BY <2>1, NodeFields DEF IsTwo
    <2>3. PairOf(t, k) = IF k = a THEN 0 ELSE IF k = b THEN 1 ELSE -1
      BY <1>1, <2>1, TwoWay
    <2>4. QED
      BY <2>2, <2>3
  <1>4. QED
    BY <1>2, <1>3, Split

\* Lookup: the walk towards k ends at k if and only if k is there.
LEMMA Lookup ==
    ASSUME NEW t, NEW D, NEW h, Tree(t, D, h), NEW k \in BTreeKeys, NEW w, NEW n,
           Goes(w, n, t, D, h, k)
    PROVE  /\ Lowest(w) = w[n - 1] /\ PairOf(w[n - 1], k) \in {-1, 0, 1}
           /\ PairOf(w[n - 1], k) # -1 <=> k \in D
           /\ PairOf(w[n - 1], k) # -1 => w[n - 1].kv[PairOf(w[n - 1], k)] = k
  <1>1. n \in Nat /\ n > 0 /\ n - 1 \in 0..(n - 1) /\ Lowest(w) = w[n - 1] /\ k # Nil
    BY BTreeAssumption DEF Goes, Lowest
  <1> DEFINE s == w[n - 1]
  <1>2. PICK E : Tree(s, E, h - (n - 1)) /\ Part(E, D, k)
    BY <1>1 DEF Goes
  <1>3. s # Absent /\ (Stops(s, k) \/ s.childs[Turn(s, k)] = Absent)
    BY <1>1 DEF Goes
  <1> HIDE DEF s
  <1>4. /\ PairOf(s, k) \in {-1, 0, 1}
        /\ PairOf(s, k) # -1 => k \in E /\ s.kv[PairOf(s, k)] = k
    BY <1>2, <1>3, Holds
  <1>5. ASSUME PairOf(s, k) = -1 PROVE k \notin E
    <2>1. ~Stops(s, k)
      BY <1>5 DEF Stops
    <2>2. PICK F : Tree(s.childs[Turn(s, k)], F, (h - (n - 1)) - 1) /\ Part(F, E, k)
      BY <1>2, <1>3, <2>1, Below
    <2>3. F = {}
      BY <1>3, <2>1, <2>2, Split
    <2>4. QED
      BY <1>1, <2>2, <2>3 DEF Part
  <1>6. QED
    BY <1>1, <1>2, <1>4, <1>5 DEF s, Part

\* A track that has the child numbers of a walk leads where the walk ends.
LEMMA AtWalk ==
    ASSUME NEW w, NEW m \in Nat, NEW track, Len(track) = m,
           \A i \in 1..m : w[i] = w[i - 1].childs[track[i]]
    PROVE  At(w[0], track) = w[m]
  <1> DEFINE Fits(f) == f = [i \in 0..m |-> IF i = 0 THEN w[0] ELSE f[i - 1].childs[track[i]]]
             node == CHOOSE f : Fits(f)
             walk == [i \in 0..m |-> w[i]]
  <1>1. At(w[0], track) = node[m]
    BY DEF At
  <1>2. Fits(walk)
    <2>1. ASSUME NEW i \in 0..m
          PROVE  walk[i] = IF i = 0 THEN w[0] ELSE walk[i - 1].childs[track[i]]
      <3>1. i # 0 => i \in 1..m /\ i - 1 \in 0..m
        OBVIOUS
      <3>2. QED
        BY <3>1
    <2>2. walk = [i \in 0..m |-> walk[i]]
      OBVIOUS
    <2> HIDE DEF walk
    <2>3. QED
      BY <2>1, <2>2
  <1>3. Fits(node)
    <2> HIDE DEF Fits
    <2> QED BY <1>2
  <1> HIDE DEF node
  <1>4. node[0] = w[0] /\ \A i \in 1..m : node[i] = node[i - 1].childs[track[i]]
    BY <1>3
  <1> HIDE DEF Fits
  <1> DEFINE T == {i \in 0..m : node[i] # w[i]}
  <1>5. T = {}
    <2>1. SUFFICES ASSUME T # {} PROVE FALSE
      OBVIOUS
    <2>2. T \in SUBSET Nat
      OBVIOUS
    <2>3. PICK x \in T : \A y \in T : x <= y
      <3> HIDE DEF T
      <3> QED BY <2>1, <2>2, Least
    <2>4. x \in 0..m /\ node[x] # w[x] /\ x # 0
      BY <1>4
    <2>5. x \in 1..m /\ x - 1 \in 0..m /\ ~(x <= x - 1)
      BY <2>4
    <2>6. node[x - 1] = w[x - 1]
      BY <2>3, <2>5
    <2>7. QED
      BY <1>4, <2>4, <2>5, <2>6
  <1>6. QED
    BY <1>1, <1>5

\* up is what the nodes of the walk w become on the way back.
Climbs(up, w, k, last, mode, end) ==
    /\ Ascent(w, k, last, mode) = up[0] /\ up[end] = last
    /\ \A i \in 0..end : i # end => up[i] = Returned(mode, w[i], Turn(w[i], k), up[i + 1])

\* The way back, step by step.
LEMMA AscentSteps ==
    ASSUME NEW w, NEW k, NEW last, NEW mode, NEW end \in Nat, Ground(w) - 1 = end
    PROVE  \E up : Climbs(up, w, k, last, mode, end)
  <1> DEFINE Made(f, i) == IF i = end THEN last
                           ELSE Returned(mode, w[i], Turn(w[i], k), f[i + 1])
             Fits(f, m) == f = [i \in m..end |-> Made(f, i)]
             up == CHOOSE f : Fits(f, 0)
  <1>1. ASSUME NEW n \in Nat PROVE \E f : Fits(f, end - n)
    <2> DEFINE T == {m \in Nat : ~\E f : Fits(f, end - m)}
    <2>1. SUFFICES ASSUME T # {} PROVE FALSE
      OBVIOUS
    <2>2. T \in SUBSET Nat
      OBVIOUS
    <2>3. PICK x \in T : \A y \in T : x <= y
      <3> HIDE DEF T
      <3> QED BY <2>1, <2>2, Least
    <2>4. CASE x = 0
      <3> DEFINE f == [i \in end..end |-> last]
      <3>1. \A i \in end..end : Made(f, i) = last
        OBVIOUS
      <3>2. Fits(f, end)
        BY <3>1
      <3>3. end - x = end
        BY <2>4
      <3>4. QED
        BY <2>3, <3>2, <3>3
    <2>5. CASE x # 0
      <3> DEFINE m == end - x
      <3>1. x - 1 \in Nat /\ x - 1 \notin T /\ end - (x - 1) = m + 1 /\ m \in Int /\ m < end
        <4> HIDE DEF T
        <4>1. x \in Nat
          BY <2>2
        <4>2. QED
          BY <2>3, <2>5, <4>1
      <3>2. PICK f : Fits(f, m + 1)
        BY <3>1
      <3> DEFINE g == [i \in m..end |-> IF i = m THEN Made(f, m) ELSE f[i]]
      <3> HIDE DEF m
      <3>3. \A i \in (m + 1)..end : f[i] = Made(f, i)
        BY <3>2
      <3>4. ASSUME NEW i \in m..end PROVE Made(g, i) = g[i]
        <4>1. Made(g, i) = Made(f, i)
          <5>1. CASE i = end
            BY <5>1
          <5>2. CASE i # end
            <6>1. i + 1 \in m..end /\ i + 1 # m
              BY <3>1, <5>2
            <6>2. g[i + 1] = f[i + 1]
              BY <6>1
            <6>3. QED
              BY <6>2
          <5>3. QED
            BY <5>1, <5>2
        <4>2. g[i] = IF i = m THEN Made(f, m) ELSE f[i]
          OBVIOUS
        <4>3. i # m => i \in (m + 1)..end
          BY <3>1
        <4> HIDE DEF Made, g
        <4>4. QED
          BY <3>3, <4>1, <4>2, <4>3
      <3>5. g = [i \in m..end |-> g[i]]
        OBVIOUS
      <3> HIDE DEF g
      <3>6. Fits(g, m)
        BY <3>4, <3>5
      <3>7. QED
        BY <2>3, <3>6 DEF m
    <2>6. QED
      BY <2>4, <2>5
  <1>2. Fits(up, 0)
    <2>1. end - end = 0
      OBVIOUS
    <2> HIDE DEF Fits
    <2>2. PICK f : Fits(f, end - end)
      BY <1>1
    <2>3. Fits(f, 0)
      BY <2>1, <2>2
    <2>4. QED
      BY <2>3
  <1>3. Ascent(w, k, last, mode) = up[0]
    BY DEF Ascent
  <1> HIDE DEF up
  <1>4. \A i \in 0..end : up[i] = Made(up, i)
    BY <1>2
  <1>5. up[end] = last
    BY <1>4
  <1>6. Climbs(up, w, k, last, mode, end)
    BY <1>3, <1>4, <1>5 DEF Climbs
  <1>7. QED
    BY <1>6

-----------------------------------------------------------------------------
(***************************************************************************)
(* Erasure.                                                                *)
(***************************************************************************)
\* Parts of a set without one of its elements.
LEMMA Without ==
    ASSUME NEW E \in SUBSET BTreeKeys, NEW x
    PROVE  /\ E \ {x} \in SUBSET BTreeKeys
           /\ \A a : /\ Under(E \ {x}, a) = Under(E, a) \ {x}
                     /\ Over(E \ {x}, a) = Over(E, a) \ {x}
           /\ \A a, b : Amid(E \ {x}, a, b) = Amid(E, a, b) \ {x}
           /\ \A S : x \notin S => S \ {x} = S
  <1>1. ASSUME NEW a, NEW b
        PROVE  /\ Under(E \ {x}, a) = Under(E, a) \ {x} /\ Over(E \ {x}, a) = Over(E, a) \ {x}
               /\ Amid(E \ {x}, a, b) = Amid(E, a, b) \ {x}
    BY DEF Under, Over, Amid
  <1>2. QED
    BY <1>1

\* A tree has a key.
LEMMA HasKey ==
    ASSUME NEW t, NEW D, NEW h, Tree(t, D, h), t # Absent
    PROVE  \E a : a \in D
  BY Split DEF IsOne, IsTwo

\* x is the key of E that a walk towards k is after.
Aims(k, x, E) == x \in E /\ (k = x \/ (k = Nil /\ \A y \in E : x <= y))

\* del is what an erasure of x makes of the subtree c.
ErasedFrom(c, k, x, del) == \A F, g : Tree(c, F, g) /\ Aims(k, x, F) => Erased(del, F \ {x}, g)

\* One step of the way back of an erasure.
LEMMA RebalanceStep ==
    ASSUME NEW t, NEW E, NEW h, Tree(t, E, h), t # Absent,
           NEW k \in BTreeKeys \cup {Nil}, ~Stops(t, k), t.childs[Turn(t, k)] # Absent,
           NEW x, Aims(k, x, E), NEW del, ErasedFrom(t.childs[Turn(t, k)], k, x, del)
    PROVE  Erased(Returned("erase", t, Turn(t, k), del), E \ {x}, h)
  <1> DEFINE D == E \ {x}
             i == Turn(t, k)
             g == h - 1
             res == Returned("erase", t, i, del)
  <1>1. /\ E \in SUBSET BTreeKeys /\ E \subseteq Int /\ x \in E /\ x \in Int
        /\ Nil \notin E /\ g + 1 = h
    <2>1. E \in SUBSET BTreeKeys /\ E \subseteq Int /\ h \in Nat
      BY Split
    <2>2. QED
      BY <2>1, BTreeAssumption DEF Aims
  <1>2. /\ D \in SUBSET BTreeKeys
        /\ \A a : Under(D, a) = Under(E, a) \ {x} /\ Over(D, a) = Over(E, a) \ {x}
        /\ \A a, b : Amid(D, a, b) = Amid(E, a, b) \ {x}
        /\ \A S : x \notin S => S \ {x} = S
    BY <1>1, Without
  <1>3. res = Rebalance(t, i, del, Sides(t, i))
    BY DEF Returned
  <1>4. k # Nil => k = x /\ k \in BTreeKeys /\ i = Way(t, k) /\ PairOf(t, k) = -1
    BY DEF Aims, Turn, Stops
  <1>5. k = Nil => i = 0 /\ \A y \in E : x <= y
    BY <1>1 DEF Aims, Turn
  <1>6. \A y \in D : y \in E /\ y # x
    OBVIOUS
  <1> HIDE DEF D, i, g, res
  <1>7. CASE \E a, l, r : IsOne(t, E, h, a, l, r)
    <2>1. PICK a, l, r : IsOne(t, E, h, a, l, r)
      BY <1>7
    <2>2. /\ a \in E /\ a \in Int /\ t = Node(a, Nil, l, r, Absent)
          /\ t.childs[0] = l /\ t.childs[1] = r /\ t.kv[1] = Nil
          /\ Tree(l, Under(E, a), g) /\ Tree(r, Over(E, a), g)
      BY <1>1, <2>1, NodeFields DEF IsOne, g
    <2>3. k # Nil => (x < a /\ i = 0) \/ (a < x /\ i = 1)
      BY <1>1, <1>4, <2>1, <2>2, OneWay
    <2>4. k = Nil => x < a /\ i = 0
      <3>1. SUFFICES ASSUME k = Nil PROVE x < a
        BY <1>5
      <3>2. PICK y : y \in Under(E, a)
        BY <1>5, <2>2, <3>1, HasKey DEF i
      <3>3. y \in E /\ y \in Int /\ y < a /\ x <= y
        BY <1>1, <1>5, <3>1, <3>2 DEF Under
      <3>4. QED
        BY <1>1, <2>2, <3>3
    <2>5. CASE x < a /\ i = 0
      <3>1. Aims(k, x, Under(E, a)) /\ x \notin Over(E, a) /\ a \in D
        BY <1>1, <2>2, <2>5 DEF Aims, Under, Over, D
      <3>2. Erased(del, Under(E, a) \ {x}, g)
        BY <2>2, <2>5, <3>1 DEF i, ErasedFrom
      <3>3. Erased(del, Under(D, a), g) /\ Tree(r, Over(D, a), g)
        BY <1>2, <2>2, <3>1, <3>2
      <3>4. "left" \in Sides(t, 0)
        BY DEF Sides
      <3>5. Erased(Rebalance(t, 0, del, Sides(t, 0)), D, g + 1)
        BY <1>2, <2>2, <3>1, <3>3, <3>4, RebalanceOne0
      <3>6. QED
        BY <1>1, <1>3, <2>5, <3>5 DEF D, res, i
    <2>6. CASE a < x /\ i = 1
      <3>1. Aims(k, x, Over(E, a)) /\ x \notin Under(E, a) /\ a \in D
        BY <1>1, <2>2, <2>6 DEF Aims, Under, Over, D
      <3>2. Erased(del, Over(E, a) \ {x}, g)
        BY <2>2, <2>6, <3>1 DEF i, ErasedFrom
      <3>3. Erased(del, Over(D, a), g) /\ Tree(l, Under(D, a), g)
        BY <1>2, <2>2, <3>1, <3>2
      <3>4. "right" \in Sides(t, 1)
        BY DEF Sides
      <3>5. Erased(Rebalance(t, 1, del, Sides(t, 1)), D, g + 1)
        BY <1>2, <2>2, <3>1, <3>3, <3>4, RebalanceOne1
      <3>6. QED
        BY <1>1, <1>3, <2>6, <3>5 DEF D, res, i
    <2>7. QED
      BY <2>3, <2>4, <2>5, <2>6
  <1>8. CASE \E a, b, l, m, r : IsTwo(t, E, h, a, b, l, m, r)
    <2>1. PICK a, b, l, m, r : IsTwo(t, E, h, a, b, l, m, r)
      BY <1>8
    <2>2. /\ a \in E /\ a \in Int /\ b \in E /\ b \in Int /\ a < b /\ t = Node(a, b, l, m, r)
          /\ t.childs[0] = l /\ t.childs[1] = m /\ t.childs[2] = r /\ t.kv[1] = b /\ b # Nil
          /\ Tree(l, Under(E, a), g) /\ Tree(m, Amid(E, a, b), g) /\ Tree(r, Over(E, b), g)
      BY <1>1, <2>1, NodeFields DEF IsTwo, g
    <2>3. k # Nil => (x < a /\ i = 0) \/ (a < x /\ x < b /\ i = 1) \/ (b < x /\ i = 2)
      BY <1>1, <1>4, <2>1, <2>2, TwoWay
    <2>4. k = Nil => x < a /\ i = 0
      <3>1. SUFFICES ASSUME k = Nil PROVE x < a
        BY <1>5
      <3>2. PICK y : y \in Under(E, a)
        BY <1>5, <2>2, <3>1, HasKey DEF i
      <3>3. y \in E /\ y \in Int /\ y < a /\ x <= y
        BY <1>1, <1>5, <3>1, <3>2 DEF Under
      <3>4. QED
        BY <1>1, <2>2, <3>3
    <2>5. CASE x < a /\ i = 0
      <3>1. /\ Aims(k, x, Under(E, a)) /\ x \notin Amid(E, a, b) /\ x \notin Over(E, b)
            /\ a \in D /\ b \in D
        BY <1>1, <2>2, <2>5 DEF Aims, Under, Over, Amid, D
      <3>2. Erased(del, Under(E, a) \ {x}, g)
        BY <2>2, <2>5, <3>1 DEF i, ErasedFrom
      <3>3. Erased(del, Under(D, a), g) /\ Tree(m, Amid(D, a, b), g) /\ Tree(r, Over(D, b), g)
        BY <1>2, <2>2, <3>1, <3>2
      <3>4. "left" \in Sides(t, 0)
        BY DEF Sides
      <3>5. Erased(Rebalance(t, 0, del, Sides(t, 0)), D, g + 1)
        BY <1>2, <2>2, <3>1, <3>3, <3>4, RebalanceTwo0
      <3>6. QED
        BY <1>1, <1>3, <2>5, <3>5 DEF D, res, i
    <2>6. CASE a < x /\ x < b /\ i = 1
      <3>1. /\ Aims(k, x, Amid(E, a, b)) /\ x \notin Under(E, a) /\ x \notin Over(E, b)
            /\ a \in D /\ b \in D
        BY <1>1, <2>2, <2>6 DEF Aims, Under, Over, Amid, D
      <3>2. Erased(del, Amid(E, a, b) \ {x}, g)
        BY <2>2, <2>6, <3>1 DEF i, ErasedFrom
      <3>3. Tree(l, Under(D, a), g) /\ Erased(del, Amid(D, a, b), g) /\ Tree(r, Over(D, b), g)
        BY <1>2, <2>2, <3>1, <3>2
      <3>4. "left" \in Sides(t, 1) /\ "right" \in Sides(t, 1)
        BY <2>2 DEF Sides
      <3>5. Erased(Rebalance(t, 1, del, Sides(t, 1)), D, g + 1)
        BY <1>2, <2>2, <3>1, <3>3, <3>4, RebalanceTwo1
      <3>6. QED
        BY <1>1, <1>3, <2>6, <3>5 DEF D, res, i
    <2>7. CASE b < x /\ i = 2
      <3>1. /\ Aims(k, x, Over(E, b)) /\ x \notin Under(E, a) /\ x \notin Amid(E, a, b)
            /\ a \in D /\ b \in D
        BY <1>1, <2>2, <2>7 DEF Aims, Under, Over, Amid, D
      <3>2. Erased(del, Over(E, b) \ {x}, g)
        BY <2>2, <2>7, <3>1 DEF i, ErasedFrom
      <3>3. Tree(l, Under(D, a), g) /\ Tree(m, Amid(D, a, b), g) /\ Erased(del, Over(D, b), g)
        BY <1>2, <2>2, <3>1, <3>2
      <3>4. "right" \in Sides(t, 2)
        BY DEF Sides
      <3>5. Erased(Rebalance(t, 2, del, Sides(t, 2)), D, g + 1)
        BY <1>2, <2>2, <3>1, <3>3, <3>4, RebalanceTwo2
      <3>6. QED
        BY <1>1, <1>3, <2>7, <3>5 DEF D, res, i
    <2>8. QED
      BY <2>3, <2>4, <2>5, <2>6, <2>7
  <1>9. QED
    BY <1>7, <1>8, Split

\* An erasure at the end of a walk is one from the whole tree.
LEMMA AscentErase ==
    ASSUME NEW t, NEW D, NEW h, Tree(t, D, h), NEW k \in BTreeKeys \cup {Nil}, NEW w, NEW n,
           Goes(w, n, t, D, h, k), NEW x, Aims(k, x, D), NEW last,
           ErasedFrom(w[n - 1], k, x, last)
    PROVE  Erased(Ascent(w, k, last, "erase"), D \ {x}, h)
  <1> DEFINE end == n - 1
  <1>1. end \in Nat /\ Ground(w) - 1 = end
    BY DEF Goes
  <1>2. PICK up : Climbs(up, w, k, last, "erase", end)
    <2> HIDE DEF end
    <2> QED BY <1>1, AscentSteps
  <1> DEFINE Fine(i) == ErasedFrom(w[i], k, x, up[i])
             T == {j \in 0..end : ~Fine(end - j)}
  <1>3. T = {}
    <2>1. SUFFICES ASSUME T # {} PROVE FALSE
      OBVIOUS
    <2>2. T \in SUBSET Nat
      BY <1>1
    <2>3. PICK j \in T : \A y \in T : j <= y
      <3> HIDE DEF T
      <3> QED BY <2>1, <2>2, Least
    <2>4. j \in 0..end /\ ~Fine(end - j)
      OBVIOUS
    <2>5. j # 0
      <3>1. Fine(end)
        BY <1>2 DEF Climbs
      <3>2. end - 0 = end
        BY <1>1
      <3>3. QED
        BY <2>4, <3>1, <3>2
    <2> DEFINE i == end - j
    <2>6. j - 1 \in 0..end /\ end - (j - 1) = i + 1 /\ i \in 0..end /\ i # end /\ ~(j <= j - 1)
      BY <1>1, <2>4, <2>5
    <2>7. Fine(i + 1)
      <3>1. j - 1 \notin T
        <4> HIDE DEF T
        <4> QED BY <2>3, <2>6
      <3>2. QED
        BY <2>6, <3>1
    <2> HIDE DEF i
    <2>8. i \in 0..(n - 1) /\ i < n - 1 /\ i + 1 \in 0..(n - 1)
      BY <1>1, <2>6
    <2>9. /\ w[i] # Absent /\ ~Stops(w[i], k) /\ w[i + 1] = w[i].childs[Turn(w[i], k)]
          /\ w[i + 1] # Absent
      BY <2>8 DEF Goes
    <2>10. up[i] = Returned("erase", w[i], Turn(w[i], k), up[i + 1])
      BY <1>2, <2>6 DEF Climbs
    <2>11. ErasedFrom(w[i].childs[Turn(w[i], k)], k, x, up[i + 1])
      BY <2>7, <2>9
    <2>12. ASSUME NEW E, NEW g, Tree(w[i], E, g), Aims(k, x, E) PROVE Erased(up[i], E \ {x}, g)
      BY <2>9, <2>10, <2>11, <2>12, RebalanceStep
    <2>13. Fine(i)
      BY <2>12 DEF ErasedFrom
    <2>14. QED
      BY <2>4, <2>13 DEF i
  <1>4. Fine(0)
    <2>1. end \in 0..end /\ end - end = 0
      BY <1>1
    <2>2. QED
      BY <1>3, <2>1
  <1>5. QED
    BY <1>2, <1>4 DEF Goes, Climbs, ErasedFrom

\* A leaf, and its pairs.
LEMMA Leaf ==
    ASSUME NEW t, NEW E, NEW h, Tree(t, E, h), t # Absent, NEW i \in 0..2,
           t.childs[i] = Absent, i = 2 => t.kv[1] # Nil
    PROVE  /\ h = 1
           /\ \/ \E a \in BTreeKeys : E = {a} /\ t = Node(a, Nil, Absent, Absent, Absent)
              \/ \E a, b \in BTreeKeys : /\ a < b /\ E = {a, b}
                                         /\ t = Node(a, b, Absent, Absent, Absent)
  <1>1. E \in SUBSET BTreeKeys /\ E \subseteq Int /\ h \in Nat
    BY Split
  <1>2. CASE \E a, l, r : IsOne(t, E, h, a, l, r)
    <2>1. PICK a, l, r : IsOne(t, E, h, a, l, r)
      BY <1>2
    <2>2. /\ a \in E /\ t = Node(a, Nil, l, r, Absent)
          /\ t.childs[0] = l /\ t.childs[1] = r /\ t.kv[1] = Nil
          /\ Tree(l, Under(E, a), h - 1) /\ Tree(r, Over(E, a), h - 1)
      BY <2>1, NodeFields DEF IsOne
    <2>3. l = Absent \/ r = Absent
      <3>1. i = 0 \/ i = 1
        BY <2>2
      <3>2. QED
        BY <2>2, <3>1
    <2>4. h - 1 = 0
      BY <2>2, <2>3, Split
    <2>5. l = Absent /\ r = Absent /\ Under(E, a) = {} /\ Over(E, a) = {}
      BY <2>2, <2>4, Split
    <2>6. E = {a}
      BY <1>1, <2>2, <2>5 DEF Under, Over
    <2>7. QED
      BY <1>1, <2>2, <2>4, <2>5, <2>6
  <1>3. CASE \E a, b, l, m, r : IsTwo(t, E, h, a, b, l, m, r)
    <2>1. PICK a, b, l, m, r : IsTwo(t, E, h, a, b, l, m, r)
      BY <1>3
    <2>2. /\ a \in E /\ b \in E /\ a < b /\ t = Node(a, b, l, m, r)
          /\ t.childs[0] = l /\ t.childs[1] = m /\ t.childs[2] = r
          /\ Tree(l, Under(E, a), h - 1) /\ Tree(m, Amid(E, a, b), h - 1)
          /\ Tree(r, Over(E, b), h - 1)
      BY <2>1, NodeFields DEF IsTwo
    <2>3. l = Absent \/ m = Absent \/ r = Absent
      <3>1. i = 0 \/ i = 1 \/ i = 2
        OBVIOUS
      <3>2. QED
        BY <2>2, <3>1
    <2>4. h - 1 = 0
      BY <2>2, <2>3, Split
    <2>5. /\ l = Absent /\ m = Absent /\ r = Absent
          /\ Under(E, a) = {} /\ Amid(E, a, b) = {} /\ Over(E, b) = {}
      BY <2>2, <2>4, Split
    <2>6. E = {a, b}
      BY <1>1, <2>2, <2>5 DEF Under, Over, Amid
    <2>7. QED
      BY <1>1, <2>2, <2>4, <2>5, <2>6
  <1>4. QED
    BY <1>2, <1>3, Split

\* Leaves are trees.
LEMMA LeafTrees ==
    /\ \A a \in BTreeKeys : Tree(Node(a, Nil, Absent, Absent, Absent), {a}, 1)
    /\ \A a, b \in BTreeKeys : a < b => Tree(Node(a, b, Absent, Absent, Absent), {a, b}, 1)
  <1>1. ASSUME NEW a \in BTreeKeys PROVE Tree(Node(a, Nil, Absent, Absent, Absent), {a}, 1)
    <2> DEFINE S == {a}
    <2>1. Under(S, a) = {} /\ Over(S, a) = {} /\ S \in SUBSET BTreeKeys /\ a \in S
      BY BTreeAssumption DEF Under, Over
    <2> HIDE DEF S
    <2>2. Tree(Node(a, Nil, Absent, Absent, Absent), S, 0 + 1)
      BY <2>1, NoTree, JoinOne
    <2>3. 0 + 1 = 1
      OBVIOUS
    <2>4. QED
      BY <2>2, <2>3 DEF S
  <1>2. ASSUME NEW a \in BTreeKeys, NEW b \in BTreeKeys, a < b
        PROVE  Tree(Node(a, b, Absent, Absent, Absent), {a, b}, 1)
    <2> DEFINE S == {a, b}
    <2>1. /\ Under(S, a) = {} /\ Amid(S, a, b) = {} /\ Over(S, b) = {}
          /\ S \in SUBSET BTreeKeys /\ a \in S /\ b \in S
      BY <1>2, BTreeAssumption DEF Under, Over, Amid
    <2> HIDE DEF S
    <2>2. Tree(Node(a, b, Absent, Absent, Absent), S, 0 + 1)
      BY <1>2, <2>1, NoTree, JoinTwo
    <2>3. 0 + 1 = 1
      OBVIOUS
    <2>4. QED
      BY <2>2, <2>3 DEF S
  <1>3. QED
    BY <1>1, <1>2

\* The first pair of a leaf is the least one, and goes.
LEMMA ShiftedLeaf ==
    ASSUME NEW t, NEW E, NEW h, Tree(t, E, h), t # Absent, t.childs[0] = Absent
    PROVE  /\ t.kv[0] \in E /\ \A y \in E : t.kv[0] <= y
           /\ Erased(Shifted(t), E \ {t.kv[0]}, h)
  <1>1. h = 1 /\ (\/ \E a \in BTreeKeys : E = {a} /\ t = Node(a, Nil, Absent, Absent, Absent)
                  \/ \E a, b \in BTreeKeys : /\ a < b /\ E = {a, b}
                                             /\ t = Node(a, b, Absent, Absent, Absent))
    <2>1. 0 \in 0..2 /\ 0 # 2
      OBVIOUS
    <2>2. QED
      BY <2>1, Leaf
  <1>2. CASE \E a \in BTreeKeys : E = {a} /\ t = Node(a, Nil, Absent, Absent, Absent)
    <2>1. PICK a \in BTreeKeys : E = {a} /\ t = Node(a, Nil, Absent, Absent, Absent)
      BY <1>2
    <2>2. a \in Int /\ t.kv[0] = a /\ t.kv[1] = Nil
      BY <2>1, BTreeAssumption, NodeFields
    <2>3. WithPair(WithPair(t, 0, Nil), 1, Nil) = Gap(Absent)
      BY <2>1, NodeWith DEF Gap
    <2>4. Shifted(t) = [st |-> 1, t |-> Gap(Absent)]
      BY <2>2, <2>3 DEF Shifted
    <2>5. E \ {a} = {} /\ h - 1 = 0 /\ h \in Nat /\ h # 0
      BY <1>1, <2>1
    <2>6. Emptied(Gap(Absent), {}, h)
      BY <2>5, NoTree DEF Emptied
    <2>7. Erased(Shifted(t), {}, h)
      BY <2>4, <2>5, <2>6, ErasedFields
    <2>8. QED
      BY <2>1, <2>2, <2>5, <2>7
  <1>3. CASE \E a, b \in BTreeKeys : /\ a < b /\ E = {a, b}
                                     /\ t = Node(a, b, Absent, Absent, Absent)
    <2>1. PICK a \in BTreeKeys, b \in BTreeKeys : /\ a < b /\ E = {a, b}
                                                  /\ t = Node(a, b, Absent, Absent, Absent)
      BY <1>3
    <2>2. a \in Int /\ b \in Int /\ b # Nil /\ t.kv[0] = a /\ t.kv[1] = b
      BY <2>1, BTreeAssumption, NodeFields
    <2>3. WithPair(WithPair(t, 0, b), 1, Nil) = Node(b, Nil, Absent, Absent, Absent)
      BY <2>1, NodeWith
    <2>4. Shifted(t) = [st |-> 0, t |-> Node(b, Nil, Absent, Absent, Absent)]
      BY <2>2, <2>3 DEF Shifted
    <2>5. E \ {a} = {b} /\ h \in Nat /\ h # 0
      BY <1>1, <2>1, <2>2
    <2>6. Tree(Node(b, Nil, Absent, Absent, Absent), {b}, h)
      BY <1>1, <2>1, LeafTrees
    <2>7. Erased(Shifted(t), {b}, h)
      BY <2>4, <2>5, <2>6, ErasedFields
    <2>8. a <= a /\ a <= b
      BY <2>1, <2>2
    <2>9. QED
      BY <2>1, <2>2, <2>5, <2>7, <2>8
  <1>4. QED
    BY <1>1, <1>2, <1>3

\* erase_min takes out the least key, the one get_min gives.
LEMMA EraseMin ==
    ASSUME NEW t, NEW D, NEW h, Tree(t, D, h), t # Absent
    PROVE  /\ qBTree__get_min(t) \in D /\ \A y \in D : qBTree__get_min(t) <= y
           /\ Erased(qBTree__recursive_erase_min(t), D \ {qBTree__get_min(t)}, h)
  <1> DEFINE w == Descent(t, Nil)
             x == qBTree__get_min(t)
  <1>1. PICK n : Goes(w, n, t, D, h, Nil)
    BY DescentEnds
  <1>2. /\ x = Lowest(w).kv[0]
        /\ qBTree__recursive_erase_min(t) = Ascent(w, Nil, Shifted(Lowest(w)), "erase")
    BY DEF qBTree__get_min, qBTree__recursive_erase_min
  <1> HIDE DEF w, x
  <1>3. Lowest(w) = w[n - 1] /\ n - 1 \in 0..(n - 1)
    BY <1>1 DEF Goes, Lowest
  <1> DEFINE s == w[n - 1]
  <1>4. s # Absent /\ s.childs[0] = Absent
    BY <1>1, <1>3 DEF Goes, Stops, Turn
  <1>5. PICK E : Tree(s, E, h - (n - 1)) /\ Part(E, D, Nil)
    BY <1>1, <1>3 DEF Goes
  <1> HIDE DEF s
  <1>6. x \in E /\ \A y \in E : x <= y
    BY <1>2, <1>3, <1>4, <1>5, ShiftedLeaf DEF s
  <1>7. x \in D /\ \A y \in D : x <= y
    <2>1. D \subseteq Int
      BY Split
    <2>2. QED
      BY <1>5, <1>6, <2>1 DEF Part
  <1>8. Aims(Nil, x, D)
    BY <1>7 DEF Aims
  <1>9. ErasedFrom(s, Nil, x, Shifted(s))
    BY <1>2, <1>3, <1>4, ShiftedLeaf DEF s, ErasedFrom
  <1>10. Erased(Ascent(w, Nil, Shifted(s), "erase"), D \ {x}, h)
    BY <1>1, <1>8, <1>9, AscentErase DEF s
  <1>11. QED
    BY <1>2, <1>3, <1>7, <1>10 DEF x, s

\* x is the least key of S.
LeastOf(x, S) == x \in S /\ \A y \in S : x <= y

\* S without x.
Less(S, x) == S \ {x}

\* The least key x of a child takes the place of the key k to the left of that child:
\* what is on either side of it,
LEMMA Successor ==
    ASSUME NEW E \in SUBSET BTreeKeys, NEW k \in E, NEW x, LeastOf(x, Over(E, k)),
           NEW D, D = E \ {k}
    PROVE  /\ D \in SUBSET BTreeKeys /\ x \in D /\ k < x
           /\ Under(D, x) = Under(E, k) /\ Over(D, x) = Less(Over(E, k), x)
  <1>1. E \subseteq Int /\ k \in Int /\ x \in E /\ x \in Int /\ k < x
    BY BTreeAssumption DEF Over, LeastOf
  <1>2. \A y \in E : k < y => x <= y
    BY DEF Over, LeastOf
  <1>3. Under(D, x) = Under(E, k)
    <2>1. \A y \in E : y \in Under(D, x) <=> y \in Under(E, k)
      BY <1>1, <1>2 DEF Under
    <2> QED BY <2>1 DEF Under
  <1>4. Over(D, x) = Less(Over(E, k), x)
    <2>1. \A y \in E : y \in Over(D, x) <=> y \in Over(E, k) \ {x}
      BY <1>1, <1>2 DEF Over
    <2> QED BY <2>1 DEF Over, Less
  <1>5. QED
    BY <1>1, <1>3, <1>4

\* with a key c of the same node to its left,
LEMMA SuccessorAfter ==
    ASSUME NEW E \in SUBSET BTreeKeys, NEW k \in E, NEW x, LeastOf(x, Over(E, k)),
           NEW D, D = E \ {k}, NEW c \in Int, c < k
    PROVE  Under(D, c) = Under(E, c) /\ Amid(D, c, x) = Amid(E, c, k)
  <1>1. E \subseteq Int /\ k \in Int /\ x \in E /\ x \in Int /\ k < x
    BY BTreeAssumption DEF Over, LeastOf
  <1>2. \A y \in E : k < y => x <= y
    BY DEF Over, LeastOf
  <1>3. \A y \in E : y \in Under(D, c) <=> y \in Under(E, c)
    BY <1>1 DEF Under
  <1>4. \A y \in E : y \in Amid(D, c, x) <=> y \in Amid(E, c, k)
    BY <1>1, <1>2 DEF Amid
  <1>5. QED
    BY <1>3, <1>4 DEF Under, Amid

\* and with one to its right.
LEMMA SuccessorBefore ==
    ASSUME NEW E \in SUBSET BTreeKeys, NEW k \in E, NEW x, LeastOf(x, Over(E, k)),
           NEW D, D = E \ {k}, NEW c \in Int, x < c
    PROVE  Amid(D, x, c) = Less(Amid(E, k, c), x) /\ Over(D, c) = Over(E, c)
  <1>1. E \subseteq Int /\ k \in Int /\ x \in E /\ x \in Int /\ k < x
    BY BTreeAssumption DEF Over, LeastOf
  <1>2. \A y \in E : k < y => x <= y
    BY DEF Over, LeastOf
  <1>3. \A y \in E : y \in Amid(D, x, c) <=> y \in Amid(E, k, c) \ {x}
    BY <1>1, <1>2 DEF Amid
  <1>4. \A y \in E : y \in Over(D, c) <=> y \in Over(E, c)
    BY <1>1 DEF Over
  <1>5. QED
    BY <1>3, <1>4 DEF Over, Amid, Less

\* Erasing a pair of a node takes its key out of the node's subtree: the only pair,
LEMMA EraseOne ==
    ASSUME NEW t, NEW E, NEW h, NEW a, NEW l, NEW r, Tree(t, E, h), IsOne(t, E, h, a, l, r)
    PROVE  Erased(ErasePair(t, 0), E \ {a}, h)
  <1>1. /\ E \in SUBSET BTreeKeys /\ E \subseteq Int /\ h \in Nat
        /\ a \in E /\ a \in Int /\ t = Node(a, Nil, l, r, Absent) /\ t.childs[1] = r
        /\ Tree(l, Under(E, a), h - 1) /\ Tree(r, Over(E, a), h - 1) /\ t # Absent
    <2>1. E \in SUBSET BTreeKeys /\ E \subseteq Int /\ h \in Nat /\ Nil \notin E
      BY Split, BTreeAssumption
    <2>2. QED
      BY <2>1, NodeFields DEF IsOne
  <1>2. CASE r = Absent
    <2>1. ErasePair(t, 0) = qBTree__recursive_erase_min(t)
      <3>1. 0 + 1 = 1
        OBVIOUS
      <3>2. QED
        BY <1>1, <1>2, <3>1 DEF ErasePair
    <2>2. Over(E, a) = {} /\ h - 1 = 0
      BY <1>1, <1>2, Split
    <2>3. Under(E, a) = {}
      BY <1>1, <2>2, Split
    <2>4. E = {a}
      BY <1>1, <2>2, <2>3 DEF Under, Over
    <2>5. /\ qBTree__get_min(t) \in E
          /\ Erased(qBTree__recursive_erase_min(t), E \ {qBTree__get_min(t)}, h)
      BY <1>1, EraseMin
    <2>6. QED
      BY <2>1, <2>4, <2>5
  <1>3. CASE r # Absent
    <2> DEFINE x == qBTree__get_min(r)
               del == qBTree__recursive_erase_min(r)
               both == {"left", "right"}
               D == E \ {a}
               g == h - 1
    <2>1. ErasePair(t, 0) = Rebalance(WithPair(t, 0, x), 1, del, both)
      <3>1. 0 + 1 = 1
        OBVIOUS
      <3>2. QED
        BY <1>1, <1>3, <3>1 DEF ErasePair
    <2>2. WithPair(t, 0, x) = Node(x, Nil, l, r, Absent)
      BY <1>1, NodeWith
    <2>3. LeastOf(x, Over(E, a)) /\ Erased(del, Less(Over(E, a), x), g)
      BY <1>1, <1>3, EraseMin DEF LeastOf, Less
    <2>4. "right" \in both /\ g + 1 = h /\ D = E \ {a}
      BY <1>1
    <2> HIDE DEF x, del, both, g, D
    <2>5. /\ D \in SUBSET BTreeKeys /\ x \in D
          /\ Under(D, x) = Under(E, a) /\ Over(D, x) = Less(Over(E, a), x)
      BY <1>1, <2>3, <2>4, Successor
    <2>6. Erased(Rebalance(Node(x, Nil, l, r, Absent), 1, del, both), D, g + 1)
      <3>1. Erased(del, Over(D, x), g) /\ Tree(l, Under(D, x), g)
        BY <1>1, <2>3, <2>5 DEF g
      <3>2. QED
        BY <2>4, <2>5, <3>1, RebalanceOne1
    <2>7. QED
      BY <2>1, <2>2, <2>4, <2>6 DEF D
  <1>4. QED
    BY <1>2, <1>3

\* the first of two, and the second.
LEMMA EraseTwo ==
    ASSUME NEW t, NEW E, NEW h, NEW a, NEW b, NEW l, NEW m, NEW r, Tree(t, E, h),
           IsTwo(t, E, h, a, b, l, m, r)
    PROVE  Erased(ErasePair(t, 0), E \ {a}, h) /\ Erased(ErasePair(t, 1), E \ {b}, h)
  <1> DEFINE g == h - 1
  <1>1. /\ E \in SUBSET BTreeKeys /\ E \subseteq Int /\ h \in Nat /\ Nil \notin E
        /\ a \in E /\ a \in Int /\ b \in E /\ b \in Int /\ a < b
        /\ t = Node(a, b, l, m, r) /\ t.childs[1] = m /\ t.childs[2] = r
        /\ Tree(l, Under(E, a), g) /\ Tree(m, Amid(E, a, b), g) /\ Tree(r, Over(E, b), g)
        /\ t # Absent
    <2>1. E \in SUBSET BTreeKeys /\ E \subseteq Int /\ h \in Nat /\ Nil \notin E
      BY Split, BTreeAssumption
    <2>2. QED
      BY <2>1, NodeFields DEF IsTwo
  <1>2. g + 1 = h /\ g \in Nat
    <2>1. g \in Nat
      BY <1>1, Split
    <2>2. QED
      BY <1>1, <2>1
  <1> HIDE DEF g
  <1>3. 0 + 1 = 1 /\ 1 + 1 = 2
    OBVIOUS
  <1>4. ASSUME m = Absent \/ r = Absent
        PROVE  m = Absent /\ r = Absent /\ l = Absent /\ E = {a, b} /\ g = 0
    <2>1. g = 0
      BY <1>1, <1>4, Split
    <2>2. /\ m = Absent /\ r = Absent /\ l = Absent
          /\ Under(E, a) = {} /\ Amid(E, a, b) = {} /\ Over(E, b) = {}
      BY <1>1, <2>1, Split
    <2>3. E = {a, b}
      BY <1>1, <2>2 DEF Under, Over, Amid
    <2>4. QED
      BY <2>1, <2>2, <2>3
  <1>5. CASE m = Absent
    <2>1. ErasePair(t, 0) = qBTree__recursive_erase_min(t)
      BY <1>1, <1>3, <1>5 DEF ErasePair
    <2>2. /\ qBTree__get_min(t) \in E /\ qBTree__get_min(t) <= a
          /\ Erased(qBTree__recursive_erase_min(t), E \ {qBTree__get_min(t)}, h)
      BY <1>1, EraseMin
    <2>3. qBTree__get_min(t) = a
      BY <1>1, <1>4, <1>5, <2>2
    <2>4. ErasePair(t, 1) = [st |-> 0, t |-> WithPair(t, 1, Nil)]
      BY <1>1, <1>3, <1>4, <1>5 DEF ErasePair
    <2>5. WithPair(t, 1, Nil) = Node(a, Nil, Absent, Absent, Absent)
      BY <1>1, <1>4, <1>5, NodeWith
    <2>6. Tree(Node(a, Nil, Absent, Absent, Absent), {a}, h)
      <3>1. h = 1
        BY <1>2, <1>4, <1>5
      <3>2. QED
        BY <1>1, <3>1, LeafTrees
    <2>7. E \ {b} = {a} /\ h # 0
      BY <1>1, <1>2, <1>4, <1>5
    <2>8. Erased([st |-> 0, t |-> Node(a, Nil, Absent, Absent, Absent)], {a}, h)
      BY <1>1, <2>6, <2>7, ErasedFields
    <2>9. QED
      BY <2>1, <2>2, <2>3, <2>4, <2>5, <2>7, <2>8
  <1>6. CASE m # Absent
    <2>1. r # Absent
      BY <1>4, <1>6
    <2>2. Erased(ErasePair(t, 0), E \ {a}, h)
      <3> DEFINE x == qBTree__get_min(m)
                 del == qBTree__recursive_erase_min(m)
                 both == {"left", "right"}
                 D == E \ {a}
      <3>1. ErasePair(t, 0) = Rebalance(WithPair(t, 0, x), 1, del, both)
        BY <1>1, <1>3, <1>6 DEF ErasePair
      <3>2. WithPair(t, 0, x) = Node(x, b, l, m, r)
        BY <1>1, NodeWith
      <3>3. /\ x \in Amid(E, a, b) /\ (\A y \in Amid(E, a, b) : x <= y)
            /\ Erased(del, Less(Amid(E, a, b), x), g)
        BY <1>1, <1>6, EraseMin DEF Less
      <3>4. "right" \in both /\ "left" \in both /\ D = E \ {a}
        OBVIOUS
      <3> HIDE DEF x, del, both, D
      <3>5. x < b /\ b \in D /\ LeastOf(x, Over(E, a))
        BY <1>1, <3>3, <3>4 DEF Amid, Over, LeastOf
      <3>6. /\ D \in SUBSET BTreeKeys /\ x \in D
            /\ Under(D, x) = Under(E, a) /\ Amid(D, x, b) = Less(Amid(E, a, b), x)
            /\ Over(D, b) = Over(E, b)
        <4>1. D \in SUBSET BTreeKeys /\ x \in D /\ Under(D, x) = Under(E, a)
          BY <1>1, <3>4, <3>5, Successor
        <4>2. Amid(D, x, b) = Less(Amid(E, a, b), x) /\ Over(D, b) = Over(E, b)
          BY <1>1, <3>4, <3>5, SuccessorBefore
        <4>3. QED
          BY <4>1, <4>2
      <3>7. Erased(Rebalance(Node(x, b, l, m, r), 1, del, both), D, g + 1)
        <4>1. /\ Tree(l, Under(D, x), g) /\ Erased(del, Amid(D, x, b), g)
              /\ Tree(r, Over(D, b), g)
          BY <1>1, <3>3, <3>6
        <4>2. QED
          BY <3>4, <3>5, <3>6, <4>1, RebalanceTwo1
      <3>8. QED
        BY <1>2, <3>1, <3>2, <3>7 DEF D
    <2>3. Erased(ErasePair(t, 1), E \ {b}, h)
      <3> DEFINE x == qBTree__get_min(r)
                 del == qBTree__recursive_erase_min(r)
                 right == {"right"}
                 D == E \ {b}
      <3>1. ErasePair(t, 1) = Rebalance(WithPair(t, 1, x), 2, del, right)
        BY <1>1, <1>3, <2>1 DEF ErasePair
      <3>2. WithPair(t, 1, x) = Node(a, x, l, m, r)
        BY <1>1, NodeWith
      <3>3. LeastOf(x, Over(E, b)) /\ Erased(del, Less(Over(E, b), x), g)
        BY <1>1, <2>1, EraseMin DEF LeastOf, Less
      <3>4. "right" \in right /\ D = E \ {b} /\ a \in D
        BY <1>1
      <3> HIDE DEF x, del, right, D
      <3>5. /\ D \in SUBSET BTreeKeys /\ x \in D /\ b < x
            /\ Under(D, a) = Under(E, a) /\ Amid(D, a, x) = Amid(E, a, b)
            /\ Over(D, x) = Less(Over(E, b), x)
        <4>1. /\ D \in SUBSET BTreeKeys /\ x \in D /\ b < x
              /\ Over(D, x) = Less(Over(E, b), x)
          BY <1>1, <3>3, <3>4, Successor
        <4>2. Under(D, a) = Under(E, a) /\ Amid(D, a, x) = Amid(E, a, b)
          BY <1>1, <3>3, <3>4, SuccessorAfter
        <4>3. QED
          BY <4>1, <4>2
      <3>6. a < x
        <4>1. x \in Int
          BY <1>1, <3>3 DEF Over, LeastOf
        <4>2. QED
          BY <1>1, <3>5, <4>1
      <3>7. Erased(Rebalance(Node(a, x, l, m, r), 2, del, right), D, g + 1)
        <4>1. /\ Tree(l, Under(D, a), g) /\ Tree(m, Amid(D, a, x), g)
              /\ Erased(del, Over(D, x), g)
          BY <1>1, <3>3, <3>5
        <4>2. QED
          BY <3>4, <3>5, <3>6, <4>1, RebalanceTwo2
      <3>8. QED
        BY <1>2, <3>1, <3>2, <3>7 DEF D
    <2>4. QED
      BY <2>2, <2>3
  <1>7. QED
    BY <1>5, <1>6

\* recursive_erase takes a key of the tree out of it.
LEMMA EraseTree ==
    ASSUME NEW t, NEW D, NEW h, Tree(t, D, h), NEW k \in D
    PROVE  Erased(qBTree__recursive_erase(t, k), D \ {k}, h)
  <1>1. k \in BTreeKeys /\ t # Absent /\ k # Nil
    BY Split, BTreeAssumption
  <1> DEFINE w == Descent(t, k)
  <1>2. PICK n : Goes(w, n, t, D, h, k)
    BY <1>1, DescentEnds
  <1>3. qBTree__recursive_erase(t, k) = Ascent(w, k, EraseLast(Lowest(w), k), "erase")
    BY DEF qBTree__recursive_erase
  <1> HIDE DEF w
  <1> DEFINE s == w[n - 1]
  <1>4. Lowest(w) = s /\ PairOf(s, k) # -1 /\ s # Absent
    <2>1. n - 1 \in 0..(n - 1)
      BY <1>2 DEF Goes
    <2>2. QED
      BY <1>1, <1>2, <2>1, Lookup DEF Goes
  <1>5. EraseLast(s, k) = ErasePair(s, PairOf(s, k))
    BY <1>4 DEF EraseLast
  <1>6. Aims(k, k, D)
    BY DEF Aims
  <1> HIDE DEF s
  <1>7. ASSUME NEW F, NEW g, Tree(s, F, g) PROVE Erased(EraseLast(s, k), F \ {k}, g)
    <2>1. F \in SUBSET BTreeKeys
      BY <1>7, Split
    <2>2. CASE \E a, l, r : IsOne(s, F, g, a, l, r)
      <3>1. PICK a, l, r : IsOne(s, F, g, a, l, r)
        BY <2>2
      <3>2. PairOf(s, k) = IF k = a THEN 0 ELSE -1
        BY <1>1, <2>1, <3>1, OneWay
      <3>3. k = a /\ PairOf(s, k) = 0
        BY <1>4, <3>2
      <3>4. QED
        BY <1>5, <1>7, <3>1, <3>3, EraseOne
    <2>3. CASE \E a, b, l, m, r : IsTwo(s, F, g, a, b, l, m, r)
      <3>1. PICK a, b, l, m, r : IsTwo(s, F, g, a, b, l, m, r)
        BY <2>3
      <3>2. PairOf(s, k) = IF k = a THEN 0 ELSE IF k = b THEN 1 ELSE -1
        BY <1>1, <2>1, <3>1, TwoWay
      <3>3. (k = a /\ PairOf(s, k) = 0) \/ (k = b /\ PairOf(s, k) = 1)
        BY <1>4, <3>2
      <3>4. Erased(ErasePair(s, 0), F \ {a}, g) /\ Erased(ErasePair(s, 1), F \ {b}, g)
        BY <1>7, <3>1, EraseTwo
      <3>5. QED
        BY <1>5, <3>3, <3>4
    <2>4. QED
      BY <1>4, <1>7, <2>2, <2>3, Split
  <1>8. ErasedFrom(s, k, k, EraseLast(s, k))
    BY <1>7 DEF ErasedFrom
  <1>9. Erased(Ascent(w, k, EraseLast(s, k), "erase"), D \ {k}, h)
    BY <1>1, <1>2, <1>6, <1>8, AscentErase DEF s
  <1>10. QED
    BY <1>3, <1>4, <1>9

-----------------------------------------------------------------------------
(***************************************************************************)
(* Insertion of a key that is greater than those there.                    *)
(***************************************************************************)
\* A full node with a greater pair is split in the middle.
LEMMA OverfullSplit ==
    ASSUME NEW a \in Int, NEW b \in Int, NEW k \in Int, a < b, b < k,
           NEW l, NEW m, NEW r, NEW c
    PROVE  qBTreeNode__split_up(Overfull(Node(a, b, l, m, r), k, c))
              = [up |-> b, left |-> Node(a, Nil, l, m, Absent),
                 right |-> Node(k, Nil, c, r, Absent)]
  <1> DEFINE t == Node(a, b, l, m, r)
             f == Overfull(t, k, c)
  <1>1. f.kv = t.kv /\ f.childs = t.childs /\ f.extrakv = k /\ f.extrachild = c
    BY DEF Overfull, Node
  <1>2. /\ t.kv[0] = a /\ t.kv[1] = b
        /\ t.childs[0] = l /\ t.childs[1] = m /\ t.childs[2] = r
    BY NodeFields
  <1> HIDE DEF t, f
  <1>3. /\ f.kv[0] = a /\ f.kv[1] = b /\ f.extrakv = k /\ f.extrachild = c
        /\ f.childs[0] = l /\ f.childs[1] = m /\ f.childs[2] = r
    BY <1>1, <1>2
  <1>4. ~(k < a) /\ k >= a /\ ~(k < b) /\ k >= b
    OBVIOUS
  <1>5. qBTreeNode__split_up(f) = [up |-> b, left |-> Node(a, Nil, l, m, Absent),
                                   right |-> Node(k, Nil, c, r, Absent)]
    BY <1>3, <1>4 DEF qBTreeNode__split_up
  <1>6. QED
    BY <1>5 DEF f, t

\* What an insertion makes of a subtree: a tree of the keys D, as high as it was, or a
\* node that its parent splits into two such trees.
Parted(sp, D, h) ==
    sp.up \in D /\ Tree(sp.left, Under(D, sp.up), h) /\ Tree(sp.right, Over(D, sp.up), h)
Inserted(ins, D, h) ==
    \/ ins.st = 0 /\ Tree(ins.t, D, h)
    \/ ins.st = 1 /\ Parted(qBTreeNode__split_up(ins.t), D, h)

\* A full node that a greater key and a subtree go into.
LEMMA FullNode ==
    ASSUME NEW D \in SUBSET BTreeKeys, NEW g, NEW a \in D, NEW b \in D, NEW k \in D,
           a < b, b < k, NEW l, NEW m, NEW r, NEW c,
           Tree(l, Under(D, a), g), Tree(m, Amid(D, a, b), g),
           Tree(c, Amid(D, b, k), g), Tree(r, Over(D, k), g)
    PROVE  Inserted([st |-> 1, t |-> Overfull(Node(a, b, l, m, r), k, c)], D, g + 1)
  <1> DEFINE t == Overfull(Node(a, b, l, m, r), k, c)
             sp == qBTreeNode__split_up(t)
             p == Node(a, Nil, l, m, Absent)
             q == Node(k, Nil, c, r, Absent)
  <1>1. /\ D \in SUBSET Int /\ a \in Int /\ b \in Int /\ k \in Int
        /\ Under(D, b) \in SUBSET BTreeKeys /\ Over(D, b) \in SUBSET BTreeKeys
        /\ a \in Under(D, b) /\ k \in Over(D, b)
    BY BTreeAssumption DEF Under, Over
  <1>2. sp = [up |-> b, left |-> p, right |-> q]
    BY <1>1, OverfullSplit
  <1>3. sp.up = b /\ sp.left = p /\ sp.right = q
    BY <1>2
  <1>4. /\ Under(Under(D, b), a) = Under(D, a) /\ Over(Under(D, b), a) = Amid(D, a, b)
        /\ Under(Over(D, b), k) = Amid(D, b, k) /\ Over(Over(D, b), k) = Over(D, k)
    BY <1>1, Nested
  <1>5. Tree(p, Under(D, b), g + 1)
    BY <1>1, <1>4, JoinOne
  <1>6. Tree(q, Over(D, b), g + 1)
    BY <1>1, <1>4, JoinOne
  <1> HIDE DEF sp, p, q, t
  <1>7. Parted(sp, D, g + 1)
    BY <1>3, <1>5, <1>6 DEF Parted
  <1>8. QED
    BY <1>7 DEF Inserted, sp, t

\* A node takes in what has become of its last child: one with one pair,
LEMMA AbsorbOne ==
    ASSUME NEW D \in SUBSET BTreeKeys, NEW g, NEW a \in D, NEW l, NEW r, NEW ins,
           Tree(l, Under(D, a), g), Inserted(ins, Over(D, a), g)
    PROVE  Inserted(Absorb(Node(a, Nil, l, r, Absent), 1, ins), D, g + 1)
  <1> DEFINE t == Node(a, Nil, l, r, Absent)
             sp == qBTreeNode__split_up(ins.t)
  <1>1. CASE ins.st = 0 /\ Tree(ins.t, Over(D, a), g)
    <2>1. Absorb(t, 1, ins) = [st |-> 0, t |-> WithSub(t, 1, ins.t)]
      BY <1>1 DEF Absorb
    <2>2. WithSub(t, 1, ins.t) = Node(a, Nil, l, ins.t, Absent)
      BY NodeWith
    <2>3. Tree(Node(a, Nil, l, ins.t, Absent), D, g + 1)
      BY <1>1, JoinOne
    <2> HIDE DEF t
    <2>4. QED
      BY <2>1, <2>2, <2>3 DEF Inserted, t
  <1>2. CASE ins.st = 1 /\ Parted(sp, Over(D, a), g)
    <2> DEFINE u == sp.up
               p == sp.left
               q == sp.right
    <2>1. u \in Over(D, a) /\ Tree(p, Under(Over(D, a), u), g) /\ Tree(q, Over(Over(D, a), u), g)
      BY <1>2 DEF Parted
    <2> HIDE DEF u, p, q
    <2>2. a < u /\ u \in D /\ D \in SUBSET Int /\ a \in Int /\ u \in Int
      BY <2>1, BTreeAssumption DEF Over
    <2>3. Tree(p, Amid(D, a, u), g) /\ Tree(q, Over(D, u), g)
      BY <2>1, <2>2, Nested
    <2>4. Tree(Node(a, u, l, p, q), D, g + 1)
      BY <2>2, <2>3, JoinTwo
    <2>5. Absorb(t, 1, ins) = Promoted(t, 1, sp)
      BY <1>2 DEF Absorb
    <2>6. t.kv[1] = Nil /\ WithSub(t, 1, q) = Node(a, Nil, l, q, Absent)
          /\ Node(a, Nil, l, q, Absent).childs[1] = q
      BY NodeFields, NodeWith
    <2>7. WithSub(WithSub(WithPair(Node(a, Nil, l, q, Absent), 1, u), 1, p), 2, q)
             = Node(a, u, l, p, q)
      BY NodeWith
    <2> HIDE DEF t, sp
    <2>8. Promoted(t, 1, sp) = [st |-> 0, t |-> Node(a, u, l, p, q)]
      BY <2>6, <2>7 DEF Promoted, u, p, q
    <2>9. QED
      BY <2>4, <2>5, <2>8 DEF Inserted, t
  <1>3. QED
    BY <1>1, <1>2 DEF Inserted

\* and one with two.
LEMMA AbsorbTwo ==
    ASSUME NEW D \in SUBSET BTreeKeys, NEW g, NEW a \in D, NEW b \in D, a < b,
           NEW l, NEW m, NEW r, NEW ins,
           Tree(l, Under(D, a), g), Tree(m, Amid(D, a, b), g), Inserted(ins, Over(D, b), g)
    PROVE  Inserted(Absorb(Node(a, b, l, m, r), 2, ins), D, g + 1)
  <1> DEFINE t == Node(a, b, l, m, r)
             sp == qBTreeNode__split_up(ins.t)
  <1>1. CASE ins.st = 0 /\ Tree(ins.t, Over(D, b), g)
    <2>1. Absorb(t, 2, ins) = [st |-> 0, t |-> WithSub(t, 2, ins.t)]
      BY <1>1 DEF Absorb
    <2>2. WithSub(t, 2, ins.t) = Node(a, b, l, m, ins.t)
      BY NodeWith
    <2>3. Tree(Node(a, b, l, m, ins.t), D, g + 1)
      BY <1>1, JoinTwo
    <2> HIDE DEF t
    <2>4. QED
      BY <2>1, <2>2, <2>3 DEF Inserted, t
  <1>2. CASE ins.st = 1 /\ Parted(sp, Over(D, b), g)
    <2> DEFINE u == sp.up
               p == sp.left
               q == sp.right
    <2>1. u \in Over(D, b) /\ Tree(p, Under(Over(D, b), u), g) /\ Tree(q, Over(Over(D, b), u), g)
      BY <1>2 DEF Parted
    <2> HIDE DEF u, p, q
    <2>2. b < u /\ u \in D /\ D \in SUBSET Int /\ b \in Int /\ u \in Int /\ b # Nil
      BY <2>1, BTreeAssumption DEF Over
    <2>3. Tree(p, Amid(D, b, u), g) /\ Tree(q, Over(D, u), g)
      BY <2>1, <2>2, Nested
    <2>4. Inserted([st |-> 1, t |-> Overfull(Node(a, b, l, m, q), u, p)], D, g + 1)
      BY <2>2, <2>3, FullNode
    <2>5. Absorb(t, 2, ins) = Promoted(t, 2, sp)
      BY <1>2 DEF Absorb
    <2>6. t.kv[1] # Nil /\ WithSub(t, 2, q) = Node(a, b, l, m, q)
      BY <2>2, NodeFields, NodeWith
    <2> HIDE DEF t, sp
    <2>7. Promoted(t, 2, sp) = [st |-> 1, t |-> Overfull(Node(a, b, l, m, q), u, p)]
      BY <2>6 DEF Promoted, u, p, q
    <2>8. QED
      BY <2>4, <2>5, <2>7 DEF t
  <1>3. QED
    BY <1>1, <1>2 DEF Inserted

\* S with k, and that k is greater than all of S.
More(S, k) == S \cup {k}
Tops(k, S) == k \in BTreeKeys /\ \A y \in S : y < k

\* A greater key is to the right of each of the keys.
LEMMA MoreParts ==
    ASSUME NEW E \in SUBSET BTreeKeys, NEW k, Tops(k, E), NEW a \in E, NEW D, D = More(E, k)
    PROVE  /\ D \in SUBSET BTreeKeys /\ a \in D /\ k \in D /\ a < k
           /\ Under(D, a) = Under(E, a) /\ Over(D, a) = More(Over(E, a), k)
           /\ Tops(k, Over(E, a))
  <1>1. /\ E \subseteq Int /\ k \in Int /\ a \in Int /\ a < k /\ a \in D /\ k \in D
        /\ D \in SUBSET BTreeKeys /\ D \subseteq Int
    BY BTreeAssumption DEF Tops, More
  <1>2. \A y \in D : y \in Under(D, a) <=> y \in Under(E, a)
    BY <1>1 DEF Under, More
  <1>3. \A y \in D : y \in Over(D, a) <=> y \in More(Over(E, a), k)
    BY <1>1 DEF Over, More
  <1>4. E \subseteq D
    BY DEF More
  <1>5. Under(D, a) = Under(E, a)
    BY <1>2, <1>4 DEF Under
  <1>6. Over(D, a) = More(Over(E, a), k)
    BY <1>1, <1>3, <1>4 DEF Over, More
  <1>7. Tops(k, Over(E, a))
    BY DEF Over, Tops
  <1>8. QED
    BY <1>1, <1>5, <1>6, <1>7

\* And not between two of them.
LEMMA MoreAmid ==
    ASSUME NEW E \in SUBSET BTreeKeys, NEW k, Tops(k, E), NEW a \in E, NEW b \in E,
           NEW D, D = More(E, k)
    PROVE  Amid(D, a, b) = Amid(E, a, b)
  <1>1. E \subseteq Int /\ k \in Int /\ a \in Int /\ b \in Int /\ b < k
    BY BTreeAssumption DEF Tops
  <1>2. \A y \in D : y \in Amid(D, a, b) <=> y \in Amid(E, a, b)
    BY <1>1 DEF Amid, More
  <1>3. QED
    BY <1>2 DEF Amid, More

\* ins is what an insertion of k, a greater key, makes of the subtree c.
InsertedInto(c, k, ins) == \A F, g : Tree(c, F, g) /\ Tops(k, F) => Inserted(ins, More(F, k), g)

\* One step of the way back of an insertion.
LEMMA AbsorbStep ==
    ASSUME NEW t, NEW E, NEW h, Tree(t, E, h), t # Absent, NEW k, Tops(k, E), NEW ins,
           InsertedInto(t.childs[Turn(t, k)], k, ins)
    PROVE  Inserted(Returned("insert", t, Turn(t, k), ins), More(E, k), h)
  <1> DEFINE D == More(E, k)
             i == Turn(t, k)
             g == h - 1
             res == Returned("insert", t, i, ins)
  <1>1. E \in SUBSET BTreeKeys /\ E \subseteq Int /\ g + 1 = h /\ D = More(E, k)
    <2>1. E \in SUBSET BTreeKeys /\ E \subseteq Int /\ h \in Nat
      BY Split
    <2>2. QED
      BY <2>1
  <1>2. k \in BTreeKeys /\ k \in Int /\ k # Nil /\ i = Way(t, k) /\ \A y \in E : y < k
    BY BTreeAssumption DEF Tops, Turn
  <1>3. res = Absorb(t, i, ins)
    BY DEF Returned
  <1> HIDE DEF D, i, g, res
  <1>4. CASE \E a, l, r : IsOne(t, E, h, a, l, r)
    <2>1. PICK a, l, r : IsOne(t, E, h, a, l, r)
      BY <1>4
    <2>2. /\ a \in E /\ a \in Int /\ a < k /\ t = Node(a, Nil, l, r, Absent)
          /\ Tree(l, Under(E, a), g) /\ Tree(r, Over(E, a), g)
      BY <1>1, <1>2, <2>1 DEF IsOne, g
    <2>3. i = 1 /\ t.childs[i] = r
      <3>1. k > a => Way(t, k) = 1 /\ t.childs[Way(t, k)] = r
        <4>1. k \in BTreeKeys
          BY <1>2
        <4>2. QED
          BY <1>1, <2>1, <4>1, OneWay
      <3>2. QED
        BY <1>2, <2>2, <3>1
    <2>4. /\ D \in SUBSET BTreeKeys /\ a \in D
          /\ Under(D, a) = Under(E, a) /\ Over(D, a) = More(Over(E, a), k)
          /\ Tops(k, Over(E, a))
      BY <1>1, <2>2, MoreParts
    <2>5. Inserted(ins, Over(D, a), g) /\ Tree(l, Under(D, a), g)
      BY <2>2, <2>3, <2>4 DEF InsertedInto, i
    <2>6. Inserted(Absorb(t, 1, ins), D, g + 1)
      BY <2>2, <2>4, <2>5, AbsorbOne
    <2>7. QED
      BY <1>1, <1>3, <2>3, <2>6 DEF D, res, i
  <1>5. CASE \E a, b, l, m, r : IsTwo(t, E, h, a, b, l, m, r)
    <2>1. PICK a, b, l, m, r : IsTwo(t, E, h, a, b, l, m, r)
      BY <1>5
    <2>2. /\ a \in E /\ b \in E /\ b \in Int /\ a < b /\ b < k /\ t = Node(a, b, l, m, r)
          /\ Tree(l, Under(E, a), g) /\ Tree(m, Amid(E, a, b), g) /\ Tree(r, Over(E, b), g)
      BY <1>1, <1>2, <2>1 DEF IsTwo, g
    <2>3. i = 2 /\ t.childs[i] = r
      <3>1. k \in BTreeKeys
        BY <1>2
      <3>2. Way(t, k) = 2 /\ t.childs[2] = r
        BY <1>1, <2>1, <2>2, <3>1, LastWay
      <3>3. QED
        BY <1>2, <3>2
    <2>4. D \in SUBSET BTreeKeys /\ a \in D /\ Under(D, a) = Under(E, a)
      BY <1>1, <2>2, MoreParts
    <2>5. b \in D /\ Over(D, b) = More(Over(E, b), k) /\ Tops(k, Over(E, b))
      BY <1>1, <2>2, MoreParts
    <2>6. Amid(D, a, b) = Amid(E, a, b)
      BY <1>1, <2>2, MoreAmid
    <2>7. /\ Tree(l, Under(D, a), g) /\ Tree(m, Amid(D, a, b), g)
          /\ Inserted(ins, Over(D, b), g)
      BY <2>2, <2>3, <2>4, <2>5, <2>6 DEF InsertedInto, i
    <2>8. Inserted(Absorb(t, 2, ins), D, g + 1)
      BY <2>2, <2>4, <2>5, <2>7, AbsorbTwo
    <2>9. QED
      BY <1>1, <1>3, <2>3, <2>8 DEF D, res, i
  <1>6. QED
    BY <1>4, <1>5, Split

\* A leaf takes a greater key, if need be to be split.
LEMMA InsertLeaf ==
    ASSUME NEW t, NEW E, NEW h, Tree(t, E, h), t # Absent, NEW k, Tops(k, E),
           t.childs[Turn(t, k)] = Absent
    PROVE  Inserted(InsertLast(t, k), More(E, k), h)
  <1>1. k \in BTreeKeys /\ k \in Int /\ k # Nil /\ Turn(t, k) = Way(t, k) /\ \A y \in E : y < k
    BY BTreeAssumption DEF Tops, Turn
  <1>2. E \in SUBSET BTreeKeys
    BY Split
  <1>3. Way(t, k) \in 0..2 /\ (Way(t, k) = 2 => t.kv[1] # Nil)
    <2>1. CASE \E a, l, r : IsOne(t, E, h, a, l, r)
      <3>1. PICK a, l, r : IsOne(t, E, h, a, l, r)
        BY <2>1
      <3>2. a < k
        BY <1>1, <3>1 DEF IsOne
      <3>3. k > a => Way(t, k) = 1
        <4>1. k \in BTreeKeys
          BY <1>1
        <4>2. QED
          BY <1>2, <3>1, <4>1, OneWay
      <3>4. QED
        BY <3>2, <3>3
    <2>2. CASE \E a, b, l, m, r : IsTwo(t, E, h, a, b, l, m, r)
      <3>1. PICK a, b, l, m, r : IsTwo(t, E, h, a, b, l, m, r)
        BY <2>2
      <3>2. b < k /\ t.kv[1] = b /\ b # Nil
        BY <1>1, <1>2, <3>1, NodeFields, BTreeAssumption DEF IsTwo
      <3>3. Way(t, k) = 2
        <4>1. k \in BTreeKeys
          BY <1>1
        <4>2. QED
          BY <1>2, <3>1, <3>2, <4>1, LastWay
      <3>4. QED
        BY <3>2, <3>3
    <2>3. QED
      BY <2>1, <2>2, Split
  <1> DEFINE i == Way(t, k)
  <1>4. i \in 0..2 /\ t.childs[i] = Absent /\ (i = 2 => t.kv[1] # Nil)
    BY <1>1, <1>3
  <1> HIDE DEF i
  <1>5. h = 1 /\ (\/ \E a \in BTreeKeys : E = {a} /\ t = Node(a, Nil, Absent, Absent, Absent)
                  \/ \E a, b \in BTreeKeys : /\ a < b /\ E = {a, b}
                                             /\ t = Node(a, b, Absent, Absent, Absent))
    BY <1>4, Leaf
  <1>6. CASE \E a \in BTreeKeys : E = {a} /\ t = Node(a, Nil, Absent, Absent, Absent)
    <2>1. PICK a \in BTreeKeys : E = {a} /\ t = Node(a, Nil, Absent, Absent, Absent)
      BY <1>6
    <2>2. /\ a \in Int /\ a < k /\ t.kv[0] = a /\ t.kv[1] = Nil
          /\ \A j \in 0..2 : t.childs[j] = Absent
      <3>1. \A j \in 0..2 : j = 0 \/ j = 1 \/ j = 2
        OBVIOUS
      <3>2. QED
        BY <1>1, <2>1, <3>1, BTreeAssumption, NodeFields
    <2>3. k > t.kv[0] /\ k # t.kv[0] /\ ~(k < t.kv[0])
      BY <1>1, <2>2
    <2>4. IsLeaf(t)
      BY <2>2 DEF IsLeaf
    <2>5. InsertLast(t, k) = IntoLeaf(t, k)
      BY <2>4 DEF InsertLast
    <2>6. IntoLeaf(t, k) = [st |-> 0, t |-> WithPair(t, 1, k)]
      BY <2>2, <2>3 DEF IntoLeaf
    <2>7. WithPair(t, 1, k) = Node(a, k, Absent, Absent, Absent)
      BY <2>1, NodeWith
    <2>8. Tree(Node(a, k, Absent, Absent, Absent), {a, k}, 1)
      BY <1>1, <2>1, <2>2, LeafTrees
    <2>9. More(E, k) = {a, k}
      BY <2>1 DEF More
    <2>10. QED
      BY <1>5, <2>5, <2>6, <2>7, <2>8, <2>9 DEF Inserted
  <1>7. CASE \E a, b \in BTreeKeys : /\ a < b /\ E = {a, b}
                                     /\ t = Node(a, b, Absent, Absent, Absent)
    <2>1. PICK a \in BTreeKeys, b \in BTreeKeys : /\ a < b /\ E = {a, b}
                                                  /\ t = Node(a, b, Absent, Absent, Absent)
      BY <1>7
    <2>2. /\ a \in Int /\ b \in Int /\ a < k /\ b < k /\ t.kv[1] # Nil
          /\ \A j \in 0..2 : t.childs[j] = Absent
      <3>1. \A j \in 0..2 : j = 0 \/ j = 1 \/ j = 2
        OBVIOUS
      <3>2. QED
        BY <1>1, <2>1, <3>1, BTreeAssumption, NodeFields
    <2>3. IsLeaf(t)
      BY <2>2 DEF IsLeaf
    <2>4. InsertLast(t, k) = IntoLeaf(t, k)
      BY <2>3 DEF InsertLast
    <2>5. IntoLeaf(t, k) = [st |-> 1, t |-> Overfull(t, k, Absent)]
      BY <2>2 DEF IntoLeaf
    <2> DEFINE D == More(E, k)
    <2>6. D \in SUBSET BTreeKeys /\ a \in D /\ b \in D /\ k \in D
      BY <1>1, <2>1 DEF More
    <2>7. Under(D, a) = {} /\ Amid(D, a, b) = {} /\ Amid(D, b, k) = {} /\ Over(D, k) = {}
      <3>1. \A y \in D : y = a \/ y = b \/ y = k
        BY <2>1 DEF More
      <3>2. \A y \in D : ~(y < a) /\ ~(a < y /\ y < b) /\ ~(b < y /\ y < k) /\ ~(y > k)
        BY <1>1, <2>1, <2>2, <3>1
      <3> HIDE DEF D
      <3>3. QED
        BY <3>2 DEF Under, Over, Amid
    <2> HIDE DEF D
    <2>8. Inserted([st |-> 1, t |-> Overfull(t, k, Absent)], D, 0 + 1)
      BY <2>1, <2>2, <2>6, <2>7, NoTree, FullNode
    <2>9. 0 + 1 = 1
      OBVIOUS
    <2>10. QED
      BY <1>5, <2>4, <2>5, <2>8, <2>9 DEF D
  <1>8. QED
    BY <1>5, <1>6, <1>7

\* An insertion at the end of a walk is one into the whole tree.
LEMMA AscentInsert ==
    ASSUME NEW t, NEW D, NEW h, Tree(t, D, h), NEW k, Tops(k, D), NEW w, NEW n,
           Goes(w, n, t, D, h, k), NEW last, InsertedInto(w[n - 1], k, last)
    PROVE  Inserted(Ascent(w, k, last, "insert"), More(D, k), h)
  <1> DEFINE end == n - 1
  <1>1. end \in Nat /\ Ground(w) - 1 = end
    BY DEF Goes
  <1>2. PICK up : Climbs(up, w, k, last, "insert", end)
    <2> HIDE DEF end
    <2> QED BY <1>1, AscentSteps
  <1> DEFINE Fine(i) == InsertedInto(w[i], k, up[i])
             T == {j \in 0..end : ~Fine(end - j)}
  <1>3. T = {}
    <2>1. SUFFICES ASSUME T # {} PROVE FALSE
      OBVIOUS
    <2>2. T \in SUBSET Nat
      BY <1>1
    <2>3. PICK j \in T : \A y \in T : j <= y
      <3> HIDE DEF T
      <3> QED BY <2>1, <2>2, Least
    <2>4. j \in 0..end /\ ~Fine(end - j)
      OBVIOUS
    <2>5. j # 0
      <3>1. Fine(end)
        BY <1>2 DEF Climbs
      <3>2. end - 0 = end
        BY <1>1
      <3>3. QED
        BY <2>4, <3>1, <3>2
    <2> DEFINE i == end - j
    <2>6. j - 1 \in 0..end /\ end - (j - 1) = i + 1 /\ i \in 0..end /\ i # end /\ ~(j <= j - 1)
      BY <1>1, <2>4, <2>5
    <2>7. Fine(i + 1)
      <3>1. j - 1 \notin T
        <4> HIDE DEF T
        <4> QED BY <2>3, <2>6
      <3>2. QED
        BY <2>6, <3>1
    <2> HIDE DEF i
    <2>8. i \in 0..(n - 1) /\ i < n - 1
      BY <1>1, <2>6
    <2>9. w[i] # Absent /\ w[i + 1] = w[i].childs[Turn(w[i], k)]
      BY <2>8 DEF Goes
    <2>10. up[i] = Returned("insert", w[i], Turn(w[i], k), up[i + 1])
      BY <1>2, <2>6 DEF Climbs
    <2>11. InsertedInto(w[i].childs[Turn(w[i], k)], k, up[i + 1])
      BY <2>7, <2>9
    <2>12. ASSUME NEW E, NEW g, Tree(w[i], E, g), Tops(k, E)
           PROVE  Inserted(up[i], More(E, k), g)
      BY <2>9, <2>10, <2>11, <2>12, AbsorbStep
    <2>13. Fine(i)
      BY <2>12 DEF InsertedInto
    <2>14. QED
      BY <2>4, <2>13 DEF i
  <1>4. Fine(0)
    <2>1. end \in 0..end /\ end - end = 0
      BY <1>1
    <2>2. QED
      BY <1>3, <2>1
  <1>5. QED
    BY <1>2, <1>4 DEF Goes, Climbs, InsertedInto

\* recursive_insert adds a greater key, and the root that has to be split becomes two.
LEMMA InsertTree ==
    ASSUME NEW t, NEW D, NEW h, Tree(t, D, h), NEW k, Tops(k, D)
    PROVE  /\ Grown(qBTree__recursive_insert(t, k)).st = 0
           /\ \E g : Tree(Grown(qBTree__recursive_insert(t, k)).t, More(D, k), g)
  <1> DEFINE ins == qBTree__recursive_insert(t, k)
             E == More(D, k)
  <1>1. D \in SUBSET BTreeKeys /\ k \in BTreeKeys /\ k # Nil /\ k \notin D
    <2>1. k \notin D
      BY Split, BTreeAssumption DEF Tops
    <2>2. QED
      BY <2>1, Split, BTreeAssumption DEF Tops
  <1>2. E \in SUBSET BTreeKeys
    BY <1>1 DEF More
  <1>3. CASE t = Absent
    <2>1. ins = [st |-> 0, t |-> Node(k, Nil, Absent, Absent, Absent)]
      BY <1>3 DEF qBTree__recursive_insert, Alone
    <2>2. E = {k}
      BY <1>3, Split DEF More
    <2>3. Tree(ins.t, E, 1)
      BY <1>1, <2>1, <2>2, LeafTrees
    <2>4. Grown(ins) = ins /\ ins.st = 0
      BY <2>1 DEF Grown
    <2> HIDE DEF ins, E
    <2>5. QED
      BY <2>3, <2>4 DEF ins, E
  <1>4. CASE t # Absent
    <2> DEFINE w == Descent(t, k)
    <2>1. PICK n : Goes(w, n, t, D, h, k)
      BY <1>1, <1>4, DescentEnds
    <2>2. ins = Ascent(w, k, InsertLast(Lowest(w), k), "insert")
      BY <1>4 DEF qBTree__recursive_insert
    <2> HIDE DEF w
    <2> DEFINE s == w[n - 1]
    <2>3. Lowest(w) = s /\ s # Absent /\ s.childs[Turn(s, k)] = Absent
      <3>1. n - 1 \in 0..(n - 1)
        BY <2>1 DEF Goes
      <3>2. Lowest(w) = s /\ PairOf(s, k) = -1
        BY <1>1, <2>1, Lookup
      <3>3. QED
        BY <2>1, <3>1, <3>2 DEF Goes, Stops
    <2> HIDE DEF s
    <2>4. InsertedInto(s, k, InsertLast(s, k))
      <3>1. ASSUME NEW F, NEW g, Tree(s, F, g), Tops(k, F)
            PROVE  Inserted(InsertLast(s, k), More(F, k), g)
        BY <2>3, <3>1, InsertLeaf
      <3>2. QED
        BY <3>1 DEF InsertedInto
    <2>5. Inserted(Ascent(w, k, InsertLast(s, k), "insert"), E, h)
      BY <2>1, <2>4, AscentInsert DEF s
    <2>6. Inserted(ins, E, h)
      BY <2>2, <2>3, <2>5
    <2> HIDE DEF ins, E
    <2>7. CASE ins.st = 0 /\ Tree(ins.t, E, h)
      <3>1. Grown(ins) = ins
        BY <2>7 DEF Grown
      <3>2. QED
        BY <2>7, <3>1 DEF ins, E
    <2>8. CASE ins.st = 1 /\ Parted(qBTreeNode__split_up(ins.t), E, h)
      <3> DEFINE sp == qBTreeNode__split_up(ins.t)
                 u == sp.up
                 p == sp.left
                 q == sp.right
      <3>1. Grown(ins) = [st |-> 0, t |-> Node(u, Nil, p, q, Absent)]
        BY <2>8 DEF Grown
      <3>2. u \in E /\ Tree(p, Under(E, u), h) /\ Tree(q, Over(E, u), h)
        BY <2>8 DEF Parted
      <3> HIDE DEF sp, u, p, q
      <3>3. Tree(Node(u, Nil, p, q, Absent), E, h + 1)
        BY <1>2, <3>2, JoinOne
      <3>4. Grown(ins).st = 0 /\ Grown(ins).t = Node(u, Nil, p, q, Absent)
        BY <3>1
      <3>5. QED
        BY <3>3, <3>4 DEF ins, E
    <2>9. QED
      BY <2>6, <2>7, <2>8 DEF Inserted
  <1>5. QED
    BY <1>3, <1>4

-----------------------------------------------------------------------------
(***************************************************************************)
(* Insertion of a key that is there already.                               *)
(***************************************************************************)
\* A child put where it was.
LEMMA SameSub ==
    ASSUME NEW t, NEW E, NEW h, Tree(t, E, h), t # Absent, NEW i \in 0..2
    PROVE  WithSub(t, i, t.childs[i]) = t
  <1>1. PICK a, b, l, m, r : t = Node(a, b, l, m, r)
    BY Split DEF IsOne, IsTwo
  <1>2. i = 0 \/ i = 1 \/ i = 2
    OBVIOUS
  <1>3. t.childs[0] = l /\ t.childs[1] = m /\ t.childs[2] = r
    BY <1>1, NodeFields
  <1>4. WithSub(t, 0, l) = t /\ WithSub(t, 1, m) = t /\ WithSub(t, 2, r) = t
    BY <1>1, NodeWith
  <1>5. QED
    BY <1>2, <1>3, <1>4

\* The child numbers there are.
LEMMA Ways ==
    ASSUME NEW t, NEW k
    PROVE  Way(t, k) \in 0..2
  BY DEF Way

\* What the refusal of a key leaves of t.
Refused(t) == [st |-> -1, t |-> t]

\* A refusal at the end of a walk leaves the whole tree as it was.
LEMMA AscentRefused ==
    ASSUME NEW t, NEW D, NEW h, NEW k \in BTreeKeys, NEW w, NEW n,
           Goes(w, n, t, D, h, k), NEW last, last = Refused(w[n - 1])
    PROVE  Ascent(w, k, last, "insert") = Refused(t)
  <1> DEFINE end == n - 1
  <1>1. end \in Nat /\ Ground(w) - 1 = end
    BY DEF Goes
  <1>2. PICK up : Climbs(up, w, k, last, "insert", end)
    <2> HIDE DEF end
    <2> QED BY <1>1, AscentSteps
  <1> DEFINE Fine(i) == up[i] = Refused(w[i])
             T == {j \in 0..end : ~Fine(end - j)}
  <1>3. T = {}
    <2>1. SUFFICES ASSUME T # {} PROVE FALSE
      OBVIOUS
    <2>2. T \in SUBSET Nat
      BY <1>1
    <2>3. PICK j \in T : \A y \in T : j <= y
      <3> HIDE DEF T
      <3> QED BY <2>1, <2>2, Least
    <2>4. j \in 0..end /\ ~Fine(end - j)
      OBVIOUS
    <2>5. j # 0
      <3>1. Fine(end)
        BY <1>2 DEF Climbs
      <3>2. end - 0 = end
        BY <1>1
      <3>3. QED
        BY <2>4, <3>1, <3>2
    <2> DEFINE i == end - j
    <2>6. j - 1 \in 0..end /\ end - (j - 1) = i + 1 /\ i \in 0..end /\ i # end /\ ~(j <= j - 1)
      BY <1>1, <2>4, <2>5
    <2>7. Fine(i + 1)
      <3>1. j - 1 \notin T
        <4> HIDE DEF T
        <4> QED BY <2>3, <2>6
      <3>2. QED
        BY <2>6, <3>1
    <2> HIDE DEF i
    <2>8. i \in 0..(n - 1) /\ i < n - 1
      BY <1>1, <2>6
    <2> DEFINE s == w[i]
               c == Turn(s, k)
    <2>9. s # Absent /\ w[i + 1] = s.childs[c] /\ \E E, g : Tree(s, E, g)
      BY <2>8 DEF Goes
    <2>10. up[i] = Returned("insert", s, c, Refused(s.childs[c]))
      BY <1>2, <2>6, <2>7, <2>9 DEF Climbs
    <2>11. c \in 0..2
      BY Ways, BTreeAssumption DEF Turn
    <2> HIDE DEF s, c
    <2>12. WithSub(s, c, s.childs[c]) = s
      BY <2>9, <2>11, SameSub
    <2>13. Returned("insert", s, c, Refused(s.childs[c])) = Refused(s)
      BY <2>12 DEF Returned, Absorb, Refused
    <2>14. QED
      BY <2>4, <2>10, <2>13 DEF i, s
  <1>4. Fine(0)
    <2>1. end \in 0..end /\ end - end = 0
      BY <1>1
    <2>2. QED
      BY <1>3, <2>1
  <1>5. QED
    BY <1>2, <1>4 DEF Goes, Climbs

\* Where the tree looks for the key, it refuses it.
LEMMA InsertSame ==
    ASSUME NEW t, NEW D, NEW h, Tree(t, D, h), NEW k \in D,
           LET s == Lowest(Descent(t, k)) IN s.kv[1] = Nil \/ s.childs[0] # Absent
    PROVE  Grown(qBTree__recursive_insert(t, k)) = Refused(t)
  <1>1. k \in BTreeKeys /\ t # Absent /\ k # Nil
    BY Split, BTreeAssumption
  <1> DEFINE w == Descent(t, k)
             last == InsertLast(Lowest(w), k)
  <1>2. PICK n : Goes(w, n, t, D, h, k)
    BY <1>1, DescentEnds
  <1>3. qBTree__recursive_insert(t, k) = Ascent(w, k, last, "insert")
    BY <1>1 DEF qBTree__recursive_insert
  <1> DEFINE s == w[n - 1]
  <1>4. Lowest(w) = s /\ PairOf(s, k) # -1
    <2> HIDE DEF w
    <2> QED BY <1>1, <1>2, Lookup
  <1>5. s.kv[1] = Nil \/ s.childs[0] # Absent
    BY <1>4
  <1> HIDE DEF w
  <1>6. InsertLast(s, k) = Refused(s)
    <2> HIDE DEF s
    <2>1. CASE IsLeaf(s)
      <3>1. s.childs[0] = Absent
        BY <2>1 DEF IsLeaf
      <3>2. s.kv[1] = Nil
        BY <1>5, <3>1
      <3>3. k = s.kv[0]
        BY <1>1, <1>4, <3>2 DEF PairOf
      <3>4. IntoLeaf(s, k) = Refused(s)
        <4>1. k \in Int
          BY <1>1, BTreeAssumption
        <4>2. ~(k > s.kv[0]) /\ ~(k < s.kv[0])
          BY <3>3, <4>1
        <4>3. QED
          BY <3>2, <3>3, <4>2 DEF IntoLeaf, Refused
      <3>5. QED
        BY <2>1, <3>4 DEF InsertLast
    <2>2. CASE ~IsLeaf(s)
      BY <1>4, <2>2 DEF InsertLast, Refused
    <2>3. QED
      BY <2>1, <2>2
  <1>7. last = Refused(w[n - 1])
    BY <1>4, <1>6
  <1> HIDE DEF last
  <1>8. Ascent(w, k, last, "insert") = Refused(t)
    BY <1>1, <1>2, <1>7, AscentRefused
  <1>9. Grown(Refused(t)) = Refused(t)
    BY DEF Grown, Refused
  <1>10. QED
    BY <1>3, <1>8, <1>9

-----------------------------------------------------------------------------
(***************************************************************************)
(* The B-tree.                                                             *)
(***************************************************************************)
\* The root without a pair gives way to what hangs on it.
LEMMA EraseRoot ==
    ASSUME NEW t, NEW D, NEW h, Tree(t, D, h), NEW k \in D
    PROVE  /\ Shrunk(qBTree__recursive_erase(t, k)).st # -1
           /\ \E g : Tree(Shrunk(qBTree__recursive_erase(t, k)).t, D \ {k}, g)
  <1> DEFINE del == qBTree__recursive_erase(t, k)
             E == D \ {k}
  <1>1. Erased(del, E, h)
    BY EraseTree
  <1> HIDE DEF del, E
  <1>2. CASE del.st = 0 /\ Tree(del.t, E, h)
    <2>1. Shrunk(del) = del
      BY <1>2 DEF Shrunk
    <2>2. QED
      BY <1>2, <2>1 DEF del, E
  <1>3. CASE del.st = 1 /\ Emptied(del.t, E, h)
    <2>1. PICK c : del.t = Gap(c) /\ Tree(c, E, h - 1)
      BY <1>3 DEF Emptied
    <2>2. del.t.childs[0] = c
      BY <2>1, NodeFields DEF Gap
    <2>3. Shrunk(del).st = 1 /\ Shrunk(del).t = c
      BY <1>3, <2>2 DEF Shrunk
    <2>4. QED
      BY <2>1, <2>3 DEF del, E
  <1>4. QED
    BY <1>1, <1>2, <1>3 DEF Erased

\* ptr_at finds what is there, and nothing else.
LEMMA PtrAt ==
    ASSUME NEW h, Tree(broot, bkeys, h), NEW k \in BTreeKeys
    PROVE  /\ qBTree__ptr_at(k) # Nil <=> k \in bkeys
           /\ k \in bkeys => LET it == qBTree__ptr_at(k) IN At(broot, it.track).kv[it.which] = k
  <1>1. CASE broot = Absent
    <2>1. bkeys = {}
      BY <1>1, Split
    <2>2. qBTree__ptr_at(k) = Nil
      BY <1>1 DEF qBTree__ptr_at
    <2>3. QED
      BY <2>1, <2>2
  <1>2. CASE broot # Absent
    <2> DEFINE w == Descent(broot, k)
    <2>1. PICK n : Goes(w, n, broot, bkeys, h, k)
      BY <1>2, DescentEnds
    <2> DEFINE m == n - 1
               s == w[m]
               p == PairOf(s, k)
               track == [i \in 1..m |-> Way(w[i - 1], k)]
    <2>2. m \in Nat /\ Ground(w) - 1 = m
      BY <2>1 DEF Goes
    <2>3. /\ Lowest(w) = s /\ p \in {-1, 0, 1}
          /\ p # -1 <=> k \in bkeys
          /\ p # -1 => s.kv[p] = k
      <3> HIDE DEF w
      <3> QED BY <2>1, Lookup
    <2>4. qBTree__ptr_at(k) = IF p = -1 THEN Nil ELSE [track |-> track, which |-> p]
      <3>1. Ground(w) - 1 = m /\ Lowest(w) = s
        BY <2>2, <2>3
      <3>2. QED
        BY <1>2, <3>1 DEF qBTree__ptr_at
    <2> HIDE DEF w
    <2>5. track \in Seq(0..2) /\ Len(track) = m
      <3> HIDE DEF m
      <3>1. \A i \in 1..m : Way(w[i - 1], k) \in 0..2
        BY Ways
      <3>2. QED
        BY <2>2, <3>1
    <2>6. \A i \in 1..m : w[i] = w[i - 1].childs[track[i]]
      <3>1. SUFFICES ASSUME NEW i \in 1..m PROVE w[i] = w[i - 1].childs[track[i]]
        OBVIOUS
      <3> DEFINE j == i - 1
      <3>2. j \in 0..(n - 1) /\ j < n - 1 /\ j + 1 = i
        BY <2>2
      <3>3. w[j + 1] = w[j].childs[Turn(w[j], k)]
        BY <2>1, <3>2 DEF Goes
      <3>4. Turn(w[j], k) = Way(w[j], k) /\ track[i] = Way(w[j], k)
        BY BTreeAssumption DEF Turn
      <3>5. QED
        BY <3>2, <3>3, <3>4
    <2> HIDE DEF m, track
    <2>7. At(w[0], track) = s
      BY <2>2, <2>5, <2>6, AtWalk
    <2>8. w[0] = broot
      BY <2>1 DEF Goes
    <2> HIDE DEF s, p
    <2>9. p # -1 => [track |-> track, which |-> p] # Nil
      <3>1. SUFFICES ASSUME p # -1 PROVE [track |-> track, which |-> p] # Nil
        OBVIOUS
      <3>2. p \in 0..1
        BY <2>3, <3>1
      <3>3. [track |-> track, which |-> p] \in [track : Seq(0..2), which : 0..1]
        BY <2>5, <3>2
      <3>4. QED
        BY <3>3, BTreeAssumption
    <2>10. QED
      BY <2>3, <2>4, <2>7, <2>8, <2>9
  <1>3. QED
    BY <1>1, <1>2

\* The children of the subtrees in S.
Deeper(S) == UNION {{s.childs[j] : j \in 0..(LastPair(s) + 1)} : s \in (S \ {Absent})}

\* The subtrees at each depth, step by step.
LEMMA SubtreeSteps ==
    ASSUME NEW t
    PROVE  /\ SubtreesAt(t)[0] = {t}
           /\ \A i \in 0..(BTreeDeepest - 1) : SubtreesAt(t)[i + 1] = Deeper(SubtreesAt(t)[i])
  <1> DEFINE Visit(f, i) == IF i = 0 THEN {t} ELSE Deeper(f[i - 1])
             Fits(f, n) == f = [i \in 0..n |-> Visit(f, i)]
             w == CHOOSE f : Fits(f, BTreeDeepest)
  <1>1. BTreeDeepest \in Nat
    BY KeySets
  <1>2. ASSUME NEW n \in Nat PROVE \E f : Fits(f, n)
    <2> DEFINE T == {m \in Nat : ~\E f : Fits(f, m)}
    <2>1. SUFFICES ASSUME T # {} PROVE FALSE
      OBVIOUS
    <2>2. T \in SUBSET Nat
      OBVIOUS
    <2>3. PICK x \in T : \A y \in T : x <= y
      <3> HIDE DEF T
      <3> QED BY <2>1, <2>2, Least
    <2>4. CASE x = 0
      <3> DEFINE f == [i \in 0..0 |-> {t}]
      <3>1. \A i \in 0..0 : Visit(f, i) = {t}
        OBVIOUS
      <3>2. Fits(f, 0)
        BY <3>1
      <3>3. QED
        BY <2>3, <2>4, <3>2
    <2>5. CASE x # 0
      <3>1. x - 1 \in Nat /\ x - 1 \notin T
        <4> HIDE DEF T
        <4>1. x \in Nat
          BY <2>2
        <4>2. QED
          BY <2>3, <2>5, <4>1
      <3>2. PICK f : Fits(f, x - 1)
        BY <3>1
      <3> DEFINE g == [i \in 0..x |-> IF i = x THEN Visit(f, x) ELSE f[i]]
      <3>3. \A i \in 0..(x - 1) : f[i] = Visit(f, i)
        BY <3>2
      <3>4. ASSUME NEW i \in 0..x PROVE Visit(g, i) = g[i]
        <4>1. CASE i = 0
          <5>1. 0 \in 0..(x - 1) /\ i # x
            BY <2>5, <3>1, <4>1
          <5>2. QED
            BY <3>3, <4>1, <5>1
        <4>2. CASE i # 0
          <5>1. i - 1 \in 0..x /\ i - 1 # x
            BY <4>2
          <5>2. g[i - 1] = f[i - 1]
            BY <5>1
          <5>3. Visit(g, i) = Visit(f, i)
            BY <5>2
          <5>4. i # x => i \in 0..(x - 1)
            BY <3>1
          <5>5. g[i] = IF i = x THEN Visit(f, x) ELSE f[i]
            OBVIOUS
          <5> HIDE DEF Visit, g
          <5>6. QED
            BY <3>3, <5>3, <5>4, <5>5
        <4>3. QED
          BY <4>1, <4>2
      <3>5. g = [i \in 0..x |-> g[i]]
        OBVIOUS
      <3> HIDE DEF g
      <3>6. Fits(g, x)
        BY <3>4, <3>5
      <3>7. QED
        BY <2>3, <3>6
    <2>6. QED
      BY <2>4, <2>5
  <1>3. Fits(w, BTreeDeepest)
    <2> HIDE DEF Fits
    <2>1. PICK f : Fits(f, BTreeDeepest)
      BY <1>1, <1>2
    <2>2. QED
      BY <2>1
  <1>4. SubtreesAt(t) = w
    BY DEF SubtreesAt, Deeper
  <1> HIDE DEF w
  <1>5. \A i \in 0..BTreeDeepest : w[i] = Visit(w, i)
    BY <1>3
  <1>6. w[0] = {t}
    BY <1>1, <1>5
  <1>7. ASSUME NEW i \in 0..(BTreeDeepest - 1) PROVE w[i + 1] = Deeper(w[i])
    <2>1. i + 1 \in 0..BTreeDeepest /\ i + 1 # 0 /\ (i + 1) - 1 = i
      BY <1>1
    <2>2. QED
      BY <1>5, <2>1
  <1>8. QED
    BY <1>4, <1>6, <1>7

\* s is a tree of height h.
High(s, h) == \E E : Tree(s, E, h)

\* The children of a node are trees, one less high.
LEMMA Children ==
    ASSUME NEW t, NEW h, High(t, h), t # Absent, NEW j \in 0..(LastPair(t) + 1)
    PROVE  High(t.childs[j], h - 1)
  <1>1. PICK E : Tree(t, E, h)
    BY DEF High
  <1>2. CASE \E a, l, r : IsOne(t, E, h, a, l, r)
    <2>1. PICK a, l, r : IsOne(t, E, h, a, l, r)
      BY <1>2
    <2>2. t.kv[1] = Nil /\ t.childs[0] = l /\ t.childs[1] = r
      BY <2>1, NodeFields DEF IsOne
    <2>3. j = 0 \/ j = 1
      BY <2>2 DEF LastPair
    <2>4. QED
      BY <2>1, <2>2, <2>3 DEF IsOne, High
  <1>3. CASE \E a, b, l, m, r : IsTwo(t, E, h, a, b, l, m, r)
    <2>1. PICK a, b, l, m, r : IsTwo(t, E, h, a, b, l, m, r)
      BY <1>3
    <2>2. t.childs[0] = l /\ t.childs[1] = m /\ t.childs[2] = r
      BY <2>1, NodeFields DEF IsTwo
    <2>3. j = 0 \/ j = 1 \/ j = 2
      BY DEF LastPair
    <2>4. QED
      BY <2>1, <2>2, <2>3 DEF IsTwo, High
  <1>4. QED
    BY <1>1, <1>2, <1>3, Split

\* The subtrees at depth i of a tree that is h high.
Levelled(S, h, i) == IF i <= h THEN \A s \in S : High(s, h - i) ELSE S = {}

\* One level further down.
LEMMA NextLevel ==
    ASSUME NEW S, NEW h \in Nat, NEW i \in Nat, Levelled(S, h, i)
    PROVE  Levelled(Deeper(S), h, i + 1)
  <1>1. \A s : s \in Deeper(S) =>
           \E p \in S : p # Absent /\ \E j \in 0..(LastPair(p) + 1) : s = p.childs[j]
    BY DEF Deeper
  <1>2. CASE i < h
    <2>1. i <= h /\ i + 1 <= h /\ (h - i) - 1 = h - (i + 1)
      BY <1>2
    <2>2. ASSUME NEW s \in Deeper(S) PROVE High(s, h - (i + 1))
      <3>1. PICK p \in S : p # Absent /\ \E j \in 0..(LastPair(p) + 1) : s = p.childs[j]
        BY <1>1
      <3>2. PICK j \in 0..(LastPair(p) + 1) : s = p.childs[j]
        BY <3>1
      <3>3. High(p, h - i)
        BY <2>1 DEF Levelled
      <3> DEFINE g == h - i
      <3>4. High(p, g)
        BY <3>3
      <3> HIDE DEF g
      <3>5. High(p.childs[j], g - 1)
        BY <3>1, <3>4, Children
      <3>6. QED
        BY <2>1, <3>2, <3>5 DEF g
    <2>3. QED
      BY <2>1, <2>2 DEF Levelled
  <1>3. CASE ~(i < h)
    <2>1. ~(i + 1 <= h) /\ (i <= h => h - i = 0)
      BY <1>3
    <2>2. ASSUME NEW s \in Deeper(S) PROVE FALSE
      <3>1. PICK p \in S : p # Absent
        BY <1>1
      <3>2. High(p, 0)
        BY <2>1 DEF Levelled
      <3>3. PICK E : Tree(p, E, 0)
        BY <3>2 DEF High
      <3>4. QED
        BY <3>1, <3>3, Split
    <2>3. Deeper(S) = {}
      BY <2>2
    <2>4. QED
      BY <2>1, <2>3 DEF Levelled
  <1>4. QED
    BY <1>2, <1>3

\* The leaves of a tree are all at the same depth.
LEMMA EvenTree ==
    ASSUME NEW t, NEW D, NEW h, Tree(t, D, h), NEW i \in 0..BTreeDeepest,
           Absent \in SubtreesAt(t)[i]
    PROVE  SubtreesAt(t)[i] = {Absent}
  <1> DEFINE w == SubtreesAt(t)
             d == BTreeDeepest
             T == {n \in 0..d : ~Levelled(w[n], h, n)}
  <1>1. h \in Nat /\ d \in Nat
    BY Split, KeySets
  <1>2. w[0] = {t} /\ \A n \in 0..(d - 1) : w[n + 1] = Deeper(w[n])
    BY SubtreeSteps
  <1> HIDE DEF w, d
  <1>3. T = {}
    <2>1. SUFFICES ASSUME T # {} PROVE FALSE
      OBVIOUS
    <2>2. T \in SUBSET Nat
      BY <1>1
    <2>3. PICK x \in T : \A y \in T : x <= y
      <3> HIDE DEF T
      <3> QED BY <2>1, <2>2, Least
    <2>4. x \in 0..d /\ ~Levelled(w[x], h, x)
      OBVIOUS
    <2>5. x # 0
      <3>1. 0 <= h /\ h - 0 = h
        BY <1>1
      <3>2. High(t, h)
        BY DEF High
      <3>3. Levelled({t}, h, 0)
        BY <3>1, <3>2 DEF Levelled
      <3>4. QED
        BY <1>2, <2>4, <3>3
    <2> DEFINE y == x - 1
    <2>6. y \in Nat /\ y \in 0..d /\ y \in 0..(d - 1) /\ y + 1 = x /\ ~(x <= y)
      BY <1>1, <2>4, <2>5
    <2>7. Levelled(w[y], h, y)
      <3>1. y \notin T
        <4> HIDE DEF T, y
        <4> QED BY <2>3, <2>6
      <3>2. QED
        BY <2>6, <3>1
    <2> HIDE DEF y
    <2>8. Levelled(Deeper(w[y]), h, y + 1)
      BY <1>1, <2>6, <2>7, NextLevel
    <2>9. QED
      BY <1>2, <2>4, <2>6, <2>8
  <1>4. Levelled(w[i], h, i) /\ i \in Nat /\ Absent \in w[i]
    BY <1>1, <1>3 DEF w, d
  <1>5. i <= h /\ \A s \in w[i] : High(s, h - i)
    BY <1>4 DEF Levelled
  <1>6. h - i = 0
    <2>1. PICK E : Tree(Absent, E, h - i)
      BY <1>4, <1>5 DEF High
    <2>2. QED
      BY <2>1, Split
  <1>7. \A s \in w[i] : s = Absent
    BY <1>5, <1>6, Split DEF High
  <1>8. QED
    BY <1>4, <1>7 DEF w

\* The inductive invariant: the root is the tree of the keys, and size their number.
BTreeInv ==
    /\ \E h : Tree(broot, bkeys, h)
    /\ bsize = Cardinality(bkeys)

\* No operation yet.
LEMMA BTreeInitInv == BTreeInit => BTreeInv
  BY NoTree, FS_EmptySet DEF BTreeInit, BTreeInv

\* An insertion, of a new key or of one that is refused.
LEMMA InsertInv ==
    ASSUME Ascending, BTreeInv, NEW k \in BTreeKeys, BTreeInsert(k)
    PROVE  BTreeInv'
  <1> DEFINE ins == qBTree__insert(k)
  <1>1. PICK h : Tree(broot, bkeys, h)
    BY DEF BTreeInv
  <1>2. bkeys \in SUBSET BTreeKeys /\ IsFiniteSet(bkeys) /\ Cardinality(bkeys) \in Nat
    BY <1>1, Split, KeySets
  <1>3. /\ broot' = ins.t /\ bsize' = bsize + ins.st + 1
        /\ bkeys' = IF ins.st = 0 THEN bkeys \cup {k} ELSE bkeys
        /\ bsize = Cardinality(bkeys)
    BY DEF BTreeInsert, BTreeInv
  <1>4. ins = Grown(qBTree__recursive_insert(broot, k))
    BY DEF qBTree__insert
  <1> HIDE DEF ins
  <1>5. CASE k \in bkeys
    <2>1. LET s == Lowest(Descent(broot, k)) IN s.kv[1] = Nil \/ s.childs[0] # Absent
      BY <1>5 DEF BTreeInsert, MayInsert
    <2>2. ins = Refused(broot)
      BY <1>1, <1>4, <1>5, <2>1, InsertSame
    <2>3. ins.st = -1 /\ ins.t = broot
      BY <2>2 DEF Refused
    <2>4. broot' = broot /\ bkeys' = bkeys /\ bsize' = bsize
      BY <1>2, <1>3, <2>3
    <2>5. QED
      BY <1>1, <1>3, <2>4 DEF BTreeInv
  <1>6. CASE k \notin bkeys
    <2>1. \A j \in bkeys : j < k
      <3>1. \A j \in bkeys : k > j
        BY <1>6 DEF BTreeInsert, MayInsert
      <3>2. QED
        BY <3>1
    <2>2. Tops(k, bkeys)
      BY <2>1 DEF Tops
    <2>3. ins.st = 0 /\ \E g : Tree(ins.t, More(bkeys, k), g)
      BY <1>1, <1>4, <2>2, InsertTree
    <2>4. broot' = ins.t /\ bkeys' = bkeys \cup {k} /\ bsize' = Cardinality(bkeys) + 1
      BY <1>2, <1>3, <2>3
    <2>5. Cardinality(bkeys \cup {k}) = Cardinality(bkeys) + 1
      BY <1>2, <1>6, FS_AddElement
    <2>6. QED
      BY <2>3, <2>4, <2>5 DEF BTreeInv, More
  <1>7. QED
    BY <1>5, <1>6

\* An erasure of what ptr_at has found.
LEMMA EraseInv ==
    ASSUME BTreeInv, NEW k \in BTreeKeys, BTreeErase(k)
    PROVE  BTreeInv'
  <1> DEFINE del == qBTree__erase(k)
  <1>1. PICK h : Tree(broot, bkeys, h)
    BY DEF BTreeInv
  <1>2. IsFiniteSet(bkeys) /\ Cardinality(bkeys) \in Nat
    BY <1>1, Split, KeySets
  <1>3. /\ qBTree__ptr_at(k) # Nil /\ broot' = del.t /\ bkeys' = bkeys \ {k}
        /\ bsize' = IF del.st = -1 THEN bsize ELSE bsize - 1
        /\ bsize = Cardinality(bkeys)
    BY DEF BTreeErase, BTreeInv
  <1>4. del = Shrunk(qBTree__recursive_erase(broot, k))
    BY DEF qBTree__erase
  <1> HIDE DEF del
  <1>5. k \in bkeys
    BY <1>1, <1>3, PtrAt
  <1>6. del.st # -1 /\ \E g : Tree(del.t, bkeys \ {k}, g)
    BY <1>1, <1>4, <1>5, EraseRoot
  <1>7. Cardinality(bkeys \ {k}) = Cardinality(bkeys) - 1
    BY <1>2, <1>5, FS_RemoveElement
  <1>8. QED
    BY <1>3, <1>6, <1>7 DEF BTreeInv

\* The B-tree is a search tree of the keys it was given in every reachable state, for
\* a caller that inserts in ascending order, as the test does.
THEOREM BTreeInvariant ==
    ASSUME Ascending
    PROVE  BTreeSpec => []BTreeInv
  <1>1. BTreeInv /\ [BTreeNext]_bvars => BTreeInv'
    <2>1. SUFFICES ASSUME BTreeInv, [BTreeNext]_bvars PROVE BTreeInv'
      OBVIOUS
    <2>2. CASE BTreeNext
      BY <2>1, <2>2, InsertInv, EraseInv DEF BTreeNext
    <2>3. CASE UNCHANGED bvars
      BY <2>1, <2>3 DEF bvars, BTreeInv
    <2>4. QED
      BY <2>1, <2>2, <2>3
  <1>2. QED
    BY <1>1, BTreeInitInv, PTL DEF BTreeSpec

\* ptr_at leads to every key that was inserted and not erased, and to no other, and
\* size is their number.
THEOREM BTreeFoundAlways ==
    ASSUME Ascending
    PROVE  BTreeSpec => []BTreeFound
  <1>1. BTreeInv => BTreeFound
    <2>1. SUFFICES ASSUME BTreeInv PROVE BTreeFound
      OBVIOUS
    <2>2. PICK h : Tree(broot, bkeys, h)
      BY <2>1 DEF BTreeInv
    <2>3. bkeys \subseteq BTreeKeys
      BY <2>2, Split
    <2>4. \A k \in BTreeKeys :
             /\ qBTree__ptr_at(k) # Nil <=> k \in bkeys
             /\ k \in bkeys =>
                   LET it == qBTree__ptr_at(k) IN At(broot, it.track).kv[it.which] = k
      BY <2>2, PtrAt
    <2>5. QED
      BY <2>1, <2>3, <2>4 DEF BTreeFound, BTreeInv
  <1>2. QED
    BY <1>1, BTreeInvariant, PTL

\* The leaves are all at the same depth, whatever was split, rotated and merged.
THEOREM BTreeEvenAlways ==
    ASSUME Ascending
    PROVE  BTreeSpec => []BTreeEven
  <1>1. BTreeInv => BTreeEven
    BY EvenTree DEF BTreeInv, BTreeEven
  <1>2. QED
    BY <1>1, BTreeInvariant, PTL
=============================================================================
