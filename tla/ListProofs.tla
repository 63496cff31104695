----------------------------- MODULE ListProofs -----------------------------
(***************************************************************************)
(* The doubly linked list and the hash map built of such lists keep what   *)
(* is put into them, for every length, every number of lists and every     *)
(* sequence of operations, as long as malloc does not fail.                *)
(***************************************************************************)
EXTENDS QMap, OrderedKeysProofs

\* The elements of a sequence but the i-th.
LEMMA RemovedAt ==
    ASSUME NEW S, NEW s \in Seq(S), NEW i \in 1..Len(s)
    PROVE  /\ RemoveAt(s, i) \in Seq(S)
           /\ Len(RemoveAt(s, i)) = Len(s) - 1
           /\ \A j \in 1..(Len(s) - 1) : RemoveAt(s, i)[j] = IF j < i THEN s[j] ELSE s[j + 1]
  <1>1. Len(s) \in Nat /\ i \in Nat /\ 1 <= i /\ i <= Len(s)
    BY LenProperties
  <1>2. /\ SubSeq(s, 1, i - 1) \in Seq(S) /\ Len(SubSeq(s, 1, i - 1)) = i - 1
        /\ \A j \in 1..(i - 1) : SubSeq(s, 1, i - 1)[j] = s[j]
    BY <1>1, ElementOfSeq, SubSeqProperties
  <1>3. /\ SubSeq(s, i + 1, Len(s)) \in Seq(S) /\ Len(SubSeq(s, i + 1, Len(s))) = Len(s) - i
        /\ \A j \in 1..(Len(s) - i) : SubSeq(s, i + 1, Len(s))[j] = s[i + j]
    BY <1>1, ElementOfSeq, SubSeqProperties
  <1> DEFINE left == SubSeq(s, 1, i - 1)
             right == SubSeq(s, i + 1, Len(s))
  <1>4. /\ RemoveAt(s, i) \in Seq(S) /\ Len(RemoveAt(s, i)) = Len(left) + Len(right)
        /\ \A j \in 1..(Len(left) + Len(right)) :
              RemoveAt(s, i)[j] = IF j <= Len(left) THEN left[j] ELSE right[j - Len(left)]
    BY <1>2, <1>3, ConcatProperties DEF RemoveAt
  <1>5. /\ Len(left) = i - 1 /\ Len(right) = Len(s) - i
        /\ \A j \in 1..(i - 1) : left[j] = s[j]
        /\ \A j \in 1..(Len(s) - i) : right[j] = s[i + j]
    BY <1>2, <1>3
  <1> HIDE DEF left, right
  <1>6. Len(left) + Len(right) = Len(s) - 1
    BY <1>1, <1>5
  <1>7. ASSUME NEW j \in 1..(Len(s) - 1)
        PROVE  RemoveAt(s, i)[j] = IF j < i THEN s[j] ELSE s[j + 1]
    <2>1. RemoveAt(s, i)[j] = IF j <= i - 1 THEN left[j] ELSE right[j - (i - 1)]
      BY <1>4, <1>5, <1>6
    <2>2. CASE j < i
      BY <1>1, <1>5, <2>1, <2>2
    <2>3. CASE ~(j < i)
      <3>1. j - (i - 1) \in 1..(Len(s) - i) /\ i + (j - (i - 1)) = j + 1
        BY <1>1, <2>3
      <3>2. right[j - (i - 1)] = s[i + (j - (i - 1))]
        BY <1>5, <3>1
      <3>3. QED
        BY <1>1, <2>1, <2>3, <3>1, <3>2
    <2>4. QED
      BY <2>2, <2>3
  <1>8. QED
    BY <1>4, <1>6, <1>7

\* The last and the first one off.
LEMMA EndsRemoved ==
    ASSUME NEW S, NEW s \in Seq(S), s # <<>>
    PROVE  Front(s) = RemoveAt(s, Len(s)) /\ Tail(s) = RemoveAt(s, 1)
  <1>1. Len(s) \in Nat \ {0} /\ 1 \in 1..Len(s) /\ Len(s) \in 1..Len(s)
    BY EmptySeq, LenProperties
  <1>2. /\ Front(s) \in Seq(S) /\ Len(Front(s)) = Len(s) - 1
        /\ \A j \in 1..(Len(s) - 1) : Front(s)[j] = s[j]
    <2>1. \A j \in 1..(Len(s) - 1) : s[j] \in S
      BY <1>1, ElementOfSeq
    <2>2. 1 \in Int /\ Len(s) - 1 \in Int
      BY <1>1
    <2>3. /\ Front(s) \in Seq(S)
          /\ Len(Front(s)) = IF 1 <= Len(s) - 1 THEN (Len(s) - 1) - 1 + 1 ELSE 0
          /\ \A j \in 1..((Len(s) - 1) - 1 + 1) : Front(s)[j] = s[1 + j - 1]
      BY <2>1, <2>2, SubSeqProperties DEF Front
    <2>4. (Len(s) - 1) - 1 + 1 = Len(s) - 1
      BY <1>1
    <2>5. Len(Front(s)) = Len(s) - 1
      <3>1. CASE Len(s) = 1
        BY <2>3, <3>1
      <3>2. CASE Len(s) # 1
        <4>1. Len(s) \in Nat /\ Len(s) # 0
          BY <1>1
        <4>2. \A k \in Nat : k # 0 /\ k # 1 => 1 <= k - 1
          OBVIOUS
        <4>3. QED
          BY <2>3, <2>4, <3>2, <4>1, <4>2
      <3>3. QED
        BY <3>1, <3>2
    <2>6. ASSUME NEW j \in 1..(Len(s) - 1) PROVE Front(s)[j] = s[j]
      <3>1. 1 + j - 1 = j
        BY <1>1
      <3>2. QED
        BY <2>3, <2>4, <3>1
    <2>7. QED
      BY <2>3, <2>5, <2>6
  <1>3. Front(s) = RemoveAt(s, Len(s))
    <2>1. /\ RemoveAt(s, Len(s)) \in Seq(S) /\ Len(RemoveAt(s, Len(s))) = Len(s) - 1
          /\ \A j \in 1..(Len(s) - 1) : RemoveAt(s, Len(s))[j] = s[j]
      BY <1>1, RemovedAt
    <2>2. QED
      BY <1>2, <2>1, SeqEqual
  <1>4. /\ Tail(s) \in Seq(S) /\ Len(Tail(s)) = Len(s) - 1
        /\ \A j \in 1..(Len(s) - 1) : Tail(s)[j] = s[j + 1]
    BY <1>1, HeadTailProperties
  <1>5. Tail(s) = RemoveAt(s, 1)
    <2>1. /\ RemoveAt(s, 1) \in Seq(S) /\ Len(RemoveAt(s, 1)) = Len(s) - 1
          /\ \A j \in 1..(Len(s) - 1) : RemoveAt(s, 1)[j] = s[j + 1]
      BY <1>1, RemovedAt
    <2>2. QED
      BY <1>4, <2>1, SeqEqual
  <1>6. QED
    BY <1>3, <1>5

-----------------------------------------------------------------------------
\* An empty list.
LEMMA RepresentsEmpty ==
    ASSUME NEW es
    PROVE  Represents(qList_constructor, 0, <<>>, es)
  BY DEF Represents, qList_constructor

\* The nodes are naturals, so that none is NULL; and the ends are NULL together.
LEMMA NodeFacts ==
    ASSUME NEW L, NEW len \in Nat, NEW ns, NEW es, Represents(L, len, ns, es)
    PROVE  /\ \A i \in 1..len : ns[i] \in Nat /\ ns[i] # Nil /\ ns[i] \in DOMAIN L.node
           /\ L.tail = Nil <=> len = 0
           /\ L.head = Nil <=> len = 0
  BY ListAssumption DEF Represents

\* As many nodes as elements.
LEMMA NodesCounted ==
    ASSUME NEW L, NEW len \in Nat, NEW ns, NEW es, Represents(L, len, ns, es)
    PROVE  IsFiniteSet(DOMAIN L.node) /\ Cardinality(DOMAIN L.node) = len
  <1> DEFINE D == DOMAIN L.node
  <1>1. /\ ns \in [1..len -> D]
        /\ \A i, j \in 1..len : ns[i] = ns[j] => i = j
        /\ \A n \in D : \E i \in 1..len : ns[i] = n
    BY DEF Represents
  <1> HIDE DEF D
  <1>2. ns \in Bijection(1..len, D)
    BY <1>1, Zenon DEF Bijection, Injection, IsInjective, Surjection
  <1>3. ExistsBijection(1..len, D)
    BY <1>2 DEF ExistsBijection
  <1>4. QED
    BY <1>3, FS_NatBijection, FS_CountingElements DEF D

\* malloc returns a node that is not in the list.
LEMMA NewNode ==
    ASSUME NEW L, NEW len \in Nat, NEW ns, NEW es, Represents(L, len, ns, es)
    PROVE  q__List_new(L) \in Nat \ DOMAIN L.node
  <1>1. IsFiniteSet(DOMAIN L.node) /\ Cardinality(DOMAIN L.node) = len
    BY NodesCounted
  <1>2. Cardinality(1..(len + 1)) = len + 1
    <2>1. 1 \in Int /\ len + 1 \in Int /\ ~(1 > len + 1) /\ len + 1 - 1 + 1 = len + 1
      OBVIOUS
    <2>2. QED
      BY <2>1, FS_Interval
  <1>3. ~(1..(len + 1) \subseteq DOMAIN L.node)
    <2>1. SUFFICES ASSUME 1..(len + 1) \subseteq DOMAIN L.node PROVE FALSE
      OBVIOUS
    <2>2. Cardinality(1..(len + 1)) <= Cardinality(DOMAIN L.node)
      BY <1>1, <2>1, FS_Subset
    <2>3. QED
      BY <1>1, <1>2, <2>2
  <1>4. PICK n \in 1..(len + 1) : n \notin DOMAIN L.node
    BY <1>3
  <1>5. q__List_new(L) \in 1..(len + 1) /\ q__List_new(L) \notin DOMAIN L.node
    BY <1>1, <1>4 DEF q__List_new
  <1>6. QED
    BY <1>5

\* A push at the end adds a node and its element there.
LEMMA PushedBack ==
    ASSUME NEW L, NEW len \in Nat, NEW ns, NEW es, Represents(L, len, ns, es), NEW es2,
           \A i \in 1..len : es2[i] = es[i]
    PROVE  \E ns2 : Represents(q__List_push_back(L, es2[len + 1], "done"), len + 1, ns2, es2)
  <1> DEFINE n == q__List_new(L)
             e == es2[len + 1]
             D == DOMAIN L.node
             ns2 == [i \in 1..(len + 1) |-> IF i = len + 1 THEN n ELSE ns[i]]
             nodes == [m \in D \cup {n} |->
                         IF m = n THEN [prev |-> L.tail, next |-> Nil, data |-> e]
                         ELSE IF m = L.tail THEN [L.node[m] EXCEPT !.next = n] ELSE L.node[m]]
             P == [head |-> IF len = 0 THEN n ELSE L.head, tail |-> n, size |-> len + 1,
                   node |-> nodes]
  <1>1. n \in Nat /\ n \notin D
    BY NewNode
  <1>2. /\ \A i \in 1..len : ns[i] \in Nat /\ ns[i] # Nil /\ ns[i] \in D
        /\ L.tail = Nil <=> len = 0
    BY NodeFacts
  <1>3. q__List_push_back(L, e, "done") = P
    <2>1. CASE len = 0
      <3>1. D = {} /\ L.tail = Nil /\ L.size = 0
        BY <2>1 DEF Represents
      <3>2. QED
        BY <2>1, <3>1 DEF q__List_push_back, Push
    <2>2. CASE len # 0
      <3> DEFINE Kept(m) == IF m = L.tail THEN [L.node[m] EXCEPT !.next = n] ELSE L.node[m]
                 fresh == [[prev |-> Nil, next |-> Nil, data |-> e] EXCEPT !.prev = L.tail]
      <3>1. q__List_push_back(L, e, "done") =
               [L EXCEPT !.node = [m \in D \cup {n} |-> IF m = n THEN fresh ELSE Kept(m)],
                         !.tail = n, !.size = @ + 1]
        BY <1>2, <2>2 DEF q__List_push_back, Push
      <3>2. fresh = [prev |-> L.tail, next |-> Nil, data |-> e]
        OBVIOUS
      <3>3. nodes = [m \in D \cup {n} |-> IF m = n THEN fresh ELSE Kept(m)]
        BY <3>2
      <3> HIDE DEF nodes, Kept, fresh
      <3>4. q__List_push_back(L, e, "done") = [L EXCEPT !.node = nodes, !.tail = n, !.size = @ + 1]
        BY <3>1, <3>3
      <3>5. QED
        BY <2>2, <3>4 DEF Represents
    <2>3. QED
      BY <2>1, <2>2
  <1> HIDE DEF n, e
  <1>4. /\ ns2 \in [1..(len + 1) -> Nat] /\ ns2[len + 1] = n
        /\ \A i \in 1..len : ns2[i] = ns[i]
    BY <1>1, <1>2
  <1>5. \A i, j \in 1..(len + 1) : ns2[i] = ns2[j] => i = j
    BY <1>1, <1>2, <1>4 DEF Represents
  <1>6. D \cup {n} = {ns2[i] : i \in 1..(len + 1)}
    BY <1>4 DEF Represents
  <1>7. ASSUME NEW i \in 1..(len + 1) PROVE nodes[ns2[i]] = Joint(len + 1, ns2, es2, i)
    <2>1. CASE i = len + 1
      BY <1>4, <2>1 DEF Joint, e, Represents
    <2>2. CASE i = len
      <3>1. ns2[i] = L.tail /\ L.tail \in D /\ L.tail # n
        BY <1>1, <1>2, <1>4, <2>2 DEF Represents
      <3>2. L.node[L.tail] = Joint(len, ns, es, len)
        BY <2>2 DEF Represents
      <3>3. nodes[ns2[i]] = [prev |-> IF i = 1 THEN Nil ELSE ns[i - 1], next |-> n, data |-> es[i]]
        BY <2>2, <3>1, <3>2 DEF Joint
      <3>4. QED
        BY <1>4, <2>2, <3>3 DEF Joint
    <2>3. CASE i \in 1..(len - 1)
      <3>1. ns2[i] = ns[i] /\ ns[i] # L.tail /\ ns[i] \in D /\ ns[i] # n
        BY <1>1, <1>2, <1>4, <2>3 DEF Represents
      <3>2. nodes[ns2[i]] = Joint(len, ns, es, i)
        BY <2>3, <3>1 DEF Represents
      <3>3. QED
        BY <1>4, <2>3, <3>2 DEF Joint
    <2>4. QED
      BY <2>1, <2>2, <2>3
  <1>8. Represents(P, len + 1, ns2, es2)
    <2>1. P.head = ns2[1] /\ P.tail = ns2[len + 1]
      BY <1>4 DEF Represents
    <2> HIDE DEF ns2
    <2>2. DOMAIN P.node = {ns2[i] : i \in 1..(len + 1)}
      BY <1>6
    <2>3. \A i \in 1..(len + 1) : P.node[ns2[i]] = Joint(len + 1, ns2, es2, i)
      BY <1>7
    <2> HIDE DEF nodes
    <2>4. QED
      BY <1>4, <1>5, <2>1, <2>2, <2>3 DEF Represents
  <1>9. QED
    BY <1>3, <1>8 DEF e

\* A push at the front adds them there.
LEMMA PushedFront ==
    ASSUME NEW L, NEW len \in Nat, NEW ns, NEW es, Represents(L, len, ns, es), NEW es2,
           \A i \in 1..len : es2[i + 1] = es[i]
    PROVE  \E ns2 : Represents(q__List_push_front(L, es2[1], "done"), len + 1, ns2, es2)
  <1> DEFINE n == q__List_new(L)
             e == es2[1]
             D == DOMAIN L.node
             ns2 == [i \in 1..(len + 1) |-> IF i = 1 THEN n ELSE ns[i - 1]]
             nodes == [m \in D \cup {n} |->
                         IF m = n THEN [prev |-> Nil, next |-> L.head, data |-> e]
                         ELSE IF m = L.head THEN [L.node[m] EXCEPT !.prev = n] ELSE L.node[m]]
             P == [head |-> n, tail |-> IF len = 0 THEN n ELSE L.tail, size |-> len + 1,
                   node |-> nodes]
  <1>1. n \in Nat /\ n \notin D
    BY NewNode
  <1>2. /\ \A i \in 1..len : ns[i] \in Nat /\ ns[i] # Nil /\ ns[i] \in D
        /\ L.tail = Nil <=> len = 0
    BY NodeFacts
  <1>3. q__List_push_front(L, e, "done") = P
    <2>1. CASE len = 0
      <3>1. D = {} /\ L.tail = Nil /\ L.head = Nil /\ L.size = 0
        BY <2>1 DEF Represents
      <3>2. QED
        BY <2>1, <3>1 DEF q__List_push_front, Push
    <2>2. CASE len # 0
      <3> DEFINE Kept(m) == IF m = L.head THEN [L.node[m] EXCEPT !.prev = n] ELSE L.node[m]
                 fresh == [[prev |-> Nil, next |-> Nil, data |-> e] EXCEPT !.next = L.head]
      <3>1. q__List_push_front(L, e, "done") =
               [L EXCEPT !.node = [m \in D \cup {n} |-> IF m = n THEN fresh ELSE Kept(m)],
                         !.head = n, !.size = @ + 1]
        BY <1>2, <2>2 DEF q__List_push_front, Push
      <3>2. fresh = [prev |-> Nil, next |-> L.head, data |-> e]
        OBVIOUS
      <3>3. nodes = [m \in D \cup {n} |-> IF m = n THEN fresh ELSE Kept(m)]
        BY <3>2
      <3> HIDE DEF nodes, Kept, fresh
      <3>4. q__List_push_front(L, e, "done") = [L EXCEPT !.node = nodes, !.head = n, !.size = @ + 1]
        BY <3>1, <3>3
      <3>5. QED
        BY <2>2, <3>4 DEF Represents
    <2>3. QED
      BY <2>1, <2>2
  <1> HIDE DEF n, e
  <1>4. /\ ns2 \in [1..(len + 1) -> Nat] /\ ns2[1] = n
        /\ \A i \in 1..len : ns2[i + 1] = ns[i]
        /\ \A i \in 1..(len + 1) : i # 1 => i - 1 \in 1..len /\ ns2[i] = ns[i - 1]
    BY <1>1, <1>2
  <1>5. \A i, j \in 1..(len + 1) : ns2[i] = ns2[j] => i = j
    BY <1>1, <1>2, <1>4 DEF Represents
  <1>6. D \cup {n} = {ns2[i] : i \in 1..(len + 1)}
    <2> HIDE DEF ns2
    <2>1. ASSUME NEW m \in D \cup {n} PROVE \E i \in 1..(len + 1) : ns2[i] = m
      <3>1. CASE m = n
        BY <1>4, <3>1
      <3>2. CASE m \in D
        <4>1. PICK j \in 1..len : m = ns[j]
          BY <3>2 DEF Represents
        <4>2. j + 1 \in 1..(len + 1)
          OBVIOUS
        <4>3. QED
          BY <1>4, <4>1, <4>2
      <3>3. QED
        BY <3>1, <3>2
    <2>2. ASSUME NEW i \in 1..(len + 1) PROVE ns2[i] \in D \cup {n}
      BY <1>2, <1>4
    <2>3. QED
      BY <2>1, <2>2
  <1>7. ASSUME NEW i \in 1..(len + 1) PROVE nodes[ns2[i]] = Joint(len + 1, ns2, es2, i)
    <2>1. CASE i = 1
      BY <1>4, <2>1 DEF Joint, e, Represents
    <2>2. CASE i = 2
      <3>1. ns2[i] = L.head /\ L.head \in D /\ L.head # n /\ 1 \in 1..len
        BY <1>1, <1>2, <1>4, <2>2 DEF Represents
      <3>2. L.node[L.head] = Joint(len, ns, es, 1)
        BY <2>2, <3>1 DEF Represents
      <3>3. nodes[ns2[i]] = [prev |-> n, next |-> IF len = 1 THEN Nil ELSE ns[2], data |-> es[1]]
        BY <3>1, <3>2 DEF Joint
      <3>4. QED
        BY <1>4, <2>2, <3>1, <3>3 DEF Joint
    <2>3. CASE i \in 3..(len + 1)
      <3>1. i - 1 \in 1..len /\ i - 2 \in 1..len /\ i - 1 # 1
        BY <2>3
      <3>2. ns2[i] = ns[i - 1] /\ ns[i - 1] # L.head /\ ns[i - 1] \in D /\ ns[i - 1] # n
        BY <1>1, <1>2, <1>4, <2>3, <3>1 DEF Represents
      <3>3. nodes[ns2[i]] = Joint(len, ns, es, i - 1)
        BY <3>1, <3>2 DEF Represents
      <3>4. es2[i] = es[i - 1] /\ ns2[i - 1] = ns[i - 2]
        BY <1>4, <3>1
      <3>5. QED
        BY <1>4, <2>3, <3>1, <3>3, <3>4 DEF Joint
    <2>4. QED
      BY <2>1, <2>2, <2>3
  <1>8. Represents(P, len + 1, ns2, es2)
    <2>1. P.head = ns2[1] /\ P.tail = ns2[len + 1]
      BY <1>4 DEF Represents
    <2> HIDE DEF ns2
    <2>2. DOMAIN P.node = {ns2[i] : i \in 1..(len + 1)}
      BY <1>6
    <2>3. \A i \in 1..(len + 1) : P.node[ns2[i]] = Joint(len + 1, ns2, es2, i)
      BY <1>7
    <2> HIDE DEF nodes
    <2>4. QED
      BY <1>4, <1>5, <2>1, <2>2, <2>3 DEF Represents
  <1>9. QED
    BY <1>3, <1>8 DEF e

\* An erased element goes out of the list with its node, wherever it is.
LEMMA Erased ==
    ASSUME NEW L, NEW len \in Nat, NEW ns, NEW es, Represents(L, len, ns, es),
           NEW k \in 1..len, NEW es2,
           \A i \in 1..(len - 1) : es2[i] = IF i < k THEN es[i] ELSE es[i + 1]
    PROVE  \E ns2 : Represents(q__List_erase_elem(L, ns[k]), len - 1, ns2, es2)
  <1> DEFINE a == ns[k]
             p == L.node[a].prev
             n == L.node[a].next
             D == DOMAIN L.node
             ns2 == [i \in 1..(len - 1) |-> IF i < k THEN ns[i] ELSE ns[i + 1]]
             nodes == [m \in D \ {a} |->
                         IF m = p THEN [L.node[m] EXCEPT !.next = n]
                         ELSE IF m = n THEN [L.node[m] EXCEPT !.prev = p] ELSE L.node[m]]
             P == [head |-> IF L.head = a THEN n ELSE L.head,
                   tail |-> IF L.tail = a THEN p ELSE L.tail,
                   size |-> len - 1, node |-> nodes]
  <1>1. \A i \in 1..len : ns[i] \in Nat /\ ns[i] # Nil /\ ns[i] \in D
    BY NodeFacts
  <1>2. /\ p = IF k = 1 THEN Nil ELSE ns[k - 1]
        /\ n = IF k = len THEN Nil ELSE ns[k + 1]
    <2>1. L.node[a] = Joint(len, ns, es, k)
      BY DEF Represents
    <2>2. QED
      BY <2>1 DEF Joint
  <1>3. \A i \in 1..len : (ns[i] = p <=> i = k - 1) /\ (ns[i] = n <=> i = k + 1)
                          /\ (ns[i] = a <=> i = k)
    BY <1>1, <1>2 DEF Represents
  <1>4. q__List_erase_elem(L, a) = P
    <2>1. ASSUME NEW m \in D, m = p, m = n PROVE FALSE
      BY <1>3, <2>1 DEF Represents
    <2>2. [m \in D \ {a} |->
             CASE m = p -> [L.node[m] EXCEPT !.next = n]
               [] m = n -> [L.node[m] EXCEPT !.prev = p]
               [] OTHER -> L.node[m]] = nodes
      BY <2>1
    <2>3. L.size = len
      BY DEF Represents
    <2>4. QED
      BY <2>2, <2>3 DEF q__List_erase_elem
  <1> HIDE DEF a, p, n
  <1>5. /\ ns2 \in [1..(len - 1) -> Nat]
        /\ \A i \in 1..(len - 1) : i < k => i \in 1..len /\ ns2[i] = ns[i]
        /\ \A i \in 1..(len - 1) : ~(i < k) => i + 1 \in 1..len /\ ns2[i] = ns[i + 1]
    BY <1>1
  <1>6. \A i, j \in 1..(len - 1) : ns2[i] = ns2[j] => i = j
    BY <1>5 DEF Represents
  <1>7. D \ {a} = {ns2[i] : i \in 1..(len - 1)}
    <2>1. ASSUME NEW m \in D \ {a} PROVE \E i \in 1..(len - 1) : ns2[i] = m
      <3>1. PICK j \in 1..len : m = ns[j]
        BY DEF Represents
      <3>2. j # k
        BY <3>1 DEF a
      <3>3. CASE j < k
        <4>1. j \in 1..(len - 1)
          BY <3>3
        <4>2. QED
          BY <1>5, <3>1, <3>3, <4>1
      <3>4. CASE j > k
        <4>1. j - 1 \in 1..(len - 1) /\ ~(j - 1 < k) /\ (j - 1) + 1 = j
          BY <3>4
        <4>2. QED
          BY <1>5, <3>1, <4>1
      <3>5. QED
        BY <3>2, <3>3, <3>4
    <2>2. ASSUME NEW i \in 1..(len - 1) PROVE ns2[i] \in D \ {a}
      BY <1>1, <1>3, <1>5
    <2> HIDE DEF ns2
    <2>3. QED
      BY <2>1, <2>2
  <1>8. ASSUME NEW i \in 1..(len - 1) PROVE nodes[ns2[i]] = Joint(len - 1, ns2, es2, i)
    <2>1. CASE i < k - 1
      <3>1. i \in 1..len /\ i + 1 \in 1..(len - 1) /\ i + 1 < k /\ i < k
        BY <2>1
      <3>2. ns2[i] = ns[i] /\ ns[i] \in D \ {a} /\ ns[i] # p /\ ns[i] # n
        BY <1>1, <1>3, <1>5, <2>1, <3>1
      <3>3. nodes[ns2[i]] = Joint(len, ns, es, i)
        BY <3>1, <3>2 DEF Represents
      <3>4. ns2[i + 1] = ns[i + 1] /\ (i # 1 => ns2[i - 1] = ns[i - 1]) /\ es2[i] = es[i]
        BY <1>5, <3>1
      <3>5. QED
        BY <2>1, <3>3, <3>4 DEF Joint
    <2>2. CASE i = k - 1
      <3>1. i \in 1..len /\ i < k
        BY <2>2
      <3>2. ns2[i] = ns[i] /\ ns[i] \in D \ {a} /\ ns[i] = p
        BY <1>1, <1>3, <1>5, <2>2, <3>1
      <3>3. nodes[ns2[i]] = [prev |-> IF i = 1 THEN Nil ELSE ns[i - 1], next |-> n, data |-> es[i]]
        <4>1. L.node[ns[i]] = Joint(len, ns, es, i)
          BY <3>1 DEF Represents
        <4>2. QED
          BY <3>2, <4>1 DEF Joint
      <3>4. (i # 1 => ns2[i - 1] = ns[i - 1]) /\ es2[i] = es[i]
        BY <1>5, <3>1
      <3>5. n = IF i = len - 1 THEN Nil ELSE ns2[i + 1]
        BY <1>2, <1>5, <2>2
      <3>6. QED
        BY <3>3, <3>4, <3>5 DEF Joint
    <2>3. CASE i = k
      <3>1. i + 1 \in 1..len /\ ~(i < k)
        BY <2>3
      <3>2. ns2[i] = ns[i + 1] /\ ns[i + 1] \in D \ {a} /\ ns[i + 1] # p /\ ns[i + 1] = n
        BY <1>1, <1>3, <1>5, <2>3, <3>1
      <3>3. nodes[ns2[i]] = [prev |-> p, next |-> IF i + 1 = len THEN Nil ELSE ns[i + 2],
                             data |-> es[i + 1]]
        <4>1. L.node[ns[i + 1]] = Joint(len, ns, es, i + 1)
          BY <3>1 DEF Represents
        <4>2. i + 1 # 1 /\ (i + 1) + 1 = i + 2
          OBVIOUS
        <4>3. QED
          BY <3>2, <4>1, <4>2 DEF Joint
      <3>4. (i # len - 1 => ns2[i + 1] = ns[i + 2]) /\ es2[i] = es[i + 1]
        BY <1>5, <3>1
      <3>5. p = IF i = 1 THEN Nil ELSE ns2[i - 1]
        BY <1>2, <1>5, <2>3
      <3>6. QED
        BY <3>3, <3>4, <3>5 DEF Joint
    <2>4. CASE i > k
      <3>1. i + 1 \in 1..len /\ ~(i < k) /\ i - 1 \in 1..(len - 1) /\ ~(i - 1 < k)
        BY <2>4
      <3>2. ns2[i] = ns[i + 1] /\ ns[i + 1] \in D \ {a} /\ ns[i + 1] # p /\ ns[i + 1] # n
        BY <1>1, <1>3, <1>5, <2>4, <3>1
      <3>3. nodes[ns2[i]] = Joint(len, ns, es, i + 1)
        BY <3>1, <3>2 DEF Represents
      <3>4. /\ i # len - 1 => ns2[i + 1] = ns[i + 2]
            /\ ns2[i - 1] = ns[i]
            /\ es2[i] = es[i + 1]
        BY <1>5, <3>1
      <3>5. QED
        BY <2>4, <3>1, <3>3, <3>4 DEF Joint
    <2>5. QED
      BY <2>1, <2>2, <2>3, <2>4
  <1>9. Represents(P, len - 1, ns2, es2)
    <2>1. P.head = IF len - 1 = 0 THEN Nil ELSE ns2[1]
      <3>1. L.head = ns[1] /\ 1 \in 1..len /\ (L.head = a <=> k = 1)
        BY <1>3 DEF Represents
      <3>2. len - 1 # 0 => ns2[1] = IF k = 1 THEN ns[2] ELSE ns[1]
        BY <1>5
      <3> HIDE DEF ns2
      <3>3. CASE k = 1
        <4>1. P.head = IF len = 1 THEN Nil ELSE ns[2]
          BY <1>2, <3>1, <3>3
        <4>2. QED
          BY <3>2, <3>3, <4>1
      <3>4. CASE k # 1
        <4>1. P.head = ns[1] /\ len - 1 # 0
          BY <3>1, <3>4
        <4>2. QED
          BY <3>2, <3>4, <4>1
      <3>5. QED
        BY <3>3, <3>4
    <2>2. P.tail = IF len - 1 = 0 THEN Nil ELSE ns2[len - 1]
      BY <1>2, <1>3, <1>5 DEF Represents
    <2> HIDE DEF ns2
    <2>3. DOMAIN P.node = {ns2[i] : i \in 1..(len - 1)}
      BY <1>7
    <2>4. \A i \in 1..(len - 1) : P.node[ns2[i]] = Joint(len - 1, ns2, es2, i)
      BY <1>8
    <2> HIDE DEF nodes
    <2>5. QED
      BY <1>5, <1>6, <2>1, <2>2, <2>3, <2>4 DEF Represents
  <1>10. QED
    BY <1>4, <1>9 DEF a

\* A pop takes the last node out of a list that has some.
LEMMA PoppedBack ==
    ASSUME NEW L, NEW len \in Nat, NEW ns, NEW es, Represents(L, len, ns, es), len # 0,
           NEW es2, \A i \in 1..(len - 1) : es2[i] = es[i]
    PROVE  \E ns2 : Represents(q__List_pop_back(L), len - 1, ns2, es2)
  <1>1. /\ L.head = ns[1] /\ L.tail = ns[len] /\ L.size = len
        /\ len \in 1..len /\ 1 \in 1..len /\ L.tail # Nil /\ (L.head = L.tail <=> len = 1)
    <2>1. L.tail # Nil
      BY NodeFacts
    <2>2. QED
      BY <2>1 DEF Represents
  <1>2. CASE len = 1
    <2>1. q__List_pop_back(L) = qList_constructor
      BY <1>1, <1>2 DEF q__List_pop_back, Pop, qList_constructor
    <2>2. len - 1 = 0
      BY <1>2
    <2>3. QED
      BY <2>1, <2>2, RepresentsEmpty
  <1>3. CASE len # 1
    <2> DEFINE D == DOMAIN L.node
               rest == L.node[L.tail].prev
               nodes == [n \in D \ {L.tail} |->
                           IF n = rest THEN [L.node[n] EXCEPT !.next = Nil] ELSE L.node[n]]
               P == [head |-> L.head, tail |-> rest, size |-> len - 1, node |-> nodes]
    <2>1. q__List_pop_back(L) = P
      <3>1. q__List_pop_back(L) = [L EXCEPT !.tail = rest, !.size = @ - 1, !.node = nodes]
        BY <1>1, <1>3 DEF q__List_pop_back, Pop
      <3> HIDE DEF nodes, rest
      <3>2. QED
        BY <1>1, <3>1 DEF Represents
    <2>2. L.node[L.tail] = Joint(len, ns, es, len)
      BY <1>1 DEF Represents
    <2>3. L.node[L.tail].next = Nil
      BY <2>2 DEF Joint
    <2>4. Nil \notin D
      BY ListAssumption DEF Represents
    <2>5. q__List_erase_elem(L, L.tail) = P
      <3>1. [m \in D \ {L.tail} |->
               CASE m = rest -> [L.node[m] EXCEPT !.next = Nil]
                 [] m = Nil -> [L.node[m] EXCEPT !.prev = rest]
                 [] OTHER -> L.node[m]] = nodes
        BY <2>4
      <3> HIDE DEF nodes
      <3>2. QED
        BY <1>1, <1>3, <2>3, <3>1 DEF q__List_erase_elem
    <2> HIDE DEF P
    <2>6. \A i \in 1..(len - 1) : es2[i] = IF i < len THEN es[i] ELSE es[i + 1]
      OBVIOUS
    <2>7. \E ns2 : Represents(q__List_erase_elem(L, ns[len]), len - 1, ns2, es2)
      BY <1>1, <2>6, Erased
    <2>8. QED
      BY <1>1, <2>1, <2>5, <2>7
  <1>4. QED
    BY <1>2, <1>3

\* The same at the front.
LEMMA PoppedFront ==
    ASSUME NEW L, NEW len \in Nat, NEW ns, NEW es, Represents(L, len, ns, es), len # 0,
           NEW es2, \A i \in 1..(len - 1) : es2[i] = es[i + 1]
    PROVE  \E ns2 : Represents(q__List_pop_front(L), len - 1, ns2, es2)
  <1>1. /\ L.head = ns[1] /\ L.tail = ns[len] /\ L.size = len
        /\ len \in 1..len /\ 1 \in 1..len /\ L.head # Nil /\ (L.head = L.tail <=> len = 1)
    <2>1. L.head # Nil
      BY NodeFacts
    <2>2. QED
      BY <2>1 DEF Represents
  <1>2. CASE len = 1
    <2>1. q__List_pop_front(L) = qList_constructor
      BY <1>1, <1>2 DEF q__List_pop_front, Pop, qList_constructor
    <2>2. len - 1 = 0
      BY <1>2
    <2>3. QED
      BY <2>1, <2>2, RepresentsEmpty
  <1>3. CASE len # 1
    <2> DEFINE D == DOMAIN L.node
               rest == L.node[L.head].next
               nodes == [n \in D \ {L.head} |->
                           IF n = rest THEN [L.node[n] EXCEPT !.prev = Nil] ELSE L.node[n]]
               P == [head |-> rest, tail |-> L.tail, size |-> len - 1, node |-> nodes]
    <2>1. q__List_pop_front(L) = P
      <3>1. q__List_pop_front(L) = [L EXCEPT !.head = rest, !.size = @ - 1, !.node = nodes]
        BY <1>1, <1>3 DEF q__List_pop_front, Pop
      <3> HIDE DEF nodes, rest
      <3>2. QED
        BY <1>1, <3>1 DEF Represents
    <2>2. L.node[L.head] = Joint(len, ns, es, 1)
      BY <1>1 DEF Represents
    <2>3. L.node[L.head].prev = Nil
      BY <2>2 DEF Joint
    <2>4. Nil \notin D
      BY ListAssumption DEF Represents
    <2>5. q__List_erase_elem(L, L.head) = P
      <3>1. rest # Nil
        BY <1>1, <1>3, <2>2, NodeFacts DEF Joint
      <3>2. [m \in D \ {L.head} |->
               CASE m = Nil -> [L.node[m] EXCEPT !.next = rest]
                 [] m = rest -> [L.node[m] EXCEPT !.prev = Nil]
                 [] OTHER -> L.node[m]] = nodes
        BY <2>4, <3>1
      <3> HIDE DEF nodes
      <3>3. QED
        BY <1>1, <1>3, <2>3, <3>2 DEF q__List_erase_elem
    <2> HIDE DEF P
    <2>6. \A i \in 1..(len - 1) : es2[i] = IF i < 1 THEN es[i] ELSE es[i + 1]
      OBVIOUS
    <2>7. \E ns2 : Represents(q__List_erase_elem(L, ns[1]), len - 1, ns2, es2)
      BY <1>1, <2>6, Erased
    <2>8. QED
      BY <1>1, <2>1, <2>5, <2>7
  <1>4. QED
    BY <1>2, <1>3

\* A swap exchanges what two nodes hold.
LEMMA Swapped ==
    ASSUME NEW L, NEW len \in Nat, NEW ns, NEW es, Represents(L, len, ns, es),
           NEW k \in 1..len, NEW l \in 1..len, NEW es2,
           \A i \in 1..len : es2[i] = IF i = l THEN es[k] ELSE IF i = k THEN es[l] ELSE es[i]
    PROVE  Represents(q__List_swap_elem(L, ns[k], ns[l]), len, ns, es2)
  <1> DEFINE a == ns[k]
             b == ns[l]
             D == DOMAIN L.node
             nodes == [m \in D |-> [prev |-> L.node[m].prev, next |-> L.node[m].next,
                                    data |-> IF m = b THEN L.node[a].data
                                             ELSE IF m = a THEN L.node[b].data
                                             ELSE L.node[m].data]]
             P == [head |-> L.head, tail |-> L.tail, size |-> L.size, node |-> nodes]
  <1>1. a \in D /\ b \in D
    BY NodeFacts
  <1>2. \A m \in D : L.node[m] = [prev |-> L.node[m].prev, next |-> L.node[m].next,
                                  data |-> L.node[m].data]
    <2>1. ASSUME NEW i \in 1..len
          PROVE  L.node[ns[i]] = [prev |-> L.node[ns[i]].prev, next |-> L.node[ns[i]].next,
                                  data |-> L.node[ns[i]].data]
      <3>1. L.node[ns[i]] = Joint(len, ns, es, i)
        BY DEF Represents
      <3>2. QED
        BY <3>1 DEF Joint
    <2>2. QED
      BY <2>1 DEF Represents
  <1>3. q__List_swap_elem(L, a, b) = P
    <2> DEFINE once == [L.node EXCEPT ![a].data = L.node[b].data]
               twice == [once EXCEPT ![b].data = L.node[a].data]
    <2>1. q__List_swap_elem(L, a, b) = [L EXCEPT !.node = twice]
      BY <1>1 DEF q__List_swap_elem, Represents
    <2>2. twice = nodes
      <3> DEFINE first == [L.node[a] EXCEPT !.data = L.node[b].data]
      <3>1. first = [prev |-> L.node[a].prev, next |-> L.node[a].next, data |-> L.node[b].data]
        <4>1. L.node[a] = [prev |-> L.node[a].prev, next |-> L.node[a].next,
                           data |-> L.node[a].data]
          BY <1>1, <1>2
        <4>2. QED
          BY <4>1
      <3>2. once = [L.node EXCEPT ![a] = first]
        BY <1>1
      <3> HIDE DEF first
      <3>3. /\ DOMAIN once = D
            /\ once[a] = [prev |-> L.node[a].prev, next |-> L.node[a].next, data |-> L.node[b].data]
            /\ \A m \in D \ {a} : once[m] = L.node[m]
        BY <1>1, <3>1, <3>2
      <3> HIDE DEF once
      <3>4. /\ DOMAIN twice = D /\ twice = [m \in D |-> twice[m]]
            /\ twice[b] = [once[b] EXCEPT !.data = L.node[a].data]
            /\ \A m \in D \ {b} : twice[m] = once[m]
        BY <1>1, <3>3
      <3>5. twice[b] = [prev |-> L.node[b].prev, next |-> L.node[b].next, data |-> L.node[a].data]
        <4>1. once[b] = [prev |-> L.node[b].prev, next |-> L.node[b].next,
                         data |-> L.node[b].data]
          BY <1>1, <1>2, <3>3
        <4>2. QED
          BY <3>4, <4>1
      <3> HIDE DEF twice
      <3>6. \A m \in D : twice[m] = nodes[m]
        BY <1>1, <1>2, <3>3, <3>4, <3>5
      <3>7. nodes = [m \in D |-> nodes[m]]
        OBVIOUS
      <3> HIDE DEF nodes
      <3>8. QED
        BY <3>4, <3>6, <3>7
    <2> HIDE DEF twice, nodes
    <2>3. QED
      BY <2>1, <2>2 DEF Represents
  <1>4. ASSUME NEW i \in 1..len PROVE nodes[ns[i]] = Joint(len, ns, es2, i)
    <2>1. ns[i] \in D /\ (ns[i] = a <=> i = k) /\ (ns[i] = b <=> i = l)
      BY NodeFacts DEF Represents
    <2>2. /\ L.node[ns[i]] = Joint(len, ns, es, i)
          /\ L.node[a].data = es[k] /\ L.node[b].data = es[l]
      <3>1. /\ L.node[ns[i]] = Joint(len, ns, es, i)
            /\ L.node[a] = Joint(len, ns, es, k) /\ L.node[b] = Joint(len, ns, es, l)
        BY DEF Represents
      <3>2. QED
        BY <3>1 DEF Joint
    <2>3. QED
      BY <2>1, <2>2 DEF Joint
  <1>5. DOMAIN P.node = D
    OBVIOUS
  <1> HIDE DEF nodes
  <1>6. QED
    BY <1>3, <1>4, <1>5 DEF Represents

\* The nodes in the opposite order.
Backwards(len, ns) == [i \in 1..len |-> ns[len - i + 1]]

\* The loops from the head and from the tail visit the nodes in order and backwards.
LEMMA Walks ==
    ASSUME NEW L, NEW len \in Nat, NEW ns, NEW es, Represents(L, len, ns, es)
    PROVE  /\ qList_foreach(L) = ns
           /\ Along(L, "tail", "prev") = Backwards(len, ns)
  <1> DEFINE D == DOMAIN L.node
             next == [n \in D |-> L.node[n].next]
             prev == [n \in D |-> L.node[n].prev]
             back == Backwards(len, ns)
             fuel == len + 1
  <1>1. /\ ns \in [1..len -> Nat]
        /\ \A i \in 1..len : ns[i] \in Nat /\ ns[i] \in D
        /\ L.head = IF len = 0 THEN Nil ELSE ns[1]
        /\ L.tail = IF len = 0 THEN Nil ELSE ns[len]
    BY DEF Represents
  <1>2. ASSUME NEW i \in 1..len
        PROVE  /\ L.node[ns[i]].next = IF i = len THEN Nil ELSE ns[i + 1]
               /\ L.node[ns[i]].prev = IF i = 1 THEN Nil ELSE ns[i - 1]
    <2>1. L.node[ns[i]] = Joint(len, ns, es, i)
      BY DEF Represents
    <2>2. QED
      BY <2>1 DEF Joint
  <1>3. Cardinality(D) + 1 = fuel
    BY NodesCounted
  <1>4. /\ qList_foreach(L) = Follow(next, L.head, fuel)
        /\ Along(L, "tail", "prev") = Follow(prev, L.tail, fuel)
    BY <1>3 DEF qList_foreach, Along
  <1>5. fuel \in Nat /\ len < fuel
    OBVIOUS
  <1>6. \A i \in 1..len : next[ns[i]] = IF i = len THEN Nil ELSE ns[i + 1]
    BY <1>1, <1>2
  <1>7. ASSUME NEW i \in 1..len
        PROVE  prev[back[i]] = IF i = len THEN Nil ELSE back[i + 1]
    <2>1. len - i + 1 \in 1..len /\ back[i] = ns[len - i + 1]
      BY DEF Backwards
    <2>2. prev[back[i]] = IF len - i + 1 = 1 THEN Nil ELSE ns[(len - i + 1) - 1]
      BY <2>1, <1>1, <1>2
    <2>3. i # len => i + 1 \in 1..len /\ len - (i + 1) + 1 = (len - i + 1) - 1
      OBVIOUS
    <2>4. QED
      BY <2>2, <2>3 DEF Backwards
  <1>8. /\ back \in [1..len -> Nat]
        /\ L.tail = IF len = 0 THEN Nil ELSE back[1]
    BY <1>1 DEF Backwards
  <1> HIDE DEF next, prev, back, fuel
  <1>9. Follow(next, L.head, fuel) = ns
    <2> DEFINE Nodes == Nat
    <2>1. Nil \notin Nodes
      BY ListAssumption
    <2>2. ns \in [1..len -> Nodes] /\ L.head = IF len = 0 THEN Nil ELSE ns[1]
      BY <1>1
    <2> HIDE DEF Nodes
    <2>3. QED
      BY <1>5, <1>6, <2>1, <2>2, FollowsChain
  <1>10. Follow(prev, L.tail, fuel) = back
    <2> DEFINE Nodes == Nat
    <2>1. Nil \notin Nodes
      BY ListAssumption
    <2>2. back \in [1..len -> Nodes] /\ L.tail = IF len = 0 THEN Nil ELSE back[1]
      BY <1>8
    <2> HIDE DEF Nodes
    <2>3. QED
      BY <1>5, <1>7, <2>1, <2>2, FollowsChain
  <1>11. QED
    BY <1>4, <1>9, <1>10 DEF back

\* What the nodes hold.
LEMMA DataHeld ==
    ASSUME NEW L, NEW len \in Nat, NEW ns, NEW es, Represents(L, len, ns, es)
    PROVE  \A i \in 1..len : L.node[ns[i]].data = es[i]
  <1>1. TAKE i \in 1..len
  <1>2. L.node[ns[i]] = Joint(len, ns, es, i)
    BY DEF Represents
  <1>3. QED
    BY <1>2 DEF Joint

\* It is enough to have some nodes: they are the ones that the loop visits.
LEMMA SomeNodes ==
    ASSUME NEW L, NEW len \in Nat, NEW es, \E ns : Represents(L, len, ns, es)
    PROVE  Represents(L, len, qList_foreach(L), es)
  <1>1. PICK ns : Represents(L, len, ns, es)
    OBVIOUS
  <1>2. qList_foreach(L) = ns
    BY <1>1, Walks
  <1>3. QED
    BY <1>1, <1>2

\* The loops then find the elements.
LEMMA HeldInOrder ==
    ASSUME NEW L, NEW es \in Seq(Items), NEW len \in Nat, Len(es) = len,
           NEW ns, Represents(L, len, ns, es)
    PROVE  /\ Held(L, qList_foreach(L)) = es
           /\ Held(L, Along(L, "tail", "prev")) = Reverse(es)
  <1> DEFINE back == Backwards(len, ns)
  <1>1. /\ es = [i \in 1..len |-> es[i]]
        /\ Reverse(es) = [i \in 1..len |-> es[(len - i) + 1]]
    BY LenProperties DEF Reverse
  <1>2. DOMAIN ns = 1..len
    BY DEF Represents
  <1>3. qList_foreach(L) = ns /\ Along(L, "tail", "prev") = back
    BY Walks
  <1>4. \A i \in 1..len : L.node[ns[i]].data = es[i]
    BY DataHeld
  <1>5. Held(L, ns) = es
    BY <1>1, <1>2, <1>4 DEF Held
  <1>6. ASSUME NEW i \in 1..len PROVE L.node[back[i]].data = es[(len - i) + 1]
    <2>1. len - i + 1 \in 1..len /\ back[i] = ns[len - i + 1]
      BY DEF Backwards
    <2>2. QED
      BY <1>4, <2>1
  <1>7. DOMAIN back = 1..len
    BY DEF Backwards
  <1> HIDE DEF back
  <1>8. Held(L, back) = [i \in 1..len |-> es[(len - i) + 1]]
    BY <1>6, <1>7 DEF Held
  <1>9. QED
    BY <1>1, <1>3, <1>5, <1>8

\* ListInv is what the loops need.
LEMMA ListInvIntact == ListInv => ListIntact
  <1>1. SUFFICES ASSUME ListInv PROVE ListIntact
    OBVIOUS
  <1>2. /\ items \in Seq(Items) /\ Len(items) \in Nat
        /\ Represents(list, Len(items), qList_foreach(list), items)
    BY <1>1, LenProperties DEF ListInv
  <1>3. list.size = Len(items)
    BY <1>2 DEF Represents
  <1>4. QED
    BY <1>2, <1>3, HeldInOrder DEF ListIntact

\* Pushes to an empty list, one after another, make a list of all the elements.
LEMMA PushedInOrder ==
    ASSUME NEW es, NEW len \in Nat, Len(es) = len
    PROVE  \E ns : Represents(Pushed(es), len, ns, es)
  <1> DEFINE Nth(f, i) == IF i = 0 THEN qList_constructor
                          ELSE q__List_push_back(f[i - 1], es[i], "done")
             Fits(f, n) == f = [i \in 0..n |-> Nth(f, i)]
             copy == CHOOSE f : Fits(f, len)
  <1>1. ASSUME NEW n \in Nat PROVE \E f : Fits(f, n)
    <2> DEFINE T == {m \in Nat : ~\E f : Fits(f, m)}
    <2>1. SUFFICES ASSUME T # {} PROVE FALSE
      OBVIOUS
    <2>2. T \in SUBSET Nat
      OBVIOUS
    <2>3. PICK x \in T : \A y \in T : x <= y
      <3> HIDE DEF T
      <3> QED BY <2>1, <2>2, Least
    <2>4. CASE x = 0
      <3> DEFINE f == [i \in 0..0 |-> qList_constructor]
      <3>1. ASSUME NEW i \in 0..0 PROVE Nth(f, i) = qList_constructor
        OBVIOUS
      <3>2. f = [i \in 0..0 |-> Nth(f, i)]
        BY <3>1
      <3>3. QED
        BY <2>3, <2>4, <3>2
    <2>5. CASE x # 0
      <3>1. x - 1 \in Nat /\ x - 1 \notin T
        <4> HIDE DEF T
        <4>1. x \in Nat
          BY <2>2
        <4>2. QED
          BY <2>3, <2>5, <4>1
      <3>2. PICK f : Fits(f, x - 1)
        BY <3>1
      <3> DEFINE g == [i \in 0..x |-> IF i = x THEN Nth(f, x) ELSE f[i]]
      <3>3. \A i \in 0..(x - 1) : f[i] = Nth(f, i)
        BY <3>2
      <3>4. ASSUME NEW i \in 0..x PROVE Nth(g, i) = g[i]
        <4>1. CASE i = 0
          <5>1. 0 \in 0..(x - 1) /\ i # x
            BY <2>5, <3>1, <4>1
          <5>2. QED
            BY <3>3, <4>1, <5>1
        <4>2. CASE i # 0
          <5>1. i - 1 \in 0..x /\ i - 1 # x
            BY <4>2
          <5>2. g[i - 1] = f[i - 1]
            BY <5>1
          <5>3. Nth(g, i) = Nth(f, i)
            BY <5>2
          <5>4. i # x => i \in 0..(x - 1)
            BY <3>1
          <5>5. QED
            BY <3>3, <5>3, <5>4
        <4>3. QED
          BY <4>1, <4>2
      <3>5. g = [i \in 0..x |-> g[i]]
        OBVIOUS
      <3> HIDE DEF g
      <3>6. Fits(g, x)
        BY <3>4, <3>5
      <3>7. QED
        BY <2>3, <3>6
    <2>6. QED
      BY <2>4, <2>5
  <1>2. Fits(copy, len)
    BY <1>1
  <1>3. Pushed(es) = copy[len]
    BY DEF Pushed
  <1> HIDE DEF copy
  <1>4. \A i \in 0..len : copy[i] = Nth(copy, i)
    BY <1>2
  <1>5. ASSUME NEW n \in 0..len PROVE \E ns : Represents(copy[n], n, ns, es)
    <2> DEFINE T == {m \in 0..len : ~\E ns : Represents(copy[m], m, ns, es)}
    <2>1. SUFFICES ASSUME T # {} PROVE FALSE
      OBVIOUS
    <2>2. T \in SUBSET Nat
      OBVIOUS
    <2>3. PICK x \in T : \A y \in T : x <= y
      <3> HIDE DEF T
      <3> QED BY <2>1, <2>2, Least
    <2>4. x \in 0..len /\ ~\E ns : Represents(copy[x], x, ns, es)
      OBVIOUS
    <2>5. x # 0
      <3>1. CASE x = 0
        <4>1. copy[x] = qList_constructor
          BY <1>4, <2>4, <3>1
        <4>2. QED
          BY <2>4, <3>1, <4>1, RepresentsEmpty
      <3>2. QED
        BY <3>1
    <2>6. x - 1 \in 0..len /\ x - 1 \in Nat /\ x - 1 \notin T /\ (x - 1) + 1 = x
      BY <2>3, <2>4, <2>5
    <2>7. PICK ns : Represents(copy[x - 1], x - 1, ns, es)
      BY <2>6
    <2>8. copy[x] = q__List_push_back(copy[x - 1], es[x], "done")
      BY <1>4, <2>4, <2>5
    <2>9. \E ns2 : Represents(q__List_push_back(copy[x - 1], es[(x - 1) + 1], "done"), (x - 1) + 1, ns2, es)
      BY <2>6, <2>7, PushedBack
    <2>10. QED
      BY <2>4, <2>6, <2>8, <2>9
  <1>6. QED
    BY <1>3, <1>5

\* A copy has the elements of the list.
LEMMA ListInvCopied == ListInv => CopyIntact
  <1>1. SUFFICES ASSUME ListInv PROVE CopyIntact
    OBVIOUS
  <1>2. /\ items \in Seq(Items) /\ Len(items) \in Nat
        /\ Represents(list, Len(items), qList_foreach(list), items)
    BY <1>1, LenProperties DEF ListInv
  <1>3. Held(list, qList_foreach(list)) = items
    BY <1>2, HeldInOrder
  <1>4. q__List_copy(list) = Pushed(items)
    BY <1>3 DEF q__List_copy
  <1>5. PICK ns : Represents(Pushed(items), Len(items), ns, items)
    BY <1>2, PushedInOrder
  <1>6. Held(Pushed(items), qList_foreach(Pushed(items))) = items
    BY <1>2, <1>5, HeldInOrder
  <1>7. QED
    BY <1>4, <1>6 DEF CopyIntact

\* ListInv of the next state, from the elements and some nodes there.
LEMMA ListInvNext ==
    ASSUME NEW len \in Nat, items' \in Seq(Items), Len(items') = len,
           \E ns : Represents(list', len, ns, items')
    PROVE  ListInv'
  <1>1. Represents(list', len, qList_foreach(list'), items')
    BY SomeNodes
  <1>2. qList_foreach(list') = qList_foreach(list)'
    BY DEF qList_foreach, Along
  <1>3. QED
    BY <1>1, <1>2 DEF ListInv

\* A push, when malloc does not fail.
LEMMA ListInvPush ==
    ASSUME ~MallocFails, ListInv, NEW e \in Items, ListPush(e)
    PROVE  ListInv'
  <1> DEFINE len == Len(items)
             ns == qList_foreach(list)
  <1>1. /\ items \in Seq(Items) /\ len \in Nat /\ len + 1 \in Nat
        /\ Represents(list, len, ns, items)
    BY LenProperties DEF ListInv
  <1>2. PICK outcome \in Mallocs :
            \/ /\ list' = q__List_push_back(list, e, outcome)
               /\ items' = IF outcome = "done" THEN Append(items, e) ELSE items
            \/ /\ list' = q__List_push_front(list, e, outcome)
               /\ items' = IF outcome = "done" THEN <<e>> \o items ELSE items
    BY DEF ListPush
  <1>3. outcome = "done"
    BY DEF Mallocs
  <1>4. CASE list' = q__List_push_back(list, e, "done") /\ items' = Append(items, e)
    <2>1. /\ items' \in Seq(Items) /\ Len(items') = len + 1
          /\ \A i \in 1..len : items'[i] = items[i]
          /\ items'[len + 1] = e
      BY <1>1, <1>4, AppendProperties
    <2> HIDE DEF len, ns
    <2>2. \E ns2 : Represents(q__List_push_back(list, items'[len + 1], "done"), len + 1, ns2, items')
      BY <1>1, <2>1, PushedBack
    <2>3. QED
      BY <1>1, <1>4, <2>1, <2>2, ListInvNext
  <1>5. CASE list' = q__List_push_front(list, e, "done") /\ items' = <<e>> \o items
    <2>1. <<e>> \in Seq(Items) /\ Len(<<e>>) = 1 /\ <<e>>[1] = e
      OBVIOUS
    <2>2. /\ items' \in Seq(Items) /\ Len(items') = 1 + len
          /\ \A i \in 1..(1 + len) : items'[i] = IF i <= 1 THEN <<e>>[i] ELSE items[i - 1]
      BY <1>1, <1>5, <2>1, ConcatProperties
    <2> HIDE DEF len, ns
    <2>3. /\ Len(items') = len + 1 /\ items'[1] = e
          /\ \A i \in 1..len : items'[i + 1] = items[i]
      <3>1. 1 + len = len + 1 /\ 1 \in 1..(1 + len)
        BY <1>1
      <3>2. ASSUME NEW i \in 1..len PROVE items'[i + 1] = items[i]
        <4>1. i + 1 \in 1..(1 + len) /\ ~(i + 1 <= 1) /\ (i + 1) - 1 = i
          BY <1>1
        <4>2. QED
          BY <2>2, <4>1
      <3>3. QED
        BY <2>1, <2>2, <3>1, <3>2
    <2>4. \E ns2 : Represents(q__List_push_front(list, items'[1], "done"), len + 1, ns2, items')
      BY <1>1, <2>3, PushedFront
    <2>5. QED
      BY <1>1, <1>5, <2>2, <2>3, <2>4, ListInvNext
  <1>6. QED
    BY <1>2, <1>3, <1>4, <1>5

\* The elements without the k-th.
LEMMA ElementsWithout ==
    ASSUME NEW s \in Seq(Items), NEW len \in Nat, Len(s) = len, NEW k \in 1..len
    PROVE  /\ RemoveAt(s, k) \in Seq(Items) /\ Len(RemoveAt(s, k)) = len - 1
           /\ \A i \in 1..(len - 1) : RemoveAt(s, k)[i] = IF i < k THEN s[i] ELSE s[i + 1]
  BY RemovedAt

\* A pop, which does nothing to an empty list.
LEMMA ListInvPop ==
    ASSUME ListInv, ListPop
    PROVE  ListInv'
  <1> DEFINE len == Len(items)
             ns == qList_foreach(list)
  <1>1. /\ items \in Seq(Items) /\ len \in Nat
        /\ Represents(list, len, ns, items)
    BY LenProperties DEF ListInv
  <1>2. items = <<>> <=> len = 0
    BY <1>1, EmptySeq
  <1>3. CASE items = <<>>
    <2>1. items' = items
      BY <1>3 DEF ListPop
    <2>2. list.tail = Nil /\ list.head = Nil
      BY <1>1, <1>2, <1>3 DEF Represents
    <2>3. list' = list
      BY <2>2 DEF ListPop, q__List_pop_back, q__List_pop_front, Pop
    <2>4. QED
      BY <1>1, <2>1, <2>3, ListInvNext
  <1>4. CASE items # <<>>
    <2>1. /\ len # 0 /\ len - 1 \in Nat /\ 1 \in 1..len /\ len \in 1..len
          /\ Front(items) = RemoveAt(items, len) /\ Tail(items) = RemoveAt(items, 1)
      BY <1>1, <1>2, <1>4, EndsRemoved
    <2> HIDE DEF len, ns
    <2>2. CASE list' = q__List_pop_back(list) /\ items' = Front(items)
      <3>1. /\ items' \in Seq(Items) /\ Len(items') = len - 1
            /\ \A i \in 1..(len - 1) : items'[i] = IF i < len THEN items[i] ELSE items[i + 1]
        BY <1>1, <2>1, <2>2, ElementsWithout DEF len
      <3>2. \A i \in 1..(len - 1) : items'[i] = items[i]
        BY <1>1, <3>1
      <3>3. \E ns2 : Represents(q__List_pop_back(list), len - 1, ns2, items')
        BY <1>1, <2>1, <3>2, PoppedBack
      <3>4. QED
        BY <2>1, <2>2, <3>1, <3>3, ListInvNext
    <2>3. CASE list' = q__List_pop_front(list) /\ items' = Tail(items)
      <3>1. /\ items' \in Seq(Items) /\ Len(items') = len - 1
            /\ \A i \in 1..(len - 1) : items'[i] = IF i < 1 THEN items[i] ELSE items[i + 1]
        BY <1>1, <2>1, <2>3, ElementsWithout DEF len
      <3>2. \A i \in 1..(len - 1) : items'[i] = items[i + 1]
        BY <1>1, <3>1
      <3>3. \E ns2 : Represents(q__List_pop_front(list), len - 1, ns2, items')
        BY <1>1, <2>1, <3>2, PoppedFront
      <3>4. QED
        BY <2>1, <2>3, <3>1, <3>3, ListInvNext
    <2>4. QED
      BY <1>4, <2>2, <2>3 DEF ListPop
  <1>5. QED
    BY <1>3, <1>4

\* An erase of any element.
LEMMA ListInvErase ==
    ASSUME ListInv, ListErase
    PROVE  ListInv'
  <1> DEFINE len == Len(items)
             ns == qList_foreach(list)
  <1>1. /\ items \in Seq(Items) /\ len \in Nat /\ DOMAIN items = 1..len
        /\ Represents(list, len, ns, items)
    BY LenProperties DEF ListInv
  <1>2. PICK k \in 1..len : list' = q__List_erase_elem(list, ns[k]) /\ items' = RemoveAt(items, k)
    BY <1>1 DEF ListErase
  <1>3. len - 1 \in Nat
    BY <1>1
  <1> HIDE DEF len, ns
  <1>4. /\ items' \in Seq(Items) /\ Len(items') = len - 1
        /\ \A i \in 1..(len - 1) : items'[i] = IF i < k THEN items[i] ELSE items[i + 1]
    BY <1>1, <1>2, ElementsWithout DEF len
  <1>5. \E ns2 : Represents(q__List_erase_elem(list, ns[k]), len - 1, ns2, items')
    BY <1>1, <1>4, Erased
  <1>6. QED
    BY <1>2, <1>3, <1>4, <1>5, ListInvNext

\* A swap of any two elements.
LEMMA ListInvSwap ==
    ASSUME ListInv, ListSwap
    PROVE  ListInv'
  <1> DEFINE len == Len(items)
             ns == qList_foreach(list)
  <1>1. /\ items \in Seq(Items) /\ len \in Nat /\ DOMAIN items = 1..len
        /\ items \in [1..len -> Items]
        /\ Represents(list, len, ns, items)
    BY LenProperties DEF ListInv
  <1>2. PICK k, l \in 1..len :
            /\ list' = q__List_swap_elem(list, ns[k], ns[l])
            /\ items' = [items EXCEPT ![k] = items[l], ![l] = items[k]]
    BY <1>1 DEF ListSwap
  <1>3. items' \in Seq(Items) /\ Len(items') = len
    <2>1. items' \in [1..len -> Items]
      BY <1>1, <1>2
    <2>2. QED
      BY <1>1, <2>1, SeqDef
  <1>4. \A i \in 1..len :
            items'[i] = IF i = l THEN items[k] ELSE IF i = k THEN items[l] ELSE items[i]
    BY <1>1, <1>2
  <1> HIDE DEF len, ns
  <1>5. Represents(q__List_swap_elem(list, ns[k], ns[l]), len, ns, items')
    BY <1>1, <1>4, Swapped
  <1>6. QED
    BY <1>1, <1>2, <1>3, <1>5, ListInvNext

\* From the head and from the tail, a list has the elements pushed and neither popped nor
\* erased, in their order, whatever its length, after any calls of its operations, and so
\* has a copy made of it.
THEOREM ListCorrect ==
    ASSUME ~MallocFails
    PROVE  ListSpec => [](ListIntact /\ CopyIntact /\ ListInv)
  <1>1. <<>> \in Seq(Items) /\ Len(<<>>) = 0
    OBVIOUS
  <1>2. ListInit => ListInv
    <2>1. SUFFICES ASSUME ListInit PROVE ListInv
      OBVIOUS
    <2>2. list = qList_constructor /\ items = <<>>
      BY <2>1 DEF ListInit
    <2>3. Represents(list, 0, qList_foreach(list), items)
      <3>1. \E ns : Represents(list, 0, ns, items)
        BY <2>2, RepresentsEmpty
      <3>2. QED
        BY <3>1, SomeNodes
    <2>4. QED
      BY <1>1, <2>2, <2>3 DEF ListInv
  <1>3. ListInv /\ [ListNext]_lvars => ListInv'
    <2>1. SUFFICES ASSUME ListInv, [ListNext]_lvars PROVE ListInv'
      OBVIOUS
    <2>2. ASSUME NEW e \in Items, ListPush(e) PROVE ListInv'
      BY <2>1, <2>2, ListInvPush
    <2>3. CASE ListPop
      BY <2>1, <2>3, ListInvPop
    <2>4. CASE ListSwap
      BY <2>1, <2>4, ListInvSwap
    <2>5. CASE ListErase
      BY <2>1, <2>5, ListInvErase
    <2>6. CASE q__List_destructor
      <3>1. list' = qList_constructor /\ items' = <<>>
        BY <2>6 DEF q__List_destructor
      <3>2. \E ns : Represents(list', 0, ns, items')
        BY <3>1, RepresentsEmpty
      <3>3. QED
        BY <1>1, <3>1, <3>2, ListInvNext
    <2>7. CASE UNCHANGED lvars
      <3>1. list' = list /\ items' = items
        BY <2>7 DEF lvars
      <3>2. QED
        BY <2>1, <3>1 DEF ListInv, qList_foreach, Along
    <2>8. QED
      BY <2>1, <2>2, <2>3, <2>4, <2>5, <2>6, <2>7 DEF ListNext
  <1>4. QED
    BY <1>2, <1>3, ListInvIntact, ListInvCopied, PTL DEF ListSpec

-----------------------------------------------------------------------------
\* A key has a list, and NULL is none.
LEMMA HashInRange ==
    ASSUME NEW k \in Items
    PROVE  q__uhashf(k) \in 0..(Maxhashv - 1) /\ k # Nil
  <1>1. k \in Nat /\ Maxhashv \in Nat /\ Maxhashv > 0 /\ k # Nil
    BY ListAssumption, MapAssumption
  <1>2. k % Maxhashv \in 0..(Maxhashv - 1)
    BY <1>1
  <1>3. QED
    BY <1>1, <1>2 DEF q__uhashf

\* The keys are the ones that the nodes hold.
LEMMA SomeKeys ==
    ASSUME NEW L, NEW h, NEW d, NEW len, NEW ns, NEW ks, HashList(L, h, d, len, ns, ks)
    PROVE  HashList(L, h, d, L.size, qList_foreach(L), KeysOf(L))
  <1>1. len \in Nat /\ Represents(L, len, ns, Pairs(len, ks, d))
    BY DEF HashList
  <1>2. qList_foreach(L) = ns
    BY <1>1, Walks
  <1>3. L.size = len /\ DOMAIN ns = 1..len
    BY <1>1 DEF Represents
  <1>4. \A i \in 1..len : L.node[ns[i]].data = Pairs(len, ks, d)[i]
    BY <1>1, DataHeld
  <1>5. ASSUME NEW i \in 1..len PROVE KeysOf(L)[i] = ks[i]
    <2>1. L.node[ns[i]].data = [key |-> ks[i], value |-> d[ks[i]]]
      BY <1>4 DEF Pairs
    <2>2. QED
      BY <1>2, <1>3, <2>1 DEF KeysOf
  <1>6. Pairs(len, KeysOf(L), d) = Pairs(len, ks, d)
    BY <1>5 DEF Pairs
  <1>7. {KeysOf(L)[i] : i \in 1..len} = {ks[i] : i \in 1..len}
    BY <1>5
  <1>8. QED
    BY <1>1, <1>2, <1>3, <1>5, <1>6, <1>7 DEF HashList

\* A list does not change with the values of keys that belong to others.
LEMMA OtherList ==
    ASSUME NEW L, NEW h, NEW d, NEW len, NEW ns, NEW ks, HashList(L, h, d, len, ns, ks),
           NEW d2, \A k \in Items : q__uhashf(k) = h => d2[k] = d[k]
    PROVE  HashList(L, h, d2, len, ns, ks)
  <1>1. ASSUME NEW i \in 1..len PROVE d2[ks[i]] = d[ks[i]]
    <2>1. ks[i] \in {k \in Items : d[k] # Nil /\ q__uhashf(k) = h}
      BY DEF HashList
    <2>2. QED
      BY <2>1
  <1>2. Pairs(len, ks, d2) = Pairs(len, ks, d)
    BY <1>1 DEF Pairs
  <1>3. {k \in Items : d2[k] # Nil /\ q__uhashf(k) = h} = {k \in Items : d[k] # Nil /\ q__uhashf(k) = h}
    OBVIOUS
  <1>4. QED
    BY <1>2, <1>3 DEF HashList

\* The search finds the node of a key that has a value, and no other key.
LEMMA Found ==
    ASSUME NEW L, NEW d, NEW len, NEW ns, NEW ks, NEW k \in Items,
           HashList(L, q__uhashf(k), d, len, ns, ks)
    PROVE  /\ d[k] = Nil => Find(L, k) = Nil
           /\ d[k] # Nil => \E i \in 1..len : ks[i] = k /\ Find(L, k) = ns[i]
  <1> DEFINE at == {i \in DOMAIN ns : L.node[ns[i]].data.key = k}
  <1>1. len \in Nat /\ Represents(L, len, ns, Pairs(len, ks, d))
    BY DEF HashList
  <1>2. qList_foreach(L) = ns
    BY <1>1, Walks
  <1>3. DOMAIN ns = 1..len
    BY <1>1 DEF Represents
  <1>4. \A i \in 1..len : L.node[ns[i]].data = Pairs(len, ks, d)[i]
    BY <1>1, DataHeld
  <1>5. ASSUME NEW i \in 1..len PROVE L.node[ns[i]].data.key = ks[i]
    <2>1. L.node[ns[i]].data = [key |-> ks[i], value |-> d[ks[i]]]
      BY <1>4 DEF Pairs
    <2>2. QED
      BY <2>1
  <1>6. at = {i \in 1..len : ks[i] = k}
    BY <1>3, <1>5
  <1>7. Find(L, k) = IF at = {} THEN Nil ELSE ns[Min(at)]
    BY <1>2 DEF Find
  <1> HIDE DEF at
  <1>8. CASE d[k] = Nil
    <2>1. \A i \in 1..len : ks[i] # k
      BY <1>8 DEF HashList
    <2>2. QED
      BY <1>6, <1>7, <1>8, <2>1
  <1>9. CASE d[k] # Nil
    <2>1. PICK i \in 1..len : ks[i] = k
      <3>1. k \in {ks[i] : i \in 1..len}
        BY <1>9 DEF HashList
      <3>2. QED
        BY <3>1
    <2>2. at = {i}
      BY <1>6, <2>1 DEF HashList
    <2>3. Min({i}) = i
      BY <1>1 DEF Min
    <2>4. QED
      BY <1>7, <1>9, <2>1, <2>2, <2>3
  <1>10. QED
    BY <1>8, <1>9

\* A key without a value gets a pair at the end of its list.
LEMMA Added ==
    ASSUME NEW L, NEW len, NEW ns, NEW ks, NEW k \in Items, NEW v \in Items,
           NEW d \in [Items -> Items \cup {Nil}], d[k] = Nil,
           HashList(L, q__uhashf(k), d, len, ns, ks)
    PROVE  \E ns2, ks2 : HashList(q__List_push_back(L, [key |-> k, value |-> v], "done"),
                                q__uhashf(k), [d EXCEPT ![k] = v], len + 1, ns2, ks2)
  <1> DEFINE h == q__uhashf(k)
             d2 == [d EXCEPT ![k] = v]
             ks2 == [i \in 1..(len + 1) |-> IF i = len + 1 THEN k ELSE ks[i]]
             es2 == Pairs(len + 1, ks2, d2)
  <1>1. /\ len \in Nat /\ len + 1 \in Nat /\ Represents(L, len, ns, Pairs(len, ks, d))
        /\ \A i, j \in 1..len : ks[i] = ks[j] => i = j
        /\ {ks[i] : i \in 1..len} = {l \in Items : d[l] # Nil /\ q__uhashf(l) = h}
    BY DEF HashList
  <1>2. /\ d2[k] = v /\ v # Nil
        /\ \A l \in Items : l # k => d2[l] = d[l]
    BY HashInRange
  <1>3. /\ ks2[len + 1] = k
        /\ \A i \in 1..len : ks2[i] = ks[i] /\ ks[i] # k /\ ks[i] \in Items /\ q__uhashf(ks[i]) = h
    BY <1>1
  <1> HIDE DEF h, d2, ks2
  <1>4. /\ es2[len + 1] = [key |-> k, value |-> v]
        /\ \A i \in 1..len : es2[i] = Pairs(len, ks, d)[i]
    <2>1. len + 1 \in 1..(len + 1)
      BY <1>1
    <2>2. ASSUME NEW i \in 1..len PROVE es2[i] = Pairs(len, ks, d)[i]
      <3>1. i \in 1..(len + 1) /\ ks2[i] = ks[i] /\ d2[ks[i]] = d[ks[i]]
        BY <1>1, <1>2, <1>3
      <3>2. QED
        BY <3>1 DEF Pairs
    <2>3. QED
      BY <1>2, <1>3, <2>1, <2>2 DEF Pairs
  <1>5. PICK ns2 : Represents(q__List_push_back(L, es2[len + 1], "done"), len + 1, ns2, es2)
    <2> HIDE DEF es2
    <2>1. QED
      BY <1>1, <1>4, PushedBack
  <1>6. \A i, j \in 1..(len + 1) : ks2[i] = ks2[j] => i = j
    BY <1>1, <1>3
  <1>7. {ks2[i] : i \in 1..(len + 1)} = {l \in Items : d2[l] # Nil /\ q__uhashf(l) = h}
    <2>1. ASSUME NEW i \in 1..(len + 1)
          PROVE  ks2[i] \in Items /\ d2[ks2[i]] # Nil /\ q__uhashf(ks2[i]) = h
      <3>1. CASE i = len + 1
        BY <1>2, <1>3, <3>1 DEF h
      <3>2. CASE i \in 1..len
        <4>1. ks[i] \in {l \in Items : d[l] # Nil /\ q__uhashf(l) = h}
          BY <1>1, <3>2
        <4>2. QED
          BY <1>2, <1>3, <3>2, <4>1
      <3>3. QED
        BY <1>1, <3>1, <3>2
    <2>2. ASSUME NEW l \in Items, d2[l] # Nil, q__uhashf(l) = h
          PROVE  \E i \in 1..(len + 1) : ks2[i] = l
      <3>1. CASE l = k
        BY <1>1, <1>3, <3>1
      <3>2. CASE l # k
        <4>1. l \in {ks[i] : i \in 1..len}
          BY <1>1, <1>2, <2>2, <3>2
        <4>2. PICK i \in 1..len : ks[i] = l
          BY <4>1
        <4>3. i \in 1..(len + 1)
          BY <1>1
        <4>4. QED
          BY <1>3, <4>2, <4>3
      <3>3. QED
        BY <3>1, <3>2
    <2>3. QED
      BY <2>1, <2>2
  <1>8. HashList(q__List_push_back(L, [key |-> k, value |-> v], "done"), h, d2, len + 1, ns2, ks2)
    BY <1>1, <1>4, <1>5, <1>6, <1>7 DEF HashList
  <1>9. QED
    BY <1>8 DEF h, d2

\* A key that is erased goes out of its list.
LEMMA Removed ==
    ASSUME NEW L, NEW len, NEW ns, NEW ks, NEW k \in Items,
           NEW d \in [Items -> Items \cup {Nil}],
           HashList(L, q__uhashf(k), d, len, ns, ks),
           NEW at \in 1..len, ks[at] = k
    PROVE  \E ns2, ks2 : HashList(q__List_erase_elem(L, ns[at]), q__uhashf(k),
                                [d EXCEPT ![k] = Nil], len - 1, ns2, ks2)
  <1> DEFINE h == q__uhashf(k)
             d2 == [d EXCEPT ![k] = Nil]
             ks2 == [i \in 1..(len - 1) |-> IF i < at THEN ks[i] ELSE ks[i + 1]]
             es2 == Pairs(len - 1, ks2, d2)
  <1>1. /\ len \in Nat /\ Represents(L, len, ns, Pairs(len, ks, d))
        /\ \A i, j \in 1..len : ks[i] = ks[j] => i = j
        /\ {ks[i] : i \in 1..len} = {l \in Items : d[l] # Nil /\ q__uhashf(l) = h}
    BY DEF HashList
  <1>2. d2[k] = Nil /\ \A l \in Items : l # k => d2[l] = d[l]
    OBVIOUS
  <1>3. len - 1 \in Nat /\ \A i \in 1..(len - 1) : i \in 1..len /\ i + 1 \in 1..len
    BY <1>1
  <1>4. \A i \in 1..(len - 1) : ks2[i] = IF i < at THEN ks[i] ELSE ks[i + 1]
    OBVIOUS
  <1>5. \A i \in 1..len : ks[i] \in Items /\ d[ks[i]] # Nil /\ q__uhashf(ks[i]) = h
    BY <1>1
  <1> HIDE DEF h, d2, ks2
  <1>6. ASSUME NEW i \in 1..(len - 1)
        PROVE  ks2[i] \in Items /\ ks2[i] # k /\ d2[ks2[i]] = d[ks2[i]]
    <2>1. CASE i < at
      BY <1>1, <1>2, <1>3, <1>4, <1>5, <2>1
    <2>2. CASE ~(i < at)
      BY <1>1, <1>2, <1>3, <1>4, <1>5, <2>2
    <2>3. QED
      BY <2>1, <2>2
  <1>7. ASSUME NEW i \in 1..(len - 1)
        PROVE  es2[i] = IF i < at THEN Pairs(len, ks, d)[i] ELSE Pairs(len, ks, d)[i + 1]
    BY <1>3, <1>4, <1>6 DEF Pairs
  <1>8. PICK ns2 : Represents(q__List_erase_elem(L, ns[at]), len - 1, ns2, es2)
    <2> HIDE DEF es2
    <2>1. QED
      BY <1>1, <1>7, Erased
  <1>9. ASSUME NEW i \in 1..(len - 1), NEW j \in 1..(len - 1), ks2[i] = ks2[j]
        PROVE  i = j
    <2>1. CASE i < at
      BY <1>1, <1>3, <1>4, <1>9, <2>1
    <2>2. CASE ~(i < at)
      BY <1>1, <1>3, <1>4, <1>9, <2>2
    <2>3. QED
      BY <2>1, <2>2
  <1>10. {ks2[i] : i \in 1..(len - 1)} = {l \in Items : d2[l] # Nil /\ q__uhashf(l) = h}
    <2>1. ASSUME NEW i \in 1..(len - 1)
          PROVE  ks2[i] \in Items /\ d2[ks2[i]] # Nil /\ q__uhashf(ks2[i]) = h
      <3>1. CASE i < at
        BY <1>3, <1>4, <1>5, <1>6, <3>1
      <3>2. CASE ~(i < at)
        BY <1>3, <1>4, <1>5, <1>6, <3>2
      <3>3. QED
        BY <3>1, <3>2
    <2>2. ASSUME NEW l \in Items, d2[l] # Nil, q__uhashf(l) = h
          PROVE  \E i \in 1..(len - 1) : ks2[i] = l
      <3>1. l # k
        BY <1>2, <2>2
      <3>2. l \in {ks[i] : i \in 1..len}
        BY <1>1, <1>2, <2>2, <3>1
      <3>3. PICK i \in 1..len : ks[i] = l
        BY <3>2
      <3>4. CASE i < at
        <4>1. i \in 1..(len - 1)
          BY <1>1, <3>4
        <4>2. QED
          BY <1>4, <3>3, <3>4, <4>1
      <3>5. CASE ~(i < at)
        <4>1. i # at
          BY <3>1, <3>3
        <4>2. i - 1 \in 1..(len - 1) /\ ~(i - 1 < at) /\ (i - 1) + 1 = i
          BY <1>1, <3>5, <4>1
        <4>3. QED
          BY <1>4, <3>3, <4>2
      <3>6. QED
        BY <3>4, <3>5
    <2>3. QED
      BY <2>1, <2>2
  <1>11. HashList(q__List_erase_elem(L, ns[at]), h, d2, len - 1, ns2, ks2)
    BY <1>3, <1>8, <1>9, <1>10 DEF HashList
  <1>12. QED
    BY <1>11 DEF h, d2

\* The list with another value in the pair of a node.
WithValue(L, n, v) == [L EXCEPT !.node[n].data.value = v]

\* A key that has a value gets the new one where it is.
LEMMA Replaced ==
    ASSUME NEW L, NEW len, NEW ns, NEW ks, NEW k \in Items, NEW v \in Items,
           NEW d \in [Items -> Items \cup {Nil}],
           HashList(L, q__uhashf(k), d, len, ns, ks),
           NEW at \in 1..len, ks[at] = k
    PROVE  HashList(WithValue(L, ns[at], v), q__uhashf(k), [d EXCEPT ![k] = v], len, ns, ks)
  <1> DEFINE h == q__uhashf(k)
             d2 == [d EXCEPT ![k] = v]
             D == DOMAIN L.node
             a == ns[at]
             pair == [key |-> k, value |-> v]
             fresh == [prev |-> L.node[a].prev, next |-> L.node[a].next, data |-> pair]
             nodes == [m \in D |-> IF m = a THEN fresh ELSE L.node[m]]
             P == [head |-> L.head, tail |-> L.tail, size |-> L.size, node |-> nodes]
             es == Pairs(len, ks, d)
             es2 == Pairs(len, ks, d2)
  <1>1. /\ len \in Nat /\ Represents(L, len, ns, es)
        /\ \A i, j \in 1..len : ks[i] = ks[j] => i = j
        /\ {ks[i] : i \in 1..len} = {l \in Items : d[l] # Nil /\ q__uhashf(l) = h}
    BY DEF HashList
  <1>2. /\ d2[k] = v /\ v # Nil
        /\ \A l \in Items : l # k => d2[l] = d[l]
    BY HashInRange
  <1>3. \A i \in 1..len : ks[i] \in Items /\ d[ks[i]] # Nil /\ q__uhashf(ks[i]) = h
    BY <1>1
  <1>4. \A i \in 1..len : es[i] = [key |-> ks[i], value |-> d[ks[i]]]
    BY DEF Pairs
  <1>5. \A i \in 1..len : es2[i] = IF i = at THEN pair ELSE es[i]
    BY <1>1, <1>2, <1>3 DEF Pairs
  <1> HIDE DEF es, es2, h, d2
  <1>6. /\ \A i \in 1..len : ns[i] \in D /\ (ns[i] = a <=> i = at)
        /\ \A i \in 1..len : L.node[ns[i]] = Joint(len, ns, es, i)
        /\ L = [head |-> L.head, tail |-> L.tail, size |-> L.size, node |-> L.node]
    BY <1>1 DEF Represents
  <1>7. L.node[a] = [prev |-> L.node[a].prev, next |-> L.node[a].next,
                     data |-> [key |-> k, value |-> d[k]]]
    <2>1. L.node[a] = Joint(len, ns, es, at) /\ es[at] = [key |-> k, value |-> d[k]]
      BY <1>4, <1>6
    <2>2. QED
      BY <2>1 DEF Joint
  <1>8. [L EXCEPT !.node[a].data.value = v] = P
    <2> DEFINE changed == [L.node[a] EXCEPT !.data = [L.node[a].data EXCEPT !.value = v]]
    <2>1. L.node[a].data = [key |-> k, value |-> d[k]]
      BY <1>7
    <2>2. [L.node[a].data EXCEPT !.value = v] = pair
      BY <2>1
    <2>3. changed = fresh
      <3>1. changed = [L.node[a] EXCEPT !.data = pair]
        BY <2>2
      <3>2. QED
        BY <1>7, <3>1
    <2>4. [L EXCEPT !.node[a].data.value = v] = [L EXCEPT !.node = [L.node EXCEPT ![a] = changed]]
      BY <1>6
    <2> HIDE DEF changed, fresh
    <2>5. [L.node EXCEPT ![a] = changed] = nodes
      BY <1>6, <2>3
    <2> HIDE DEF nodes
    <2>6. [L EXCEPT !.node[a].data.value = v] = [L EXCEPT !.node = nodes]
      BY <2>4, <2>5
    <2>7. QED
      BY <1>6, <2>6
  <1>9. ASSUME NEW i \in 1..len PROVE nodes[ns[i]] = Joint(len, ns, es2, i)
    <2>1. CASE i = at
      <3>1. nodes[ns[i]] = fresh /\ es2[i] = pair /\ L.node[a] = Joint(len, ns, es, i)
        BY <1>5, <1>6, <2>1
      <3>2. QED
        BY <3>1 DEF Joint
    <2>2. CASE i # at
      <3>1. nodes[ns[i]] = L.node[ns[i]] /\ es2[i] = es[i] /\ L.node[ns[i]] = Joint(len, ns, es, i)
        BY <1>5, <1>6, <2>2
      <3>2. QED
        BY <3>1 DEF Joint
    <2>3. QED
      BY <2>1, <2>2
  <1>10. DOMAIN P.node = D
    OBVIOUS
  <1>11. Represents(P, len, ns, es2)
    <2> HIDE DEF nodes
    <2>1. QED
      BY <1>1, <1>9, <1>10 DEF Represents
  <1>12. {l \in Items : d2[l] # Nil /\ q__uhashf(l) = h} = {l \in Items : d[l] # Nil /\ q__uhashf(l) = h}
    <2>1. d[k] # Nil
      BY <1>3
    <2>2. QED
      BY <1>2, <2>1
  <1> HIDE DEF P
  <1>13. HashList(WithValue(L, a, v), h, d2, len, ns, ks)
    BY <1>1, <1>8, <1>11, <1>12 DEF HashList, es2, WithValue
  <1>14. QED
    BY <1>13 DEF h, d2

\* A change of one list for one of its keys leaves the others alone.
LEMMA OneListChanged ==
    ASSUME NEW A, NEW d, Filed(A, d), NEW k \in Items,
           NEW d2, \A l \in Items : l # k => d2[l] = d[l],
           NEW L2, \E len, ns, ks : HashList(L2, q__uhashf(k), d2, len, ns, ks)
    PROVE  Filed([A EXCEPT ![q__uhashf(k)] = L2], d2)
  <1> DEFINE B == [A EXCEPT ![q__uhashf(k)] = L2]
             Kept(L, h, e) == HashList(L, h, e, L.size, qList_foreach(L), KeysOf(L))
  <1>1. DOMAIN A = 0..(Maxhashv - 1) /\ \A h \in 0..(Maxhashv - 1) : Kept(A[h], h, d)
    BY DEF Filed
  <1>2. DOMAIN B = 0..(Maxhashv - 1)
    BY <1>1
  <1>3. ASSUME NEW h \in 0..(Maxhashv - 1) PROVE Kept(B[h], h, d2)
    <2>1. CASE h = q__uhashf(k)
      <3>1. B[h] = L2
        BY <1>1, <2>1
      <3>2. PICK len, ns, ks : HashList(L2, h, d2, len, ns, ks)
        BY <2>1
      <3>3. HashList(L2, h, d2, L2.size, qList_foreach(L2), KeysOf(L2))
        BY <3>2, SomeKeys
      <3>4. QED
        BY <3>1, <3>3
    <2>2. CASE h # q__uhashf(k)
      <3>1. B[h] = A[h]
        BY <1>1, <2>2
      <3>2. HashList(A[h], h, d, A[h].size, qList_foreach(A[h]), KeysOf(A[h]))
        BY <1>1
      <3>3. \A l \in Items : q__uhashf(l) = h => d2[l] = d[l]
        BY <2>2
      <3>4. HashList(A[h], h, d2, A[h].size, qList_foreach(A[h]), KeysOf(A[h]))
        BY <3>2, <3>3, OtherList
      <3>5. QED
        BY <3>1, <3>4
    <2>3. QED
      BY <2>1, <2>2
  <1> HIDE DEF B
  <1>4. Filed(B, d2)
    BY <1>2, <1>3 DEF Filed
  <1>5. QED
    BY <1>4 DEF B

\* MapInv of the next state.
LEMMA MapInvNext ==
    ASSUME NEW A, NEW c, NEW d \in [Items -> Items \cup {Nil}],
           map' = [listArray |-> A, counts |-> c], dict' = d, Filed(A, d),
           IsFiniteSet({k \in Items : d[k] # Nil}),
           c = Cardinality({k \in Items : d[k] # Nil})
    PROVE  MapInv'
  <1>1. map'.listArray = A /\ map'.counts = c
    OBVIOUS
  <1>2. Filed(map'.listArray, dict')
    BY <1>1
  <1>3. QED
    BY <1>1, <1>2 DEF MapInv

\* An insertion, when malloc does not fail.
LEMMA MapInvInsert ==
    ASSUME ~MallocFails, MapInv, NEW k \in Items, NEW v \in Items, MapInsert(k, v)
    PROVE  MapInv'
  <1> DEFINE A == map.listArray
             h == q__uhashf(k)
             L == A[h]
             d2 == [dict EXCEPT ![k] = v]
             S == {l \in Items : dict[l] # Nil}
             S2 == {l \in Items : d2[l] # Nil}
             n == Find(L, k)
  <1>1. /\ dict \in [Items -> Items \cup {Nil}] /\ Filed(A, dict)
        /\ map = [listArray |-> A, counts |-> map.counts]
        /\ IsFiniteSet(S) /\ map.counts = Cardinality(S)
    BY DEF MapInv
  <1>2. dict' = d2 /\ map' = q__Map_insert(map, k, v, "done")
    BY DEF MapInsert
  <1>3. h \in 0..(Maxhashv - 1) /\ k # Nil /\ v # Nil
    BY HashInRange
  <1>4. /\ d2 \in [Items -> Items \cup {Nil}] /\ d2[k] = v
        /\ \A l \in Items : l # k => d2[l] = dict[l]
    BY <1>1
  <1>5. PICK len, ns, ks : HashList(L, h, dict, len, ns, ks)
    BY <1>1, <1>3 DEF Filed
  <1>6. /\ \A i \in 1..len : ns[i] # Nil
        /\ dict[k] = Nil => n = Nil
        /\ dict[k] # Nil => \E i \in 1..len : ks[i] = k /\ n = ns[i]
    <2>1. \A i \in 1..len : ns[i] # Nil
      <3>1. len \in Nat /\ Represents(L, len, ns, Pairs(len, ks, dict))
        BY <1>5 DEF HashList
      <3> HIDE DEF L
      <3>2. QED
        BY <3>1, NodeFacts
    <2>2. QED
      BY <1>5, <2>1, Found
  <1>7. CASE dict[k] = Nil
    <2> DEFINE L2 == q__List_push_back(L, [key |-> k, value |-> v], "done")
    <2>1. map' = [listArray |-> [A EXCEPT ![h] = L2], counts |-> map.counts + 1]
      BY <1>2, <1>6, <1>7 DEF q__Map_insert
    <2>2. \E ns2, ks2 : HashList(L2, h, d2, len + 1, ns2, ks2)
      BY <1>1, <1>5, <1>7, Added
    <2>3. S2 = S \cup {k} /\ k \notin S
      BY <1>3, <1>4, <1>7
    <2> HIDE DEF d2, L2, h, A, S, S2
    <2>4. Filed([A EXCEPT ![h] = L2], d2)
      BY <1>1, <1>4, <2>2, OneListChanged DEF h
    <2>5. IsFiniteSet(S2) /\ Cardinality(S2) = map.counts + 1
      BY <1>1, <2>3, FS_AddElement
    <2>6. QED
      BY <1>2, <1>4, <2>1, <2>4, <2>5, MapInvNext DEF S2
  <1>8. CASE dict[k] # Nil
    <2> DEFINE L2 == WithValue(L, n, v)
    <2>1. PICK at \in 1..len : ks[at] = k /\ n = ns[at]
      BY <1>6, <1>8
    <2>2. n # Nil
      BY <1>6, <2>1
    <2>3. map' = [map EXCEPT !.listArray[h].node[n].data.value = v]
      BY <1>2, <2>2 DEF q__Map_insert
    <2>4. map' = [listArray |-> [A EXCEPT ![h] = L2], counts |-> map.counts]
      BY <1>1, <2>3 DEF WithValue
    <2>5. HashList(L2, h, d2, len, ns, ks)
      BY <1>1, <1>5, <2>1, Replaced
    <2>6. S2 = S
      BY <1>3, <1>4, <1>8
    <2> HIDE DEF d2, L2, h, A, S, S2
    <2>7. Filed([A EXCEPT ![h] = L2], d2)
      BY <1>1, <1>4, <2>5, OneListChanged DEF h
    <2>8. QED
      BY <1>1, <1>2, <1>4, <2>4, <2>6, <2>7, MapInvNext DEF S, S2
  <1>9. QED
    BY <1>7, <1>8

\* An erase, of a key that has a value or of one that has none.
LEMMA MapInvErase ==
    ASSUME MapInv, NEW k \in Items, MapErase(k)
    PROVE  MapInv'
  <1> DEFINE A == map.listArray
             h == q__uhashf(k)
             L == A[h]
             d2 == [dict EXCEPT ![k] = Nil]
             S == {l \in Items : dict[l] # Nil}
             S2 == {l \in Items : d2[l] # Nil}
             n == Find(L, k)
  <1>1. /\ dict \in [Items -> Items \cup {Nil}] /\ Filed(A, dict)
        /\ map = [listArray |-> A, counts |-> map.counts]
        /\ IsFiniteSet(S) /\ map.counts = Cardinality(S)
    BY DEF MapInv
  <1>2. dict' = d2 /\ map' = q__Map_erase(map, k)
    BY DEF MapErase
  <1>3. h \in 0..(Maxhashv - 1)
    BY HashInRange
  <1>4. /\ d2 \in [Items -> Items \cup {Nil}] /\ d2[k] = Nil
        /\ \A l \in Items : l # k => d2[l] = dict[l]
    BY <1>1
  <1>5. PICK len, ns, ks : HashList(L, h, dict, len, ns, ks)
    BY <1>1, <1>3 DEF Filed
  <1>6. /\ dict[k] = Nil => n = Nil
        /\ dict[k] # Nil => \E i \in 1..len : ks[i] = k /\ n = ns[i]
    BY <1>5, Found
  <1>7. CASE dict[k] = Nil
    <2>1. map' = [listArray |-> A, counts |-> map.counts]
      BY <1>1, <1>2, <1>6, <1>7 DEF q__Map_erase
    <2>2. d2 = dict
      BY <1>1, <1>7
    <2> HIDE DEF d2, A
    <2>3. QED
      BY <1>1, <1>2, <2>1, <2>2, MapInvNext
  <1>8. CASE dict[k] # Nil
    <2> DEFINE L2 == q__List_erase_elem(L, n)
    <2>1. PICK at \in 1..len : ks[at] = k /\ n = ns[at]
      BY <1>6, <1>8
    <2>2. n # Nil
      <3>1. len \in Nat /\ Represents(L, len, ns, Pairs(len, ks, dict))
        BY <1>5 DEF HashList
      <3> HIDE DEF L
      <3>2. \A i \in 1..len : ns[i] # Nil
        BY <3>1, NodeFacts
      <3>3. QED
        BY <2>1, <3>2
    <2>3. map' = [listArray |-> [A EXCEPT ![h] = L2], counts |-> map.counts - 1]
      BY <1>2, <2>2 DEF q__Map_erase
    <2>4. \E ns2, ks2 : HashList(L2, h, d2, len - 1, ns2, ks2)
      BY <1>1, <1>5, <2>1, Removed
    <2>5. S2 = S \ {k} /\ k \in S
      BY <1>4, <1>8
    <2> HIDE DEF d2, L2, h, A, S, S2
    <2>6. Filed([A EXCEPT ![h] = L2], d2)
      BY <1>1, <1>4, <2>4, OneListChanged DEF h
    <2>7. IsFiniteSet(S2) /\ Cardinality(S2) = map.counts - 1
      BY <1>1, <2>5, FS_RemoveElement
    <2>8. QED
      BY <1>2, <1>4, <2>3, <2>6, <2>7, MapInvNext DEF S2
  <1>9. QED
    BY <1>7, <1>8

\* Empty lists hold the keys of a map without values.
LEMMA EmptyLists ==
    ASSUME NEW A, DOMAIN A = 0..(Maxhashv - 1),
           \A h \in 0..(Maxhashv - 1) : \E ns, es : Represents(A[h], 0, ns, es),
           NEW d, d = [k \in Items |-> Nil]
    PROVE  /\ Filed(A, d) /\ d \in [Items -> Items \cup {Nil}]
           /\ IsFiniteSet({k \in Items : d[k] # Nil}) /\ Cardinality({k \in Items : d[k] # Nil}) = 0
  <1>1. {k \in Items : d[k] # Nil} = {}
    OBVIOUS
  <1>2. \A h : {k \in Items : d[k] # Nil /\ q__uhashf(k) = h} = {}
    OBVIOUS
  <1>3. ASSUME NEW h \in 0..(Maxhashv - 1)
        PROVE  HashList(A[h], h, d, A[h].size, qList_foreach(A[h]), KeysOf(A[h]))
    <2>1. PICK ns, es : Represents(A[h], 0, ns, es)
      OBVIOUS
    <2>2. Represents(A[h], 0, ns, Pairs(0, <<>>, d))
      BY <2>1 DEF Represents
    <2>3. HashList(A[h], h, d, 0, ns, <<>>)
      BY <1>2, <2>2 DEF HashList
    <2>4. QED
      BY <2>3, SomeKeys
  <1>4. Filed(A, d)
    BY <1>3 DEF Filed
  <1>5. QED
    BY <1>1, <1>4, FS_EmptySet

\* clear, which leaves the lists alone that are empty already.
LEMMA MapInvClear ==
    ASSUME MapInv, MapClear
    PROVE  MapInv'
  <1> DEFINE A == map.listArray
             A2 == [h \in DOMAIN A |-> IF A[h].size = 0 THEN A[h] ELSE qList_constructor]
             d2 == [k \in Items |-> Nil]
  <1>1. DOMAIN A = 0..(Maxhashv - 1) /\ Filed(A, dict)
    BY DEF MapInv, Filed
  <1>2. dict' = d2 /\ map' = [listArray |-> A2, counts |-> 0]
    BY DEF MapClear, q__Map_clear
  <1>3. ASSUME NEW h \in 0..(Maxhashv - 1)
        PROVE  \E ns, es : Represents(A2[h], 0, ns, es)
    <2>1. CASE A[h].size = 0
      <3>1. A2[h] = A[h]
        BY <1>1, <2>1
      <3>2. HashList(A[h], h, dict, 0, qList_foreach(A[h]), KeysOf(A[h]))
        BY <1>1, <2>1 DEF Filed
      <3> HIDE DEF A, A2
      <3>3. QED
        BY <3>1, <3>2 DEF HashList
    <2>2. CASE A[h].size # 0
      <3>1. A2[h] = qList_constructor
        BY <1>1, <2>2
      <3> HIDE DEF A, A2
      <3>2. QED
        BY <3>1, RepresentsEmpty
    <2>3. QED
      BY <2>1, <2>2
  <1>4. DOMAIN A2 = 0..(Maxhashv - 1)
    BY <1>1
  <1> HIDE DEF A2, d2
  <1>5. /\ Filed(A2, d2) /\ d2 \in [Items -> Items \cup {Nil}]
        /\ IsFiniteSet({k \in Items : d2[k] # Nil}) /\ Cardinality({k \in Items : d2[k] # Nil}) = 0
    BY <1>3, <1>4, EmptyLists DEF d2
  <1>6. QED
    BY <1>2, <1>5, MapInvNext

\* MapInv is what the search needs.
LEMMA MapInvFinds == MapInv => MapFound
  <1>1. SUFFICES ASSUME MapInv, NEW k \in Items
                 PROVE  IF dict[k] = Nil THEN q__Map_ptr_at(map, k) = Nil
                        ELSE q__Map_ptr_at(map, k) = [key |-> k, value |-> dict[k]]
    BY DEF MapInv, MapFound
  <1> DEFINE h == q__uhashf(k)
             L == map.listArray[h]
             n == Find(L, k)
  <1>2. h \in 0..(Maxhashv - 1)
    BY HashInRange
  <1>3. PICK len, ns, ks : HashList(L, h, dict, len, ns, ks)
    BY <1>1, <1>2 DEF MapInv, Filed
  <1>4. len \in Nat /\ Represents(L, len, ns, Pairs(len, ks, dict))
    BY <1>3 DEF HashList
  <1>5. q__Map_ptr_at(map, k) = IF n = Nil THEN Nil ELSE L.node[n].data
    BY DEF q__Map_ptr_at
  <1>6. /\ dict[k] = Nil => n = Nil
        /\ dict[k] # Nil => \E i \in 1..len : ks[i] = k /\ n = ns[i]
    BY <1>3, Found
  <1> HIDE DEF L, n
  <1>7. CASE dict[k] = Nil
    BY <1>5, <1>6, <1>7
  <1>8. CASE dict[k] # Nil
    <2>1. PICK i \in 1..len : ks[i] = k /\ n = ns[i]
      BY <1>6, <1>8
    <2>2. n # Nil
      BY <1>4, <2>1, NodeFacts
    <2>3. L.node[ns[i]].data = Pairs(len, ks, dict)[i]
      BY <1>4, DataHeld
    <2>4. Pairs(len, ks, dict)[i] = [key |-> k, value |-> dict[k]]
      BY <2>1 DEF Pairs
    <2>5. QED
      BY <1>5, <1>8, <2>1, <2>2, <2>3, <2>4
  <1>9. QED
    BY <1>7, <1>8

\* A key leads to the value that it was given last and to nothing once it was erased, and
\* counts is the number of keys, whatever their number and the number of lists, after any
\* calls of the map's operations.
THEOREM MapCorrect ==
    ASSUME ~MallocFails
    PROVE  MapSpec => [](MapFound /\ MapInv)
  <1>1. MapInit => MapInv
    <2>1. SUFFICES ASSUME MapInit PROVE MapInv
      OBVIOUS
    <2> DEFINE A == [h \in 0..(Maxhashv - 1) |-> qList_constructor]
    <2>2. map = [listArray |-> A, counts |-> 0] /\ dict = [k \in Items |-> Nil]
      BY <2>1 DEF MapInit, qMap_constructor
    <2>3. \A h \in 0..(Maxhashv - 1) : A[h] = qList_constructor
      OBVIOUS
    <2>4. DOMAIN A = 0..(Maxhashv - 1)
      OBVIOUS
    <2>5. map.listArray = A /\ map.counts = 0
      BY <2>2
    <2> HIDE DEF A
    <2>6. \A h \in 0..(Maxhashv - 1) : \E ns, es : Represents(A[h], 0, ns, es)
      BY <2>3, RepresentsEmpty
    <2>7. /\ Filed(A, dict) /\ dict \in [Items -> Items \cup {Nil}]
          /\ IsFiniteSet({k \in Items : dict[k] # Nil})
          /\ Cardinality({k \in Items : dict[k] # Nil}) = 0
      BY <2>2, <2>4, <2>6, EmptyLists
    <2>8. QED
      BY <2>2, <2>5, <2>7 DEF MapInv
  <1>2. MapInv /\ [MapNext]_mvars => MapInv'
    <2>1. SUFFICES ASSUME MapInv, [MapNext]_mvars PROVE MapInv'
      OBVIOUS
    <2>2. ASSUME NEW k \in Items, NEW v \in Items, MapInsert(k, v) PROVE MapInv'
      BY <2>1, <2>2, MapInvInsert
    <2>3. ASSUME NEW k \in Items, MapErase(k) PROVE MapInv'
      BY <2>1, <2>3, MapInvErase
    <2>4. CASE MapClear
      BY <2>1, <2>4, MapInvClear
    <2>5. CASE UNCHANGED mvars
      <3>1. map' = map /\ dict' = dict
        BY <2>5 DEF mvars
      <3>2. Filed(map'.listArray, dict')
        BY <2>1, <3>1 DEF MapInv
      <3>3. QED
        BY <2>1, <3>1, <3>2 DEF MapInv
    <2>6. QED
      BY <2>1, <2>2, <2>3, <2>4, <2>5 DEF MapNext
  <1>3. QED
    BY <1>1, <1>2, MapInvFinds, PTL DEF MapSpec
=============================================================================
