------------------------- MODULE OrderedKeysProofs -------------------------
(***************************************************************************)
(* What the proofs about the containers share: the least number with a     *)
(* property, elements in order, and the loops that follow a link.          *)
(***************************************************************************)
EXTENDS OrderedKeys, SequenceTheorems, FiniteSetTheorems, WellFoundedInduction, TLAPS

\* A set of naturals has a least element.
LEMMA Least ==
    ASSUME NEW T \in SUBSET Nat, T # {}
    PROVE  \E x \in T : \A y \in T : x <= y
  <1>1. PICK x \in T : \A y \in T : <<y, x>> \notin OpToRel(<, Nat)
    BY WFMin, NatLessThanWellFounded
  <1>2. \A y \in T : ~(y < x)
    BY <1>1 DEF OpToRel
  <1>3. QED
    BY <1>2

\* A loop along a link visits the nodes that the link joins.
LEMMA FollowsChain ==
    ASSUME NEW link, NEW node, NEW fuel \in Nat, NEW len \in Nat, len < fuel,
           NEW S, Nil \notin S, NEW ns \in [1..len -> S],
           node = IF len = 0 THEN Nil ELSE ns[1],
           \A i \in 1..len : link[ns[i]] = IF i = len THEN Nil ELSE ns[i + 1]
    PROVE  Follow(link, node, fuel) = ns
  <1> DEFINE Visit(f, i) == IF i = 0 THEN node
                            ELSE LET n == f[i - 1] IN IF n = Nil THEN Nil ELSE link[n]
             Fits(f) == f = [i \in 0..fuel |-> Visit(f, i)]
             walk == CHOOSE f : Fits(f)
             nth == [i \in 0..fuel |-> IF i < len THEN ns[i + 1] ELSE Nil]
             visits == Cardinality({i \in 0..(fuel - 1) : walk[i] # Nil})
  <1>1. len \in Nat /\ \A i \in 1..len : ns[i] \in S /\ ns[i] # Nil
    OBVIOUS
  <1>2. /\ \A i \in 0..fuel : nth[i] = IF i < len THEN ns[i + 1] ELSE Nil
        /\ DOMAIN nth = 0..fuel
        /\ nth = [i \in 0..fuel |-> nth[i]]
    OBVIOUS
  <1>3. Follow(link, node, fuel) = [i \in 1..visits |-> walk[i - 1]]
    BY DEF Follow
  <1> HIDE DEF nth
  <1>4. ASSUME NEW i \in 0..fuel PROVE nth[i] = Visit(nth, i)
    <2>1. CASE i = 0
      BY <1>1, <1>2, <2>1
    <2>2. CASE i # 0
      <3>1. i - 1 \in 0..fuel
        BY <2>2
      <3>2. CASE i - 1 < len
        <4>1. nth[i - 1] = ns[i] /\ i \in 1..len
          BY <3>1, <3>2, <1>1, <1>2, <2>2
        <4>2. link[ns[i]] = IF i = len THEN Nil ELSE ns[i + 1]
          BY <4>1
        <4>3. nth[i] = IF i < len THEN ns[i + 1] ELSE Nil
          BY <1>2
        <4>4. i < len <=> i # len
          BY <4>1, <1>1
        <4>5. QED
          BY <4>1, <4>2, <4>3, <4>4, <1>1, <2>2
      <3>3. CASE ~(i - 1 < len)
        <4>1. nth[i - 1] = Nil
          BY <3>1, <3>3, <1>2
        <4>2. nth[i] = Nil
          BY <3>3, <1>1, <1>2
        <4>3. QED
          BY <4>1, <4>2, <2>2
      <3>4. QED
        BY <3>2, <3>3
    <2>3. QED
      BY <2>1, <2>2
  <1>5. Fits(nth)
    BY <1>2, <1>4
  <1>6. Fits(walk)
    BY <1>5
  <1> HIDE DEF walk
  <1>7. ASSUME NEW i \in 0..fuel PROVE walk[i] = Visit(walk, i)
    BY <1>6
  <1>8. DOMAIN walk = 0..fuel /\ walk = [i \in 0..fuel |-> walk[i]]
    BY <1>6
  <1>9. \A i \in 0..fuel : walk[i] = nth[i]
    <2> DEFINE T == {i \in 0..fuel : walk[i] # nth[i]}
    <2>1. SUFFICES ASSUME T # {} PROVE FALSE
      OBVIOUS
    <2>2. T \in SUBSET Nat
      OBVIOUS
    <2>3. PICK x \in T : \A y \in T : x <= y
      <3> HIDE DEF T
      <3> QED BY <2>1, <2>2, Least
    <2>4. x \in 0..fuel /\ walk[x] # nth[x]
      OBVIOUS
    <2>5. x # 0
      BY <2>4, <1>4, <1>7
    <2>6. x - 1 \in 0..fuel
      BY <2>4, <2>5
    <2>7. walk[x - 1] = nth[x - 1]
      BY <2>3, <2>4, <2>6
    <2>8. Visit(walk, x) = Visit(nth, x)
      BY <2>7
    <2>9. QED
      BY <2>4, <2>8, <1>4, <1>7
  <1> DEFINE seen == {i \in 0..(fuel - 1) : walk[i] # Nil}
             last == len - 1
  <1>10. last \in Int /\ seen = 0..last
    <2>1. ASSUME NEW i \in 0..(fuel - 1) PROVE i \in 0..last <=> walk[i] # Nil
      <3>1. walk[i] = IF i < len THEN ns[i + 1] ELSE Nil
        BY <1>2, <1>9
      <3>2. i < len => i + 1 \in 1..len
        BY <1>1
      <3>3. i \in 0..last <=> i < len
        BY <1>1
      <3>4. QED
        BY <3>1, <3>2, <3>3, <1>1
    <2>2. 0..last \subseteq 0..(fuel - 1)
      BY <1>1
    <2>3. QED
      BY <1>1, <2>1, <2>2
  <1>11. visits = len
    <2> HIDE DEF seen
    <2>1. visits = Cardinality(0..last)
      BY <1>10 DEF seen
    <2>2. Cardinality(0..last) = IF 0 > last THEN 0 ELSE last - 0 + 1
      <3> HIDE DEF last
      <3> QED BY <1>10, FS_Interval
    <2>3. QED
      BY <1>1, <2>1, <2>2
  <1> HIDE DEF visits
  <1>12. ASSUME NEW i \in 1..len PROVE walk[i - 1] = ns[i]
    <2>1. i - 1 \in 0..fuel /\ i - 1 < len /\ (i - 1) + 1 = i
      BY <1>1
    <2>2. QED
      BY <1>2, <1>9, <2>1
  <1>13. ns = [i \in 1..len |-> ns[i]]
    OBVIOUS
  <1>14. QED
    BY <1>3, <1>11, <1>12, <1>13

-----------------------------------------------------------------------------
\* A finite set of integers that is not empty has a greatest element.
LEMMA Greatest ==
    ASSUME NEW S \in SUBSET Int, IsFiniteSet(S), S # {}
    PROVE  \E m \in S : \A y \in S : y <= m
  <1> DEFINE Has(E) == \E m \in E : \A y \in E : y <= m
             T == {n \in Nat : \E E \in SUBSET Int :
                      /\ IsFiniteSet(E) /\ E # {} /\ Cardinality(E) = n
                      /\ ~Has(E)}
  <1>1. SUFFICES ASSUME T # {} PROVE FALSE
    <2>1. Cardinality(S) \in Nat
      BY FS_CardinalityType
    <2>2. QED
      BY <2>1
  <1>2. T \in SUBSET Nat
    OBVIOUS
  <1>3. PICK n \in T : \A y \in T : n <= y
    <2> HIDE DEF T
    <2> QED BY <1>1, <1>2, Least
  <1>4. PICK E \in SUBSET Int : IsFiniteSet(E) /\ E # {} /\ Cardinality(E) = n /\ ~Has(E)
    BY <1>3
  <1>5. PICK x \in E : TRUE
    BY <1>4
  <1>6. /\ IsFiniteSet(E \ {x}) /\ Cardinality(E \ {x}) = n - 1
        /\ E \ {x} \in SUBSET Int /\ n \in Nat
    BY <1>3, <1>4, <1>5, FS_RemoveElement
  <1>7. n - 1 \in Nat
    BY <1>6, FS_CardinalityType
  <1>8. n - 1 \notin T
    <2> HIDE DEF T
    <2> QED BY <1>3, <1>6
  <1>9. E \ {x} = {} \/ Has(E \ {x})
    BY <1>6, <1>7, <1>8
  <1>10. CASE E \ {x} = {}
    <2>1. \A y \in E : y = x
      BY <1>10
    <2>2. QED
      BY <1>4, <1>5, <2>1
  <1>11. CASE Has(E \ {x})
    <2>1. PICK m \in E \ {x} : \A y \in E \ {x} : y <= m
      BY <1>11
    <2>2. CASE m <= x
      <3>1. \A y \in E : y <= x
        BY <2>1, <2>2, <1>5
      <3>2. QED
        BY <1>4, <1>5, <3>1
    <2>3. CASE ~(m <= x)
      <3>1. \A y \in E : y <= m
        BY <2>1, <2>3, <1>5
      <3>2. QED
        BY <1>4, <2>1, <3>1
    <2>4. QED
      BY <2>2, <2>3
  <1>12. QED
    BY <1>9, <1>10, <1>11

\* ns lists the elements of S from the least to the greatest.
Increasing(ns, len, S) ==
    /\ ns \in [1..len -> S]
    /\ \A i, j \in 1..len : i < j => ns[i] < ns[j]
    /\ \A x \in S : \E i \in 1..len : ns[i] = x

\* A finite set of integers can be listed so.
LEMMA Enumerated ==
    ASSUME NEW S \in SUBSET Int, IsFiniteSet(S)
    PROVE  \E ns : Increasing(ns, Cardinality(S), S)
  <1> DEFINE T == {n \in Nat : \E E \in SUBSET Int :
                      /\ IsFiniteSet(E) /\ Cardinality(E) = n
                      /\ ~\E ns : Increasing(ns, n, E)}
  <1>1. SUFFICES ASSUME T # {} PROVE FALSE
    <2>1. Cardinality(S) \in Nat
      BY FS_CardinalityType
    <2>2. QED
      BY <2>1
  <1>2. T \in SUBSET Nat
    OBVIOUS
  <1>3. PICK n \in T : \A y \in T : n <= y
    <2> HIDE DEF T
    <2> QED BY <1>1, <1>2, Least
  <1>4. PICK E \in SUBSET Int : /\ IsFiniteSet(E) /\ Cardinality(E) = n
                                /\ ~\E ns : Increasing(ns, n, E)
    BY <1>3
  <1>5. n \in Nat
    BY <1>2
  <1>6. CASE E = {}
    <2>1. n = 0
      BY <1>4, <1>6, FS_EmptySet
    <2>2. Increasing([i \in 1..0 |-> 0], 0, {})
      BY DEF Increasing
    <2>3. QED
      BY <1>4, <1>6, <2>1, <2>2
  <1>7. CASE E # {}
    <2>1. PICK m \in E : \A y \in E : y <= m
      BY <1>4, <1>7, Greatest
    <2>2. /\ IsFiniteSet(E \ {m}) /\ Cardinality(E \ {m}) = n - 1
          /\ E \ {m} \in SUBSET Int
      BY <1>4, <2>1, FS_RemoveElement
    <2>3. n - 1 \in Nat
      BY <2>2, FS_CardinalityType
    <2>4. n - 1 \notin T
      <3> HIDE DEF T
      <3> QED BY <1>3, <1>5
    <2>5. PICK ns : Increasing(ns, n - 1, E \ {m})
      BY <2>2, <2>3, <2>4
    <2> DEFINE ms == [i \in 1..n |-> IF i = n THEN m ELSE ns[i]]
    <2>6. \A i \in 1..n : i # n => i \in 1..(n - 1) /\ ns[i] \in E \ {m}
      BY <1>5, <2>5 DEF Increasing
    <2>7. ms \in [1..n -> E]
      BY <2>1, <2>6
    <2>8. ASSUME NEW i \in 1..n, NEW j \in 1..n, i < j PROVE ms[i] < ms[j]
      <3>1. i # n /\ i \in 1..(n - 1) /\ ms[i] = ns[i] /\ ns[i] \in E \ {m}
        BY <1>5, <2>6, <2>8
      <3>2. CASE j = n
        <4>1. ms[j] = m /\ ns[i] <= m /\ ns[i] # m /\ ns[i] \in Int /\ m \in Int
          BY <2>1, <3>1, <3>2
        <4>2. QED
          BY <3>1, <4>1
      <3>3. CASE j # n
        <4>1. j \in 1..(n - 1) /\ ms[j] = ns[j]
          BY <2>6, <3>3
        <4>2. QED
          BY <2>5, <2>8, <3>1, <4>1 DEF Increasing
      <3>4. QED
        BY <3>2, <3>3
    <2>9. ASSUME NEW x \in E PROVE \E i \in 1..n : ms[i] = x
      <3>1. CASE x = m
        <4>1. n \in 1..n /\ ms[n] = m
          BY <1>5, <2>3
        <4>2. QED
          BY <3>1, <4>1
      <3>2. CASE x # m
        <4>1. PICK i \in 1..(n - 1) : ns[i] = x
          BY <2>5, <3>2 DEF Increasing
        <4>2. i \in 1..n /\ i # n
          BY <1>5
        <4>3. QED
          BY <4>1, <4>2
      <3>3. QED
        BY <3>1, <3>2
    <2> HIDE DEF ms
    <2>10. Increasing(ms, n, E)
      BY <2>7, <2>8, <2>9 DEF Increasing
    <2>11. QED
      BY <1>4, <2>10
  <1>8. QED
    BY <1>6, <1>7
=============================================================================
