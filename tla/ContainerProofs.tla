-------------------------- MODULE ContainerProofs --------------------------
(***************************************************************************)
(* The containers that live in one block of memory, the binary-safe string *)
(* and the vector, never write past its end and keep what was put into     *)
(* them: for every element size, every width of unsigned int and every     *)
(* sequence of operations, whichever mallocs fail.  The search in the trie *)
(* finds exactly the prefixes of the keys stored, for every alphabet,      *)
(* every length of the keys and any number of insertions.                  *)
(***************************************************************************)
EXTENDS QVector, BinaryString, Trie, SequenceTheorems, TLAPS

\* A string: a size within its capacity.
StringType(s) == s.size \in Nat /\ s.capacity \in Nat /\ s.size <= s.capacity

\* s holds the bytes of p.
Holds(s, p) == s.size = Len(p) /\ \A i \in 0..(s.size - 1) : s.block[i] = p[i + 1]

StringInv ==
    /\ appended \in Seq(Bytes) /\ Len(appended) <= MaxSize
    /\ zhwk_error \in BOOLEAN
    /\ StringType(str) /\ str.size <= Len(appended)
    /\ ~zhwk_error => Holds(str, appended)

\* An unsigned int that does not overflow.
LEMMA NoOverflow ==
    ASSUME NEW x \in Nat, x < UintMod
    PROVE  x % UintMod = x
  BY StringAssumption

\* memcpy into a block that has the room keeps what is there and adds the piece.
LEMMA CopiedHolds ==
    ASSUME NEW s, StringType(s), NEW p \in Seq(Bytes), NEW room \in Nat,
           s.size + Len(p) <= room, s.size + Len(p) <= MaxSize
    PROVE  /\ StringType(Copied(s, p, room))
           /\ Copied(s, p, room).size = s.size + Len(p)
           /\ \A q \in Seq(Bytes) : Holds(s, q) => Holds(Copied(s, p, room), q \o p)
  <1> DEFINE c == Copied(s, p, room)
  <1>1. Len(p) \in Nat /\ s.size \in Nat /\ MaxSize \in Nat
    BY StringAssumption DEF StringType
  <1>2. c.size = s.size + Len(p)
    <2>1. s.size + Len(p) < UintMod
      BY <1>1, StringAssumption
    <2> QED BY <2>1, <1>1, NoOverflow DEF Copied
  <1>3. c.capacity = room
    BY DEF Copied
  <1>4. c.block = [i \in 0..(room - 1) |->
                      IF i < s.size THEN s.block[i]
                      ELSE IF i < s.size + Len(p) THEN p[i - s.size + 1] ELSE Zero]
    BY DEF Copied
  <1>5. StringType(c)
    BY <1>1, <1>2, <1>3 DEF StringType
  <1>6. ASSUME NEW q \in Seq(Bytes), Holds(s, q)
        PROVE  Holds(c, q \o p)
    <2>1. Len(q \o p) = s.size + Len(p)
      BY <1>6 DEF Holds
    <2>2. ASSUME NEW i \in 0..(c.size - 1) PROVE c.block[i] = (q \o p)[i + 1]
      <3>1. i \in 0..(room - 1) /\ i \in Nat /\ i < s.size + Len(p)
        BY <1>1, <1>2
      <3>2. CASE i < s.size
        <4>1. c.block[i] = s.block[i]
          BY <3>1, <3>2, <1>4
        <4>2. i \in 0..(s.size - 1)
          BY <3>1, <3>2, <1>1
        <4>3. s.block[i] = q[i + 1] /\ s.size = Len(q)
          BY <4>2, <1>6 DEF Holds
        <4> QED BY <4>1, <4>3, <3>1, <3>2, <1>1
      <3>3. CASE ~(i < s.size)
        <4>1. c.block[i] = p[i - s.size + 1]
          BY <3>1, <3>3, <1>4
        <4>2. s.size = Len(q)
          BY <1>6 DEF Holds
        <4> QED BY <4>1, <4>2, <3>1, <3>3, <1>1
      <3> QED BY <3>2, <3>3
    <2> QED BY <1>2, <2>1, <2>2 DEF Holds
  <1> QED BY <1>2, <1>5, <1>6

\* An append ends with the piece added, or with the string as it was and the failure
\* reported.
LEMMA AppendHolds ==
    ASSUME NEW s, StringType(s), NEW p \in Seq(Bytes), s.size + Len(p) <= MaxSize,
           NEW r \in q__bss_append(s, p)
    PROVE  /\ r.fails \in BOOLEAN
           /\ StringType(r.str) /\ r.str.size <= s.size + Len(p)
           /\ ~r.fails => \A q \in Seq(Bytes) : Holds(s, q) => Holds(r.str, q \o p)
  <1>1. Len(p) \in Nat /\ s.size \in Nat /\ s.capacity \in Nat /\ MaxSize \in Nat
    BY StringAssumption DEF StringType
  <1>2. Doubled(s, Len(p)) = 2 * (s.size + Len(p))
    <2>1. 2 * (s.size + Len(p)) < UintMod
      BY <1>1, StringAssumption
    <2> QED BY <2>1, <1>1, NoOverflow DEF Doubled
  <1>3. CASE r = [str |-> s, fails |-> TRUE]
    BY <1>3, <1>1
  <1>4. CASE s.capacity < Doubled(s, Len(p))
             /\ r = [str |-> Copied(s, p, Doubled(s, Len(p))), fails |-> FALSE]
    <2>1. Doubled(s, Len(p)) \in Nat /\ s.size + Len(p) <= Doubled(s, Len(p))
      BY <1>1, <1>2
    <2> QED BY <2>1, <1>1, <1>4, CopiedHolds
  <1>5. CASE ~(s.capacity < Doubled(s, Len(p)))
             /\ r = [str |-> Copied(s, p, s.capacity), fails |-> FALSE]
    <2>1. s.size + Len(p) <= s.capacity
      BY <1>1, <1>2, <1>5
    <2> QED BY <2>1, <1>1, <1>5, CopiedHolds
  <1> QED BY <1>3, <1>4, <1>5 DEF q__bss_append

\* A new string has room for what it holds: nothing.
LEMMA ConstructorHolds ==
    StringType(qbss_constructor) /\ qbss_constructor.size = 0 /\ Holds(qbss_constructor, <<>>)
  <1>1. qbss_constructor.size = 0 /\ qbss_constructor.capacity = Capacity
    BY DEF qbss_constructor
  <1> QED BY <1>1, StringAssumption DEF StringType, Holds

\* So it satisfies the invariant.
LEMMA FreshString ==
    /\ <<>> \in Seq(Bytes) /\ Len(<<>>) <= MaxSize
    /\ StringType(qbss_constructor) /\ qbss_constructor.size <= Len(<<>>)
    /\ Holds(qbss_constructor, <<>>)
  <1>1. <<>> \in Seq(Bytes) /\ Len(<<>>) = 0
    OBVIOUS
  <1>2. 0 <= MaxSize
    BY StringAssumption
  <1> QED BY <1>1, <1>2, ConstructorHolds

\* Every operation on the string preserves the invariant.
LEMMA StringStep == StringInv /\ [StringNext]_tvars => StringInv'
  <1> SUFFICES ASSUME StringInv, [StringNext]_tvars PROVE StringInv'
    OBVIOUS
  <1>1. ASSUME NEW b \in Bytes, NEW n \in Lengths
        PROVE  Piece(b, n) \in Seq(Bytes) /\ Len(Piece(b, n)) = n /\ n \in Nat
    BY StringAssumption DEF Piece
  <1>2. ASSUME NEW p \in Seq(Bytes), StringAppend(p) PROVE StringInv'
    <2>1. PICK r \in q__bss_append(str, p) : str' = r.str /\ zhwk_error' = (zhwk_error \/ r.fails)
      BY <1>2 DEF StringAppend
    <2>2. appended' = appended \o p /\ Len(appended) + Len(p) <= MaxSize
      BY <1>2 DEF StringAppend
    <2>3. appended' \in Seq(Bytes) /\ Len(appended') = Len(appended) + Len(p)
      BY <2>2 DEF StringInv
    <2>4. str.size + Len(p) <= MaxSize /\ str.size \in Nat /\ StringType(str)
      <3>1. str.size \in Nat /\ str.size <= Len(appended) /\ StringType(str)
        BY DEF StringInv, StringType
      <3>2. Len(appended) \in Nat /\ Len(p) \in Nat
        BY DEF StringInv
      <3> QED BY <2>2, <3>1, <3>2, StringAssumption
    <2>5. /\ r.fails \in BOOLEAN /\ StringType(r.str) /\ r.str.size <= str.size + Len(p)
          /\ ~r.fails => \A q \in Seq(Bytes) : Holds(str, q) => Holds(r.str, q \o p)
      BY <2>4, AppendHolds
    <2>6. str'.size <= Len(appended')
      BY <2>1, <2>3, <2>4, <2>5 DEF StringInv, StringType
    <2>7. ~zhwk_error' => Holds(str', appended')
      BY <2>1, <2>2, <2>5 DEF StringInv
    <2> QED BY <2>1, <2>2, <2>3, <2>5, <2>6, <2>7 DEF StringInv
  <1>3. ASSUME NEW p \in Seq(Bytes), qbss__from_array(p) PROVE StringInv'
    <2>1. appended' = p /\ Len(p) <= MaxSize /\ Len(p) \in Nat
      BY <1>3 DEF qbss__from_array
    <2>2. CASE zhwk_error
      <3>1. PICK r \in {[str |-> qbss_constructor, fails |-> FALSE]} :
                    str' = r.str /\ zhwk_error' = (zhwk_error \/ r.fails)
        BY <1>3, <2>2 DEF qbss__from_array
      <3>2. str' = qbss_constructor /\ zhwk_error'
        <4>1. r.str = qbss_constructor
          OBVIOUS
        <4>2. zhwk_error'
          BY <3>1, <2>2, Zenon
        <4> QED BY <3>1, <4>1, <4>2
      <3>3. str'.size <= Len(p)
        BY <2>1, <3>2, ConstructorHolds
      <3>4. zhwk_error' \in BOOLEAN
        BY <3>1, <2>2
      <3> QED BY <2>1, <3>2, <3>3, <3>4, ConstructorHolds DEF StringInv
    <2>3. CASE ~zhwk_error
      <3>1. PICK r \in q__bss_append(qbss_constructor, p) :
                    str' = r.str /\ zhwk_error' = (zhwk_error \/ r.fails)
        BY <1>3, <2>3 DEF qbss__from_array
      <3>2. /\ r.fails \in BOOLEAN /\ StringType(r.str) /\ r.str.size <= Len(p)
            /\ ~r.fails => \A q \in Seq(Bytes) :
                              Holds(qbss_constructor, q) => Holds(r.str, q \o p)
        BY <2>1, AppendHolds, ConstructorHolds
      <3>3. <<>> \o p = p /\ <<>> \in Seq(Bytes)
        OBVIOUS
      <3>4. ~r.fails => Holds(r.str, p)
        BY <3>2, <3>3, ConstructorHolds
      <3> QED BY <2>1, <2>3, <3>1, <3>2, <3>4 DEF StringInv
    <2> QED BY <2>2, <2>3 DEF StringInv
  <1>4. CASE StringRenew
    BY <1>4, FreshString DEF StringRenew, StringInv
  <1>5. CASE UNCHANGED tvars
    BY <1>5 DEF tvars, StringInv, StringType, Holds
  <1> QED BY <1>1, <1>2, <1>3, <1>4, <1>5 DEF StringNext

\* StringIntact for every capacity, piece length and width of unsigned int, as long as
\* the program appends less than half of what an unsigned int counts (sockread takes
\* an int): q__bss_append never writes past the block, and without an error set the
\* string is everything appended.
THEOREM StringCorrect == StringSpec => []StringIntact
  <1>1. StringInit => StringInv
    BY FreshString DEF StringInit, StringInv
  <1>2. StringInv => StringIntact
    BY DEF StringInv, StringType, Holds, StringIntact
  <1> QED BY <1>1, <1>2, StringStep, PTL DEF StringSpec

-----------------------------------------------------------------------------
\* b, a block of so many bytes, has room for the elements of p and holds them.
Keeps(b, bytes, p) ==
    /\ bytes \in Nat /\ DOMAIN b = Places(bytes)
    /\ Len(p) * ElemStep <= bytes
    /\ \A i \in 0..(Len(p) - 1) : b[i] = p[i + 1]

VectorInv == pushed \in Seq(Values) /\ vsize = Len(pushed) /\ Keeps(content, allocated, pushed)

\* A function from 1..n is a sequence of length n.
LEMMA FunctionIsSeq ==
    ASSUME NEW S, NEW n \in Nat, NEW f \in [1..n -> S]
    PROVE  f \in Seq(S) /\ Len(f) = n
  OBVIOUS

\* One more element takes ElemStep more bytes.
LEMMA OneMore ==
    ASSUME NEW n \in Nat
    PROVE  n * ElemStep \in Nat /\ (n + 1) * ElemStep = n * ElemStep + ElemStep
           /\ ElemStep \in Nat /\ ElemStep > 0
  BY VectorAssumption

\* A block with room for n elements has a place for each of them.
LEMMA HasPlaces ==
    ASSUME NEW n \in Nat, NEW bytes \in Nat, n * ElemStep <= bytes, NEW i \in 0..(n - 1)
    PROVE  i \in Places(bytes)
  <1>1. i \in Nat /\ n - (i + 1) \in Nat /\ ElemStep \in Nat /\ ElemStep > 0
    BY VectorAssumption
  <1>2. n * ElemStep = (i + 1) * ElemStep + (n - (i + 1)) * ElemStep
    BY <1>1
  <1>3. (n - (i + 1)) * ElemStep \in Nat /\ (i + 1) * ElemStep \in Nat
    BY <1>1
  <1>4. (i + 1) * ElemStep <= bytes
    BY <1>2, <1>3
  <1>5. i <= (i + 1) * ElemStep
    <2>1. (i + 1) * ElemStep = i * ElemStep + ElemStep /\ i * ElemStep >= i
      BY <1>1
    <2> QED BY <2>1, <1>1
  <1> QED BY <1>1, <1>3, <1>4, <1>5 DEF Places

\* malloc and memcpy of the elements of p into a block with room for them keeps them.
LEMMA MovedKeeps ==
    ASSUME NEW b, NEW p \in Seq(Values),
           \A i \in 0..(Len(p) - 1) : i \in DOMAIN b /\ b[i] = p[i + 1],
           NEW room \in Nat, Len(p) * ElemStep <= room
    PROVE  Keeps(Moved(b, room), room, p)
  <1>1. ASSUME NEW i \in 0..(Len(p) - 1) PROVE Moved(b, room)[i] = p[i + 1]
    <2>1. i \in Places(room)
      BY HasPlaces
    <2> QED BY <2>1 DEF Moved
  <1> QED BY <1>1 DEF Keeps, Moved

\* A block that keeps p keeps all but the last element of it.
LEMMA FrontKept ==
    ASSUME NEW b, NEW bytes, NEW p \in Seq(Values), Len(p) > 0, Keeps(b, bytes, p),
           NEW q \in Seq(Values), Len(q) = Len(p) - 1,
           \A i \in 0..(Len(q) - 1) : q[i + 1] = p[i + 1]
    PROVE  Keeps(b, bytes, q)
  <1>1. Len(q) \in Nat /\ Len(p) = Len(q) + 1
    OBVIOUS
  <1>2. Len(q) * ElemStep <= bytes
    <2>1. Len(p) * ElemStep = Len(q) * ElemStep + ElemStep
      BY <1>1, OneMore
    <2>2. Len(q) * ElemStep \in Nat /\ ElemStep \in Nat
      BY <1>1, OneMore
    <2>3. bytes \in Nat /\ Len(p) * ElemStep <= bytes
      BY DEF Keeps
    <2> QED BY <2>1, <2>2, <2>3
  <1> QED BY <1>1, <1>2 DEF Keeps

\* Popping the last element off a block that keeps the rest leaves a block that keeps it.
LEMMA PopKeeps ==
    ASSUME NEW b, NEW q \in Seq(Values), Keeps(b, allocated, q),
           vsize \in Nat, vsize - 1 = Len(q), PopFrom(b)
    PROVE  Keeps(content', allocated', q)
  <1>1. CASE content' = b /\ allocated' = allocated
    BY <1>1
  <1>2. CASE /\ allocated > 2 * ((vsize - 1) * ElemStep)
             /\ allocated' = allocated \div 2
             /\ content' = Moved([i \in 0..(vsize - 2) |-> b[i]], allocated \div 2)
    <2>1. allocated \in Nat /\ Len(q) \in Nat /\ Len(q) * ElemStep \in Nat
      BY OneMore DEF Keeps
    <2>2. allocated > 2 * (Len(q) * ElemStep)
      BY <1>2
    <2>3. allocated \div 2 \in Nat /\ Len(q) * ElemStep <= allocated \div 2
      BY <2>1, <2>2
    <2> DEFINE f == [i \in 0..(vsize - 2) |-> b[i]]
    <2>4. \A i \in 0..(Len(q) - 1) : i \in DOMAIN f /\ f[i] = q[i + 1]
      BY <2>1 DEF Keeps
    <2> HIDE DEF f
    <2>5. Keeps(Moved(f, allocated \div 2), allocated \div 2, q)
      BY <2>3, <2>4, MovedKeeps
    <2> QED BY <1>2, <2>5 DEF f
  <1> QED BY <1>1, <1>2 DEF PopFrom

\* Every operation on the vector preserves the invariant.
LEMMA VectorStep == VectorInv /\ [VectorNext]_vvars => VectorInv'
  <1> SUFFICES ASSUME VectorInv, [VectorNext]_vvars PROVE VectorInv'
    OBVIOUS
  <1>1. pushed \in Seq(Values) /\ vsize = Len(pushed) /\ vsize \in Nat
        /\ Keeps(content, allocated, pushed)
    BY DEF VectorInv
  <1>2. ASSUME NEW e \in Values, qVector__push_back(e) PROVE VectorInv'
    <2> DEFINE room == IF allocated < (vsize + 1) * ElemStep
                       THEN 2 * (allocated + ElemStep) ELSE allocated
    <2>1. /\ allocated' = room /\ content' = [Moved(content, room) EXCEPT ![vsize] = e]
          /\ vsize' = vsize + 1 /\ pushed' = Append(pushed, e)
      BY <1>2 DEF qVector__push_back
    <2>2. pushed' \in Seq(Values) /\ Len(pushed') = Len(pushed) + 1 /\ vsize' = Len(pushed')
      BY <2>1, <1>1
    <2>3. room \in Nat /\ (vsize + 1) * ElemStep <= room /\ vsize * ElemStep <= room
      <3>1. /\ allocated \in Nat /\ vsize * ElemStep \in Nat /\ vsize * ElemStep <= allocated
            /\ (vsize + 1) * ElemStep = vsize * ElemStep + ElemStep
            /\ ElemStep \in Nat
        BY <1>1, OneMore DEF Keeps
      <3> QED BY <3>1
    <2> HIDE DEF room
    <2>4. Keeps(Moved(content, room), room, pushed)
      <3>1. \A i \in 0..(Len(pushed) - 1) : i \in DOMAIN content /\ content[i] = pushed[i + 1]
        BY <1>1, HasPlaces DEF Keeps
      <3> QED BY <3>1, <2>3, <1>1, MovedKeeps
    <2>5. vsize \in Places(room)
      BY <2>3, <1>1, HasPlaces
    <2>6. DOMAIN content' = Places(room)
      BY <2>1, <2>4 DEF Moved
    <2>7. ASSUME NEW i \in 0..(Len(pushed') - 1) PROVE content'[i] = pushed'[i + 1]
      <3>1. CASE i = vsize
        BY <3>1, <2>1, <2>5, <1>1 DEF Moved
      <3>2. CASE i # vsize
        <4>1. i \in 0..(Len(pushed) - 1)
          BY <3>2, <2>2, <1>1
        <4>2. Moved(content, room)[i] = pushed[i + 1]
          BY <4>1, <2>4 DEF Keeps
        <4>3. i \in Places(room)
          BY <4>1, <2>3, <1>1, HasPlaces
        <4>4. content'[i] = Moved(content, room)[i]
          BY <4>3, <3>2, <2>1 DEF Moved
        <4>5. pushed'[i + 1] = pushed[i + 1]
          BY <4>1, <2>1, <1>1
        <4> QED BY <4>2, <4>4, <4>5
      <3> QED BY <3>1, <3>2
    <2>8. Len(pushed') * ElemStep <= room
      BY <2>2, <2>3, <1>1
    <2> QED BY <2>1, <2>2, <2>3, <2>6, <2>7, <2>8 DEF VectorInv, Keeps
  <1>3. CASE qVector__pop_back
    <2> DEFINE q == SubSeq(pushed, 1, Len(pushed) - 1)
    <2>1. vsize > 0 /\ PopFrom(content) /\ pushed' = q /\ vsize' = vsize - 1
      <3>1. vsize > 0 /\ PopFrom(content) /\ pushed' = q
        BY <1>3 DEF qVector__pop_back
      <3> QED BY <3>1 DEF PopFrom
    <2>2. q \in Seq(Values) /\ Len(q) = Len(pushed) - 1
          /\ \A i \in 0..(Len(q) - 1) : q[i + 1] = pushed[i + 1]
      BY <2>1, <1>1
    <2> HIDE DEF q
    <2>3. Keeps(content, allocated, q)
      BY <2>1, <2>2, <1>1, FrontKept
    <2>4. Keeps(content', allocated', q)
      BY <2>1, <2>2, <2>3, <1>1, PopKeeps
    <2> QED BY <2>1, <2>2, <2>4, <1>1 DEF VectorInv
  <1>4. ASSUME NEW at \in 0..MaxLength, qVector__erase(at) PROVE VectorInv'
    <2> DEFINE q == [i \in 1..(Len(pushed) - 1) |-> IF i <= at THEN pushed[i] ELSE pushed[i + 1]]
               b == [i \in DOMAIN content |->
                        CASE i \in at..(vsize - 2) -> content[i + 1]
                          [] i = vsize - 1         -> content[at]
                          [] OTHER                 -> content[i]]
    <2>1. at \in 0..(vsize - 1) /\ PopFrom(b) /\ pushed' = q /\ vsize' = vsize - 1
      BY <1>4 DEF qVector__erase, PopFrom
    <2>2. at \in Nat /\ at < vsize /\ vsize > 0
      BY <2>1, <1>1
    <2>3. q \in Seq(Values) /\ Len(q) = Len(pushed) - 1
      <3>1. Len(pushed) - 1 \in Nat
        BY <2>2, <1>1
      <3>2. ASSUME NEW i \in 1..(Len(pushed) - 1) PROVE q[i] \in Values
        BY <2>2, <1>1
      <3>3. q \in [1..(Len(pushed) - 1) -> Values]
        BY <3>2
      <3> HIDE DEF q
      <3> QED BY <3>1, <3>3, FunctionIsSeq
    <2>4. Len(q) * ElemStep <= allocated /\ allocated \in Nat
      <3> HIDE DEF q, b
      <3>1. Len(q) \in Nat /\ vsize = Len(q) + 1
        BY <2>2, <2>3, <1>1
      <3>2. vsize * ElemStep = Len(q) * ElemStep + ElemStep /\ vsize * ElemStep <= allocated
            /\ Len(q) * ElemStep \in Nat /\ ElemStep \in Nat /\ allocated \in Nat
        BY <3>1, <1>1, OneMore DEF Keeps
      <3> QED BY <3>2
    <2>5. ASSUME NEW i \in 0..(Len(q) - 1) PROVE b[i] = q[i + 1]
      <3>1. i \in 0..(vsize - 1) /\ i + 1 \in 0..(vsize - 1) /\ i \in Nat /\ i <= vsize - 2
        BY <2>2, <2>3, <1>1
      <3>2. vsize * ElemStep <= allocated /\ allocated \in Nat
        BY <1>1 DEF Keeps
      <3>3. i \in DOMAIN content
        BY <3>1, <3>2, <1>1, HasPlaces DEF Keeps
      <3>4. content[i] = pushed[i + 1] /\ content[i + 1] = pushed[i + 2]
        BY <3>1, <1>1 DEF Keeps
      <3>5. q[i + 1] = IF i + 1 <= at THEN pushed[i + 1] ELSE pushed[i + 2]
        BY <3>1, <1>1
      <3>6. b[i] = IF i + 1 <= at THEN content[i] ELSE content[i + 1]
        BY <3>1, <3>3, <2>2, <1>1
      <3> QED BY <3>4, <3>5, <3>6
    <2>6. DOMAIN b = Places(allocated)
      BY <1>1 DEF Keeps
    <2> HIDE DEF q, b
    <2>7. Keeps(b, allocated, q)
      BY <2>4, <2>5, <2>6 DEF Keeps
    <2>8. Keeps(content', allocated', q)
      BY <2>1, <2>3, <2>7, <1>1, PopKeeps
    <2> QED BY <2>1, <2>3, <2>8, <1>1 DEF VectorInv
  <1>5. CASE UNCHANGED vvars
    BY <1>5 DEF vvars, VectorInv
  <1> QED BY <1>2, <1>3, <1>4, <1>5 DEF VectorNext, PushFails

\* VectorIntact for every element size and every sequence of pushes, pops and erases,
\* whichever mallocs fail: the block of qVector has room for its elements after each
\* growth and each halving, and holds them in order.
THEOREM VectorCorrect == VectorSpec => []VectorIntact
  <1>1. VectorInit => VectorInv
    <2>1. Places(0) = {}
      BY VectorAssumption DEF Places
    <2>2. <<>> \in Seq(Values) /\ Len(<<>>) = 0 /\ DOMAIN <<>> = {} /\ 0 * ElemStep = 0
      BY VectorAssumption
    <2>3. Keeps(<<>>, 0, <<>>)
      BY <2>1, <2>2 DEF Keeps
    <2> QED BY <2>2, <2>3 DEF VectorInit, VectorInv
  <1>2. VectorInv => VectorIntact
    <2> SUFFICES ASSUME VectorInv PROVE VectorIntact
      OBVIOUS
    <2>1. Len(pushed) \in Nat /\ vsize = Len(pushed) /\ Keeps(content, allocated, pushed)
      BY DEF VectorInv
    <2>2. \A i \in 0..(vsize - 1) : i \in DOMAIN content
      BY <2>1, HasPlaces DEF Keeps
    <2>3. \A i \in 0..(vsize - 1) : content[i] = pushed[i + 1]
      BY <2>1 DEF Keeps
    <2>4. vsize * ElemStep <= allocated
      BY <2>1 DEF Keeps
    <2> QED BY <2>1, <2>2, <2>3, <2>4 DEF VectorIntact
  <1> QED BY <1>1, <1>2, VectorStep, PTL DEF VectorSpec

-----------------------------------------------------------------------------
(***************************************************************************)
(* The trie.                                                               *)
(***************************************************************************)
\* The keys are the sequences of letters that are not too long.
LEMMA KeySeq ==
    ASSUME NEW key
    PROVE  key \in TrieKeys <=> key \in Seq(Letters) /\ Len(key) <= MaxKeyLen
  <1>1. ASSUME key \in TrieKeys PROVE key \in Seq(Letters) /\ Len(key) <= MaxKeyLen
    <2>1. PICK n \in 0..MaxKeyLen : key \in [1..n -> Letters]
      BY <1>1 DEF TrieKeys
    <2>2. n \in Nat /\ n <= MaxKeyLen
      BY <2>1, TrieAssumption
    <2>3. QED
      BY <2>1, <2>2
  <1>2. ASSUME key \in Seq(Letters), Len(key) <= MaxKeyLen PROVE key \in TrieKeys
    <2>1. Len(key) \in Nat /\ key \in [1..Len(key) -> Letters]
      BY <1>2, LenProperties
    <2>2. Len(key) \in 0..MaxKeyLen
      BY <2>1, <1>2, TrieAssumption
    <2>3. QED
      BY <2>1, <2>2 DEF TrieKeys
  <1>3. QED
    BY <1>1, <1>2

\* The first i bytes of a key are a key, of length i, and a prefix of it.
LEMMA PrefixIsKey ==
    ASSUME NEW key \in TrieKeys, NEW i \in 0..Len(key)
    PROVE  /\ Prefix(key, i) \in TrieKeys
           /\ Len(Prefix(key, i)) = i
           /\ \A j \in 1..i : Prefix(key, i)[j] = key[j]
           /\ IsPrefix(Prefix(key, i), key)
  <1>1. key \in Seq(Letters) /\ Len(key) \in Nat /\ Len(key) <= MaxKeyLen
    BY KeySeq, LenProperties
  <1>2. i \in Nat /\ i <= Len(key)
    BY <1>1
  <1>3. \A j \in 1..i : key[j] \in Letters
    BY <1>1, <1>2, ElementOfSeq
  <1>4. /\ Prefix(key, i) \in Seq(Letters)
        /\ Len(Prefix(key, i)) = i
        /\ \A j \in 1..i : Prefix(key, i)[j] = key[j]
    BY <1>2, <1>3, SubSeqProperties DEF Prefix
  <1>5. Prefix(key, i) \in TrieKeys
    BY <1>1, <1>2, <1>4, KeySeq, TrieAssumption
  <1>6. SubSeq(Prefix(key, i), 1, i) = SubSeq(key, 1, i)
    BY <1>4, SubSeqFull DEF Prefix
  <1>7. QED
    BY <1>2, <1>4, <1>5, <1>6 DEF IsPrefix

\* A prefix of a key is its first bytes.
LEMMA PrefixIsFirst ==
    ASSUME NEW key \in TrieKeys, NEW q \in TrieKeys, IsPrefix(q, key)
    PROVE  Len(q) \in 0..Len(key) /\ q = Prefix(key, Len(q))
  <1>1. q \in Seq(Letters) /\ key \in Seq(Letters)
    BY KeySeq
  <1>2. Len(q) \in Nat /\ Len(key) \in Nat
    BY <1>1, LenProperties
  <1>3. SubSeq(q, 1, Len(q)) = q
    BY <1>1, SubSeqFull
  <1>4. QED
    BY <1>2, <1>3 DEF IsPrefix, Prefix

\* A prefix of a prefix is a prefix.
LEMMA PrefixTransitive ==
    ASSUME NEW key \in TrieKeys, NEW q \in TrieKeys, NEW r \in TrieKeys,
           IsPrefix(q, key), IsPrefix(r, q)
    PROVE  IsPrefix(r, key)
  <1>1. Len(q) \in 0..Len(key) /\ q = Prefix(key, Len(q))
    BY PrefixIsFirst
  <1>2. Len(r) \in 0..Len(q) /\ r = Prefix(q, Len(r))
    BY PrefixIsFirst
  <1>3. Len(key) \in Nat /\ Len(q) \in Nat /\ Len(r) \in Nat
    BY KeySeq, LenProperties
  <1>4. Len(r) \in 0..Len(key)
    BY <1>1, <1>2, <1>3
  <1>5. r \in Seq(Letters) /\ Prefix(key, Len(r)) \in Seq(Letters)
    BY <1>4, PrefixIsKey, KeySeq
  <1>6. Len(Prefix(key, Len(r))) = Len(r)
    BY <1>4, PrefixIsKey
  <1>7. \A j \in 1..Len(r) : r[j] = q[j]
    BY <1>2, PrefixIsKey
  <1>8. \A j \in 1..Len(q) : q[j] = key[j]
    BY <1>1, PrefixIsKey
  <1>9. \A j \in 1..Len(r) : Prefix(key, Len(r))[j] = key[j]
    BY <1>4, PrefixIsKey
  <1>10. \A j \in 1..Len(r) : r[j] = Prefix(key, Len(r))[j]
    BY <1>2, <1>3, <1>7, <1>8, <1>9
  <1>11. r = Prefix(key, Len(r))
    BY <1>5, <1>6, <1>10, SeqEqual
  <1>12. QED
    BY <1>4, <1>11, PrefixIsKey

\* A key is a prefix of itself, and all of its first bytes.
LEMMA PrefixOfItself ==
    ASSUME NEW key \in TrieKeys
    PROVE  IsPrefix(key, key) /\ Prefix(key, Len(key)) = key /\ Len(key) \in 0..Len(key)
  <1>1. key \in Seq(Letters) /\ Len(key) \in Nat
    BY KeySeq, LenProperties
  <1>2. Len(key) \in 0..Len(key)
    BY <1>1
  <1>3. Prefix(key, Len(key)) = key
    BY <1>1, SubSeqFull DEF Prefix
  <1>4. QED
    BY <1>2, <1>3, PrefixIsKey

\* The nodes on the way to a key are those on its prefixes.
LEMMA PathIsPrefixes ==
    ASSUME NEW key \in TrieKeys
    PROVE  Path(key) = {q \in TrieKeys : IsPrefix(q, key)}
  <1>1. ASSUME NEW q \in Path(key)
        PROVE  q \in TrieKeys /\ IsPrefix(q, key)
    BY PrefixIsKey DEF Path
  <1>2. ASSUME NEW q \in TrieKeys, IsPrefix(q, key)
        PROVE  q \in Path(key)
    BY <1>2, PrefixIsFirst DEF Path
  <1>3. QED
    BY <1>1, <1>2

\* What an insertion does to the nodes: those on the way that were missing are made,
\* and the last one gets the payload, if there is memory for it.
LEMMA InsertedNodes ==
    ASSUME NEW key, NEW given, NEW short \in SUBSET Growing(key),
           qTrie__insert(key, given, short), key \in Path(key),
           key \in DOMAIN trie =>
              trie[key] \in [value : ValuesOf(key), payload : PayloadsOf(key)]
    PROVE  /\ DOMAIN trie' = DOMAIN trie \cup Path(key)
           /\ \A q \in DOMAIN trie \ {key} : trie'[q] = trie[q]
           /\ \A q \in Path(key) \ (DOMAIN trie \cup {key}) :
                 trie'[q] \in [value : ValuesOf(q), payload : {<<>>}]
           /\ trie'[key] \in [value : ValuesOf(key), payload : {given}]
  <1> DEFINE fresh(q) == IF q \in short THEN qTrieNode__constructor
                         ELSE [qTrieNode__constructor EXCEPT !.value = Value(q)]
             nodes == [q \in DOMAIN trie \cup Path(key) |->
                         IF q \in DOMAIN trie THEN trie[q] ELSE fresh(q)]
  <1>1. trie' = [nodes EXCEPT ![key].payload = given]
    BY DEF qTrie__insert
  <1>2. ASSUME NEW q PROVE fresh(q) \in [value : ValuesOf(q), payload : {<<>>}]
    <2>1. CASE q \in short
      <3>1. Len(Value(q)) > Inline
        BY <2>1 DEF Growing
      <3>2. <<>> \in ValuesOf(q)
        BY <3>1 DEF ValuesOf
      <3>3. QED
        BY <2>1, <3>2 DEF qTrieNode__constructor
    <2>2. CASE q \notin short
      <3>1. Value(q) \in ValuesOf(q)
        BY DEF ValuesOf
      <3>2. QED
        BY <2>2, <3>1 DEF qTrieNode__constructor
    <2>3. QED
      BY <2>1, <2>2
  <1>3. /\ DOMAIN nodes = DOMAIN trie \cup Path(key)
        /\ nodes = [q \in DOMAIN nodes |-> nodes[q]]
        /\ \A q \in DOMAIN trie : nodes[q] = trie[q]
        /\ \A q \in Path(key) \ DOMAIN trie : nodes[q] = fresh(q)
    OBVIOUS
  <1> HIDE DEF nodes, fresh
  <1>4. /\ DOMAIN trie' = DOMAIN nodes
        /\ \A q \in DOMAIN nodes \ {key} : trie'[q] = nodes[q]
        /\ trie'[key] = [nodes[key] EXCEPT !.payload = given]
    BY <1>1, <1>3
  <1>5. \A q \in Path(key) \ (DOMAIN trie \cup {key}) :
           trie'[q] \in [value : ValuesOf(q), payload : {<<>>}]
    BY <1>2, <1>3, <1>4
  <1>6. trie'[key] \in [value : ValuesOf(key), payload : {given}]
    <2>1. CASE key \notin DOMAIN trie
      <3>1. nodes[key] \in [value : ValuesOf(key), payload : {<<>>}]
        BY <1>2, <1>3, <2>1
      <3>2. QED
        BY <3>1, <1>4
    <2>2. CASE key \in DOMAIN trie
      <3>1. nodes[key] \in [value : ValuesOf(key), payload : PayloadsOf(key)]
        BY <1>3, <2>2
      <3>2. QED
        BY <3>1, <1>4
    <2>3. QED
      BY <2>1, <2>2
  <1>7. QED
    BY <1>3, <1>4, <1>5, <1>6

\* The empty trie has no nodes and no keys.
LEMMA TrieInvInit == TrieInit => TrieInv
  BY DEF TrieInit, TrieInv

\* An insertion puts nodes on the prefixes of its key and leaves what the other keys lead to.
LEMMA TrieInvInsert ==
    ASSUME TrieInv, NEW key \in TrieKeys, NEW p \in Payloads, TrieInsert(key, p)
    PROVE  TrieInv'
  <1>1. PICK given \in AppendLeaves(p), short \in SUBSET Growing(key) :
           /\ qTrie__insert(key, given, short)
           /\ stored' = [k \in DOMAIN stored \cup {key} |->
                           IF k = key THEN [payload |-> p, error |-> given = <<>> \/ short # {}]
                           ELSE stored[k]]
    BY DEF TrieInsert
  <1>2. /\ DOMAIN stored' = DOMAIN stored \cup {key}
        /\ stored'[key] = [payload |-> p, error |-> given = <<>> \/ short # {}]
        /\ \A k \in DOMAIN stored \ {key} : stored'[k] = stored[k]
    BY <1>1
  <1>3. Path(key) = {q \in TrieKeys : IsPrefix(q, key)}
    BY PathIsPrefixes
  <1>4. key \in Path(key)
    BY <1>3, PrefixOfItself
  <1>5. /\ DOMAIN trie' = DOMAIN trie \cup Path(key)
        /\ \A q \in DOMAIN trie \ {key} : trie'[q] = trie[q]
        /\ \A q \in Path(key) \ (DOMAIN trie \cup {key}) :
              trie'[q] \in [value : ValuesOf(q), payload : {<<>>}]
        /\ trie'[key] \in [value : ValuesOf(key), payload : {given}]
    <2>1. key \in DOMAIN trie =>
             trie[key] \in [value : ValuesOf(key), payload : PayloadsOf(key)]
      BY DEF TrieInv
    <2>2. qTrie__insert(key, given, short)
      BY <1>1
    <2>3. QED
      BY <1>4, <2>1, <2>2, InsertedNodes
  <1>6. DOMAIN stored' \subseteq TrieKeys
    BY <1>2 DEF TrieInv
  <1>7. DOMAIN trie' = {q \in TrieKeys : \E k \in DOMAIN stored' : IsPrefix(q, k)}
    BY <1>2, <1>3, <1>5 DEF TrieInv
  <1>8. DOMAIN stored \subseteq DOMAIN trie
    BY PrefixOfItself DEF TrieInv
  <1>9. ASSUME NEW q \in DOMAIN trie'
        PROVE  trie'[q] \in [value : ValuesOf(q), payload : PayloadsOf(q)']
    <2>1. CASE q = key
      <3>1. given \in PayloadsOf(key)'
        BY <1>1, <1>2 DEF PayloadsOf, AppendLeaves
      <3>2. QED
        BY <2>1, <3>1, <1>5
    <2>2. CASE q # key /\ q \in DOMAIN trie
      <3>1. trie'[q] = trie[q]
        BY <2>2, <1>5
      <3>2. PayloadsOf(q)' = PayloadsOf(q)
        BY <2>2, <1>2 DEF PayloadsOf
      <3>3. QED
        BY <2>2, <3>1, <3>2 DEF TrieInv
    <2>3. CASE q # key /\ q \notin DOMAIN trie
      <3>1. trie'[q] \in [value : ValuesOf(q), payload : {<<>>}]
        BY <2>3, <1>5
      <3>2. PayloadsOf(q)' = {<<>>}
        BY <2>3, <1>2, <1>8 DEF PayloadsOf
      <3>3. QED
        BY <3>1, <3>2
    <2>4. QED
      BY <2>1, <2>2, <2>3
  <1>10. \A q : ValuesOf(q)' = ValuesOf(q)
    BY DEF ValuesOf, Value
  <1>11. QED
    BY <1>6, <1>7, <1>9, <1>10 DEF TrieInv

\* The search goes through the prefixes of what it looks for, and all of them have a node
\* when the last one has.
LEMMA SearchIsMembership ==
    ASSUME TrieInv, NEW key \in TrieKeys
    PROVE  qTrie__ptr_at(key) <=> key \in DOMAIN trie
  <1>1. ASSUME qTrie__ptr_at(key) PROVE key \in DOMAIN trie
    BY <1>1, PrefixOfItself DEF qTrie__ptr_at
  <1>2. ASSUME key \in DOMAIN trie, NEW i \in 0..Len(key) PROVE Prefix(key, i) \in DOMAIN trie
    <2>1. PICK k \in DOMAIN stored : IsPrefix(key, k)
      BY <1>2 DEF TrieInv
    <2>2. Prefix(key, i) \in TrieKeys /\ IsPrefix(Prefix(key, i), key)
      BY PrefixIsKey
    <2>3. k \in TrieKeys
      BY DEF TrieInv
    <2>4. IsPrefix(Prefix(key, i), k)
      BY <2>1, <2>2, <2>3, PrefixTransitive
    <2>5. QED
      BY <2>2, <2>4 DEF TrieInv
  <1>3. QED
    BY <1>1, <1>2 DEF qTrie__ptr_at

\* TrieInv is what the search needs.
LEMMA TrieInvFinds == TrieInv => TrieFound
  <1>1. SUFFICES ASSUME TrieInv, NEW key \in TrieKeys
                 PROVE  /\ qTrie__ptr_at(key) <=> \E k \in DOMAIN stored : IsPrefix(key, k)
                        /\ qTrie__ptr_at(key) => trie[key].payload \in PayloadsOf(key)
    BY DEF TrieFound
  <1>2. qTrie__ptr_at(key) <=> key \in DOMAIN trie
    BY <1>1, SearchIsMembership
  <1>3. key \in DOMAIN trie <=> \E k \in DOMAIN stored : IsPrefix(key, k)
    BY <1>1 DEF TrieInv
  <1>4. ASSUME key \in DOMAIN trie
        PROVE  trie[key].payload \in PayloadsOf(key)
    BY <1>1, <1>4 DEF TrieInv
  <1>5. QED
    BY <1>2, <1>3, <1>4

\* For keys of bytes below 128, and whichever appends of qTrie__insert find no memory:
\* qTrie__ptr_at finds exactly the prefixes of the keys inserted, and each key leads to
\* what was given last under it or, when that is large and its insertion set zhwk_error,
\* to nothing.
THEOREM TrieCorrect == TrieSpec => [](TrieFound /\ TrieInv)
  <1>1. TrieInv /\ [TrieNext]_trieVars => TrieInv'
    <2>1. SUFFICES ASSUME TrieInv, [TrieNext]_trieVars PROVE TrieInv'
      OBVIOUS
    <2>2. CASE TrieNext
      BY <2>1, <2>2, TrieInvInsert DEF TrieNext
    <2>3. CASE UNCHANGED trieVars
      BY <2>1, <2>3 DEF TrieInv, trieVars, PayloadsOf, ValuesOf, Value
    <2>4. QED
      BY <2>1, <2>2, <2>3
  <1>2. QED
    BY <1>1, TrieInvInit, TrieInvFinds, PTL DEF TrieSpec
=============================================================================
