---------------------------- MODULE BinaryString ----------------------------
(***************************************************************************)
(* The string of zhwkre/bss/bss.c, in which every request and every reply  *)
(* of the server is put together: a block of memory that is replaced by    *)
(* one twice as large as needed when an append finds it less than half     *)
(* empty.  A failing malloc is reported in zhwk_error alone.               *)
(***************************************************************************)
EXTENDS Integers, Sequences

CONSTANTS
    Bytes,     \* what the pieces are made of
    Zero,      \* the byte of memset
    Lengths,   \* the lengths of the pieces
    Capacity,  \* the capacity of a new string, 64
    UintMod,   \* 2^32: size and capacity are unsigned int
    MaxSize    \* what the program appends in all, at most

\* sockread counts in int, and no handler appends more than that.
ASSUME StringAssumption ==
    /\ Lengths \subseteq Nat
    /\ Capacity \in Nat /\ MaxSize \in Nat /\ UintMod \in Nat
    /\ 2 * MaxSize < UintMod /\ Capacity < UintMod

VARIABLES
    str,         \* the string: size, capacity, and the block as a function of the offset
    zhwk_error,  \* has an error been set since the last clrerr?
    appended     \* the bytes the program has asked to be appended

tvars == <<str, zhwk_error, appended>>

qbss_constructor ==
    [size |-> 0, capacity |-> Capacity, block |-> [i \in 0..(Capacity - 1) |-> Zero]]

\* The capacity that holds n more bytes twice.
Doubled(s, n) == (2 * (s.size + n)) % UintMod

\* memcpy of the piece p behind the bytes s has, into a block of the given capacity.
Copied(s, p, room) ==
    [size     |-> (s.size + Len(p)) % UintMod,
     capacity |-> room,
     block    |-> [i \in 0..(room - 1) |->
                      IF i < s.size THEN s.block[i]
                      ELSE IF i < s.size + Len(p) THEN p[i - s.size + 1] ELSE Zero]]

\* Seeded fault: the room is made before the piece is counted.
q__bss_append_Late(s, p) ==
    {[str   |-> Copied(s, p, IF s.capacity < Doubled(s, 0) THEN Doubled(s, 0) ELSE s.capacity),
      fails |-> FALSE]}

\* What an append of p to s may end with: the string, and whether malloc has failed.
q__bss_append(s, p) ==
    IF s.capacity < Doubled(s, Len(p))
    THEN {[str |-> Copied(s, p, Doubled(s, Len(p))), fails |-> FALSE], [str |-> s, fails |-> TRUE]}
    ELSE {[str |-> Copied(s, p, s.capacity), fails |-> FALSE]}

\* A piece of n bytes.
Piece(b, n) == [i \in 1..n |-> b]

StringInit == str = qbss_constructor /\ zhwk_error = FALSE /\ appended = <<>>

StringAppend(p) ==
    /\ Len(appended) + Len(p) <= MaxSize
    /\ \E r \in q__bss_append(str, p) :
          str' = r.str /\ zhwk_error' = (zhwk_error \/ r.fails)
    /\ appended' = appended \o p

\* A new string, of p: nothing is appended to it while an old error is set.
qbss__from_array(p) ==
    /\ Len(p) <= MaxSize
    /\ \E r \in IF zhwk_error THEN {[str |-> qbss_constructor, fails |-> FALSE]}
                              ELSE q__bss_append(qbss_constructor, p) :
          str' = r.str /\ zhwk_error' = (zhwk_error \/ r.fails)
    /\ appended' = p

\* clrerr, qbss_destructor, and a new string.  (The constructor's own malloc
\* succeeds: what it returns when it does not is not initialised.)
StringRenew ==
    /\ str' = qbss_constructor
    /\ zhwk_error' = FALSE
    /\ appended' = <<>>

StringNext ==
    \/ \E b \in Bytes, n \in Lengths :
          StringAppend(Piece(b, n)) \/ qbss__from_array(Piece(b, n))
    \/ StringRenew

StringSpec == StringInit /\ [][StringNext]_tvars

-----------------------------------------------------------------------------
\* No append writes past the end of the block, and as long as no error has been set
\* the string is what was appended, in order: a program that looks at zhwk_error
\* before it sends the string sends all of it, and after a failure what is there is
\* shorter than what was appended.
StringIntact ==
    /\ str.size <= str.capacity /\ str.size <= Len(appended)
    /\ ~zhwk_error =>
          /\ str.size = Len(appended)
          /\ \A i \in 0..(str.size - 1) : str.block[i] = appended[i + 1]
=============================================================================
