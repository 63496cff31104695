--------------------------- MODULE Serialization ---------------------------
(***************************************************************************)
(* zhwkre/serialization/serialization.c: a list whose elements may again   *)
(* be lists becomes one string for each depth, and is read back from them. *)
(*                                                                         *)
(* An element is [desc, tag]: the descriptor it begins with, or Nil if it  *)
(* is not a list, and the rest of it.  A descriptor is the list it leads   *)
(* to and where its nodes are: "old", the nodes of the list serialised,    *)
(* "new", those made by qUnserialize, or "null" for no nodes at all.  A    *)
(* string is a sequence of words: counters and sizes, and the raw bytes of *)
(* elements, one word for a descriptor and one for the rest.  The maps are *)
(* functions from prefixes to lists, as module QMap shows them to be.      *)
(***************************************************************************)
EXTENDS OrderedKeys

CONSTANTS
    Tags,      \* what an element holds besides its descriptor
    MaxNested, \* bound on the number of elements, at all depths
    MaxDepth   \* bound on the depth

ASSUME SerialAssumption == MaxNested \in Nat /\ MaxDepth \in Nat \ {0} /\ Nil \notin Tags

VARIABLE nested  \* the list to be serialised

q__List_islist(e) == e.desc # Nil

\* A descriptor whose nodes are there; one of an empty list points nowhere.
Desc(there, l) == [nodes |-> IF l = <<>> THEN "null" ELSE there, list |-> l]

\* The bytes of an element, and the element of given bytes.
Raw(e) == IF q__List_islist(e) THEN <<e.desc, e.tag>> ELSE <<e.tag>>
FromRaw(ws) == IF Len(ws) = 2 THEN [desc |-> ws[1], tag |-> ws[2]] ELSE [desc |-> Nil, tag |-> ws[1]]

\* The strings of a and b appended depth by depth.
Appended(a, b) ==
    LET At(s, d) == IF d \in DOMAIN s THEN s[d] ELSE <<>>
    IN [d \in DOMAIN a \cup DOMAIN b |-> At(a, d) \o At(b, d)]

\* One record for each element (prefix, counter, size, bytes), and below it, one depth
\* further down, those of the lists among them, with the counter added to the prefix.
\* Seeded fault: the prefix does not grow.
RECURSIVE list_serialize_SamePrefix(_, _)
list_serialize_SamePrefix(l, prefix) ==
    LET Record(i)  == prefix \o <<i - 1, Len(Raw(l[i]))>> \o Raw(l[i])
        Below(acc, i) == IF ~q__List_islist(l[i]) THEN acc
                         ELSE Appended(acc, list_serialize_SamePrefix(l[i].desc.list, prefix \o <<0>>))
    IN <<FlattenSeq([i \in DOMAIN l |-> Record(i)])>>
       \o FoldLeft(Below, <<>>, [i \in DOMAIN l |-> i])

RECURSIVE q__list_serialize(_, _)
q__list_serialize(l, prefix) ==
    LET Record(i)  == prefix \o <<i - 1, Len(Raw(l[i]))>> \o Raw(l[i])
        Below(acc, i) == IF ~q__List_islist(l[i]) THEN acc
                         ELSE Appended(acc, q__list_serialize(l[i].desc.list, prefix \o <<i - 1>>))
    IN <<FlattenSeq([i \in DOMAIN l |-> Record(i)])>>
       \o FoldLeft(Below, <<>>, [i \in DOMAIN l |-> i])

qSerialize(e) == IF q__List_islist(e) THEN q__list_serialize(e.desc.list, <<>>) ELSE <<Raw(e)>>

\* The records of a string whose prefixes have n words.
RECURSIVE Records(_, _)
Records(ws, n) ==
    IF ws = <<>> THEN <<>>
    ELSE LET next == n + 2 + ws[n + 2]
         IN <<[prefix |-> SubSeq(ws, 1, n), counter |-> ws[n + 1], raw |-> SubSeq(ws, n + 3, next)]>>
            \o Records(SubSeq(ws, next + 1, Len(ws)), n)

\* The strings are read from the last to the first.  An element for which the string
\* below had a list gets its descriptor; the elements with the same prefix form a list
\* for the string above; what comes out of the first string is the result.
RECURSIVE q__list_unserialize(_, _)
q__list_unserialize(dataset, previous_data) ==
    LET prefix_num == Len(dataset) - 1
        rs         == Records(Last(dataset), prefix_num)
        Element(r) == LET e == FromRaw(r.raw)
                          p == r.prefix \o <<r.counter>>
                      IN IF p \in DOMAIN previous_data
                         THEN [e EXCEPT !.desc = Desc("new", previous_data[p])] ELSE e
        House(p)   == LET mine == SelectSeq(rs, LAMBDA r : r.prefix = p)
                      IN [i \in DOMAIN mine |-> Element(mine[i])]
    IN IF prefix_num = 0 THEN House(<<>>)
       ELSE q__list_unserialize(Front(dataset), [p \in {rs[i].prefix : i \in DOMAIN rs} |-> House(p)])

qUnserialize(dataset, isList) ==
    IF isList THEN Desc("new", q__list_unserialize(dataset, <<>>)) ELSE FromRaw(Head(dataset))

-----------------------------------------------------------------------------
\* The number of elements of a list of lists, and its depth.
RECURSIVE Elements(_)
Elements(l) == FoldLeft(LAMBDA n, e : n + 1 + (IF q__List_islist(e) THEN Elements(e.desc.list) ELSE 0), 0, l)

\* l after a push to the list at some place in it, no deeper than d.
RECURSIVE Pushes(_, _)
Pushes(l, d) ==
    LET Leaf(t)   == [desc |-> Nil, tag |-> t]
        Branch(t) == [desc |-> Desc("old", <<>>), tag |-> t]
    IN {Append(l, Leaf(t)) : t \in Tags}
       \cup (IF d = 1 THEN {} ELSE {Append(l, Branch(t)) : t \in Tags})
       \cup UNION {{[l EXCEPT ![i].desc = Desc("old", s)] : s \in Pushes(l[i].desc.list, d - 1)} :
                      i \in {j \in DOMAIN l : q__List_islist(l[j])}}

SerialInit == nested = <<>>

\* The program pushes an element to the list, or to one within it.
SerialPush == Elements(nested) < MaxNested /\ nested' \in Pushes(nested, MaxDepth)

SerialSpec == SerialInit /\ [][SerialPush]_nested

-----------------------------------------------------------------------------
\* l with all its nodes made anew.
RECURSIVE Renewed(_)
Renewed(l) ==
    [i \in DOMAIN l |-> IF q__List_islist(l[i])
                        THEN [l[i] EXCEPT !.desc = Desc("new", Renewed(@.list))] ELSE l[i]]

\* What is read back is what was written, at every depth, with empty lists and lists
\* beside plain elements, and no descriptor in it still leads to a node of the list
\* that was written; data that is not a list comes back as it is.
RoundTrip ==
    /\ qUnserialize(qSerialize([desc |-> Desc("old", nested), tag |-> Nil]), TRUE)
          = Desc("new", Renewed(nested))
    /\ \A i \in DOMAIN nested :
          ~q__List_islist(nested[i]) => qUnserialize(qSerialize(nested[i]), FALSE) = nested[i]
=============================================================================
