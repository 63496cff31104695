------------------------------- MODULE QList -------------------------------
(***************************************************************************)
(* The doubly linked list of zhwkre/containers/list.c.  A list is its      *)
(* descriptor and its nodes; a node is a number, and carries prev, next    *)
(* and data.  The two ends are mirror images, so that an operation at an   *)
(* end takes that end, the link that leads out of the list there and the   *)
(* one that leads back into it.                                            *)
(***************************************************************************)
EXTENDS OrderedKeys

CONSTANTS
    Items,    \* the elements
    MaxItems  \* bound on the length of the list

ASSUME ListAssumption == Items \subseteq Nat /\ MaxItems \in Nat /\ Nil \notin Nat

VARIABLES
    list,  \* the list
    items  \* the elements it should have

lvars == <<list, items>>

qList_constructor == [head |-> Nil, tail |-> Nil, size |-> 0, node |-> <<>>]

\* The node malloc returns: one that is not in use.
q__List_new(L) ==
    CHOOSE n \in 1..(Cardinality(DOMAIN L.node) + 1) : n \notin DOMAIN L.node

\* Which of the two mallocs of a push fails, if any does.
Mallocs == IF MallocFails THEN {"done", "node", "data"} ELSE {"done"}

\* A push at an end.  Without a node there, nothing is left where a node of an
\* earlier failure was; without memory for the data, the node is linked to the end
\* and has no data, and an empty list consists of it.
Push(L, e, end, out, in, outcome) ==
    LET n    == q__List_new(L)
        node == [prev |-> Nil, next |-> Nil, data |-> IF outcome = "done" THEN e ELSE Nil]
        last == IF outcome = "node" THEN Nil ELSE n
        here == IF outcome = "node" THEN {} ELSE {n}
        done == IF outcome = "done" THEN 1 ELSE 0
    IN IF L.tail = Nil
       THEN [head |-> last, tail |-> last, size |-> L.size + done,
             node |-> [m \in here |-> node]]
       ELSE [L EXCEPT !.node = [m \in DOMAIN L.node \cup here |->
                                   IF m = n THEN [node EXCEPT ![in] = L[end]]
                                   ELSE IF m = L[end] THEN [L.node[m] EXCEPT ![out] = last]
                                   ELSE L.node[m]],
                      ![end] = IF outcome = "done" THEN n ELSE @,
                      !.size = @ + done]

q__List_push_back(L, e, outcome)  == Push(L, e, "tail", "next", "prev", outcome)
q__List_push_front(L, e, outcome) == Push(L, e, "head", "prev", "next", outcome)

\* A pop at an end, of an element if there is one (else -1).
Pop(L, end, out, in) ==
    IF L[end] = Nil THEN L
    ELSE IF L.head = L.tail THEN [qList_constructor EXCEPT !.size = L.size - 1]
    ELSE LET rest == L.node[L[end]][in]
         IN [L EXCEPT ![end] = rest,
                      !.size = @ - 1,
                      !.node = [n \in DOMAIN L.node \ {L[end]} |->
                                   IF n = rest THEN [L.node[n] EXCEPT ![out] = Nil]
                                   ELSE L.node[n]]]

q__List_pop_back(L)  == Pop(L, "tail", "next", "prev")
q__List_pop_front(L) == Pop(L, "head", "prev", "next")

q__List_swap_elem(L, a, b) ==
    [L EXCEPT !.node[a].data = L.node[b].data, !.node[b].data = L.node[a].data]

\* Seeded fault: the tail is not moved off the erased node.
erase_elem_KeepsTail(L, a) ==
    LET p == L.node[a].prev
        n == L.node[a].next
    IN [head |-> IF L.head = a THEN n ELSE L.head,
        tail |-> IF L.head = L.tail THEN Nil ELSE L.tail,
        size |-> L.size - 1,
        node |-> [m \in DOMAIN L.node |->
                     CASE m = p -> [L.node[m] EXCEPT !.next = n]
                       [] m = n -> [L.node[m] EXCEPT !.prev = p]
                       [] OTHER -> L.node[m]]]

\* The node goes out of the list.  (Its data is freed, the node itself never is.)
q__List_erase_elem(L, a) ==
    LET p == L.node[a].prev
        n == L.node[a].next
    IN [head |-> IF L.head = a THEN n ELSE L.head,
        tail |-> IF L.tail = a THEN p ELSE L.tail,
        size |-> L.size - 1,
        node |-> [m \in DOMAIN L.node \ {a} |->
                     CASE m = p -> [L.node[m] EXCEPT !.next = n]
                       [] m = n -> [L.node[m] EXCEPT !.prev = p]
                       [] OTHER -> L.node[m]]]

\* The nodes from an end along a link, and what they hold.
Along(L, end, link) ==
    Follow([n \in DOMAIN L.node |-> L.node[n][link]], L[end], Cardinality(DOMAIN L.node) + 1)
qList_foreach(L) == Along(L, "head", "next")
Held(L, ns) == [i \in DOMAIN ns |-> L.node[ns[i]].data]

\* Seeded fault: a copy is pushed together at the wrong end.
List_copy_Front(L) ==
    FoldLeft(LAMBDA acc, e : q__List_push_front(acc, e, "done"),
             qList_constructor, Held(L, qList_foreach(L)))

\* The elements are pushed one after another to an empty list.
Pushed(es) ==
    LET copy[i \in 0..Len(es)] ==
            IF i = 0 THEN qList_constructor
            ELSE q__List_push_back(copy[i - 1], es[i], "done")
    IN copy[Len(es)]

q__List_copy(L) == Pushed(Held(L, qList_foreach(L)))

-----------------------------------------------------------------------------
ListInit == list = qList_constructor /\ items = <<>>

\* (A push_front that gets no node goes on with the NULL it got, and ends the program.)
ListPush(e) ==
    \E outcome \in Mallocs :
        /\ Len(items) < MaxItems
        /\ \/ /\ list' = q__List_push_back(list, e, outcome)
              /\ items' = IF outcome = "done" THEN Append(items, e) ELSE items
           \/ /\ outcome = "node" => list.head = Nil
              /\ list' = q__List_push_front(list, e, outcome)
              /\ items' = IF outcome = "done" THEN <<e>> \o items ELSE items

ListPop ==
    \/ list' = q__List_pop_back(list) /\ items' = IF items = <<>> THEN items ELSE Front(items)
    \/ list' = q__List_pop_front(list) /\ items' = IF items = <<>> THEN items ELSE Tail(items)

\* The caller's part: the iterators are on elements of the list.
ListSwap ==
    \E i, j \in DOMAIN items :
        /\ list' = LET ns == qList_foreach(list) IN q__List_swap_elem(list, ns[i], ns[j])
        /\ items' = [items EXCEPT ![i] = items[j], ![j] = items[i]]

ListErase ==
    \E i \in DOMAIN items :
        /\ list' = q__List_erase_elem(list, qList_foreach(list)[i])
        /\ items' = RemoveAt(items, i)

q__List_destructor == list' = qList_constructor /\ items' = <<>>

ListNext ==
    \/ \E e \in Items : ListPush(e)
    \/ ListPop \/ ListSwap \/ ListErase \/ q__List_destructor

ListSpec == ListInit /\ [][ListNext]_lvars

-----------------------------------------------------------------------------
\* From the head and from the tail, the list visits the elements pushed and neither
\* popped nor erased, in the order of the pushes and swaps, and size counts them.
ListIntact ==
    /\ list.size = Len(items)
    /\ Held(list, qList_foreach(list)) = items
    /\ Held(list, Along(list, "tail", "prev")) = Reverse(items)

\* A copy of the list has the same elements in the same order.
CopyIntact ==
    LET copy == q__List_copy(list) IN Held(copy, qList_foreach(copy)) = items

\* What the i-th of the nodes ns holds in a list of len elements es.
Joint(len, ns, es, i) == [prev |-> IF i = 1 THEN Nil ELSE ns[i - 1],
                          next |-> IF i = len THEN Nil ELSE ns[i + 1],
                          data |-> es[i]]

\* The list L consists of len nodes ns, which hold the elements es.
Represents(L, len, ns, es) ==
    /\ ns \in [1..len -> Nat]
    /\ \A i, j \in 1..len : ns[i] = ns[j] => i = j
    /\ L = [head |-> L.head, tail |-> L.tail, size |-> L.size, node |-> L.node]
    /\ L.head = IF len = 0 THEN Nil ELSE ns[1]
    /\ L.tail = IF len = 0 THEN Nil ELSE ns[len]
    /\ L.size = len
    /\ DOMAIN L.node = {ns[i] : i \in 1..len}
    /\ \A i \in 1..len : L.node[ns[i]] = Joint(len, ns, es, i)

\* The list consists of one node for each element, doubly linked in the order of the
\* elements, and of no other node.
ListInv ==
    items \in Seq(Items) /\ Represents(list, Len(items), qList_foreach(list), items)
=============================================================================
