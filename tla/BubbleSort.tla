----------------------------- MODULE BubbleSort -----------------------------
(***************************************************************************)
(* zhwkre/algorithm/bubble_sort.c: the list, sorted now and then.          *)
(***************************************************************************)
EXTENDS QList

\* The first two neighbours in the wrong order are swapped, and the loop starts again,
\* until there are none.  (Of an empty list it reads head->next.)
RECURSIVE bubble_sort(_)
bubble_sort(L) ==
    LET ns    == qList_foreach(L)
        wrong == {i \in 1..(Len(ns) - 1) : L.node[ns[i]].data > L.node[ns[i + 1]].data}
    IN IF wrong = {} THEN L
       ELSE bubble_sort(q__List_swap_elem(L, ns[Min(wrong)], ns[Min(wrong) + 1]))

ListSort == list.head # Nil /\ list' = bubble_sort(list) /\ items' = SortSeq(items, <)

SortNext == ListNext \/ ListSort

SortSpec == ListInit /\ [][SortNext]_lvars
=============================================================================
