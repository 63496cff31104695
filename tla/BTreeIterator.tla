--------------------------- MODULE BTreeIterator ---------------------------
(***************************************************************************)
(* The iterators of zhwkre/containers/btree.c: up and down the tree by the *)
(* track alone.                                                            *)
(***************************************************************************)
EXTENDS BTree

RECURSIVE GoLeftmost(_)
GoLeftmost(track) ==
    IF At(broot, track).childs[0] = Absent THEN [track |-> track, which |-> 0]
    ELSE GoLeftmost(Append(track, 0))
RECURSIVE GoRightmost(_)
GoRightmost(track) ==
    LET which == LastPair(At(broot, track))
    IN IF At(broot, track).childs[which + 1] = Absent THEN [track |-> track, which |-> which]
       ELSE GoRightmost(Append(track, which + 1))

qBTree_begin == IF broot = Absent THEN Nil ELSE GoLeftmost(<<>>)
qBTree_end == IF broot = Absent THEN Nil ELSE GoRightmost(<<>>)

\* The nearest ancestor on the track that has a pair before, or after, its child.
RECURSIVE ClimbPrev(_)
ClimbPrev(track) ==
    CASE track = <<>>                          -> Nil
      [] track # <<>> /\ Last(track) = 0       -> ClimbPrev(Front(track))
      [] track # <<>> /\ Last(track) # 0       -> [track |-> Front(track), which |-> Last(track) - 1]
\* Seeded fault: climbing stops at a parent that has no pair on that side.
RECURSIVE ClimbNext_NoPair(_)
ClimbNext_NoPair(track) ==
    IF track = <<>> THEN Nil
    ELSE IF Last(track) = 2 THEN ClimbNext_NoPair(Front(track))
         ELSE [track |-> Front(track), which |-> Last(track)]

RECURSIVE ClimbNext(_)
ClimbNext(track) ==
    IF track = <<>> THEN Nil
    ELSE IF Last(track) = 2 \/ At(broot, Front(track)).kv[Last(track)] = Nil
         THEN ClimbNext(Front(track))
         ELSE [track |-> Front(track), which |-> Last(track)]

qBTreeIterator_prev(it) ==
    CASE At(broot, it.track).childs[it.which] # Absent -> GoRightmost(Append(it.track, it.which))
      [] At(broot, it.track).childs[it.which] = Absent /\ it.which = 1 -> [it EXCEPT !.which = 0]
      [] OTHER -> ClimbPrev(it.track)

qBTreeIterator_next(it) ==
    LET t == At(broot, it.track)
    IN CASE t.childs[it.which + 1] # Absent -> GoLeftmost(Append(it.track, it.which + 1))
         [] t.childs[it.which + 1] = Absent /\ it.which = 0 /\ t.kv[1] # Nil ->
              [it EXCEPT !.which = 1]
         [] OTHER -> ClimbNext(it.track)

-----------------------------------------------------------------------------
\* What a loop visits from it on, no more than the keys there are.
RECURSIVE Visited(_, _, _)
Visited(it, Succ(_), fuel) ==
    IF it = Nil \/ fuel = 0 THEN <<>>
    ELSE <<At(broot, it.track).kv[it.which]>> \o Visited(Succ(it), Succ, fuel - 1)

\* An iterator walked from begin, and one walked back from end, visit every key
\* once and in order, climbing and descending by the track alone.
BTreeIterates ==
    LET fuel == Cardinality(BTreeKeys) + 1
        forwards == Visited(qBTree_begin, qBTreeIterator_next, fuel)
    IN /\ Lists(forwards, bkeys)
       /\ Visited(qBTree_end, qBTreeIterator_prev, fuel) = Reverse(forwards)
=============================================================================
