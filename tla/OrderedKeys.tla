---------------------------- MODULE OrderedKeys ----------------------------
(***************************************************************************)
(* What the containers of zhwkre have in common: elements under the        *)
(* comparator of the tests, memory that may run out, NULL, chains of       *)
(* pointers, and what it means to list a set in order.                     *)
(***************************************************************************)
EXTENDS Integers, FiniteSets, SequencesExt

CONSTANTS
    Keys,        \* the elements, integers under the comparator of the tests
    MallocFails, \* can malloc fail?
    Nil          \* NULL

ASSUME KeysAssumption ==
    /\ Keys \subseteq Int /\ IsFiniteSet(Keys)
    /\ MallocFails \in BOOLEAN
    /\ Nil \notin Keys

\* ks lists the elements of S, each once, in increasing order.
Lists(ks, S) == ToSet(ks) = S /\ \A i \in 1..(Len(ks) - 1) : ks[i] < ks[i + 1]

\* What a loop from node that follows a link visits, in order; a loop that has
\* made fuel steps is cut off there.
Follow(link, node, fuel) ==
    LET walk[i \in 0..fuel] ==
            IF i = 0 THEN node
            ELSE LET n == walk[i - 1] IN IF n = Nil THEN Nil ELSE link[n]
        visits == Cardinality({i \in 0..(fuel - 1) : walk[i] # Nil})
    IN [i \in 1..visits |-> walk[i - 1]]
=============================================================================
