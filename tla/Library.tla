------------------------------ MODULE Library ------------------------------
(***************************************************************************)
(* The containers of zhwkre together, as a test program uses them: it      *)
(* takes one of them and calls its operations in any order.                *)
(***************************************************************************)
EXTENDS QSet, BTreeIterator, QVector, BinaryString, QMap, BubbleSort, Trie, Serialization

VARIABLE use  \* the container the program uses

\* The second operand of the set operations besides the set itself, built in an
\* order that takes a rotation.
MCOthers == {<<7, 4, 2>>}

allvars == <<use, svars, bvars, vvars, tvars, lvars, mvars, trieVars, nested>>

LibraryInit ==
    /\ use \in {"set", "btree", "vector", "string", "list", "map", "trie", "serialization"}
    /\ SetInit /\ BTreeInit /\ VectorInit /\ StringInit /\ ListInit /\ MapInit
    /\ TrieInit /\ SerialInit

LibraryNext ==
    /\ use' = use
    /\ \/ /\ use = "set" /\ SetNext
          /\ UNCHANGED <<bvars, vvars, tvars, lvars, mvars, trieVars, nested>>
       \/ /\ use = "btree" /\ BTreeNext
          /\ UNCHANGED <<svars, vvars, tvars, lvars, mvars, trieVars, nested>>
       \/ /\ use = "vector" /\ VectorNext
          /\ UNCHANGED <<svars, bvars, tvars, lvars, mvars, trieVars, nested>>
       \/ /\ use = "string" /\ StringNext
          /\ UNCHANGED <<svars, bvars, vvars, lvars, mvars, trieVars, nested>>
       \/ /\ use = "list" /\ SortNext
          /\ UNCHANGED <<svars, bvars, vvars, tvars, mvars, trieVars, nested>>
       \/ /\ use = "map" /\ MapNext
          /\ UNCHANGED <<svars, bvars, vvars, tvars, lvars, trieVars, nested>>
       \/ /\ use = "trie" /\ TrieNext
          /\ UNCHANGED <<svars, bvars, vvars, tvars, lvars, mvars, nested>>
       \/ /\ use = "serialization" /\ SerialPush
          /\ UNCHANGED <<svars, bvars, vvars, tvars, lvars, mvars, trieVars>>

LibrarySpec == LibraryInit /\ [][LibraryNext]_allvars
=============================================================================
