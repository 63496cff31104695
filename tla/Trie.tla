-------------------------------- MODULE Trie --------------------------------
(***************************************************************************)
(* The trie of zhwkre/containers/trie.c, of which only the search and the  *)
(* insertion are written.  A node is known by the path to it, the bytes    *)
(* that index children on the way; the bytes are below 128 (a char that is *)
(* negative would index children from below).  Any append may find no      *)
(* memory; the mallocs of the constructors, whose failure is not handled,  *)
(* do not fail.                                                            *)
(***************************************************************************)
EXTENDS Integers, FiniteSets, SequencesExt

CONSTANTS
    Letters,   \* the bytes of the keys
    Payloads,  \* what is stored under them
    Large,     \* the payloads for which a new string has to take another block
    Inline,    \* the most bytes for which a new string need not: half of its 64
    MaxKeyLen, \* bound on the length of a key
    MaxStored  \* bound on the number of keys

ASSUME TrieAssumption ==
    /\ Letters \subseteq 0..127 /\ Large \subseteq Payloads
    /\ Inline \in Nat /\ MaxKeyLen \in Nat /\ MaxStored \in Nat

VARIABLES
    trie,   \* the nodes, from paths to value and payload
    stored  \* what was given last under each key, and whether an append of that call failed

trieVars == <<trie, stored>>

TrieKeys == UNION {[1..n -> Letters] : n \in 0..MaxKeyLen}

\* The first i bytes of a key.
Prefix(key, i) == SubSeq(key, 1, i)

\* The node the bytes of prefix lead to, child by child, or not found.
qTrie__ptr_at(prefix) == \A i \in 0..Len(prefix) : Prefix(prefix, i) \in DOMAIN trie

qTrieNode__constructor == [value |-> <<>>, payload |-> <<>>]

\* The nodes an insertion of key passes, and the values it gives them: the bytes before
\* a node's own.
Path(key) == {Prefix(key, i) : i \in 0..Len(key)}
Value(q) == IF q = <<>> THEN <<>> ELSE Front(q)

\* The new nodes whose value does not fit into the block a string starts with.
Growing(key) == {q \in Path(key) \ DOMAIN trie : Len(Value(q)) > Inline}

\* What q__bss_append leaves in the new string of a payload.
AppendLeaves(p) == {<<p>>} \cup (IF p \in Large THEN {<<>>} ELSE {})

\* Seeded fault: the payload is appended to what was stored before, and when there is
\* no memory for it that is what remains.
qTrie__insert_Appends(key, given, short) ==
    LET old == IF key \in DOMAIN trie THEN trie[key].payload ELSE <<>>
    IN trie' = (key :> [value |-> Value(key), payload |-> old \o given])
               @@ trie @@ [q \in Path(key) |-> qTrieNode__constructor]

\* The nodes that are missing on the way are made, each with its value; the last one
\* loses the payload it had and gets the new one.  An append that finds no memory leaves
\* its string empty and the insertion goes on: short are the nodes whose value is lost
\* in this way, and given is what is left of the payload.
qTrie__insert(key, given, short) ==
    LET nodes == [q \in DOMAIN trie \cup Path(key) |->
                    IF q \in DOMAIN trie THEN trie[q]
                    ELSE IF q \in short THEN qTrieNode__constructor
                    ELSE [qTrieNode__constructor EXCEPT !.value = Value(q)]]
    IN trie' = [nodes EXCEPT ![key].payload = given]

TrieInit == trie = <<>> /\ stored = <<>>

\* qTrie__insert returns 0 whatever fails; zhwk_error is all there is to see of it.
TrieInsert(key, p) ==
    /\ Cardinality(DOMAIN stored \cup {key}) <= MaxStored
    /\ \E given \in AppendLeaves(p), short \in SUBSET Growing(key) :
          /\ qTrie__insert(key, given, short)
          /\ stored' = [k \in DOMAIN stored \cup {key} |->
                          IF k = key THEN [payload |-> p, error |-> given = <<>> \/ short # {}]
                          ELSE stored[k]]

TrieNext == \E key \in TrieKeys, p \in Payloads : TrieInsert(key, p)

TrieSpec == TrieInit /\ [][TrieNext]_trieVars

-----------------------------------------------------------------------------
\* What the node of q may have as its value, which is missing only when it is too long.
ValuesOf(q) == {Value(q)} \cup (IF Len(Value(q)) > Inline THEN {<<>>} ELSE {})

\* What the node of q may have as its payload: what was given last under the key, or
\* nothing when q is no key or, for a large payload, the insertion set zhwk_error.
PayloadsOf(q) ==
    IF q \notin DOMAIN stored THEN {<<>>}
    ELSE IF stored[q].error THEN AppendLeaves(stored[q].payload)
    ELSE {<<stored[q].payload>>}

\* The search finds exactly the prefixes of the keys inserted, whichever appends failed;
\* a prefix that is no key of its own leads to nothing, and a key to what was given last
\* under it, whatever was inserted above and below it since.  Only a large payload can be
\* missing, and only if its insertion set zhwk_error: an older one is never found.
TrieFound ==
    \A key \in TrieKeys :
        /\ qTrie__ptr_at(key) <=> \E k \in DOMAIN stored : IsPrefix(key, k)
        /\ qTrie__ptr_at(key) => trie[key].payload \in PayloadsOf(key)

\* The inductive invariant behind it: a node stands on exactly the prefixes of the keys
\* inserted, the empty one included, with a value and a payload that the appends of the
\* insertions so far may have left there.
TrieInv ==
    /\ DOMAIN stored \subseteq TrieKeys
    /\ DOMAIN trie = {q \in TrieKeys : \E k \in DOMAIN stored : IsPrefix(q, k)}
    /\ \A q \in DOMAIN trie : trie[q] \in [value : ValuesOf(q), payload : PayloadsOf(q)]
=============================================================================
