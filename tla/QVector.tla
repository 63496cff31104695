------------------------------ MODULE QVector ------------------------------
(***************************************************************************)
(* The vector of zhwkre/containers/vector.c: elements of elemstep bytes in *)
(* one block of memory, which doubles when a push finds no room and halves *)
(* when a pop leaves it more than half empty.  Every malloc may fail.      *)
(***************************************************************************)
EXTENDS Integers, Sequences

CONSTANTS
    Values,    \* the elements
    Junk,      \* what memory holds that nobody has written
    ElemStep,  \* desc.elemstep
    MaxLength  \* bound on the number of elements

ASSUME VectorAssumption ==
    Junk \notin Values /\ ElemStep \in Nat \ {0} /\ MaxLength \in Nat

VARIABLES
    content,    \* the block: the elements that fit into it, from 0
    allocated,  \* its size in bytes
    vsize,      \* *(desc.size)
    pushed      \* the elements pushed and neither popped nor erased, in order

vvars == <<content, allocated, vsize, pushed>>

\* The places of a block of so many bytes.
Places(bytes) == {i \in 0..bytes : (i + 1) * ElemStep <= bytes}

\* malloc and memcpy: a block of the given size with what there is of b.
Moved(b, bytes) == [i \in Places(bytes) |-> IF i \in DOMAIN b THEN b[i] ELSE Junk]

VectorInit == content = <<>> /\ allocated = 0 /\ vsize = 0 /\ pushed = <<>>

\* Seeded fault: the new block has no room for the new element.
qVector__push_back_Half(e) ==
    /\ vsize < MaxLength
    /\ LET room == IF allocated < (vsize + 1) * ElemStep THEN 2 * allocated ELSE allocated
       IN /\ allocated' = room
          /\ content' = [Moved(content, room) EXCEPT ![vsize] = e]
    /\ vsize' = vsize + 1
    /\ pushed' = Append(pushed, e)

qVector__push_back(e) ==
    /\ vsize < MaxLength
    /\ LET room == IF allocated < (vsize + 1) * ElemStep
                   THEN 2 * (allocated + ElemStep) ELSE allocated
       IN /\ allocated' = room
          /\ content' = [Moved(content, room) EXCEPT ![vsize] = e]
    /\ vsize' = vsize + 1
    /\ pushed' = Append(pushed, e)

\* malloc fails: -1, nothing changed.
PushFails == allocated < (vsize + 1) * ElemStep /\ UNCHANGED vvars

\* The last element of the block b goes; the block is halved if that leaves more
\* than half of it unused, unless malloc fails (and -1 is returned all the same).
PopFrom(b) ==
    /\ vsize' = vsize - 1
    /\ \/ /\ allocated > 2 * ((vsize - 1) * ElemStep) /\ allocated \div 2 # 0
          /\ allocated' = allocated \div 2
          /\ content' = Moved([i \in 0..(vsize - 2) |-> b[i]], allocated \div 2)
       \/ content' = b /\ allocated' = allocated

\* Seeded fault: the block is halved as soon as half of it is unused.
qVector__pop_back_Early ==
    /\ vsize > 0
    /\ vsize' = vsize - 1
    /\ allocated' = allocated \div 2
    /\ content' = Moved(content, allocated \div 2)
    /\ pushed' = SubSeq(pushed, 1, Len(pushed) - 1)

\* The caller's part: the vector is not empty.
qVector__pop_back ==
    /\ vsize > 0
    /\ PopFrom(content)
    /\ pushed' = SubSeq(pushed, 1, Len(pushed) - 1)

\* The element at position at is moved to the end, the others up, and popped.
qVector__erase(at) ==
    /\ at \in 0..(vsize - 1)
    /\ PopFrom([i \in DOMAIN content |->
                   CASE i \in at..(vsize - 2) -> content[i + 1]
                     [] i = vsize - 1         -> content[at]
                     [] OTHER                 -> content[i]])
    /\ pushed' = [i \in 1..(Len(pushed) - 1) |-> IF i <= at THEN pushed[i] ELSE pushed[i + 1]]

VectorNext ==
    \/ \E e \in Values : qVector__push_back(e)
    \/ PushFails
    \/ qVector__pop_back
    \/ \E at \in 0..MaxLength : qVector__erase(at)

VectorSpec == VectorInit /\ [][VectorNext]_vvars

-----------------------------------------------------------------------------
\* The block always has room for the elements, and holds those pushed and neither
\* popped nor erased, in order: no memcpy of a push, a shrink or an erase loses
\* one or goes past the end of the block, whichever mallocs fail.
VectorIntact ==
    /\ vsize = Len(pushed) /\ vsize * ElemStep <= allocated
    /\ \A i \in 0..(vsize - 1) : i \in DOMAIN content /\ content[i] = pushed[i + 1]
=============================================================================
