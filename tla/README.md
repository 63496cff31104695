# A TLA+ model of zhwkrfsp

zhwkrfsp is a remote file system. The `server` process of this repository mounts
a FUSE file system and accepts one TCP connection on port 10888; every file system
call of the kernel becomes one request on that connection, and the program at
the other end (the "client") executes it on its own files and replies. This
directory holds TLA+ modules of the server and of the library `zhwkre` it is built
on, TLC configurations that check them on small instances, and TLAPS proofs of the
facts that matter most for every size of structure, buffer, thread pool and file
table.

## 1. The system

| Part | State it keeps | Operations | Interacts with |
| --- | --- | --- | --- |
| FUSE handlers (`fuse_server.c`) | `mu`, `opuid`, `sock`; per call: the request, the reply header | 19 handlers called by libfuse | kernel through libfuse; client through `sock` |
| wire protocol (`prot.h`, `prot.c`) | none | `wait_reply`, `re_read`; for the client `wait_operation`, `as_open`, `as_read`, `as_write`, `as_close` | cut the byte stream into messages by size |
| transfer loops (`netwrap.c`, `zhwkre/network/tcp.c`) | `already`, `remain` | `sockread`, `sockwrite` | `read(2)`, `write(2)` on the one socket |
| start-up (`server.c`, `zhwkre/network/socket.c`) | the listening socket, the mount | `main` | hands the accepted socket and the handler table to `fuse_loop` |
| mutex (`zhwkre/concurrent/mutex.c`) | locked or not | `lock`, `unlock` | taken by 15 handlers, released by all 19 |
| client (`client.c`, `fuse_client.c`: empty) | open handles | executes requests | specified by the repository's `README.md` only |
| binary-safe strings (`zhwkre/bss`) | block, size, capacity; `zhwk_error` | construct, append, from array | every request and reply is put together in one |
| unified structures (`ustruct.c`) | none | field-by-field copies | replies to `getattr`, `statfs` |
| AVL tree and set (`AVLTree.c`, `set.c`) | nodes with children, stored height and a list through them; size; iterators | insert, erase, look up, iterate; union, intersection, difference, equality, inclusion | the containers are the library's own and not linked into the server |
| B-tree (`btree.c`) | nodes of one or two pairs, size, iterators with their track | insert, erase, look up, iterate | |
| vector (`vector.c`) | block, bytes allocated, number of elements | push, pop, erase | |
| list, `bubble_sort` (`list.c`) | head, tail, size, nodes | push, pop, swap, erase, copy, sort | used by map and serialization |
| map (`unordered_map.c`) | an array of lists, counts | insert, erase, look up, clear | holds lists |
| trie (`trie.c`) | nodes by path | insert, look up | |
| serialization (`serialization.c`) | none | a list of lists to strings and back | lists, maps, strings |

What is hard about it:

* **One unlabelled stream.** A handler takes the next bytes of the connection
  for its reply. `ouid` is sent and echoed but never compared. Handlers stay in step
  with the client only because every handler reads exactly the bytes its reply
  has, every `head.size` is exact, and no handler starts before the one before
  it is done.
* **Partial transfers and failures.** `read` and `write` move any number of
  bytes. The client can leave and the connection can break between any two of them.
  The handler must return, keep the mutex free, never repeat the request, and
  never read half a reply later.
* **A lock that is not taken everywhere.** `chmod`, `access`, `unlink` and
  `utimens` neither lock nor number their requests, and unlock what they never
  locked. `main` calls `fuse_loop`, which has one thread; with `fuse_loop_mt` they
  would mix their bytes with others.
* **State with a long life.** `fi->fh` is set by one reply and used by calls
  much later; a wrong handle shows only then.
* **Boundaries.** Sizes with and without header, unsigned subtraction, full
  buffers.
* **Long sequences.** The AVL tree keeps three structures (children, stored heights,
  list) that every rotation and every erase by data swap must leave in agreement; the
  B-tree moves pairs and subtrees between three nodes at a time; which of their cases
  happen depends on the order of the calls.
* **Failing allocations.** `malloc` can fail at the bottom of a recursion, between the
  two allocations of a push, or in an append whose only report is a global flag.
* **Iterators that outlive an erase.** An erase frees another node than the one it was
  given.

## 2. Modules

| Module | Models | Notes |
| --- | --- | --- |
| `RfspProtocol` | `prot.h`; what each handler does that the others do not; the client's use of `prot.c` | constant operators only. `fuse_x(a)` is the handler `fuse_x` called with arguments `a`, as a record: `lock`, `bump` (what it adds to `opuid`), `rejected` (`-EINVAL` before anything is sent), `req` (the request) and `test` (what it accepts as reply). `zhwkrfsp(h, a)` is the dispatch table |
| `FuseServer` | what the handlers have in common, `sockread`, `sockwrite`, the mutex, the connection, and the kernel and the client around them | the state machine. `EXTENDS RfspProtocol` |
| `RemoteCall` | what the server promises the kernel about one call | abstract specification; `FuseServer` instantiates it as `RC`, and `KeepsPromise` says the server implements it |
| `MCFuseServer` | instances for TLC | sets of handlers and `fuse_file_info` values, symmetry |
| `OrderedKeys` | what the containers share: keys under the comparator of the tests, `MallocFails`, `Nil` | `Lists`, `Follow` (a loop along a link, a recursive function) |
| `AVLTree` | `zhwkre/containers/AVLTree.c` | operators on descriptors; a recursion of the code is a walk down (`Walk`) and the way back (`Rebuilt`), both recursive functions on depths |
| `QSet` | `zhwkre/containers/set.c`, the life of a tree and of an iterator kept across it | `EXTENDS AVLTree`; actions `SetInsert`, `SetErase`, `SetDestructor`, `SetMove`, and the operations on two sets |
| `BTree` | `zhwkre/containers/btree.c` | `Ascending` chooses the caller: the order of `btree_test.c`, or any; recursions are a walk down (`Descent`) and the way back (`Ascent`) |
| `BTreeIterator` | the iterators of `zhwkre/containers/btree.c` | `EXTENDS BTree`, with recursive operators, so checked by TLC only |
| `QVector` | `zhwkre/containers/vector.c` | every `malloc` may fail |
| `BinaryString` | `zhwkre/bss/bss.c` | `append`'s `malloc` may fail; sizes modulo `UintMod` |
| `QList` | `zhwkre/containers/list.c` | heap nodes and their links; `Represents` says what it is for nodes to be a list of given elements |
| `BubbleSort` | `zhwkre/algorithm/bubble_sort.c` | `EXTENDS QList`, with a recursive operator, so checked by TLC only |
| `QMap` | `zhwkre/containers/unordered_map.c` | `EXTENDS QList` |
| `Trie` | `zhwkre/containers/trie.c` | every append may find no memory |
| `Serialization` | `zhwkre/serialization/serialization.c` | |
| `Library` | a test program: one container, its operations in any order | composes the eight container modules |
| `FuseServerProofs`, `FuseServerWireProofs`, `FuseServerHandleProofs` | theorems about the server | types, `mu` and `opuid`; the wire and the refinement of `RemoteCall`; handles. Section 5 |
| `ContainerProofs`, `ListProofs`, `SetProofs`, `BTreeProofs` | theorems about strings, vectors and the trie, lists and maps, the AVL tree and the set, the B-tree | section 5 |
| `OrderedKeysProofs` | lemmas the last three share | least elements, sets in increasing order, loops along a link |

### How state and actions correspond to the code

A C structure is represented by its size, a constant; what the fields hold is
left out except where a handler or a property looks at it (flags, mode, handle,
count, declared and real length). A byte on the
wire is a pair of the message it belongs to and its offset, so a reader that has
lost its place is visible in the model (`got.ok`, `cgot.ok`). `out` and `in` are
the two directions of the connection.

| Variable | Code |
| --- | --- |
| `proc` | the process runs, has called `abort()` (macro `ABRT`), or was killed by `SIGPIPE` |
| `mu`, `opuid` | the globals of `fuse_server.c` (`opuid` modulo `OuidMod`, 2^32 in the code) |
| `pc[w]`, `call[w]` | where worker `w` is: entering, in `sockwrite`, in `wait_reply`, past it |
| `req[w]`, `already[w]` | the send buffer and `sockwrite`'s counter |
| `got[w]`, `rp[w]` | the bytes `sockread` has, and `struct RpHdr rp` |
| `conn` | the socket: open; the peer has closed its end (`fin`); an error is pending (`reset`); dead |
| `files` | the kernel's open files with their `fi->fh` |
| `cup`, `cgot`, `crep`, `cput`, `hdl`, `ran` | the client: present, bytes of a request, reply being sent, open handles, executions |
| `sbufs` | the send buffers that are allocated |
| `ret`, `sent` | history: how each call ended, the requests composed |

| Action | Code |
| --- | --- |
| `Enter(w)` | `mu.lock` (`q__Mutex_lock`: waits until nobody holds it), `opuid ++`, header and body composed and appended |
| `Reject(w)` | the `-EINVAL` returns of `open`, `opendir`, `creat`, after the `opuid ++` |
| `SendByte(w)`, `SendFail(w)`, `SigPipe(w)` | `sockwrite`: progress; `-1`, so the buffer is freed and `-EBUSY` returned; a write to a dead socket |
| `RecvByte(w)`, `RecvFail(w)`, `SpinEOF(w)` | `sockread`: progress; `-1`, so `-EBUSY`; `read` returns 0 |
| `ReplyError(w)`, `ReplyAbort(w)`, `ReplyAccept(w)` | the tests after `wait_reply`: `rtvl < 0`; a size the handler cannot use; go on |
| `Finish(w)` | body read, `fi->fh` set by the opening handlers, `mu.unlock`, return |
| `Call(w)` | libfuse calls a handler (external) |
| `ClientRead`, `ClientExec`, `ClientSend` | the client (external), reading with the functions of `prot.c`: whatever the bytes are, the first of them are a header (`Understood`) |
| `ClientLost` | the client (external) leaves on a header whose `opid` is none of the four |
| `PeerClose`, `ConnBreak` | the client leaves; the connection breaks (external) |

Every handler is one `Enter` or `Reject`, then bytes, then one of the returns;
each return includes `mu.unlock` (`q__Mutex_unlock`, which does not ask who holds it) and the change of the kernel's file, as in the
code. One step moves one byte: `read` and `write` of more are several such steps
with nothing in between, so every cut the system calls can make is covered.

In `AVLTree` a node is named by the key its data holds, so a subtree is a record of
key, children and stored height, and `prev` and `next` are functions on keys. An
erase that swaps the data of two nodes and frees the other one is a removal of
that other name followed by a renaming (`Renamed`). The nodes a failed insertion
has already written to stay written: `qAVLTree__insert` keeps the damaged tree.
A recursive function of the code compares, calls itself for one child, assigns the result to
that child and mends the node. `Walk(t, turn, stop)` is its way down, the subtree at each
depth with the side `turn` chooses at each node; `Rebuilt` is its way back, from what
replaces the last subtree to the new root; `Mended` is what happens at a node in between:
the height, and `left_balance` or `right_balance`. The loops of `ptr_at`, `begin` and `end` are walks alone.
`QSet` adds `elems`, the set of keys inserted and not erased, as the reference, and
`siter`, an iterator by the key its node holds: it dangles when that node is freed.

In the other containers a reference value beside the structure says what it should
hold: `bkeys`, `pushed`, `appended`, `items`, `dict`, `stored`. A B-tree node is a record of its two
arrays, and an iterator the child numbers of its track. `Descent` is the walk of a recursion to the
node that holds the key or has no child where it belongs, or to the leftmost leaf; `InsertLast`,
`EraseLast` and `Shifted` are what happens there, and `Ascent` is the way back, in which `Absorb` takes in a child that was
split and `Rebalance` one that was emptied. A block of memory is a function
from the places that fit into it, so a write past the end shows as a wrong domain.
List nodes are numbers with `prev`, `next` and `data`. In `Serialization` a descriptor also
says whose nodes it leads to, so a pointer copied out of the old list shows.

### The environment, and what is assumed of it

* The kernel opens a file before it uses it, releases it once and not while a call uses it.
  It never sends `O_PATH` or `O_TMPFILE` to `open`.
* The client follows `README.md` and reads with `prot.c`: one reply per request, errors as
  a bare header with a negative `rtvl`, the bodies described there. Where the two
  disagree, `LiteralClient` chooses `README.md`: no reply to `mkdir`, and a name after the
  request of `symlink` and `unlink`. `wait_operation` checks
  nothing, so a client that has lost its place in the stream takes the bytes it finds for any
  request (`Misread`: one of each operation, with each handle, a write of two sizes), executes and answers it, or
  leaves when they are no operation at all.
* TCP: bytes arrive in order, once, or not at all after a failure. A socket
  reports a pending error once; later reads return 0 and later writes raise `SIGPIPE`.

## 3. Runs

The runs of the server use `MCFuseServer`. Structure sizes are 1 or 2 (headers 2), enough for
every cut to fall inside a header, inside a body and between; buffers of 1 and 3
bytes are smaller and larger than a header; a link name can be shorter than
`FILENAME_LEN` or as long.

| Run | Checks | Shows |
| --- | --- | --- |
| `serial` | `TypeOK`, `InStep`, `OwnReply`, `HandlesAgree`, `AbortOnlyOversizedRead`, `OuidGroups` | all handlers but `symlink`, three calls, no failure: open, use and release of a file is the longest dependency between calls, and any pair of handlers follows each other |
| `faults` | `OwnReply`, `HandleLive`, `MuGuards`, `AtMostOnce`, `WireInv`, `CallInv`, `HandleInv`, `EbusyIsFinal`, `KeepsPromise`, `ResponsiveWhileOpen` | three calls of one handler of each kind, failures between any two bytes: the failing call, the call that finds the socket dead, one more. The refinement, the invariants of the proofs and liveness (`FairSpec`) |
| `threads` | `Exclusion`, `MuGuards`, `NeverTwice` | two threads and handlers that lock, `symlink` among them, after which the client executes and answers requests nobody made: replies and handles no longer agree, but the threads exclude each other, the mutex is released on every path, also on wrong replies, and no call is executed twice. (That without `symlink` threads get their own replies and handles agree is proved for any number of them, section 5) |
| `framing` | `InStep` (violated) | a `symlink` request is longer than its `size` |
| `fullread` | `ConformingNeverAborts` (violated) | a full read aborts the server |
| `readme` | `Responsive` (violated) | `mkdir` waits for a reply that need not come, `unlink` (tried alone) for a client that waits for the name |
| `eof` | `Responsive` (violated) | end of stream makes `sockread` spin |
| `leak` | `NoLeak` (violated) | the buffer of a request that was sent stays allocated |
| `library` | `SetFound`, `Threaded`, `HeightsExact`, `Algebra`, `IteratorsSurvive`; `BTreeFound`, `BTreeIterates`, `BTreeEven`; `VectorIntact`, `StringIntact`; `ListIntact`, `CopyIntact`, `MapFound`, `TrieFound`, with the invariants of their proofs `ListInv`, `MapInv`, `TrieInv`; `RoundTrip` | any sequence of operations on any one of the containers |
| `balance` | `Balanced` (violated) | six insertions leave an AVL node out of balance |
| `alloc` | `SetFound` (violated) | an insertion that fails loses elements |
| `btree_order` | `BTreeKeeps` (violated) | five insertions in another order than the test's lose keys |

The bounds of `library`, and why they are enough:

* Nine keys give AVL trees of four and five levels, in which single and double rotations
  happen at the root and below it, and an erase rebalances at more than one level.
  Twelve keys give B-trees of three levels in which splits and merges reach the root
  and rotations in both directions happen between inner nodes, where subtrees move
  with the pairs (with nine keys right rotations stay between leaves). The
  reachable trees are finitely many, so sequences of every length are covered.
* Six elements of three bytes: the vector's block grows and halves, and sizes are not
  multiples of a power of two. Strings of up to seven bytes in blocks that begin with four
  grow twice; `UintMod` is 16, so the doubling comes close to the wrap and never reaches it.
  The second operand of the set operations is the set itself or one of three elements;
  `SetProofs!AlgebraAlways` covers every other.
* Lists of four elements have a head, a tail and inner nodes to erase and swap; three
  keys in two lists of a map collide; five elements at three depths give empty lists, siblings and lists in lists.
* Any two keys of the trie of up to two letters are stored: one above the other, beside it, or again after
  a failure (with three or four keys, tried alone, nothing changes; `ContainerProofs!TrieCorrect` covers any
  number). `Inline` is 0 (32 in the code), so the value of every node at depth two may be lost;
  one payload is small and one is `Large`, so one can be lost and the other cannot.

`alloc` lets `malloc` fail in the AVL tree; in vector, string and trie it always may. With
`MallocFails = TRUE` the list and the map break in one or two steps (see the hazards in
`PROJECT.json`), which is why `library` has it off.

`FuseServer_readme.cfg` and `FuseServer_threads.cfg` switch deadlock checking off: the server
and the client waiting for each other is the behaviour the first one shows, and what may
become of a client that takes bytes for a write longer than what follows. `Library.cfg` and the runs of the
containers do, because a full container may have no further operation. The other runs
check for deadlock; `Terminated` stands for the end of the calls.

The definitions marked "Seeded fault" are wrong variants of single definitions;
putting one in place of the right definition makes a property fail, which shows
that the property depends on that piece of the code.

`threads` has one handle, one file and one kind of `fuse_file_info`, three calls and no failures of
the connection: a `symlink` leaves its surplus, a call of the other thread is misread or answered
out of turn, and one more follows.

**Fairness** (`FairSpec`): weak fairness of each worker's next step and of the
client's. A thread blocked in `read` or `write` goes on when bytes or room are there,
and a thread that can run is scheduled. No fairness for the kernel's calls,
for failures, for a lost client's exit. `SpinEOF` is a step that changes nothing, so it does not
help to satisfy fairness.

## 4. Findings

1. `symlink` sends more bytes than `head.size` declares; a client that trusts
   `size` takes the rest for a request (`framing`).
2. `fuse_read` compares the reply's size including the header with the data buffer and
   aborts the process on a full read (`fullread`).
3. `mkdir` needs a reply that `README.md` says need not be sent, and `unlink` sends no
   name although `README.md` says one follows (`readme`).
4. `sockread` never notices the end of the stream (`eof`).
5. `sockwrite` frees the buffer it was told to free only when the write fails (`leak`).
6. The AVL tree chooses between single and double rotation by the wrong node's
   balance and does not stay balanced; search order, heights and list stay right
   (`balance`, `library`).
7. An insertion into the AVL tree that cannot allocate its node unlinks the
   subtree below which it was to be attached (`alloc`).
8. The B-tree puts the pair that comes up from a split of its first child behind a larger
   one (`btree_order`).

Two more divergences from the repository's `README.md` are plain from the text and
have no run: `chmod`, `access`, `unlink` and `utimens` send the `ouid` of the request
before them, although it is an "Operation Unique ID" (`OuidGroups` states how far
numbers are unique), and `fuse_symlink` puts its first argument, the link's target,
in `filename`, which should hold the link's name.

## 5. Proofs

Assumptions on the constants: `SizesAssumption` (sizes are naturals, headers and
directory entries not empty), `HandlesAssumption`, `ParametersAssumption`,
`NoneAssumption`, and `WorkersAssumption`: one worker, or only handlers that lock. Of the
containers: `KeysAssumption` (finitely many keys, integers, and NULL none of them), `QSetAssumption`, `ListAssumption` (NULL is not the address of a node),
`MapAssumption` (there is at least one list) and those of the trie, the string and the
vector. A hypothesis that is not an assumption on the constants' types is part of the
theorem: `Conforming`, `~MallocFails`, `2 * MaxCalls < OuidMod`.

* `FuseServerProofs!TypeCorrect`: `Spec => []TypeOK`. Inductive invariant
  `TypeInv == TypeOK /\ Shape`; `Shape` says that a worker in a handler has a call, one on
  the connection has a request, and one in the body a header, without which
  `req[w].b` or `rp[w].size` would have no type.
* `FuseServerProofs!LockCorrect`: `Spec => [](Exclusion /\ MuGuards)`. The two are
  inductive together: a worker on the connection holds `mu`, or is the only
  worker (`BusyHoldsMu`, from `WorkersAssumption`), so nobody can enter beside it,
  and the unconditional `mu.unlock` of a return never frees another's lock.
* `FuseServerWireProofs!InStepCorrect`: for `Conforming` (no `symlink`, a client
  that answers `mkdir`), `Spec => [](WireInv /\ InStep /\ OwnReply)`. `WireInv` says where
  every byte of the one request and the one reply is: read, under way, or
  unsent. `ServerEnd` speaks of the server's side and holds after failures
  too; `ClientEnd` of the client's while the connection is open. It rests on
  `HandlersFramed` (every handler but `symlink` declares what it appends and the
  client takes as much), `AcceptsBody` (a handler that accepts a reply reads all
  of it) and `AnswersAreReplies`.
* `FuseServerWireProofs!PromiseKept`: for `Conforming`, `Spec => KeepsPromise`: the server
  implements `RemoteCall` under the mapping that forgets everything but `ran` and `ret`.
  `AtMostOnceCorrect` and `EbusyFinal` are the same facts as an invariant and an action
  property of the server. The inductive invariant is `CallInv` (with
  `TypeInv`, `LockInv` and `WireInv`): calls are numbered once (`OneCallEach`), what the client is
  gathering is one request that was never executed, also after the connection broke
  (`NotYetRun`), every byte of a reply comes from an execution and no call is executed
  before it is sent (`RepliesRan`, `UnansweredNotRun`), and after an `EBUSY` the socket is
  dead and nobody waits for a reply (`BrokenForGood`).
* `FuseServerHandleProofs!HandlesCorrect`: for `Conforming`,
  `Spec => [](HandlesAgree /\ HandleLive /\ HandleInv)`, and `AbortCorrect`:
  `Spec => []AbortOnlyOversizedRead`. `HandlesAgree` speaks of a quiet connection only; the
  inductive invariant `HandleInv` (with `TypeInv`, `LockInv` and `WireInv`) follows a handle through the
  calls that issue it and give it back. `HandlesOwned`: each open handle of the client belongs
  to one open file, or is in the reply to the one open under way; while a release is being
  answered the kernel still has the file and the client no longer the handle.
  `FilesServed` ties a call's arguments to the kernel's file from the call to the
  return, and keeps others from opening or releasing it meanwhile. `RepliesUsable`
  says that a reply under way is one that its handler accepts, an error, or a read that
  fills the buffer: without it a reply with a new handle could be thrown away by an abort.
  `LiveNames` holds also of requests that outlive the handler that sent them.
* `FuseServerProofs!OuidCorrect`: if `2 * MaxCalls < OuidMod` (in the code: fewer than
  2^31 calls), `Spec => []OuidGroups`: `opuid` grows by at most two per call, so
  it does not come round, and two requests with the same number are never both from
  handlers that number theirs. The hypothesis is needed: numbers are reused after 2^32.
* `ContainerProofs!StringCorrect`: `StringSpec => []StringIntact`, and `ContainerProofs!VectorCorrect`:
  `VectorSpec => []VectorIntact`, for every element size, capacity, width and sequence of
  operations, whichever allocations fail. The inductive invariants `StringInv` and
  `VectorInv` say that the block has room for what it holds, which needs that the
  capacity after doubling does not wrap (`MaxSize` below half of `UintMod`), and that a
  block that is halved still has a place for each element left.

* `ContainerProofs!TrieCorrect`: `TrieSpec => [](TrieFound /\ TrieInv)`, for keys of bytes below 128
  (`TrieAssumption`) of any length, whichever appends find no memory. `TrieInv` says that the nodes stand on exactly the
  prefixes of the keys inserted, with the values and payloads that the appends may have left (`ValuesOf`, `PayloadsOf`);
  the search for a key needs all the nodes on the way to it. A payload can be missing, with 0 returned,
  only when it is large and its insertion set `zhwk_error`.
* `ListProofs!ListCorrect`: if `malloc` does not fail,
  `ListSpec => [](ListIntact /\ CopyIntact /\ ListInv)` for every length. `Represents(L, len, ns, es)`
  says that the heap of `L` is the nodes `ns`, distinct, doubly linked in that order, with the elements
  `es` and nothing else; `ListInv` is that of the list and its reference `items`. One lemma for
  each operation (`PushedBack`, `PushedFront`, `Erased`, `PoppedBack`, `PoppedFront`, `Swapped`) shows that
  the list it returns represents the changed sequence; `FollowsChain` and `Walks` show that the
  loops of the code then visit the nodes in order; `PushedInOrder` that pushing one
  after another makes a copy.
* `ListProofs!MapCorrect`: if `malloc` does not fail, `MapSpec => [](MapFound /\ MapInv)` for every number
  of keys and of lists. `MapInv` says that the list of each hash represents the keys with that
  hash that have a value, each once; uniqueness is what makes the first pair a search meets
  the right one and one erase enough. The operations on lists come from the same lemmas.

* `SetProofs`: if `malloc` does not fail, for every finite set of keys and every sequence of
  insertions, erases, destructions and iterator moves, `SetSpec` implies `[]SetFound`
  (`SetFoundAlways`), `[]Threaded` (`ThreadedAlways`), `[]HeightsExact` (`HeightsExactAlways`), `[]Algebra`
  (`AlgebraAlways`) and the action property `IteratorsSurvive` (`IteratorsSurviveErase`).

The argument for the set. The inductive invariant is `SetInv`: `Represents(sdesc, elems)`, and the
iterator is on an element, NULL or dangling. `Represents(d, S)` says three things of a descriptor:

1. `Tree(d.root, S)`: the root is a search tree of exactly the elements `S` with exact heights.
   Nothing can be defined by recursion over trees here, so this is said by a set: there is a
   set of pairs of a tree and its elements, closed under children (`Closed`), that has the root and
   `S` in it, in which elements to the left are smaller, those to the right larger, the elements of a node are its own and its
   children's, and its height is one more than the larger of theirs. The union of two closed
   sets is closed, which is how two trees and an element between them are a tree (`Join`); that
   the set is closed is how a tree is taken apart (`Split`).
2. The links join the elements of `S` in increasing order: `next` is the least element
   above, `prev` the greatest below (and NULL at the ends).
3. `size` is the cardinality of `S`.

It is preserved because

* each rotation and each balancing step keeps the elements and the heights exact, *whatever
  the balance factors are*, provided the nodes it dereferences are there, which a factor
  of two guarantees. This is why finding 6 does no harm to anything but the depth of the tree;
* a walk meets smaller and smaller trees and ends before `Deepest` (`WalkEnds`), at the element sought if
  the tree has it and otherwise at the node below which it belongs (`SearchFinds`); by descent from the
  end of the walk, what `Rebuilt` makes is a tree of the elements with the replacement's
  (`RebuiltTree`). `InsertTree` and `DeleteTree` put these together; in the latter the leaf that is freed by its
  stored height of 1 has no children because heights are exact, and the neighbour whose data is taken is the
  successor or the predecessor;
* the node at the end of the search for a new element is the element next below or next above it,
  so that inserting beside it in the list keeps the order (`LinkedLeft`, `LinkedRight`); removing and renaming
  keep it as well (`LinkedWithout`, `LinkedRenamed`), the latter because the two elements are neighbours.

From the invariant follow the lookup (`SearchFinds`), the loops in both directions (`Iterates`), the heights
against the reference `TrueHeight`, which counts levels (`TrueHeights`), and the operations on two sets
(`InsertAllRepresents`, `RepresentsAgrees`). Run `alloc` shows that the hypothesis on `malloc` is needed.

* `BTreeProofs`: for the caller of `btree_test.c` (`Ascending`: new keys in ascending order, erasures in any, keys
  that are there tried again), for every finite set of keys and every sequence of operations,
  `BTreeSpec` implies `[]BTreeFound` (`BTreeFoundAlways`) and `[]BTreeEven` (`BTreeEvenAlways`). Run `btree_order` shows that
  the hypothesis on the caller is needed.

The argument for the B-tree. The inductive invariant is `BTreeInv`: `Tree(broot, bkeys, h)` for some height `h`, and `bsize`
is the number of keys. `Tree(t, D, h)` is said by a closed set again, here of triples: a node has one pair and two
children, or two pairs in order and three children; each child has exactly the keys on its side and is
one less high; NULL is the tree of no keys and height 0. That height is what makes the leaves even.
It is preserved because

* what an erasure leaves is a tree as high as it was, or a node without a pair on which a tree
  one lower hangs (`Erased`). A rotation from either side (`RotatesLeft`, `RotatesRight`) or a merge
  (`MergesFirst`, `MergesOther`) puts the parent right or empties it in turn: `RebalanceOne0` to
  `RebalanceTwo2`, one for each number of pairs and each child. Merging relies on the emptied node having only its first
  child, and on an inner sibling never having a NULL between its children, which evenness gives;
* a pair of a branch is replaced by the least key of the child behind it, the one `get_min` finds and `erase_min` takes out
  (`EraseMin`, `Successor`, `EraseOne`, `EraseTwo`);
* what an insertion of a key above all others leaves is a tree as high as it was, or an overfull node
  that splits into two of that height around a key (`Inserted`, `Parted`, `FullNode`); it happens in the last child only,
  where the two places the code may put the promoted pair are the right ones (`AbsorbOne`, `AbsorbTwo`);
* a key that is there is refused without a change (`InsertSame`), because the caller does not try it on a full leaf;
* a walk ends before `BTreeDeepest`, since a tree has at least as many keys as levels (`TreeBound`, `DescentEnds`), and by
  descent from its end, what the last node becomes is carried to the root (`AscentErase`, `AscentInsert`, `AscentRefused`).

Induction over lengths and steps goes through `Least` (a set of naturals that is not empty has
a least element), which, unlike the induction theorems of the library, has no operator as a
parameter: a least counterexample is refuted.

The proofs about the server hold with any failures, any number of calls, files and
sizes, and any number of threads when all handlers lock.

Only model-checked:

* Liveness (`ResponsiveWhileOpen`): fairness is out of the prover's reach.
* The iterators of the B-tree (`BTreeIterates`) and serialization (`RoundTrip`): the operators that model them
  are recursive, of which the prover cannot say anything.
* `bubble_sort`: that it sorts is checked by `ListIntact` in `library`. Its only change of
  the list is `q__List_swap_elem`, which is proved for any two elements.
* What holds after a `symlink` (`NeverTwice`): the theorems about the wire assume `Conforming`.
* Lists, maps and sets when `malloc` fails: the theorems do not hold then (section 3).

## 6. Not modelled

* Contents: path names, offsets, file data, `stat` fields (`ustruct.c` copies
  field by field), time stamps and the wording of logs. The three headers
  `default*.h` are copies of system structures.
* Start-up and its failure paths; `listenat`, `serveat` and `re_open`, which nothing calls;
  threads, UDP and the utilities of `zhwkre`, thin wrappers of system calls; files that are
  empty or declare what is not written.
* Replies that violate the protocol (sizes below a header).
* The composition of `BinaryString` with the server: an append that fails and is not
  looked at would send a request shorter than it declares.
* Allocation failures of the B-tree and of serialization, of the constructor of the
  binary-safe string, which then returns uninitialised memory, and of the trie's node, which is
  written to without a test.
* The width of `int` in the vector: `allocated` and `size` are integers without a bound.
* A key inserted again while a full B-tree leaf holds it, which makes a second copy;
  trie keys with bytes from 128 on, which index below the array.
* The nodes that `q__List_erase_elem` does not free.

## 7. Plan

1. Done: `RfspProtocol`, `FuseServer`, `RemoteCall`, their runs and theorems up to the
   refinement; the containers, strings and serialization; their composition in `Library`.
2. Start-up: `main`, `qSocket_open`, `bind`, `listen`, `accept` with each failing.
3. Theorems done: every invariant of the server and of the string, vector, list, map, trie, AVL
   tree and set, and of the B-tree for its ascending caller. Left: the iterators of the B-tree, `bubble_sort`, serialization.
