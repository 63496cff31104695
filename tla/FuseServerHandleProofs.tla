----------------------- MODULE FuseServerHandleProofs -----------------------
(***************************************************************************)
(* With a conforming client the kernel's files and the client's handles    *)
(* agree, no request ever names a handle that is closed, and the server    *)
(* aborts in one way only.                                                 *)
(***************************************************************************)
EXTENDS FuseServerWireProofs

USE DEF OPER_OPEN, OPER_READ, OPER_WRITE, OPER_CLOSE

\* The requests and the tests of the handlers that open a file or make a directory.
LEMMA OpenRequests ==
    ASSUME NEW h \in {"open", "create", "opendir", "mkdir"}, NEW a
    PROVE  LET b == zhwkrfsp(h, a).req IN
           /\ b.opid = OPER_OPEN /\ b.mode = "open" /\ b.fh = Unset
           /\ "OPEN_MKDIR" \in b.flags <=> h = "mkdir"
           /\ "OPEN_DIRECTORY" \in b.flags <=> h = "opendir"
           /\ zhwkrfsp(h, a).test = IF h = "mkdir" THEN Exact(0) ELSE Exact(SzRpOpen)
<1> USE DEF zhwkrfsp, Handling
<1>1. ASSUME NEW fl
      PROVE  /\ Open(fl).opid = OPER_OPEN /\ Open(fl).mode = "open"
             /\ Open(fl).fh = Unset /\ Open(fl).flags = fl
  BY DEF Open, Request
<1>2. "OPEN_MKDIR" \notin Translated(a.fi) /\ "OPEN_DIRECTORY" \notin Translated(a.fi)
  BY DEF Translated
<1>3. CASE h = "open"
  BY <1>1, <1>2, <1>3 DEF fuse_open, Opening
<1>4. CASE h = "create"
  BY <1>1, <1>2, <1>4 DEF fuse_creat, Opening
<1>5. CASE h = "opendir"
  BY <1>1, <1>2, <1>5 DEF fuse_opendir, Opening
<1>6. CASE h = "mkdir"
  BY <1>1, <1>6 DEF fuse_mkdir, Locked
<1> QED BY <1>3, <1>4, <1>5, <1>6

\* Those of the handlers that read.
LEMMA ReadRequests ==
    ASSUME NEW h \in {"getattr", "statfs", "readlink", "read", "readdir"}, NEW a
    PROVE  LET b == zhwkrfsp(h, a).req
               t == zhwkrfsp(h, a).test
           IN /\ b.opid = OPER_READ
              /\ b.fh = IF h \in {"read", "readdir"} THEN a.fh ELSE Unset
              /\ \/ h = "getattr" /\ b.mode = "RD_STAT" /\ t = Exact(SzUstat)
                 \/ h = "statfs" /\ b.mode = "RD_STATFS" /\ t = Exact(SzUstatvfs)
                 \/ h = "readlink" /\ b.mode = "RD_LINK" /\ t = UpTo(ReadlinkBuf)
                 \/ h = "read" /\ b.mode = "RD_REGULAR" /\ t = ReadTest(a.num) /\ b.count = a.num
                 \/ h = "readdir" /\ b.mode = "RD_DIR" /\ t = Dirents
<1> USE DEF zhwkrfsp, Locked, Handling, Read, Request
<1>1. CASE h = "getattr"
  BY <1>1 DEF fuse_getattr
<1>2. CASE h = "statfs"
  BY <1>2 DEF fuse_statfs
<1>3. CASE h = "readlink"
  BY <1>3 DEF fuse_readlink
<1>4. CASE h = "read"
  BY <1>4 DEF fuse_read
<1>5. CASE h = "readdir"
  BY <1>5 DEF fuse_readdir
<1> QED BY <1>1, <1>2, <1>3, <1>4, <1>5

\* Those of the handlers that write.
LEMMA WriteRequests ==
    ASSUME NEW h \in {"rmdir", "symlink", "chmod", "truncate", "access", "unlink", "utimens", "write"},
           NEW a
    PROVE  LET b == zhwkrfsp(h, a).req IN
           /\ b.opid = OPER_WRITE /\ b.fh = IF h = "write" THEN a.fh ELSE Unset
           /\ \/ h = "write" /\ b.mode = "WR_REGULAR" /\ b.count = a.num
              \/ h # "write" /\ b.mode \in WriteModes \ {"WR_REGULAR"}
           /\ zhwkrfsp(h, a).test = Exact(0)
<1> USE DEF zhwkrfsp, Locked, Unlocked, Handling, Writ, Request, WriteModes
<1>1. CASE h = "write"
  BY <1>1 DEF fuse_write
<1>2. CASE h \in {"rmdir", "symlink", "truncate"}
  BY <1>2 DEF fuse_rmdir, fuse_symlink, fuse_truncate
<1>3. CASE h \in {"chmod", "access", "unlink", "utimens"}
  BY <1>3 DEF fuse_chmod, fuse_access, fuse_unlink, fuse_utimens
<1> QED BY <1>1, <1>2, <1>3

\* Those of the handlers that close.
LEMMA CloseRequests ==
    ASSUME NEW h \in {"release", "releasedir"}, NEW a
    PROVE  LET b == zhwkrfsp(h, a).req IN
           /\ b.opid = OPER_CLOSE /\ b.fh = a.fh
           /\ b.mode = IF h = "release" THEN "file" ELSE "dir"
           /\ zhwkrfsp(h, a).test = Exact(0)
BY DEF zhwkrfsp, fuse_release, fuse_releasedir, Locked, Handling, Clos, Request

\* What a request of a file says about it: whether it opens or closes it, as which
\* kind, and under which handle.
LEMMA RequestFields ==
    ASSUME NEW h \in HandlerNames, NEW a
    PROVE  LET b == zhwkrfsp(h, a).req IN
           /\ b.opid = OPER_CLOSE <=> Closes(h)
           /\ b.fh = IF UsesFile(h) THEN a.fh ELSE Unset
           /\ UsesFile(h) => (b.mode \in {"dir", "RD_DIR"} <=> IsDir(h))
           /\ Opens(h) => /\ b.opid = OPER_OPEN /\ "OPEN_MKDIR" \notin b.flags
                          /\ "OPEN_DIRECTORY" \in b.flags <=> IsDir(h)
<1> USE DEF Opens, Closes, UsesFile, IsDir
<1>1. CASE h \in {"open", "create", "opendir", "mkdir"}
  BY <1>1, OpenRequests
<1>2. CASE h \in {"getattr", "statfs", "readlink", "read", "readdir"}
  BY <1>2, ReadRequests
<1>3. CASE h \in {"rmdir", "symlink", "chmod", "truncate", "access", "unlink", "utimens", "write"}
  BY <1>3, WriteRequests
<1>4. CASE h \in {"release", "releasedir"}
  BY <1>4, CloseRequests
<1> QED BY <1>1, <1>2, <1>3, <1>4 DEF HandlerNames

\* The successful answers to a request, one by one.
LEMMA SuccessForms ==
    ASSUME NEW msg, NEW r \in Successes(msg)
    PROVE  LET b == msg.b IN
           /\ b.opid = OPER_OPEN /\ b.mode = "open" =>
                 \/ "OPEN_MKDIR" \in b.flags /\ r = ReplyTo(msg, 0, 0)
                 \/ "OPEN_MKDIR" \notin b.flags /\ r = ReplyTo(msg, 0, SzRpOpen)
                 \/ /\ "OPEN_MKDIR" \notin b.flags
                    /\ \E x \in Handles : hdl[x] = "none" /\ r = HandleReply(msg, x)
           /\ b.opid # OPER_OPEN =>
                 /\ b.mode = "RD_REGULAR" => \E k \in 0..b.count : r = ReplyTo(msg, k, k)
                 /\ b.mode = "RD_STAT" => r = ReplyTo(msg, 0, SzUstat)
                 /\ b.mode = "RD_STATFS" => r = ReplyTo(msg, 0, SzUstatvfs)
                 /\ b.mode = "RD_LINK" => \E k \in LinkLens : r = ReplyTo(msg, 0, k)
                 /\ b.mode = "RD_DIR" => \E k \in 0..MaxDirents : r = ReplyTo(msg, 0, k * SzUdirent)
                 /\ b.mode = "WR_REGULAR" => \E k \in 0..b.count : r = ReplyTo(msg, k, 0)
                 /\ b.mode \notin ReadModes \cup {"WR_REGULAR"} => r = ReplyTo(msg, 0, 0)
<1>1. CASE msg.b.opid = OPER_OPEN /\ msg.b.mode = "open" /\ "OPEN_MKDIR" \in msg.b.flags
  <2>1. Successes(msg) = {ReplyTo(msg, 0, 0)}
    BY <1>1 DEF Successes
  <2> QED BY <1>1, <2>1
<1>2. CASE msg.b.opid = OPER_OPEN /\ msg.b.mode = "open" /\ "OPEN_MKDIR" \notin msg.b.flags
  <2>1. Successes(msg) = {ReplyTo(msg, 0, SzRpOpen)} \cup
             {HandleReply(msg, x) : x \in {y \in Handles : hdl[y] = "none"}}
    BY <1>2 DEF Successes
  <2> QED BY <1>2, <2>1
<1>3. CASE msg.b.opid # OPER_OPEN
  BY <1>3 DEF Successes, ReadModes
<1> QED BY <1>1, <1>2, <1>3, Zenon

\* A structure with its header passes the test for it.
LEMMA ExactPasses ==
    ASSUME NEW msg, NEW v \in Nat, NEW e \in Nat
    PROVE  LET r == ReplyTo(msg, v, e) IN
           /\ r.rtvl = v /\ r.size = SzRpHdr + e /\ r.ignore_above = TRUE
           /\ Accepts(Exact(e), r)
BY SizesAssumption DEF ReplyTo, Accepts, Exact

\* r passes the test of handler h, or is too long for the buffer of a read.
Passes(h, a, r) ==
    /\ r.rtvl \in Nat
    /\ \/ Accepts(zhwkrfsp(h, a).test, r)
       \/ h = "read" /\ r.rtvl <= a.num /\ SzRpHdr + r.rtvl > a.num

\* r has no handle, or a new one for an open.
HandleIsNew(h, r) ==
    \/ r.ignore_above = TRUE
    \/ /\ r.ignore_above = FALSE /\ Opens(h)
       /\ r.file_handle \in Handles /\ hdl[r.file_handle] = "none"

\* Every successful answer README.md describes for a handler's request passes the
\* handler's test, except to a read whose data leave no room for the header; and
\* only an open is answered with a handle, one the client does not hold open.
LEMMA SuccessesUsable ==
    ASSUME NEW h \in HandlerNames, NEW a \in Arguments, NEW msg,
           msg.b = zhwkrfsp(h, a).req, NEW r \in Successes(msg)
    PROVE  Passes(h, a, r) /\ HandleIsNew(h, r)
<1> USE DEF Passes, HandleIsNew
<1> DEFINE t == zhwkrfsp(h, a).test
           b == msg.b
<1>1. ASSUME NEW v \in Nat, NEW e \in Nat, r = ReplyTo(msg, v, e)
      PROVE  /\ r.rtvl \in Nat /\ r.ignore_above = TRUE
             /\ t = Exact(e) => Accepts(t, r)
  <2>1. /\ ReplyTo(msg, v, e).rtvl = v /\ ReplyTo(msg, v, e).ignore_above = TRUE
        /\ Accepts(Exact(e), ReplyTo(msg, v, e))
    BY ExactPasses
  <2> HIDE DEF t
  <2> QED BY <1>1, <2>1
<1>2. a.num \in Nat /\ 0 \in Nat /\ SzRpOpen \in Nat /\ SzUstat \in Nat /\ SzUstatvfs \in Nat
  BY SizesAssumption DEF Arguments
<1>3. CASE h \in {"open", "create", "opendir"}
  <2>1. b.opid = OPER_OPEN /\ b.mode = "open" /\ "OPEN_MKDIR" \notin b.flags /\ t = Exact(SzRpOpen)
    BY <1>3, OpenRequests
  <2>2. Opens(h)
    BY <1>3 DEF Opens
  <2>3. \/ r = ReplyTo(msg, 0, SzRpOpen)
        \/ \E x \in Handles : hdl[x] = "none" /\ r = HandleReply(msg, x)
    BY <2>1, SuccessForms
  <2>4. CASE r = ReplyTo(msg, 0, SzRpOpen)
    BY <1>1, <1>2, <2>1, <2>4
  <2>5. ASSUME NEW x \in Handles, hdl[x] = "none", r = HandleReply(msg, x)
        PROVE  /\ r.rtvl \in Nat /\ r.ignore_above = FALSE
               /\ r.file_handle \in Handles /\ hdl[r.file_handle] = "none"
               /\ Accepts(Exact(SzRpOpen), r)
    BY <1>2, <2>5 DEF HandleReply, Accepts, Exact
  <2> QED BY <2>1, <2>2, <2>3, <2>4, <2>5
<1>4. CASE h = "mkdir"
  <2>1. b.opid = OPER_OPEN /\ b.mode = "open" /\ "OPEN_MKDIR" \in b.flags /\ t = Exact(0)
    BY <1>4, OpenRequests
  <2>2. r = ReplyTo(msg, 0, 0)
    BY <2>1, SuccessForms
  <2> QED BY <1>1, <1>2, <2>1, <2>2
<1>5. CASE h = "getattr"
  <2>1. b.opid # OPER_OPEN /\ b.mode = "RD_STAT" /\ t = Exact(SzUstat)
    BY <1>5, ReadRequests
  <2>2. r = ReplyTo(msg, 0, SzUstat)
    BY <2>1, SuccessForms
  <2> QED BY <1>1, <1>2, <2>1, <2>2
<1>6. CASE h = "statfs"
  <2>1. b.opid # OPER_OPEN /\ b.mode = "RD_STATFS" /\ t = Exact(SzUstatvfs)
    BY <1>6, ReadRequests
  <2>2. r = ReplyTo(msg, 0, SzUstatvfs)
    BY <2>1, SuccessForms
  <2> QED BY <1>1, <1>2, <2>1, <2>2
<1>7. CASE h = "read"
  <2>1. b.opid # OPER_OPEN /\ b.mode = "RD_REGULAR" /\ b.count = a.num /\ t = ReadTest(a.num)
    BY <1>7, ReadRequests
  <2>2. \E k \in 0..b.count : r = ReplyTo(msg, k, k)
    BY <2>1, SuccessForms
  <2>3. PICK k \in 0..a.num : r = ReplyTo(msg, k, k)
    BY <2>1, <2>2
  <2>4. k \in Nat /\ k <= a.num
    BY <1>2
  <2>5. r.rtvl = k /\ r.size = SzRpHdr + k /\ r.ignore_above = TRUE
    BY <2>3, <2>4, ExactPasses
  <2>6. Accepts(ReadTest(a.num), r) \/ SzRpHdr + r.rtvl > a.num
    BY <1>2, <2>4, <2>5, SizesAssumption DEF Accepts, ReadTest
  <2> QED BY <1>7, <2>1, <2>4, <2>5, <2>6
<1>8. CASE h = "readlink"
  <2>1. b.opid # OPER_OPEN /\ b.mode = "RD_LINK" /\ t = UpTo(ReadlinkBuf)
    BY <1>8, ReadRequests
  <2>2. PICK k \in LinkLens : r = ReplyTo(msg, 0, k)
    BY <2>1, SuccessForms
  <2>3. k \in Nat /\ k <= ReadlinkBuf
    BY ParametersAssumption, SizesAssumption
  <2>4. r.rtvl = 0 /\ r.size = SzRpHdr + k /\ r.ignore_above = TRUE
    BY <2>2, <2>3 DEF ReplyTo
  <2>5. Accepts(UpTo(ReadlinkBuf), r)
    BY <2>3, <2>4, SizesAssumption DEF Accepts, UpTo
  <2> QED BY <2>1, <2>4, <2>5
<1>9. CASE h = "readdir"
  <2>1. b.opid # OPER_OPEN /\ b.mode = "RD_DIR" /\ t = Dirents
    BY <1>9, ReadRequests
  <2>2. PICK k \in 0..MaxDirents : r = ReplyTo(msg, 0, k * SzUdirent)
    BY <2>1, SuccessForms
  <2>3. k * SzUdirent \in Nat
    BY ParametersAssumption, SizesAssumption
  <2>4. r.rtvl = 0 /\ r.size = SzRpHdr + k * SzUdirent /\ r.ignore_above = TRUE
    BY <2>2, <2>3 DEF ReplyTo
  <2>5. Accepts(Dirents, r)
    BY <2>3, <2>4, SizesAssumption DEF Accepts, Dirents
  <2> QED BY <2>1, <2>4, <2>5
<1>10. CASE h = "write"
  <2>1. b.opid # OPER_OPEN /\ b.mode = "WR_REGULAR" /\ b.count = a.num /\ t = Exact(0)
    BY <1>10, WriteRequests
  <2>2. \E k \in 0..b.count : r = ReplyTo(msg, k, 0)
    BY <2>1, SuccessForms
  <2>3. PICK k \in 0..a.num : r = ReplyTo(msg, k, 0)
    BY <2>1, <2>2
  <2>4. k \in Nat
    BY <1>2
  <2> QED BY <1>1, <1>2, <2>1, <2>3, <2>4
<1>11. CASE h \in {"rmdir", "symlink", "chmod", "truncate", "access", "unlink", "utimens",
                  "release", "releasedir"}
  <2>3. b.opid # OPER_OPEN /\ b.mode \notin ReadModes \cup {"WR_REGULAR"} /\ t = Exact(0)
    <3>1. CASE h \in {"release", "releasedir"}
      BY <3>1, CloseRequests DEF ReadModes
    <3>2. CASE h \notin {"release", "releasedir"}
      <4>1. h \in {"rmdir", "symlink", "chmod", "truncate", "access", "unlink", "utimens"}
        BY <1>11, <3>2
      <4>2. b.opid = OPER_WRITE /\ b.mode \in WriteModes \ {"WR_REGULAR"} /\ t = Exact(0)
        BY <4>1, WriteRequests
      <4> HIDE DEF b, t
      <4> QED BY <4>2 DEF ReadModes, WriteModes
    <3> QED BY <3>1, <3>2
  <2>4. r = ReplyTo(msg, 0, 0)
    BY <2>3, SuccessForms
  <2> QED BY <1>1, <1>2, <2>3, <2>4
<1> QED BY <1>3, <1>4, <1>5, <1>6, <1>7, <1>8, <1>9, <1>10, <1>11 DEF HandlerNames

Returns(w) == Reject(w) \/ SendFail(w) \/ RecvFail(w) \/ ReplyError(w) \/ Finish(w)

\* What the handlers' variables hold while they serve calls.
LEMMA ServingTypes ==
    ASSUME TypeInv
    PROVE  /\ pc \in [Workers -> {"idle", "enter", "send", "hdr", "body"}]
           /\ files \in [Fds -> OpenFile] /\ None \notin Fds
           /\ DOMAIN call = Workers /\ DOMAIN req = Workers /\ DOMAIN got = Workers
           /\ \A w \in Workers : call[w].a \in Arguments /\ call[w].fd \in Fds \cup {None}
           /\ \A w \in Workers : pc[w] # "idle" => call[w].h \in Handlers /\ call[w].h \in HandlerNames
<1>1. TypeWorkers /\ TypeKernel /\ Shape
  BY DEF TypeInv, TypeOK
<1> QED BY <1>1, NoneAssumption, ParametersAssumption DEF TypeWorkers, TypeKernel, Shape

\* A handler opens a file, uses one, or has none.
LEMMA KindsOfHandlers ==
    ASSUME NEW h
    PROVE  /\ Opens(h) => ~Closes(h) /\ ~UsesFile(h)
           /\ Closes(h) => UsesFile(h)
           /\ Kind(h) \in {"file", "dir"} /\ (Kind(h) = "dir" <=> IsDir(h))
BY DEF Opens, Closes, UsesFile, Kind, IsDir

-----------------------------------------------------------------------------
(***************************************************************************)
(* FilesServed: a call has its file, and keeps it.                         *)
(***************************************************************************)

\* The kernel gives a call a file that is in the right state and not in the way of
\* another call.
LEMMA FdInputsFree ==
    ASSUME TypeInv, NEW h \in Handlers, NEW f \in FdInputs(h)
    PROVE  /\ Opens(h) => f \in Fds /\ files[f].st = "free"
           /\ UsesFile(h) => f \in Fds /\ files[f].st = Kind(h)
           /\ ~Opens(h) /\ ~UsesFile(h) => f = None
           /\ \A v \in Workers : pc[v] # "idle" /\ call[v].fd = f =>
                 ~Opens(h) /\ ~Closes(h) /\ (UsesFile(h) => ~Closes(call[v].h))
<1> DEFINE InUse(g, hs) ==
               \E v \in Workers : pc[v] # "idle" /\ call[v].fd = g /\ call[v].h \in hs
<1>1. \A v \in Workers : pc[v] # "idle" => call[v].h \in Handlers
  BY ServingTypes
<1>2. CASE Opens(h)
  <2>1. ~Closes(h) /\ ~UsesFile(h)
    BY <1>2, KindsOfHandlers
  <2>2. f \in {g \in Fds : files[g].st = "free" /\ ~InUse(g, Handlers)}
    BY <1>2, <2>1 DEF FdInputs
  <2> QED BY <1>1, <1>2, <2>1, <2>2
<1>3. CASE Closes(h)
  <2>1. ~Opens(h) /\ UsesFile(h)
    BY <1>3, KindsOfHandlers
  <2>2. f \in {g \in Fds : files[g].st = Kind(h) /\ ~InUse(g, Handlers)}
    BY <1>3, <2>1 DEF FdInputs
  <2> QED BY <1>1, <1>3, <2>1, <2>2
<1>4. CASE UsesFile(h) /\ ~Closes(h)
  <2>1. ~Opens(h)
    BY <1>4, KindsOfHandlers
  <2>2. f \in {g \in Fds : files[g].st = Kind(h) /\ ~InUse(g, {"release", "releasedir"})}
    BY <1>4, <2>1 DEF FdInputs
  <2> QED BY <1>4, <2>1, <2>2 DEF Closes
<1>5. CASE ~Opens(h) /\ ~UsesFile(h)
  <2>1. ~Closes(h)
    BY <1>5, KindsOfHandlers
  <2>2. f = None
    BY <1>5, <2>1 DEF FdInputs
  <2> QED BY <1>5, <2>1, <2>2
<1> QED BY <1>2, <1>3, <1>4, <1>5

\* So a new call has its file.
LEMMA CallServed ==
    ASSUME TypeInv, FilesServed, NEW w \in Workers, Call(w)
    PROVE  FilesServed'
<1>0. PICK h \in Handlers : \E f \in FdInputs(h), num \in NumInputs(h),
                               fi \in IF Opens(h) THEN FileInfo ELSE {NoInfo} :
          call' = [call EXCEPT ![w] =
              [n |-> ncalls + 1, h |-> h, fd |-> f,
               a |-> [fh |-> IF UsesFile(h) THEN files[f].fh ELSE ZeroHandle,
                      num |-> num, fi |-> fi]]]
  BY DEF Call
<1>1. PICK f \in FdInputs(h) :
          /\ call'[w].h = h /\ call'[w].fd = f
          /\ call'[w].a.fh = IF UsesFile(h) THEN files[f].fh ELSE ZeroHandle
          /\ \A v \in Workers \ {w} : call'[v] = call[v]
  BY <1>0, ServingTypes
<1>2. /\ files' = files /\ pc[w] = "idle" /\ pc'[w] # "idle"
      /\ \A v \in Workers \ {w} : pc'[v] = pc[v]
  BY ServingTypes DEF Call, kernelVars
<1>3. ServedFile(call[w])'
  <2>1. files \in [Fds -> OpenFile]
    BY ServingTypes
  <2>2. Opens(h) => f \in Fds /\ files[f].st = "free" /\ call'[w].a.fh = ZeroHandle
    BY <1>1, FdInputsFree, KindsOfHandlers
  <2>3. UsesFile(h) => f \in Fds /\ files[f] = [st |-> Kind(h), fh |-> call'[w].a.fh]
    BY <1>1, <2>1, FdInputsFree DEF OpenFile
  <2>4. ~Opens(h) /\ ~UsesFile(h) => f = None
    BY FdInputsFree
  <2> QED BY <1>1, <1>2, <2>2, <2>3, <2>4 DEF ServedFile
<1>4. ASSUME NEW v \in Workers, v # w, pc[v] # "idle", call[v].fd = f
      PROVE  ~Opens(h) /\ ~Closes(h) /\ ~Opens(call[v].h) /\ ~Closes(call[v].h)
  <2>1. ~Opens(h) /\ ~Closes(h) /\ (UsesFile(h) => ~Closes(call[v].h))
    BY <1>4, FdInputsFree
  <2>2. ServedFile(call[v])
    BY <1>4 DEF FilesServed
  <2>3. CASE UsesFile(h)
    <3>1. files[f].st # "free"
      BY <2>3, FdInputsFree, KindsOfHandlers
    <3> QED BY <1>4, <2>1, <2>2, <2>3, <3>1 DEF ServedFile
  <2>4. CASE ~UsesFile(h)
    <3>1. call[v].fd \notin Fds
      BY <1>4, <2>1, <2>4, FdInputsFree, NoneAssumption
    <3> QED BY <2>1, <2>2, <3>1, KindsOfHandlers DEF ServedFile
  <2> QED BY <2>3, <2>4
<1>5. ASSUME NEW v \in Workers, pc'[v] # "idle" PROVE ServedFile(call[v])'
  <2>1. CASE v = w
    BY <1>3, <2>1
  <2>2. CASE v # w
    BY <1>1, <1>2, <1>5, <2>2 DEF FilesServed, ServedFile
  <2> QED BY <2>1, <2>2
<1>6. ASSUME NEW u \in Workers, NEW v \in Workers, u # v, pc'[u] # "idle", pc'[v] # "idle",
             call'[u].fd = call'[v].fd
      PROVE  ~Opens(call'[u].h) /\ ~Closes(call'[u].h)
  BY <1>1, <1>2, <1>4, <1>6 DEF FilesServed
<1> QED BY <1>5, <1>6 DEF FilesServed

\* What a return does to the kernel's files: a close frees its file, an open that
\* has its reply opens it, and nothing else changes.
LEMMA ReturnFiles ==
    ASSUME TypeInv, FilesServed, NEW w \in Workers, Returns(w)
    PROVE  /\ pc[w] # "idle" /\ pc' = [pc EXCEPT ![w] = "idle"]
           /\ UNCHANGED <<proc, call, req, got, in, out, clientVars>>
           /\ conn' = conn \/ conn' = "dead"
           /\ DOMAIN files' = Fds
           /\ \A f \in Fds : f # call[w].fd => files'[f] = files[f]
           /\ call[w].fd \in Fds =>
                 files'[call[w].fd] = IF Closes(call[w].h) THEN [st |-> "free", fh |-> ZeroHandle]
                                      ELSE IF Opens(call[w].h) /\ Finish(w) THEN OpenedFile(w)
                                      ELSE files[call[w].fd]
<1> USE DEF Fail, Return, q__Mutex_unlock, Returns
<1>1. CASE Reject(w) \/ SendFail(w) \/ RecvFail(w) \/ ReplyError(w)
  <2>1. ~Finish(w)
    <3>1. CASE Finish(w)
      BY <1>1, <3>1 DEF Reject, SendFail, RecvFail, ReplyError, Finish
    <3> QED BY <3>1
  <2> QED BY <1>1, <2>1 DEF Reject, SendFail, RecvFail, ReplyError
<1>2. CASE Finish(w)
  BY <1>2, KindsOfHandlers DEF Finish
<1> QED BY <1>1, <1>2

\* A call keeps its file when another one returns: that one's was its own.
LEMMA ReturnServed ==
    ASSUME TypeInv, FilesServed, NEW w \in Workers, Returns(w)
    PROVE  FilesServed'
<1>1. /\ pc[w] # "idle" /\ pc'[w] = "idle" /\ call' = call
      /\ \A v \in Workers \ {w} : pc'[v] = pc[v]
  BY ReturnFiles, ServingTypes
<1>2. ASSUME NEW v \in Workers, v # w, pc[v] # "idle", call[v].fd \in Fds
      PROVE  files'[call[v].fd] = files[call[v].fd]
  <2>1. CASE call[v].fd # call[w].fd
    BY <1>2, <2>1, ReturnFiles
  <2>2. CASE call[v].fd = call[w].fd
    <3>1. ~Opens(call[w].h) /\ ~Closes(call[w].h)
      BY <1>1, <1>2, <2>2 DEF FilesServed
    <3> QED BY <1>2, <2>2, <3>1, ReturnFiles
  <2> QED BY <2>1, <2>2
<1>3. ASSUME NEW v \in Workers, pc'[v] # "idle" PROVE ServedFile(call[v])'
  <2>1. v # w /\ pc[v] # "idle" /\ ServedFile(call[v])
    BY <1>1, <1>3 DEF FilesServed
  <2> QED BY <1>1, <1>2, <2>1 DEF ServedFile
<1> QED BY <1>1, <1>3 DEF FilesServed

\* No other step touches a file or the calls' files.
LEMMA FilesServedStable ==
    ASSUME FilesServed, files' = files, call' = call,
           \A v \in Workers : pc'[v] # "idle" => pc[v] # "idle"
    PROVE  FilesServed'
<1>1. ASSUME NEW v \in Workers, pc[v] # "idle" PROVE ServedFile(call[v])'
  BY <1>1 DEF FilesServed, ServedFile
<1> QED BY <1>1 DEF FilesServed

\* Neither the client's steps nor the connection's concern the handlers.
Outside == Client \/ Leave \/ ConnBreak \/ UNCHANGED vars
\* The client and the connection touch nothing of the workers and the kernel.
LEMMA OutsideFrame ==
    ASSUME Outside
    PROVE  UNCHANGED <<proc, workerVars, kernelVars, ret>>
BY DEF Outside, Client, ClientRead, ClientExec, ClientSend, Leave, ConnBreak, vars

\* The steps of a handler that neither start nor end a call.
GoesOn(w) == \/ Enter(w) \/ SendByte(w) \/ SigPipe(w) \/ RecvByte(w)
             \/ ReplyAbort(w) \/ ReplyAccept(w)
\* A handler that goes on touches no other worker, no file and nothing of the client.
LEMMA GoesOnFrame ==
    ASSUME TypeInv, NEW w \in Workers, GoesOn(w)
    PROVE  /\ proc = "run" /\ pc[w] # "idle" /\ pc'[w] # "idle"
           /\ \A v \in Workers \ {w} : pc'[v] = pc[v] /\ req'[v] = req[v] /\ got'[v] = got[v]
           /\ UNCHANGED <<call, files, cup, cgot, crep, hdl>>
           /\ proc' = "run" /\ conn' = "open" => conn = "open"
<1> USE ServingTypes DEF kernelVars, clientVars, workerVars
<1>1. CASE Enter(w)
  BY <1>1 DEF Enter, q__Mutex_lock
<1>2. CASE SendByte(w)
  BY <1>2 DEF SendByte
<1>3. CASE SigPipe(w)
  BY <1>3 DEF SigPipe
<1>4. CASE RecvByte(w)
  BY <1>4 DEF RecvByte
<1>5. CASE ReplyAbort(w)
  BY <1>5 DEF ReplyAbort
<1>6. CASE ReplyAccept(w)
  BY <1>6 DEF ReplyAccept
<1> QED BY <1>1, <1>2, <1>3, <1>4, <1>5, <1>6 DEF GoesOn

\* Every step is one of four kinds.
LEMMA StepKinds ==
    ASSUME [Next]_vars
    PROVE  \/ \E w \in Workers : Call(w) \/ Returns(w) \/ GoesOn(w)
           \/ Outside
<1>1. ASSUME NEW w \in Workers, Call(w) \/ Step(w)
      PROVE  Call(w) \/ Returns(w) \/ GoesOn(w) \/ UNCHANGED vars
  BY <1>1 DEF Step, Returns, GoesOn, SpinEOF
<1>2. ClientLost \/ PeerClose => Leave
  BY DEF ClientLost, PeerClose
<1>3. Terminated => UNCHANGED vars
  BY DEF Terminated
<1> QED BY <1>1, <1>2, <1>3 DEF Next, Outside

\* Every step keeps the calls on files the kernel has.
LEMMA FilesServedNext ==
    ASSUME TypeInv, FilesServed, [Next]_vars
    PROVE  FilesServed'
<1>1. ASSUME NEW w \in Workers, GoesOn(w) PROVE FilesServed'
  BY <1>1, GoesOnFrame, FilesServedStable
<1>2. CASE Outside
  BY <1>2, OutsideFrame, FilesServedStable DEF workerVars, kernelVars
<1> QED BY <1>1, <1>2, StepKinds, CallServed, ReturnServed

-----------------------------------------------------------------------------
(***************************************************************************)
(* Which replies are under way.                                            *)
(***************************************************************************)

\* A reply that stays where it is, or of which only the server's copy is left.
LEMMA AnsweredSame ==
    ASSUME NEW v \in Workers, Answered(v)', Receiving(v)' => Receiving(v),
           got'[v] = got[v], in' = in, Online' => Online /\ crep' = crep
    PROVE  Answered(v) /\ Incoming(v)' = Incoming(v)
<1>1. Receiving(v) /\ (got[v].k > 0 \/ in # <<>> \/ (Online' /\ crep' # None))
  BY DEF Answered
<1>2. CASE got[v].k > 0 \/ in # <<>>
  BY <1>1, <1>2 DEF Answered, Incoming
<1>3. CASE Online' /\ crep' # None
  BY <1>1, <1>3 DEF Answered, Incoming
<1> QED BY <1>1, <1>2, <1>3

\* Only one handler is waiting for a reply.
LEMMA OneReceiver ==
    ASSUME LockInv, NEW v \in Workers, NEW w \in Workers, Busy(w), Receiving(v)
    PROVE  v = w
BY DEF LockInv, Exclusion, Busy, Receiving

\* sockread moves the reply from the stream to the buffer.
LEMMA RecvByteAnswered ==
    ASSUME TypeInv, LockInv, WireInv, NEW w \in Workers, RecvByte(w),
           NEW v \in Workers, Answered(v)'
    PROVE  Answered(v) /\ Incoming(v)' = Incoming(v)
<1>1. /\ Receiving(w) /\ in # <<>> /\ pc' = pc /\ got'[w] = Gather(got[w], Head(in))
      /\ in \in Seq(Bytes(ReplyMsgs)) /\ got[w].k \in Nat
  BY ServingTypes DEF RecvByte, Receiving, TypeInv, TypeOK, TypeWire, TypeWorkers, Gathers
<1>2. v = w
  BY <1>1, OneReceiver DEF Answered, Receiving, Busy
<1>3. Receives(w)
  BY <1>1 DEF WireInv, ServerEnd
<1>4. Head(in) = [m |-> Incoming(w), at |-> got[w].k]
  BY <1>1, <1>3, RunTail DEF Receives
<1>5. got'[w].m = Incoming(w) /\ got'[w].k = got[w].k + 1
  <2>1. got[w].k = 0 \/ got[w].m = Incoming(w)
    BY <1>1 DEF Incoming
  <2> QED BY <1>1, <1>4, <2>1 DEF Gather
<1> QED BY <1>1, <1>2, <1>5 DEF Answered, Incoming

\* A handler that has just sent its request has no reply yet.
LEMMA SendByteAnswered ==
    ASSUME TypeInv, LockInv, WireInv, NEW w \in Workers, SendByte(w),
           NEW v \in Workers, Answered(v)'
    PROVE  Answered(v) /\ Incoming(v)' = Incoming(v)
<1>0. /\ pc[w] = "send" /\ Busy(w) /\ ~Receiving(w) /\ in' = in /\ crep' = crep
      /\ (Online' => Online) /\ pc'[w] \in {"send", "hdr"}
      /\ pc'[w] = "hdr" => got'[w] = Nothing
      /\ \A u \in Workers \ {w} : pc'[u] = pc[u] /\ got'[u] = got[u]
  BY ServingTypes DEF SendByte, Busy, Receiving, Online, clientVars
<1>1. in = <<>>
  BY <1>0 DEF WireInv, ServerEnd, Sends
<1>2. Online => crep = None
  BY <1>0 DEF WireInv, ClientEnd, Asking, Answering, Online
<1>3. v # w
  <2>1. CASE v = w
    BY <1>0, <1>1, <1>2, <2>1 DEF Answered, Receiving, Nothing
  <2> QED BY <2>1
<1> QED BY <1>0, <1>3, AnsweredSame DEF Receiving

\* The steps of the handlers bring no reply that was not under way before.
LEMMA GoesOnAnswered ==
    ASSUME TypeInv, LockInv, WireInv, NEW w \in Workers, GoesOn(w),
           NEW v \in Workers, Answered(v)'
    PROVE  Answered(v) /\ Incoming(v)' = Incoming(v)
<1> USE DEF kernelVars, clientVars, workerVars
<1>1. CASE Enter(w)
  <2>1. /\ pc' = [pc EXCEPT ![w] = "send"] /\ got' = got /\ in' = in /\ crep' = crep
        /\ Online' = Online
    BY <1>1 DEF Enter, q__Mutex_lock, Online
  <2>2. Receiving(v)' => Receiving(v)
    BY <2>1, ServingTypes DEF Receiving
  <2> QED BY <2>1, <2>2, AnsweredSame
<1>2. CASE SendByte(w)
  BY <1>2, SendByteAnswered
<1>3. CASE SigPipe(w)
  BY <1>3, AnsweredSame DEF SigPipe, Receiving, Online
<1>4. CASE RecvByte(w)
  BY <1>4, RecvByteAnswered
<1>5. CASE ReplyAbort(w)
  BY <1>5, AnsweredSame DEF ReplyAbort, Receiving, Online
<1>6. CASE ReplyAccept(w)
  <2>1. /\ pc[w] = "hdr" /\ pc' = [pc EXCEPT ![w] = "body"] /\ got' = got /\ in' = in
        /\ crep' = crep /\ Online' = Online
    BY <1>6 DEF ReplyAccept, Online
  <2>2. Receiving(v)' => Receiving(v)
    BY <2>1, ServingTypes DEF Receiving
  <2> QED BY <2>1, <2>2, AnsweredSame
<1> QED BY <1>1, <1>2, <1>3, <1>4, <1>5, <1>6 DEF GoesOn

\* The client sends the reply it has composed to the handler that waits for it.
LEMMA ClientSendAnswered ==
    ASSUME TypeInv, LockInv, WireInv, ClientSend, NEW v \in Workers, Answered(v)'
    PROVE  Answered(v) /\ Incoming(v)' = Incoming(v)
<1>0. /\ crep # None /\ UNCHANGED <<proc, conn, pc, got>>
      /\ in' = IF Online THEN Append(in, [m |-> crep, at |-> cput]) ELSE in
  BY DEF ClientSend, workerVars, Online
<1>1. CASE ~Online
  BY <1>0, <1>1, AnsweredSame DEF Online, Receiving
<1>2. CASE Online
  <2>1. Receiving(v)
    BY <1>0 DEF Answered, Receiving
  <2>2. Answering(v)
    BY <1>0, <1>2, <2>1 DEF WireInv, ClientEnd, Online, Busy, Receiving, Asking
  <2>3. Incoming(v) = crep
    BY <1>0, <2>2 DEF Answering
  <2>4. in \in Seq(Bytes(ReplyMsgs)) /\ [m |-> crep, at |-> cput] \in Bytes(ReplyMsgs)
    BY <1>0 DEF TypeInv, TypeOK, TypeWire, TypeClient, Bytes
  <2>5. /\ in' # <<>> /\ (in = <<>> => in'[1] = [m |-> crep, at |-> cput])
        /\ in # <<>> => in'[1] = in[1]
    BY <1>0, <1>2, <2>4
  <2> QED BY <1>0, <1>2, <2>1, <2>3, <2>5 DEF Answered, Incoming
<1> QED BY <1>1, <1>2

\* The client composes a reply for the handler whose request it has read.
LEMMA ClientExecAnswered ==
    ASSUME TypeInv, LockInv, WireInv, WireInv', Conforming, ClientExec, NEW v \in Workers, Answered(v)'
    PROVE  \/ Answered(v) /\ Incoming(v)' = Incoming(v)
           \/ Online /\ Asking(v) /\ ~Answered(v) /\ Busy(v) /\ Incoming(v)' = crep'
<1>0. /\ crep = None /\ UNCHANGED <<proc, conn, pc, got, in>> /\ cgot.k >= SzOpHdr
  BY DEF ClientExec, ClientReady, workerVars
<1>1. Receiving(v) /\ Busy(v) /\ Online' = Online
  BY <1>0 DEF Answered, Receiving, Busy, Online
<1>2. CASE got[v].k > 0 \/ in # <<>>
  BY <1>0, <1>1, <1>2 DEF Answered, Incoming
<1>3. CASE ~(got[v].k > 0) /\ in = <<>>
  <2>1. Online /\ Incoming(v)' = crep'
    BY <1>0, <1>1, <1>3 DEF Answered, Incoming
  <2>2. ~Answered(v)
    BY <1>0, <1>3 DEF Answered
  <2>3. Asking(v)
    <3>1. cgot.k > 0
      BY <1>0, SizesAssumption DEF TypeInv, TypeOK, TypeClient, Gathers
    <3>2. cgot # Nothing
      BY <3>1 DEF Nothing
    <3> QED BY <1>1, <2>1, <3>2 DEF WireInv, ClientEnd, Online, Answering
  <2> QED BY <1>1, <2>1, <2>2, <2>3
<1> QED BY <1>2, <1>3

\* A reply under way was under way before, or the client has just composed it.
LEMMA AnsweredBefore ==
    ASSUME TypeInv, LockInv, WireInv, WireInv', FilesServed, Conforming, [Next]_vars,
           NEW v \in Workers, Answered(v)'
    PROVE  /\ call'[v] = call[v]
           /\ \/ Answered(v) /\ Incoming(v)' = Incoming(v)
              \/ /\ ClientExec /\ Online /\ Asking(v) /\ ~Answered(v) /\ Busy(v)
                 /\ Incoming(v)' = crep'
<1> DEFINE Same == call'[v] = call[v] /\ Answered(v) /\ Incoming(v)' = Incoming(v)
<1>1. ASSUME NEW w \in Workers, Call(w) PROVE Same
  <2>1. /\ pc' = [pc EXCEPT ![w] = "enter"] /\ got' = got /\ in' = in /\ crep' = crep
        /\ Online' = Online /\ \A u \in Workers \ {w} : call'[u] = call[u]
    BY <1>1, ServingTypes DEF Call, Online, clientVars
  <2>2. v # w /\ Receiving(v)
    BY <2>1, ServingTypes DEF Answered, Receiving
  <2> QED BY <2>1, <2>2, AnsweredSame
<1>2. ASSUME NEW w \in Workers, Returns(w) PROVE Same
  <2>1. /\ pc' = [pc EXCEPT ![w] = "idle"] /\ got' = got /\ in' = in /\ crep' = crep
        /\ (Online' => Online) /\ call' = call
    BY <1>2, ReturnFiles DEF Online, clientVars
  <2>2. Receiving(v)' => Receiving(v)
    BY <2>1, ServingTypes DEF Receiving
  <2> QED BY <2>1, <2>2, AnsweredSame
<1>3. ASSUME NEW w \in Workers, GoesOn(w) PROVE Same
  BY <1>3, GoesOnAnswered, GoesOnFrame
<1>4. CASE Outside
  <2>1. call' = call /\ pc' = pc /\ got' = got
    BY <1>4, OutsideFrame DEF workerVars
  <2>2. CASE ClientExec
    BY <2>1, <2>2, ClientExecAnswered
  <2>3. CASE ClientSend
    BY <2>1, <2>3, ClientSendAnswered
  <2>4. CASE ClientRead \/ Leave \/ ConnBreak \/ UNCHANGED vars
    <3>1. in' = in /\ (Online' => Online /\ crep' = crep)
      BY <2>4 DEF ClientRead, Leave, ConnBreak, Online, vars, clientVars
    <3> QED BY <2>1, <3>1, AnsweredSame DEF Receiving
  <2> QED BY <1>4, <2>2, <2>3, <2>4 DEF Outside, Client
<1> QED BY <1>1, <1>2, <1>3, <1>4, StepKinds

\* While the connection is open a reply stays under way until its handler returns.
LEMMA AnsweredAfter ==
    ASSUME TypeInv, LockInv, WireInv, FilesServed, [Next]_vars, Online', NEW v \in Workers, Answered(v)
    PROVE  Answered(v)' \/ Returns(v)
<1> USE DEF kernelVars, clientVars, workerVars
<1>0. Receiving(v) /\ (got[v].k > 0 \/ in # <<>> \/ crep # None)
  BY DEF Answered
<1>1. ASSUME NEW w \in Workers, Call(w) PROVE Answered(v)'
  <2>1. /\ pc[w] = "idle" /\ pc' = [pc EXCEPT ![w] = "enter"] /\ got' = got /\ in' = in
        /\ crep' = crep
    BY <1>1 DEF Call
  <2> QED BY <1>0, <2>1, ServingTypes DEF Answered, Receiving
<1>2. ASSUME NEW w \in Workers, Returns(w), w # v PROVE Answered(v)'
  <2>1. /\ pc' = [pc EXCEPT ![w] = "idle"] /\ got' = got /\ in' = in /\ crep' = crep
    BY <1>2, ReturnFiles
  <2> QED BY <1>0, <1>2, <2>1, ServingTypes DEF Answered, Receiving
<1>3. ASSUME NEW w \in Workers, GoesOn(w) PROVE Answered(v)'
  <2>1. CASE Enter(w) \/ SendByte(w)
    <3>1. pc[w] \in {"enter", "send"} /\ in' = in /\ crep' = crep
      BY <2>1 DEF Enter, q__Mutex_lock, SendByte
    <3>2. v # w
      BY <1>0, <3>1 DEF Receiving
    <3>3. pc'[v] = pc[v] /\ got'[v] = got[v]
      BY <1>3, <3>2, GoesOnFrame
    <3> QED BY <1>0, <3>1, <3>3 DEF Answered, Receiving
  <2>2. CASE SigPipe(w) \/ ReplyAbort(w)
    BY <2>2 DEF SigPipe, ReplyAbort, Online
  <2>3. CASE RecvByte(w)
    <3>1. Receiving(w) /\ pc' = pc /\ got'[w] = Gather(got[w], Head(in)) /\ got[w].k \in Nat
      BY <2>3, ServingTypes DEF RecvByte, Receiving, TypeInv, TypeOK, TypeWorkers, Gathers
    <3>2. v = w
      BY <1>0, <3>1, OneReceiver DEF Receiving, Busy
    <3>3. got'[w].k > 0
      BY <3>1 DEF Gather
    <3> QED BY <3>1, <3>2, <3>3 DEF Answered, Receiving
  <2>4. CASE ReplyAccept(w)
    <3>1. /\ pc' = [pc EXCEPT ![w] = "body"] /\ got' = got /\ in' = in /\ crep' = crep
      BY <2>4 DEF ReplyAccept
    <3> QED BY <1>0, <3>1, ServingTypes DEF Answered, Receiving
  <2> QED BY <1>3, <2>1, <2>2, <2>3, <2>4 DEF GoesOn
<1>4. CASE Outside
  <2>1. pc' = pc /\ got' = got
    BY <1>4, OutsideFrame
  <2>2. CASE ClientRead \/ UNCHANGED vars
    BY <1>0, <2>1, <2>2 DEF ClientRead, vars, Answered, Receiving
  <2>3. CASE ClientExec
    BY <1>0, <2>1, <2>3 DEF ClientExec, Answered, Receiving
  <2>4. CASE ClientSend
    <3>1. in \in Seq(Bytes(ReplyMsgs)) /\ crep # None /\ [m |-> crep, at |-> cput] \in Bytes(ReplyMsgs)
      BY <2>4 DEF ClientSend, TypeInv, TypeOK, TypeWire, TypeClient, Bytes
    <3>2. in' # <<>>
      BY <2>4, <3>1 DEF ClientSend, Online
    <3> QED BY <1>0, <2>1, <3>2 DEF Answered, Receiving
  <2>5. CASE Leave \/ ConnBreak
    BY <2>5 DEF Leave, ConnBreak, Online
  <2> QED BY <1>4, <2>2, <2>3, <2>4, <2>5 DEF Outside, Client
<1> QED BY <1>1, <1>2, <1>3, <1>4, StepKinds

-----------------------------------------------------------------------------
(***************************************************************************)
(* RepliesUsable and AbortOnlyOversizedRead.                               *)
(***************************************************************************)

\* The request a handler waits for is the one it has composed.
LEMMA RequestsComposed ==
    ASSUME TypeInv, FilesServed, \A w \in Workers : Busy(w) => req[w].b = Handler(w).req, [Next]_vars
    PROVE  \A w \in Workers : Busy(w)' => (req[w].b = Handler(w).req)'
<1>0. SUFFICES ASSUME NEW v \in Workers, Busy(v)'
               PROVE  req'[v].b = Handler(v)'.req
  OBVIOUS
<1>1. ASSUME Busy(v), req'[v] = req[v], call'[v] = call[v] PROVE req'[v].b = Handler(v)'.req
  BY <1>1 DEF Handler
<1>2. ASSUME NEW w \in Workers, Call(w) PROVE req'[v].b = Handler(v)'.req
  <2>1. /\ pc' = [pc EXCEPT ![w] = "enter"] /\ req' = req
        /\ \A u \in Workers \ {w} : call'[u] = call[u]
    BY <1>2, ServingTypes DEF Call
  <2> QED BY <1>0, <1>1, <2>1, ServingTypes DEF Busy
<1>3. ASSUME NEW w \in Workers, Returns(w) PROVE req'[v].b = Handler(v)'.req
  BY <1>0, <1>1, <1>3, ReturnFiles, ServingTypes DEF Busy
<1>4. ASSUME NEW w \in Workers, GoesOn(w) PROVE req'[v].b = Handler(v)'.req
  <2>1. CASE v # w
    BY <1>0, <1>1, <1>4, <2>1, GoesOnFrame DEF Busy
  <2>2. CASE v = w /\ Enter(w)
    BY <2>2, ServingTypes DEF Enter, q__Mutex_lock, Handler
  <2>3. CASE v = w /\ ~Enter(w)
    <3>1. Busy(w) /\ req' = req
      BY <1>4, <2>3 DEF GoesOn, SendByte, SigPipe, RecvByte, ReplyAbort, ReplyAccept, Busy, workerVars
    <3> QED BY <1>1, <1>4, <2>3, <3>1, GoesOnFrame
  <2> QED BY <2>1, <2>2, <2>3
<1>5. CASE Outside
  BY <1>0, <1>1, <1>5, OutsideFrame DEF Busy, workerVars
<1> QED BY <1>2, <1>3, <1>4, <1>5, StepKinds

\* What the client answers to the request of a handler that is asking: the handler
\* can use it, and only an open gets a handle, a new one.
LEMMA AnswerUsable ==
    ASSUME TypeInv, WireInv, RepliesUsable, Conforming, ClientExec, NEW v \in Workers,
           Asking(v), Busy(v)
    PROVE  /\ cgot.m = req[v] /\ hdl' = HandlesAfter(req[v], crep')
           /\ Usable(v, crep')
           /\ crep'.ignore_above = TRUE \/ crep'.ignore_above = FALSE
           /\ ~crep'.ignore_above =>
                 /\ Opens(call[v].h) /\ crep'.rtvl >= 0
                 /\ crep'.file_handle \in Handles /\ hdl[crep'.file_handle] = "none"
<1> DEFINE h == call[v].h
           a == call[v].a
<1>1. cgot.k >= SzOpHdr /\ cgot.k \in Nat
  BY DEF ClientExec, ClientReady, TypeInv, TypeOK, TypeClient, Gathers
<1>2. cgot.m = req[v]
  BY <1>1, SizesAssumption DEF Asking
<1>3. h \in HandlerNames /\ a \in Arguments /\ req[v].b = zhwkrfsp(h, a).req
  BY ServingTypes DEF Busy, RepliesUsable, Handler
<1>4. PICK r \in Successes(req[v]) \cup {Failure(req[v])} :
          hdl' = HandlesAfter(req[v], r) /\ crep' = r
  BY <1>2 DEF ClientExec, Conforming
<1>5. CASE r = Failure(req[v])
  <2>1. r.rtvl = -1 /\ r.ignore_above = TRUE
    BY <1>5 DEF Failure, ReplyTo
  <2> QED BY <1>2, <1>4, <2>1 DEF Usable
<1>6. CASE r \in Successes(req[v])
  <2>1. Passes(h, a, r) /\ HandleIsNew(h, r)
    <3> HIDE DEF h, a
    <3> QED BY <1>3, <1>6, SuccessesUsable
  <2>2. Usable(v, r)
    BY <2>1 DEF Passes, Usable, Oversized, Handler
  <2>3. r.rtvl >= 0
    BY <2>1 DEF Passes
  <2> QED BY <1>2, <1>4, <2>1, <2>2, <2>3 DEF HandleIsNew
<1> QED BY <1>4, <1>5, <1>6

\* Every reply under way can be used by its handler.
LEMMA RepliesUsableNext ==
    ASSUME TypeInv, LockInv, WireInv, WireInv', FilesServed, RepliesUsable, Conforming, [Next]_vars
    PROVE  RepliesUsable'
<1>1. ASSUME NEW v \in Workers, Answered(v)' PROVE Usable(v, Incoming(v))'
  <2>1. call'[v] = call[v]
    BY <1>1, AnsweredBefore
  <2>2. Usable(v, Incoming(v)')
    <3>1. CASE Answered(v) /\ Incoming(v)' = Incoming(v)
      BY <3>1 DEF RepliesUsable
    <3>2. CASE ClientExec /\ Asking(v) /\ Busy(v) /\ Incoming(v)' = crep'
      BY <3>2, AnswerUsable
    <3> QED BY <1>1, <3>1, <3>2, AnsweredBefore
  <2> QED BY <2>1, <2>2 DEF Usable, Oversized, Handler
<1> QED BY <1>1, RequestsComposed DEF RepliesUsable

\* The test looks at the size and the value of a reply only.
LEMMA AcceptsHeader ==
    ASSUME NEW t, NEW r
    PROVE  Accepts(t, [size |-> r.size, rtvl |-> r.rtvl]) = Accepts(t, r)
BY DEF Accepts

\* So a handler aborts only when its reply is one to a read that leaves no room for
\* the header; after that no handler runs.
LEMMA AbortNext ==
    ASSUME TypeInv, WireInv, FilesServed, RepliesUsable, AbortOnlyOversizedRead, [Next]_vars
    PROVE  AbortOnlyOversizedRead'
<1>0. SUFFICES ASSUME proc' = "abort"
               PROVE  \E w \in Workers : /\ pc'[w] = "hdr" /\ got'[w].m.n = call'[w].n
                                         /\ Oversized(w, got[w].m)'
  BY DEF AbortOnlyOversizedRead
<1>1. ASSUME NEW w \in Workers, ReplyAbort(w)
      PROVE  pc'[w] = "hdr" /\ got'[w].m.n = call'[w].n /\ Oversized(w, got[w].m)'
  <2>1. /\ pc[w] = "hdr" /\ got[w].k = SzRpHdr /\ UNCHANGED <<pc, got, call>>
    BY <1>1 DEF ReplyAbort
  <2>2. /\ Headers(got[w]) = {[size |-> got[w].m.size, rtvl |-> got[w].m.rtvl]}
        /\ Incoming(w) = got[w].m /\ IsReplyTo(got[w].m, req[w])
    BY <2>1, HeaderRead DEF WireInv
  <2>3. got[w].m.rtvl >= 0 /\ ~Accepts(Handler(w).test, got[w].m)
    BY <1>1, <2>2, AcceptsHeader DEF ReplyAbort
  <2>4. Answered(w)
    BY <2>1, SizesAssumption DEF Answered, Receiving
  <2>5. Oversized(w, got[w].m)
    BY <2>2, <2>3, <2>4 DEF RepliesUsable, Usable
  <2>6. req[w].n = call[w].n
    BY <2>1 DEF WireInv, ServerEnd, Busy
  <2> QED BY <2>1, <2>2, <2>5, <2>6 DEF IsReplyTo, Oversized
<1>2. ASSUME NEW w \in Workers, Call(w) \/ Returns(w) \/ GoesOn(w), ~ReplyAbort(w) PROVE FALSE
  <2>1. CASE Call(w)
    BY <1>0, <2>1 DEF Call
  <2>2. CASE Returns(w)
    BY <1>0, <2>2, ReturnFiles DEF Returns, Reject, SendFail, RecvFail, ReplyError, Finish
  <2>3. CASE GoesOn(w)
    BY <1>0, <1>2, <2>3 DEF GoesOn, Enter, q__Mutex_lock, SendByte, SigPipe, RecvByte, ReplyAccept
  <2> QED BY <1>2, <2>1, <2>2, <2>3
<1>3. CASE Outside
  <2>1. UNCHANGED <<proc, pc, call, got>>
    BY <1>3, OutsideFrame DEF workerVars
  <2> QED BY <1>0, <2>1 DEF AbortOnlyOversizedRead, Oversized
<1> QED BY <1>1, <1>2, <1>3, StepKinds

-----------------------------------------------------------------------------
(***************************************************************************)
(* LiveNames: requests under way name open handles.                        *)
(***************************************************************************)

\* The request a handler is sending names the handle of its file.
LEMMA SentNameLives ==
    ASSUME TypeInv, LockInv, FilesServed, RepliesUsable, HandlesOwned, NEW w \in Workers,
           pc[w] = "send"
    PROVE  Names(req[w])
<1> DEFINE h == call[w].h
           f == call[w].fd
<1>1. h \in HandlerNames /\ ServedFile(call[w]) /\ req[w].b = zhwkrfsp(h, call[w].a).req
  BY ServingTypes DEF FilesServed, RepliesUsable, Busy, Handler
<1>2. /\ req[w].b.fh = IF UsesFile(h) THEN call[w].a.fh ELSE Unset
      /\ UsesFile(h) => (req[w].b.mode \in {"dir", "RD_DIR"} <=> IsDir(h))
  BY <1>1, RequestFields
<1>3. CASE ~UsesFile(h)
  BY <1>2, <1>3, HandlesAssumption DEF Names
<1>4. CASE UsesFile(h)
  <2>1. f \in Fds /\ files[f].st = Kind(h) /\ files[f].fh = req[w].b.fh
    BY <1>1, <1>2, <1>4 DEF ServedFile
  <2>2. ASSUME req[w].b.fh \in Handles
        PROVE  hdl[req[w].b.fh] = IF req[w].b.mode \in {"dir", "RD_DIR"} THEN "dir" ELSE "file"
    <3>1. f \in OpenFiles
      BY <2>1, <2>2, HandlesAssumption, KindsOfHandlers DEF OpenFiles
    <3>2. ~GivenBack(f)
      BY OneReceiver DEF GivenBack, Answered, Busy, Receiving
    <3>3. hdl[req[w].b.fh] = Kind(h)
      BY <2>1, <3>1, <3>2 DEF HandlesOwned
    <3> QED BY <1>2, <1>4, <3>3, KindsOfHandlers
  <2> QED BY <2>2 DEF Names
<1> QED BY <1>3, <1>4

\* It stays so until the client executes the request, and nothing is left then.
LEMMA LiveNamesNext ==
    ASSUME TypeInv, LockInv, CallInv, FilesServed, RepliesUsable, LiveNames, Online => HandlesOwned,
           Conforming, [Next]_vars
    PROVE  LiveNames'
<1> USE DEF kernelVars, clientVars, workerVars
<1>0. out \in Seq(Bytes(RequestMsgs)) /\ cgot.k \in Nat
  BY DEF TypeInv, TypeOK, TypeWire, TypeClient, Gathers
<1>1. ASSUME UNCHANGED <<out, cgot, hdl>> PROVE LiveNames'
  BY <1>1 DEF LiveNames, Names
<1>2. ASSUME out' = <<>>, cgot' = Nothing PROVE LiveNames'
  BY <1>2 DEF LiveNames, Nothing
<1>3. ASSUME NEW w \in Workers, Call(w) \/ Returns(w) PROVE LiveNames'
  BY <1>1, <1>3, ReturnFiles DEF Call
<1>4. ASSUME NEW w \in Workers, GoesOn(w) PROVE LiveNames'
  <2>1. CASE SendByte(w) /\ conn = "open"
    <3>1. pc[w] = "send" /\ Online /\ cgot' = cgot /\ hdl' = hdl
          /\ out' = Append(out, [m |-> req[w], at |-> already[w]])
      BY <2>1 DEF SendByte, Online
    <3>2. Names(req[w])
      BY <3>1, SentNameLives
    <3>3. [m |-> req[w], at |-> already[w]] \in Bytes(RequestMsgs)
      BY <3>1, BusyTypes DEF Busy, Bytes
    <3>4. ASSUME NEW i \in 1..Len(out') PROVE Names(out'[i].m)
      BY <1>0, <3>1, <3>2, <3>3 DEF LiveNames
    <3> QED BY <3>1, <3>4 DEF LiveNames, Names
  <2>2. CASE ~(SendByte(w) /\ conn = "open")
    <3>1. UNCHANGED <<out, cgot, hdl>>
      BY <1>4, <2>2 DEF GoesOn, Enter, q__Mutex_lock, SendByte, SigPipe, RecvByte, ReplyAbort, ReplyAccept
    <3> QED BY <1>1, <3>1
  <2> QED BY <2>1, <2>2
<1>5. CASE ClientRead
  <2>1. out # <<>> /\ out' = Tail(out) /\ cgot' = Gather(cgot, Head(out)) /\ hdl' = hdl
    BY <1>5, ClientReadsRight DEF ClientRead, CallInv
  <2>2. cgot'.m \in {cgot.m, Head(out).m} /\ (cgot.k = 0 => cgot'.m = Head(out).m)
    BY <2>1 DEF Gather
  <2>3. Names(Head(out).m)
    BY <1>0, <2>1 DEF LiveNames
  <2>4. Names(cgot'.m)
    BY <1>0, <2>2, <2>3 DEF LiveNames
  <2>5. ASSUME NEW i \in 1..Len(out') PROVE Names(out'[i].m)
    BY <1>0, <2>1 DEF LiveNames
  <2> QED BY <2>1, <2>4, <2>5 DEF LiveNames, Names
<1>6. CASE ClientExec
  BY <1>2, <1>6, ExecutedWhole DEF ClientExec, CallInv
<1>7. CASE ClientSend
  BY <1>1, <1>7 DEF ClientSend
<1>8. CASE Leave
  BY <1>2, <1>8 DEF Leave
<1>9. CASE ConnBreak \/ UNCHANGED vars
  BY <1>1, <1>9 DEF ConnBreak, vars
<1> QED BY <1>3, <1>4, <1>5, <1>6, <1>7, <1>8, <1>9, StepKinds DEF Outside, Client

-----------------------------------------------------------------------------
(***************************************************************************)
(* HandlesOwned: where each of the client's handles is.                    *)
(***************************************************************************)

\* A step that touches neither files, handles nor the replies under way.
LEMMA OwnedStable ==
    ASSUME HandlesOwned, UNCHANGED <<files, hdl>>,
           \A v \in Workers : Answered(v)' <=> Answered(v),
           \A v \in Workers : Answered(v) => Incoming(v)' = Incoming(v) /\ call'[v] = call[v]
    PROVE  HandlesOwned'
<1>1. OpenFiles' = OpenFiles
  BY DEF OpenFiles
<1>2. \A f : GivenBack(f)' <=> GivenBack(f)
  BY DEF GivenBack
<1>3. \A x : \A w \in Workers : Brings(w, x)' <=> Brings(w, x)
  BY DEF Brings
<1>4. ASSUME NEW f \in OpenFiles'
      PROVE  /\ (files[f].fh)' \in Handles
             /\ (hdl[files[f].fh])' = IF GivenBack(f)' THEN "none" ELSE (files[f].st)'
  BY <1>1, <1>2 DEF HandlesOwned
<1>5. \A f, g \in OpenFiles' : (files[f].fh = files[g].fh)' => f = g
  BY <1>1 DEF HandlesOwned
<1>6. ASSUME NEW w \in Workers, Answered(w)', ~Incoming(w)'.ignore_above
      PROVE  /\ Opens(call'[w].h) /\ Incoming(w)'.rtvl >= 0 /\ Incoming(w)'.file_handle \in Handles
             /\ hdl'[Incoming(w)'.file_handle] = Kind(call'[w].h)
             /\ \A f \in OpenFiles' : files'[f].fh # Incoming(w)'.file_handle
  <2>1. Answered(w) /\ Incoming(w)' = Incoming(w) /\ call'[w] = call[w]
    BY <1>6
  <2> QED BY <1>1, <1>6, <2>1 DEF HandlesOwned
<1>7. ASSUME NEW x \in Handles, hdl'[x] # "none"
      PROVE  (\E f \in OpenFiles' : files'[f].fh = x) \/ (\E w \in Workers : Brings(w, x)')
  BY <1>1, <1>3, <1>7 DEF HandlesOwned
<1> QED BY <1>4, <1>5, <1>6, <1>7 DEF HandlesOwned

\* When no reply is under way, the handles are those of the open files.
Settled ==
    /\ \A f \in OpenFiles : files[f].fh \in Handles /\ hdl[files[f].fh] = files[f].st
    /\ \A f, g \in OpenFiles : files[f].fh = files[g].fh => f = g
    /\ \A x \in Handles : hdl[x] # "none" => \E f \in OpenFiles : files[f].fh = x
\* While no call has been answered, each handle is held by its file alone.
LEMMA SettledOwned ==
    ASSUME \A v \in Workers : ~Answered(v)
    PROVE  HandlesOwned <=> Settled
<1>1. \A f : ~GivenBack(f)
  BY DEF GivenBack
<1>2. \A x : \A w \in Workers : ~Brings(w, x)
  BY DEF Brings
<1> QED BY <1>1, <1>2 DEF HandlesOwned, Settled

\* A handler that has its reply returns: an open's file takes the handle over, a
\* close's file is forgotten with the handle.
LEMMA ReturnOwned ==
    ASSUME TypeInv, FilesServed, HandlesOwned, NEW w \in Workers, Returns(w), Answered(w),
           \A v \in Workers : Answered(v) => v = w,
           Finish(w) \/ Incoming(w).rtvl < 0, Finish(w) => Incoming(w) = got[w].m,
           Incoming(w) \in ReplyMsgs
    PROVE  Settled'
<1> DEFINE h == call[w].h
           f == call[w].fd
           r == Incoming(w)
<1>0. /\ hdl' = hdl /\ DOMAIN files' = Fds /\ ServedFile(call[w]) /\ f \in Fds \cup {None}
      /\ \A g \in Fds : g # f => files'[g] = files[g]
  BY ReturnFiles, ServingTypes DEF FilesServed, clientVars
<1>1. \A g \in OpenFiles : GivenBack(g) <=> Closes(h) /\ g = f
  BY DEF GivenBack
<1>2. \A x \in Handles : (\E v \in Workers : Brings(v, x)) =>
                            Opens(h) /\ ~r.ignore_above /\ r.file_handle = x
  BY DEF Brings
<1>3. ~r.ignore_above =>
         /\ Opens(h) /\ r.rtvl >= 0 /\ r.file_handle \in Handles /\ hdl[r.file_handle] = Kind(h)
         /\ \A g \in OpenFiles : files[g].fh # r.file_handle
  BY DEF HandlesOwned
<1>4. CASE Closes(h)
  <2>1. ~Opens(h) /\ UsesFile(h) /\ f \in Fds
    BY <1>0, <1>4, KindsOfHandlers DEF ServedFile
  <2>2. files'[f] = [st |-> "free", fh |-> ZeroHandle]
    BY <1>4, <2>1, ReturnFiles
  <2>3. OpenFiles' = OpenFiles \ {f} /\ \A g \in OpenFiles' : files'[g] = files[g]
    BY <1>0, <2>2 DEF OpenFiles
  <2>4. ASSUME NEW x \in Handles, hdl[x] # "none" PROVE \E g \in OpenFiles' : files'[g].fh = x
    <3>1. PICK g \in OpenFiles : files[g].fh = x
      BY <1>2, <2>1, <2>4 DEF HandlesOwned
    <3>2. g # f
      BY <1>1, <1>4, <2>4, <3>1 DEF HandlesOwned
    <3> QED BY <2>3, <3>1, <3>2
  <2>5. ASSUME NEW g \in OpenFiles' PROVE files'[g].fh \in Handles /\ hdl[files'[g].fh] = files'[g].st
    BY <1>1, <2>3 DEF HandlesOwned
  <2>6. \A g, k \in OpenFiles' : files'[g].fh = files'[k].fh => g = k
    BY <2>3 DEF HandlesOwned
  <2> QED BY <1>0, <2>4, <2>5, <2>6 DEF Settled
<1>5. CASE Opens(h) /\ Finish(w) /\ ~r.ignore_above
  <2>1. ~Closes(h) /\ f \in Fds /\ files[f].st = "free"
    BY <1>0, <1>5, KindsOfHandlers DEF ServedFile
  <2>2. files'[f] = [st |-> Kind(h), fh |-> r.file_handle]
    BY <1>5, <2>1, ReturnFiles DEF OpenedFile
  <2>3. f \notin OpenFiles /\ OpenFiles' = OpenFiles \cup {f}
    BY <1>0, <1>3, <1>5, <2>1, <2>2, HandlesAssumption, KindsOfHandlers DEF OpenFiles
  <2>4. \A g \in OpenFiles : files'[g] = files[g]
    BY <1>0, <2>3 DEF OpenFiles
  <2>5. ASSUME NEW x \in Handles, hdl[x] # "none" PROVE \E g \in OpenFiles' : files'[g].fh = x
    <3>1. CASE x = r.file_handle
      BY <2>2, <2>3, <3>1
    <3>2. CASE x # r.file_handle
      <4>1. PICK g \in OpenFiles : files[g].fh = x
        BY <1>2, <2>5, <3>2 DEF HandlesOwned
      <4> QED BY <2>3, <2>4, <4>1
    <3> QED BY <3>1, <3>2
  <2>6. ASSUME NEW g \in OpenFiles' PROVE files'[g].fh \in Handles /\ hdl[files'[g].fh] = files'[g].st
    <3>1. CASE g = f
      BY <1>3, <1>5, <2>2, <3>1
    <3>2. CASE g \in OpenFiles
      BY <1>1, <2>1, <2>4, <3>2 DEF HandlesOwned
    <3> QED BY <2>3, <3>1, <3>2
  <2>7. ASSUME NEW g \in OpenFiles', NEW k \in OpenFiles', files'[g].fh = files'[k].fh PROVE g = k
    <3>1. \A j \in OpenFiles : files'[j].fh # files'[f].fh
      BY <1>3, <1>5, <2>2, <2>4
    <3>2. CASE g = f \/ k = f
      BY <2>3, <2>7, <3>1, <3>2
    <3>3. CASE g \in OpenFiles /\ k \in OpenFiles
      BY <2>4, <2>7, <3>3 DEF HandlesOwned
    <3> QED BY <2>3, <3>2, <3>3
  <2> QED BY <1>0, <2>5, <2>6, <2>7 DEF Settled
<1>6. CASE ~Closes(h) /\ ~(Opens(h) /\ Finish(w) /\ ~r.ignore_above)
  <2>0. r.rtvl \in Int
    BY DEF ReplyMsgs
  <2>1. ~(~r.ignore_above)
    BY <1>3, <1>6, <2>0
  <2>2. OpenFiles' = OpenFiles /\ \A g \in OpenFiles : files'[g] = files[g]
    <3>1. CASE f \in Fds /\ Opens(h) /\ Finish(w)
      <4>1. files'[f] = [st |-> Kind(h), fh |-> call[w].a.fh]
        BY <1>6, <2>1, <3>1, ReturnFiles DEF OpenedFile
      <4>2. files[f].st = "free" /\ call[w].a.fh = ZeroHandle
        BY <1>0, <3>1 DEF ServedFile
      <4> QED BY <1>0, <4>1, <4>2 DEF OpenFiles
    <3>2. CASE ~(f \in Fds /\ Opens(h) /\ Finish(w))
      <4>1. \A g \in Fds : files'[g] = files[g]
        BY <1>0, <1>6, <3>2, ReturnFiles
      <4> QED BY <4>1 DEF OpenFiles
    <3> QED BY <3>1, <3>2
  <2>3. \A g \in OpenFiles : ~GivenBack(g)
    BY <1>1, <1>6
  <2>4. \A x \in Handles : ~(\E v \in Workers : Brings(v, x))
    BY <1>2, <2>1
  <2> QED BY <1>0, <2>2, <2>3, <2>4 DEF HandlesOwned, Settled
<1> QED BY <1>4, <1>5, <1>6

\* While the client executes a request its handler is the only one at work, and no
\* reply is under way; then there is one, to that handler.
LEMMA ExecAnswers ==
    ASSUME TypeInv, LockInv, WireInv, WireInv', Conforming, ClientExec, Online
    PROVE  \E v \in Workers :
              /\ Busy(v) /\ Asking(v) /\ Answered(v)' /\ Incoming(v)' = crep'
              /\ \A u \in Workers : ~Answered(u) /\ (Answered(u)' => u = v)
<1>0. /\ crep = None /\ UNCHANGED <<proc, conn, pc, got, in, req>>
      /\ cgot.k >= SzOpHdr
  BY DEF ClientExec, ClientReady, workerVars
<1>1. cgot # Nothing
  BY <1>0, SizesAssumption DEF TypeInv, TypeOK, TypeClient, Gathers, Nothing
<1>2. PICK v \in Workers : Busy(v) /\ (Asking(v) \/ Answering(v))
  BY <1>1, ClientServesOne DEF WireInv, Online, AtRest
<1>3. Asking(v)
  BY <1>1, <1>2 DEF Answering
<1>4. cgot.m = req[v] /\ req[v] \in RequestMsgs
  BY <1>0, <1>2, <1>3, SizesAssumption, BusyTypes DEF Asking, TypeInv, TypeOK, TypeClient, Gathers
<1>5. crep' # None
  <2>1. PICK r \in Successes(cgot.m) \cup {Failure(cgot.m)} : crep' = r
    BY DEF ClientExec, Conforming
  <2> QED BY <1>4, <2>1, AnswersAreReplies, NoneAssumption DEF IsReplyTo
<1>6. Answering(v)' /\ Busy(v)'
  BY <1>0, <1>2, <1>5 DEF WireInv, ClientEnd, Online, Busy, Asking
<1>7. Receiving(v)' /\ Incoming(v)' = crep'
  BY <1>5, <1>6 DEF Answering
<1>8. Answered(v)'
  BY <1>0, <1>5, <1>7 DEF Answered, Online
<1>9. ASSUME NEW u \in Workers PROVE ~Answered(u) /\ (Answered(u)' => u = v)
  <2>1. Receiving(u) => u = v
    BY <1>2, OneReceiver
  <2>2. ~Answered(v)
    BY <1>0, <1>3 DEF Asking, Answered, Receiving, Nothing
  <2> QED BY <1>0, <2>1, <2>2 DEF Answered, Receiving
<1> QED BY <1>2, <1>3, <1>7, <1>8, <1>9

\* The client's handles after an execution: only an open adds one, and only a close
\* takes one away, its own.
LEMMA HandlesAfterExec ==
    ASSUME NEW h \in HandlerNames, NEW a, NEW q, q.b = zhwkrfsp(h, a).req, NEW r,
           ~r.ignore_above => Opens(h)
    PROVE  \A x \in Handles : HandlesAfter(q, r)[x] =
               IF ~r.ignore_above /\ r.file_handle = x THEN Kind(h)
               ELSE IF Closes(h) /\ a.fh = x THEN "none" ELSE hdl[x]
<1>1. /\ q.b.opid = OPER_CLOSE <=> Closes(h)
      /\ q.b.fh = IF UsesFile(h) THEN a.fh ELSE Unset
      /\ Opens(h) => q.b.opid = OPER_OPEN
      /\ Opens(h) => ("OPEN_DIRECTORY" \in q.b.flags <=> IsDir(h))
  BY RequestFields
<1>2. Opens(h) => ~Closes(h)
  BY KindsOfHandlers
<1>3. Closes(h) => q.b.fh = a.fh
  BY <1>1, KindsOfHandlers
<1>4. ASSUME NEW x \in Handles
      PROVE  HandlesAfter(q, r)[x] =
               IF ~r.ignore_above /\ r.file_handle = x THEN Kind(h)
               ELSE IF Closes(h) /\ a.fh = x THEN "none" ELSE hdl[x]
  <2>1. HandlesAfter(q, r)[x] =
           CASE q.b.opid = OPER_OPEN /\ ~r.ignore_above /\ r.file_handle = x ->
                  IF "OPEN_DIRECTORY" \in q.b.flags THEN "dir" ELSE "file"
             [] q.b.opid = OPER_CLOSE /\ q.b.fh = x -> "none"
             [] OTHER -> hdl[x]
    BY DEF HandlesAfter
  <2>2. CASE ~r.ignore_above /\ r.file_handle = x
    <3>1. Opens(h) /\ q.b.opid = OPER_OPEN /\ q.b.opid # OPER_CLOSE
      BY <1>1, <2>2
    <3>2. Kind(h) = IF "OPEN_DIRECTORY" \in q.b.flags THEN "dir" ELSE "file"
      BY <1>1, <3>1 DEF Kind
    <3> QED BY <2>1, <2>2, <3>1, <3>2
  <2>3. CASE ~(~r.ignore_above /\ r.file_handle = x) /\ Closes(h) /\ a.fh = x
    BY <1>1, <1>3, <2>1, <2>3
  <2>4. CASE ~(~r.ignore_above /\ r.file_handle = x) /\ ~(Closes(h) /\ a.fh = x)
    BY <1>1, <1>3, <2>1, <2>4
  <2> QED BY <2>2, <2>3, <2>4
<1> QED BY <1>4

\* An execution moves a handle between the client's table and the reply it starts.
LEMMA ExecOwned ==
    ASSUME TypeInv, LockInv, WireInv, WireInv', FilesServed, RepliesUsable, HandlesOwned,
           Conforming, ClientExec, Online
    PROVE  HandlesOwned'
<1>1. PICK v \in Workers : /\ Busy(v) /\ Asking(v) /\ Answered(v)' /\ Incoming(v)' = crep'
                           /\ \A u \in Workers : ~Answered(u) /\ (Answered(u)' => u = v)
  BY ExecAnswers
<1> DEFINE h == call[v].h
           a == call[v].a
           f == call[v].fd
           r == crep'
<1>2. files' = files /\ call' = call
  BY DEF ClientExec, workerVars, kernelVars
<1>3. Settled
  BY <1>1, SettledOwned
<1>4. OpenFiles' = OpenFiles
  BY <1>2 DEF OpenFiles
<1>5. /\ hdl' = HandlesAfter(req[v], r)
      /\ r.ignore_above = TRUE \/ r.ignore_above = FALSE
      /\ ~r.ignore_above => /\ Opens(h) /\ r.rtvl >= 0
                            /\ r.file_handle \in Handles /\ hdl[r.file_handle] = "none"
  BY <1>1, AnswerUsable
<1>6. h \in HandlerNames /\ ServedFile(call[v]) /\ req[v].b = zhwkrfsp(h, a).req
  BY <1>1, ServingTypes DEF FilesServed, RepliesUsable, Busy, Handler
<1>7. \A x \in Handles : hdl'[x] = IF ~r.ignore_above /\ r.file_handle = x THEN Kind(h)
                                   ELSE IF Closes(h) /\ a.fh = x THEN "none" ELSE hdl[x]
  <2> HIDE DEF h, a, r
  <2> QED BY <1>5, <1>6, HandlesAfterExec
<1>8. \A g : GivenBack(g)' <=> Closes(h) /\ f = g
  BY <1>1, <1>2 DEF GivenBack
<1>9. \A x : Brings(v, x)' <=> Opens(h) /\ ~r.ignore_above /\ r.file_handle = x
  BY <1>1, <1>2 DEF Brings
<1>10. Closes(h) => ~Opens(h) /\ f \in Fds /\ files[f] = [st |-> Kind(h), fh |-> a.fh]
  BY <1>6, KindsOfHandlers DEF ServedFile
<1>11. \A g \in OpenFiles : files[g].st # "none"
  BY ServingTypes DEF OpenFiles, OpenFile
<1>12. ASSUME NEW g \in OpenFiles
       PROVE  /\ files[g].fh \in Handles
              /\ hdl'[files[g].fh] = IF GivenBack(g)' THEN "none" ELSE files[g].st
  <2>1. files[g].fh \in Handles /\ hdl[files[g].fh] = files[g].st /\ g \in Fds
    BY <1>3 DEF Settled, OpenFiles
  <2>2. ~r.ignore_above => r.file_handle # files[g].fh
    BY <1>5, <1>11, <2>1
  <2>3. Closes(h) /\ a.fh = files[g].fh => g = f
    <3>1. ASSUME Closes(h), a.fh = files[g].fh PROVE g = f
      <4>1. f \in OpenFiles
        BY <1>10, <2>1, <3>1, HandlesAssumption, KindsOfHandlers DEF OpenFiles
      <4> QED BY <1>3, <1>10, <3>1, <4>1 DEF Settled
    <3> QED BY <3>1
  <2> QED BY <1>7, <1>8, <1>10, <2>1, <2>2, <2>3
<1>13. \A g, k \in OpenFiles : files[g].fh = files[k].fh => g = k
  BY <1>3 DEF Settled
<1>14. ASSUME NEW w \in Workers, Answered(w)', ~Incoming(w)'.ignore_above
       PROVE  /\ Opens(call'[w].h) /\ Incoming(w)'.rtvl >= 0 /\ Incoming(w)'.file_handle \in Handles
              /\ hdl'[Incoming(w)'.file_handle] = Kind(call'[w].h)
              /\ \A g \in OpenFiles : files[g].fh # Incoming(w)'.file_handle
  <2>1. w = v /\ Incoming(w)' = r /\ call'[w] = call[v]
    BY <1>1, <1>2, <1>14
  <2>2. \A g \in OpenFiles : files[g].fh # r.file_handle
    BY <1>3, <1>5, <1>11, <1>14, <2>1 DEF Settled
  <2> QED BY <1>5, <1>7, <1>14, <2>1, <2>2
<1>15. ASSUME NEW x \in Handles, hdl'[x] # "none"
       PROVE  (\E g \in OpenFiles : files[g].fh = x) \/ (\E w \in Workers : Brings(w, x)')
  <2>1. CASE ~r.ignore_above /\ r.file_handle = x
    BY <1>5, <1>9, <2>1
  <2>2. CASE ~(~r.ignore_above /\ r.file_handle = x)
    <3>1. hdl[x] # "none"
      BY <1>7, <1>15, <2>2
    <3> QED BY <1>3, <3>1 DEF Settled
  <2> QED BY <2>1, <2>2
<1> QED BY <1>2, <1>4, <1>12, <1>13, <1>14, <1>15 DEF HandlesOwned

\* A reply that says how a call has ended says so to a handler that has read it.
LEMMA ReplyRead ==
    ASSUME TypeInv, WireInv, NEW w \in Workers, ReplyError(w) \/ Finish(w)
    PROVE  /\ Answered(w) /\ Incoming(w) = got[w].m /\ Incoming(w) \in ReplyMsgs /\ Busy(w)
           /\ Finish(w) \/ Incoming(w).rtvl < 0
<1>1. CASE ReplyError(w)
  <2>1. pc[w] = "hdr" /\ got[w].k = SzRpHdr
    BY <1>1 DEF ReplyError
  <2>2. /\ Headers(got[w]) = {[size |-> got[w].m.size, rtvl |-> got[w].m.rtvl]}
        /\ Incoming(w) = got[w].m /\ IsReplyTo(got[w].m, req[w])
    BY <2>1, HeaderRead DEF WireInv
  <2>3. Incoming(w).rtvl < 0
    BY <1>1, <2>2 DEF ReplyError
  <2> QED BY <2>1, <2>2, <2>3, SizesAssumption DEF Answered, Receiving, Busy, IsReplyTo
<1>2. CASE Finish(w)
  <2>1. pc[w] = "body"
    BY <1>2 DEF Finish
  <2>2. Receives(w) /\ got[w].k \in Nat
    BY <2>1 DEF WireInv, ServerEnd, Receiving, TypeInv, TypeOK, TypeWorkers, Gathers
  <2>3. got[w].k > 0
    BY <2>1, <2>2, SizesAssumption DEF Receives
  <2> QED BY <1>2, <2>1, <2>2, <2>3 DEF Receives, Answered, Receiving, Busy, IsReplyTo, Incoming
<1> QED BY <1>1, <1>2

\* No close is rejected: a call that is rejected leaves the kernel's files alone.
LEMMA RejectKeepsFiles ==
    ASSUME TypeInv, FilesServed, NEW w \in Workers, Reject(w)
    PROVE  files' = files /\ hdl' = hdl
<1>1. Returns(w) /\ pc[w] = "enter" /\ zhwkrfsp(call[w].h, call[w].a).rejected
  BY DEF Returns, Reject, Handler
<1>2. ~Finish(w)
  BY <1>1 DEF Finish
<1>3. ~Closes(call[w].h)
  <2>1. ASSUME NEW h, NEW a, Closes(h) PROVE zhwkrfsp(h, a).rejected = FALSE
    BY <2>1 DEF Closes, zhwkrfsp, fuse_release, fuse_releasedir, Locked, Handling
  <2> QED BY <1>1, <2>1
<1>4. \A f \in Fds : files'[f] = files[f]
  BY <1>1, <1>2, <1>3, ReturnFiles
<1>5. DOMAIN files' = Fds /\ files' = [f \in Fds |-> files'[f]]
  BY DEF Reject, Fail, Return, q__Mutex_unlock
<1>6. files = [f \in Fds |-> files[f]]
  BY ServingTypes
<1> QED BY <1>1, <1>4, <1>5, <1>6, ReturnFiles DEF clientVars

\* Only the client's executions and the handlers' returns move handles.
LEMMA HandlesOwnedNext ==
    ASSUME TypeInv, LockInv, WireInv, WireInv', FilesServed, RepliesUsable,
           Online => HandlesOwned, Conforming, [Next]_vars
    PROVE  Online' => HandlesOwned'
<1> SUFFICES ASSUME Online' PROVE HandlesOwned'
  OBVIOUS
<1>0. Online
  <2>1. ASSUME NEW w \in Workers, Call(w) PROVE Online
    BY <2>1 DEF Call, Online
  <2>2. ASSUME NEW w \in Workers, Returns(w) PROVE Online
    BY <2>2, ReturnFiles DEF Online
  <2>3. ASSUME NEW w \in Workers, GoesOn(w) PROVE Online
    BY <2>3, GoesOnFrame DEF Online
  <2>4. CASE Outside
    BY <2>4 DEF Outside, Client, ClientRead, ClientExec, ClientSend, Leave, ConnBreak, vars, Online
  <2> QED BY <2>1, <2>2, <2>3, <2>4, StepKinds
<1>1. HandlesOwned
  BY <1>0
<1>2. ASSUME UNCHANGED <<files, hdl>>, ~ClientExec, \A v \in Workers : Answered(v) => ~Returns(v)
      PROVE  HandlesOwned'
  <2>1. ASSUME NEW v \in Workers, Answered(v)'
        PROVE  Answered(v) /\ Incoming(v)' = Incoming(v) /\ call'[v] = call[v]
    BY <1>2, <2>1, AnsweredBefore
  <2>2. ASSUME NEW v \in Workers, Answered(v) PROVE Answered(v)'
    BY <1>2, <2>2, AnsweredAfter
  <2> QED BY <1>1, <1>2, <2>1, <2>2, OwnedStable
<1>3. CASE ClientExec
  BY <1>0, <1>1, <1>3, ExecOwned
<1>4. ASSUME NEW w \in Workers, ReplyError(w) \/ Finish(w) PROVE HandlesOwned'
  <2>1. /\ Answered(w) /\ Incoming(w) = got[w].m /\ Incoming(w) \in ReplyMsgs /\ Busy(w)
        /\ Finish(w) \/ Incoming(w).rtvl < 0
    BY <1>4, ReplyRead
  <2>2. \A v \in Workers : Answered(v) => v = w
    BY <2>1, OneReceiver DEF Answered
  <2>3. Returns(w)
    BY <1>4 DEF Returns
  <2>4. Settled'
    BY <1>1, <2>1, <2>2, <2>3, ReturnOwned
  <2>5. ASSUME NEW v \in Workers PROVE ~Answered(v)'
    <3>1. pc' = [pc EXCEPT ![w] = "idle"] /\ got' = got /\ in' = in /\ crep' = crep
      BY <2>3, ReturnFiles DEF clientVars
    <3>2. Answered(v)' => Answered(v) /\ v # w
      BY <1>0, <3>1, ServingTypes DEF Answered, Receiving
    <3> QED BY <2>2, <3>2
  <2>6. (\A v \in Workers : ~Answered(v))' => (HandlesOwned' <=> Settled')
    BY SettledOwned, PTL
  <2> QED BY <2>4, <2>5, <2>6
<1>5. ASSUME NEW w \in Workers, Reject(w) \/ SendFail(w) \/ RecvFail(w) PROVE HandlesOwned'
  <2>1. CASE SendFail(w) \/ RecvFail(w)
    BY <2>1 DEF SendFail, RecvFail, Online
  <2>2. CASE Reject(w)
    <3>1. UNCHANGED <<files, hdl>>
      BY <2>2, RejectKeepsFiles
    <3>2. ~ClientExec
      BY <2>2, ServingTypes DEF Reject, ClientExec, Fail, Return, q__Mutex_unlock, workerVars
    <3>3. ASSUME NEW v \in Workers, Answered(v), Returns(v) PROVE FALSE
      <4>1. pc[w] = "enter" /\ pc' = [pc EXCEPT ![w] = "idle"] /\ pc' = [pc EXCEPT ![v] = "idle"]
        BY <2>2, <3>3, ReturnFiles DEF Reject, Fail, Return, q__Mutex_unlock
      <4>2. v # w
        BY <3>3, <4>1 DEF Answered, Receiving
      <4> QED BY <4>1, <4>2, ServingTypes
    <3> QED BY <1>2, <3>1, <3>2, <3>3
  <2> QED BY <1>5, <2>1, <2>2
<1>6. CASE \A w \in Workers : ~Returns(w)
  <2>1. CASE ~ClientExec
    <3>1. ASSUME NEW w \in Workers, Call(w) PROVE UNCHANGED <<files, hdl>>
      BY <3>1 DEF Call, clientVars
    <3>2. ASSUME NEW w \in Workers, GoesOn(w) PROVE UNCHANGED <<files, hdl>>
      BY <3>2, GoesOnFrame
    <3>3. ASSUME Outside PROVE UNCHANGED <<files, hdl>>
      BY <2>1, <3>3 DEF Outside, Client, ClientRead, ClientSend, Leave, ConnBreak, vars, kernelVars,
                        clientVars
    <3>4. UNCHANGED <<files, hdl>>
      BY <1>6, <3>1, <3>2, <3>3, StepKinds
    <3> QED BY <1>2, <1>6, <2>1, <3>4
  <2> QED BY <1>3, <2>1
<1> QED BY <1>4, <1>5, <1>6 DEF Returns

-----------------------------------------------------------------------------
(***************************************************************************)
(* The theorems.                                                           *)
(***************************************************************************)
LEMMA HandleInvInit == Init => HandleInv
<1> SUFFICES ASSUME Init PROVE HandleInv
  OBVIOUS
<1>1. \A w \in Workers : ~Busy(w) /\ ~Answered(w) /\ pc[w] = "idle"
  BY DEF Init, Busy, Answered, Receiving
<1>2. FilesServed /\ RepliesUsable
  BY <1>1 DEF FilesServed, RepliesUsable
<1>3. LiveNames /\ AbortOnlyOversizedRead
  BY DEF Init, LiveNames, Nothing, AbortOnlyOversizedRead
<1>4. Settled
  BY DEF Init, Settled, OpenFiles
<1>5. HandlesOwned
  BY <1>1, <1>4, SettledOwned
<1> QED BY <1>2, <1>3, <1>5 DEF HandleInv

\* HandleInv is inductive, given the invariants of the earlier proofs.
LEMMA HandleInvNext ==
    ASSUME TypeInv, LockInv, WireInv, WireInv', CallInv, HandleInv, Conforming, [Next]_vars
    PROVE  HandleInv'
<1> USE DEF HandleInv
<1>1. FilesServed'
  BY FilesServedNext
<1>2. RepliesUsable'
  BY RepliesUsableNext
<1>3. AbortOnlyOversizedRead'
  BY AbortNext
<1>4. LiveNames'
  BY LiveNamesNext
<1>5. Online' => HandlesOwned'
  BY HandlesOwnedNext
<1> QED BY <1>1, <1>2, <1>3, <1>4, <1>5

\* HandleInv holds of the server.
LEMMA HandleInvariant == ASSUME Conforming PROVE Spec => []HandleInv
<1>1. TypeInv /\ LockInv /\ WireInv /\ WireInv' /\ CallInv /\ HandleInv /\ [Next]_vars => HandleInv'
  BY HandleInvNext
<1> QED BY AllInvariant, HandleInvInit, <1>1, PTL DEF Spec

\* Between calls the client holds open exactly the handles of the files the kernel
\* has open, each for one file, and every request it executes names a handle that
\* is open and of the right kind: for every set of handles, files, threads and calls,
\* with a client that follows prot.c.
THEOREM HandlesCorrect == ASSUME Conforming PROVE Spec => [](HandlesAgree /\ HandleLive /\ HandleInv)
<1>1. HandleInv => HandlesAgree
  <2> SUFFICES ASSUME HandleInv, proc = "run", conn = "open", Quiet
               PROVE  /\ \A f \in OpenFiles : files[f].fh \in Handles /\ hdl[files[f].fh] = files[f].st
                      /\ \A x \in Handles : hdl[x] # "none" => \E f \in OpenFiles : files[f].fh = x
                      /\ \A f, g \in OpenFiles : files[f].fh = files[g].fh => f = g
    BY DEF HandlesAgree
  <2>1. \A v \in Workers : ~Answered(v)
    BY DEF Quiet, Busy, Answered, Receiving
  <2>2. Settled
    BY <2>1, SettledOwned DEF HandleInv, Online
  <2> QED BY <2>2 DEF Settled
<1>2. TypeInv /\ HandleInv => HandleLive
  <2> SUFFICES ASSUME TypeInv, HandleInv, ClientReady PROVE Names(cgot.m)
    BY DEF HandleLive
  <2>1. cgot.k > 0
    BY SizesAssumption DEF ClientReady, TypeInv, TypeOK, TypeClient, Gathers
  <2> QED BY <2>1 DEF HandleInv, LiveNames
<1> QED BY AllInvariant, HandleInvariant, <1>1, <1>2, PTL

\* With such a client the server aborts in one way only: on the reply to a read whose
\* data fill the buffer so far that the header no longer fits the size test.
THEOREM AbortCorrect == ASSUME Conforming PROVE Spec => []AbortOnlyOversizedRead
<1>1. HandleInv => AbortOnlyOversizedRead
  BY DEF HandleInv
<1> QED BY HandleInvariant, <1>1, PTL
=============================================================================
