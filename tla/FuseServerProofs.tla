-------------------------- MODULE FuseServerProofs --------------------------
(***************************************************************************)
(* Theorems about FuseServer, for every set of workers, files and handles, *)
(* every size of the structures and any number of calls.                   *)
(***************************************************************************)
EXTENDS FuseServer, SequenceTheorems, FiniteSetTheorems, TLAPS

USE DEF OPER_OPEN, OPER_READ, OPER_WRITE, OPER_CLOSE

-----------------------------------------------------------------------------
(***************************************************************************)
(* The operators of RfspProtocol return what they should.                  *)
(***************************************************************************)

\* The request composed by any of the four builders is a request.
LEMMA RequestType ==
    ASSUME NEW opid \in {OPER_OPEN, OPER_READ, OPER_WRITE, OPER_CLOSE}, NEW mode \in Modes,
           NEW d \in Nat, NEW e \in Nat
    PROVE  Request(opid, mode, d, e) \in Requests
BY DEF Request, Requests, FileHandles

\* It stays one when a handler sets fh or count.
LEMMA ExceptTypes ==
    ASSUME NEW opid \in {OPER_OPEN, OPER_READ, OPER_WRITE, OPER_CLOSE}, NEW mode \in Modes,
           NEW d \in Nat, NEW e \in Nat, NEW fh \in FileHandles, NEW c \in Nat
    PROVE  /\ [Request(opid, mode, d, e) EXCEPT !.fh = fh] \in Requests
           /\ [Request(opid, mode, d, e) EXCEPT !.fh = fh, !.count = c] \in Requests
BY DEF Request, Requests, FileHandles

\* So open, read, write and close requests are requests.
LEMMA BuilderTypes ==
    /\ \A fl \in SUBSET OpenFlags : Open(fl) \in Requests
    /\ \A m \in ReadModes : Read(m) \in Requests
    /\ \A m \in WriteModes, d, e \in Nat : Writ(m, d, e) \in Requests
    /\ \A k \in {"file", "dir"}, fh \in FileHandles : Clos(k, fh) \in Requests
<1>1. SIZEHDR(SzOpOpen) \in Nat /\ SIZEHDR(SzOpRead) \in Nat /\ SIZEHDR(SzOpWrit) \in Nat
      /\ SIZEHDR(SzOpClos) \in Nat
  BY SizesAssumption DEF SIZEHDR
<1>2. ASSUME NEW fl \in SUBSET OpenFlags PROVE Open(fl) \in Requests
  BY <1>1 DEF Open, Request, Requests, Modes, FileHandles
<1>3. ASSUME NEW m \in ReadModes PROVE Read(m) \in Requests
  BY <1>1, RequestType DEF Read, Modes
<1>4. ASSUME NEW m \in WriteModes, NEW d \in Nat, NEW e \in Nat PROVE Writ(m, d, e) \in Requests
  BY <1>1, RequestType DEF Writ, Modes
<1>5. ASSUME NEW k \in {"file", "dir"}, NEW fh \in FileHandles PROVE Clos(k, fh) \in Requests
  BY <1>1 DEF Clos, Request, Requests, Modes, FileHandles
<1> QED BY <1>2, <1>3, <1>4, <1>5

\* A request and a test make a row of the handler table.
LEMMA HandlingType ==
    ASSUME NEW l \in BOOLEAN, NEW i \in 0..2, NEW j \in BOOLEAN,
           NEW r \in Requests, NEW t \in ReplyTests
    PROVE  Handling(l, i, j, r, t) \in HandlerRecords
BY DEF Handling, HandlerRecords

\* Every handler of the table composes a well-formed request.
LEMMA HandlerType ==
    ASSUME NEW h \in HandlerNames, NEW a \in Arguments
    PROVE  zhwkrfsp(h, a) \in HandlerRecords
<1> DEFINE H == zhwkrfsp(h, a)
<1>1. /\ Exact(0) \in ReplyTests /\ Exact(SzUstat) \in ReplyTests
      /\ Exact(SzUstatvfs) \in ReplyTests /\ Exact(SzRpOpen) \in ReplyTests
      /\ UpTo(ReadlinkBuf) \in ReplyTests /\ Dirents \in ReplyTests
      /\ ReadTest(a.num) \in ReplyTests
  BY SizesAssumption DEF Exact, UpTo, Dirents, ReadTest, ReplyTests, Arguments
<1>2. ASSUME NEW r \in Requests, NEW t \in ReplyTests
      PROVE  Locked(r, t) \in HandlerRecords /\ Unlocked(r, t) \in HandlerRecords
  BY <1>2 DEF Locked, Unlocked, Handling, HandlerRecords
<1>3. ASSUME NEW fl \in SUBSET OpenFlags, NEW j \in BOOLEAN PROVE Opening(j, fl) \in HandlerRecords
  <2>1. 1 \in 0..2 /\ TRUE \in BOOLEAN /\ Open(fl) \in Requests
    BY BuilderTypes
  <2> QED BY <1>1, <2>1, HandlingType, Zenon DEF Opening
<1>4. Translated(a.fi) \in SUBSET OpenFlags
  BY DEF Translated, OpenFlags
<1>5. \A u : Rejects(a.fi, u) \in BOOLEAN
  BY DEF Rejects
<1>6. a.fh \in FileHandles /\ a.num \in Nat
  BY DEF Arguments
<1>7. CASE h \in {"open", "opendir", "create"}
  <2>1. CASE h = "open"
    BY <2>1, <1>3, <1>4, <1>5 DEF zhwkrfsp, fuse_open
  <2>2. CASE h = "opendir"
    <3>1. (Translated(a.fi) \ {"OPEN_TRUNC", "OPEN_DIRECT"}) \cup {"OPEN_DIRECTORY"}
             \in SUBSET OpenFlags
      BY <1>4 DEF OpenFlags
    <3> QED BY <2>2, <3>1, <1>3, <1>5 DEF zhwkrfsp, fuse_opendir
  <2>3. CASE h = "create"
    <3>1. Translated(a.fi) \cup {"OPEN_CREAT"} \in SUBSET OpenFlags
      BY <1>4 DEF OpenFlags
    <3> QED BY <2>3, <3>1, <1>3, <1>5 DEF zhwkrfsp, fuse_creat
  <2> QED BY <1>7, <2>1, <2>2, <2>3
<1>8. CASE h \in {"getattr", "readlink", "statfs", "read", "readdir"}
  <2>1. ASSUME NEW m \in ReadModes
        PROVE  /\ Read(m) \in Requests
               /\ [Read(m) EXCEPT !.fh = a.fh] \in Requests
               /\ [Read(m) EXCEPT !.fh = a.fh, !.count = a.num] \in Requests
    <3>1. SIZEHDR(SzOpRead) \in Nat /\ m \in Modes
      BY SizesAssumption DEF SIZEHDR, Modes
    <3> QED BY <3>1, <1>6, RequestType, ExceptTypes, Zenon DEF Read
  <2> QED
    BY <1>8, <2>1, <1>1, <1>2, <1>6
    DEF zhwkrfsp, fuse_getattr, fuse_readlink, fuse_statfs, fuse_read, fuse_readdir, ReadModes
<1>9. CASE h \in {"rmdir", "chmod", "access", "unlink", "utimens", "truncate", "write", "symlink"}
  <2>1. ASSUME NEW m \in WriteModes, NEW d \in Nat, NEW e \in Nat
        PROVE  /\ Writ(m, d, e) \in Requests
               /\ [Writ(m, d, e) EXCEPT !.fh = a.fh, !.count = a.num] \in Requests
    <3>1. SIZEHDR(SzOpWrit) + d \in Nat /\ SIZEHDR(SzOpWrit) + e \in Nat /\ m \in Modes
      BY SizesAssumption DEF SIZEHDR, Modes
    <3> QED BY <3>1, <1>6, RequestType, ExceptTypes, Zenon DEF Writ
  <2>2. CASE h \in {"rmdir", "chmod", "access", "unlink", "utimens"}
    BY <2>2, <2>1, <1>1, <1>2, SizesAssumption
    DEF zhwkrfsp, fuse_rmdir, fuse_chmod, fuse_access, fuse_unlink, fuse_utimens, WriteModes
  <2>3. CASE h = "truncate"
    <3>1. 2 \in 0..2 /\ TRUE \in BOOLEAN /\ FALSE \in BOOLEAN /\ 0 \in Nat
      OBVIOUS
    <3>2. "WR_TRUNC" \in WriteModes
      BY DEF WriteModes
    <3>3. Writ("WR_TRUNC", 0, 0) \in Requests
      BY <2>1, <3>1, <3>2, Zenon
    <3>4. fuse_truncate(a) \in HandlerRecords
      BY <3>1, <3>3, <1>1, HandlingType, Zenon DEF fuse_truncate
    <3> QED BY <2>3, <3>4 DEF zhwkrfsp
  <2>4. CASE h \in {"write", "symlink"}
    BY <2>4, <2>1, <1>1, <1>2, <1>6, SizesAssumption
    DEF zhwkrfsp, fuse_write, fuse_symlink, WriteModes
  <2> QED BY <1>9, <2>2, <2>3, <2>4
<1>10. CASE h \in {"mkdir", "release", "releasedir"}
  BY <1>10, <1>1, <1>2, <1>6, BuilderTypes
  DEF zhwkrfsp, fuse_mkdir, fuse_release, fuse_releasedir, OpenFlags
<1> QED BY <1>7, <1>8, <1>9, <1>10 DEF HandlerNames

-----------------------------------------------------------------------------
(***************************************************************************)
(* Type correctness.                                                       *)
(***************************************************************************)

\* sockread's gathered bytes stay well-formed.
LEMMA GatherType ==
    ASSUME NEW M, NEW g \in Gathers(M), NEW byte \in Bytes(M)
    PROVE  /\ Gather(g, byte) \in Gathers(M)
           /\ (g.k > 0 => g.m \in M) => Gather(g, byte).m \in M
BY DEF Gathers, Bytes, Gather

\* What the client takes bytes that are no header for is a request all the same.
LEMMA MisreadType == Misread \subseteq RequestMsgs
<1>1. Open({}) \in Requests
  BY BuilderTypes
<1>2. Read("RD_STAT") \in Requests
  BY BuilderTypes DEF ReadModes
<1>3. \A n \in {SzMode, FILENAME_LEN} : Writ("WR_CHMOD", n, n) \in Requests
  BY BuilderTypes, SizesAssumption DEF WriteModes
<1>4. \A x \in FileHandles : Clos("file", x) \in Requests
  BY BuilderTypes
<1>5. \A b \in Requests : [n |-> 0, ouid |-> 0, b |-> b] \in RequestMsgs
  BY DEF RequestMsgs
<1> QED BY <1>1, <1>2, <1>3, <1>4, <1>5, Zenon DEF Misread

\* So what the client makes of the bytes it has gathered is a request.
LEMMA UnderstoodType ==
    ASSUME NEW g \in Gathers(RequestMsgs), g.m \in RequestMsgs, NEW x \in Understood(g)
    PROVE  x \in Gathers(RequestMsgs) /\ x.m \in RequestMsgs
BY MisreadType DEF Understood, Gathers

\* The bytes of one request, in order, are taken for nothing else.
LEMMA UnderstoodRight ==
    ASSUME NEW g, g.ok, NEW x \in Understood(g)
    PROVE  x = g
BY DEF Understood

\* A client's reply is a reply, whatever its data.
LEMMA ReplyToType ==
    ASSUME NEW msg \in RequestMsgs, NEW v \in Int, NEW e \in Nat
    PROVE  ReplyTo(msg, v, e) \in ReplyMsgs
BY SizesAssumption DEF ReplyTo, RequestMsgs, ReplyMsgs, FileHandles

\* So is the reply to an open that hands out a handle.
LEMMA OpenReplyType ==
    ASSUME NEW msg \in RequestMsgs, NEW x \in Handles
    PROVE  HandleReply(msg, x) \in ReplyMsgs
BY SizesAssumption DEF HandleReply, RequestMsgs, ReplyMsgs, FileHandles

\* Every answer README.md describes, and an error, is a reply.
LEMMA AnswerType ==
    ASSUME NEW msg \in RequestMsgs
    PROVE  Successes(msg) \cup {Failure(msg)} \subseteq ReplyMsgs
<1>1. SzRpOpen \in Nat /\ SzUstat \in Nat /\ SzUstatvfs \in Nat /\ 0 \in Nat /\ 0 \in Int /\ -1 \in Int
  BY SizesAssumption
<1>2. msg.b.count \in Nat
  BY DEF RequestMsgs, Requests
<1>3. Failure(msg) \in ReplyMsgs
  BY <1>1, ReplyToType DEF Failure
<1>4. ASSUME NEW k \in 0..MaxDirents PROVE k * SzUdirent \in Nat
  BY SizesAssumption, ParametersAssumption
<1>5. Successes(msg) \subseteq ReplyMsgs
  <2> DEFINE b == msg.b
  <2>1. /\ {ReplyTo(msg, k, k) : k \in 0..b.count} \subseteq ReplyMsgs
        /\ {ReplyTo(msg, k, 0) : k \in 0..b.count} \subseteq ReplyMsgs
    BY <1>1, <1>2, ReplyToType
  <2>2. {ReplyTo(msg, 0, k) : k \in LinkLens} \subseteq ReplyMsgs
    BY <1>1, ParametersAssumption, SizesAssumption, ReplyToType
  <2>3. {ReplyTo(msg, 0, k * SzUdirent) : k \in 0..MaxDirents} \subseteq ReplyMsgs
    BY <1>1, <1>4, ReplyToType
  <2>4. /\ {ReplyTo(msg, 0, 0)} \subseteq ReplyMsgs /\ {ReplyTo(msg, 0, SzUstat)} \subseteq ReplyMsgs
        /\ {ReplyTo(msg, 0, SzUstatvfs)} \subseteq ReplyMsgs
    BY <1>1, ReplyToType
  <2>5. {ReplyTo(msg, 0, SzRpOpen)} \cup {HandleReply(msg, x) : x \in {y \in Handles : hdl[y] = "none"}}
           \subseteq ReplyMsgs
    BY <1>1, ReplyToType, OpenReplyType
  <2> QED BY <2>1, <2>2, <2>3, <2>4, <2>5 DEF Successes
<1> QED BY <1>3, <1>5

TypeInv == TypeOK /\ Shape

\* The process starts well-typed.
LEMMA TypeInvInit == Init => TypeInv
BY ParametersAssumption, NoneAssumption
DEF Init, TypeInv, TypeOK, TypeProcess, TypeWorkers, TypeWire, TypeKernel, TypeClient, Shape,
    Busy, NoCall, NoInfo, Nothing, Arguments, FileInfos, FileHandles, Gathers, Calls,
    OpenFile, Outcomes

\* A handler that returns: mu, the outcome and the kernel's files keep their types.
LEMMA ReturnTypes ==
    ASSUME TypeInv, NEW w \in Workers, NEW how \in Outcomes, NEW file,
           call[w].fd \in Fds => file \in OpenFile,
           Return(w, how, file)
    PROVE  /\ pc' = [pc EXCEPT ![w] = "idle"]
           /\ mu' \in Workers \cup {None}
           /\ ret' \in [Calls -> Outcomes]
           /\ files' \in [Fds -> OpenFile]
<1>1. pc' = [pc EXCEPT ![w] = "idle"] /\ mu' = None
  BY DEF Return, q__Mutex_unlock
<1>2. ret' \in [Calls -> Outcomes]
  BY DEF Return, q__Mutex_unlock, TypeInv, TypeOK, TypeKernel
<1>3. files' \in [Fds -> OpenFile]
  <2>1. [st |-> "free", fh |-> ZeroHandle] \in OpenFile
    BY DEF OpenFile, FileHandles
  <2>2. ASSUME NEW f \in Fds PROVE files'[f] \in OpenFile
    BY <2>1, <2>2 DEF Return, q__Mutex_unlock, TypeInv, TypeOK, TypeKernel
  <2> QED BY <2>2 DEF Return, q__Mutex_unlock
<1> QED BY <1>1, <1>2, <1>3

\* A handler that returns without a new file: the types survive.
LEMMA FailTypes ==
    ASSUME TypeInv, NEW w \in Workers, NEW how \in Outcomes, Fail(w, how)
    PROVE  /\ pc' = [pc EXCEPT ![w] = "idle"]
           /\ mu' \in Workers \cup {None}
           /\ ret' \in [Calls -> Outcomes]
           /\ files' \in [Fds -> OpenFile]
<1> DEFINE file == IF call[w].fd \in Fds THEN files[call[w].fd] ELSE None
<1>1. call[w].fd \in Fds => file \in OpenFile
  BY DEF TypeInv, TypeOK, TypeKernel
<1>2. Return(w, how, file)
  BY DEF Fail
<1> HIDE DEF file
<1> QED BY <1>1, <1>2, ReturnTypes

\* What an open leaves in the kernel's table is an open file.
LEMMA OpenedType ==
    ASSUME TypeInv, NEW w \in Workers, Finish(w), Opens(call[w].h)
    PROVE  OpenedFile(w) \in OpenFile
<1>1. call[w].h \in {"open", "create", "opendir"} /\ call[w].a \in Arguments
  BY DEF Opens, TypeInv, TypeOK, TypeWorkers
<1>2. Handler(w).test = Exact(SzRpOpen)
  BY <1>1 DEF Handler, zhwkrfsp, fuse_open, fuse_creat, fuse_opendir, Opening, Handling
<1>3. got[w].k = SzRpHdr + SzRpOpen
  BY <1>2 DEF Finish, Wanted, Body, Exact
<1>4. got[w].m \in ReplyMsgs
  BY <1>3, SizesAssumption DEF TypeInv, TypeOK, TypeWorkers, Shape, Gathers
<1> QED BY <1>1, <1>4 DEF OpenedFile, OpenFile, Kind, ReplyMsgs, Arguments

\* Every action keeps the types and shapes.
LEMMA TypeInvNext == TypeInv /\ [Next]_vars => TypeInv'
<1> SUFFICES ASSUME TypeInv, [Next]_vars PROVE TypeInv'
  OBVIOUS
<1> USE DEF kernelVars, clientVars, workerVars
<1>0. TypeProcess /\ TypeWorkers /\ TypeWire /\ TypeKernel /\ TypeClient /\ Shape
  BY DEF TypeInv, TypeOK
<1>a. \A w \in Workers : pc[w] # "idle" => Handler(w) \in HandlerRecords
  BY <1>0, ParametersAssumption, HandlerType DEF TypeWorkers, Shape, Handler
<1>b. Shape /\ TypeWorkers /\ TypeClient =>
         /\ \A w \in Workers : /\ Busy(w) => req[w] \in RequestMsgs
                               /\ got[w].k > 0 => got[w].m \in ReplyMsgs
         /\ cgot.k > 0 => cgot.m \in RequestMsgs
  BY DEF Shape, TypeWorkers, TypeClient, Gathers
<1>1. ASSUME NEW w \in Workers, Call(w) PROVE TypeInv'
  <2>1. TypeProcess' /\ TypeWire' /\ TypeClient'
    BY <1>0, <1>1 DEF Call, TypeProcess, TypeWire, TypeClient
  <2>2. ncalls + 1 \in Calls /\ ncalls' \in 0..MaxCalls
    BY <1>0, <1>1, ParametersAssumption DEF Call, TypeKernel, Calls
  <2>3. TypeKernel'
    BY <1>0, <1>1, <2>2 DEF Call, TypeKernel, Outcomes
  <2>4. PICK h \in Handlers :
           \E f \in FdInputs(h), num \in NumInputs(h),
              fi \in IF Opens(h) THEN FileInfo ELSE {NoInfo} :
           call' = [call EXCEPT ![w] =
              [n |-> ncalls + 1, h |-> h, fd |-> f,
               a |-> [fh |-> IF UsesFile(h) THEN files[f].fh ELSE ZeroHandle,
                      num |-> num, fi |-> fi]]]
    BY <1>1 DEF Call
  <2>5. PICK f \in FdInputs(h), num \in NumInputs(h),
              fi \in IF Opens(h) THEN FileInfo ELSE {NoInfo} :
           call' = [call EXCEPT ![w] =
              [n |-> ncalls + 1, h |-> h, fd |-> f,
               a |-> [fh |-> IF UsesFile(h) THEN files[f].fh ELSE ZeroHandle,
                      num |-> num, fi |-> fi]]]
    BY <2>4
  <2>6. f \in Fds \/ (f = None /\ ~UsesFile(h))
    BY <2>5 DEF FdInputs, Opens, Closes, UsesFile
  <2>7. (IF UsesFile(h) THEN files[f].fh ELSE ZeroHandle) \in FileHandles
    BY <1>0, <2>6 DEF TypeKernel, OpenFile, FileHandles
  <2>8. num \in Nat
    BY ParametersAssumption, SizesAssumption DEF NumInputs
  <2>9. fi \in FileInfos
    <3>1. NoInfo \in FileInfos
      BY DEF NoInfo, FileInfos, OFlags
    <3> QED BY <2>5, <3>1, ParametersAssumption
  <2>10. [n |-> ncalls + 1, h |-> h, fd |-> f,
          a |-> [fh |-> IF UsesFile(h) THEN files[f].fh ELSE ZeroHandle,
                 num |-> num, fi |-> fi]] \in
           [n : Nat, h : HandlerNames \cup {None}, fd : Fds \cup {None}, a : Arguments]
    BY <1>0, <2>2, <2>6, <2>7, <2>8, <2>9, ParametersAssumption DEF Arguments, Calls
  <2>11. TypeWorkers'
    BY <1>0, <1>1, <2>5, <2>10 DEF Call, TypeWorkers
  <2>12. Shape'
    BY <1>0, <1>1, <2>2, <2>5 DEF Call, Shape, TypeWorkers, Busy
  <2> QED BY <2>1, <2>2, <2>3, <2>4, <2>5, <2>6, <2>7, <2>8, <2>9, <2>10, <2>11, <2>12 DEF TypeInv, TypeOK
<1>2. ASSUME NEW w \in Workers, Enter(w) PROVE TypeInv'
  <2>1. Handler(w) \in HandlerRecords
    BY <1>0, <1>a, <1>2 DEF Enter, q__Mutex_lock, TypeWorkers
  <2>2. [n |-> call[w].n, b |-> Handler(w).req,
         ouid |-> (opuid + IF Handler(w).lock THEN 1 ELSE 0) % OuidMod] \in RequestMsgs
    <3>1. (opuid + IF Handler(w).lock THEN 1 ELSE 0) % OuidMod \in Nat
      BY <1>0, ParametersAssumption DEF TypeProcess
    <3> QED BY <1>0, <2>1, <3>1 DEF RequestMsgs, TypeWorkers, HandlerRecords
  <2>3. (opuid + Handler(w).bump) % OuidMod \in 0..(OuidMod - 1)
    BY <1>0, <2>1, ParametersAssumption DEF TypeProcess, HandlerRecords
  <2>4. TypeProcess'
    BY <1>0, <1>2, <2>2, <2>3 DEF Enter, q__Mutex_lock, TypeProcess
  <2>5. TypeWorkers'
    BY <1>0, <1>2, <2>2 DEF Enter, q__Mutex_lock, TypeWorkers
  <2>6. TypeWire' /\ TypeKernel' /\ TypeClient'
    BY <1>0, <1>2 DEF Enter, q__Mutex_lock, TypeWire, TypeKernel, TypeClient
  <2>7. Shape'
    BY <1>0, <1>2, <2>2, NoneAssumption DEF Enter, q__Mutex_lock, Shape, TypeWorkers, Busy
  <2> QED BY <2>1, <2>2, <2>3, <2>4, <2>5, <2>6, <2>7 DEF TypeInv, TypeOK
<1>3. ASSUME NEW w \in Workers, Reject(w) PROVE TypeInv'
  <2>1. "einval" \in Outcomes
    BY DEF Outcomes
  <2>2. /\ pc' = [pc EXCEPT ![w] = "idle"] /\ mu' \in Workers \cup {None}
        /\ ret' \in [Calls -> Outcomes] /\ files' \in [Fds -> OpenFile]
    BY <1>3, <2>1, FailTypes DEF Reject
  <2>3. TypeKernel'
    BY <1>0, <1>3, <2>2 DEF Reject, TypeKernel
  <2>4. TypeWorkers'
    BY <1>0, <1>3, <2>2 DEF Reject, TypeWorkers
  <2>5. TypeWire' /\ TypeClient'
    BY <1>0, <1>3 DEF Reject, TypeWire, TypeClient
  <2>6. Shape'
    BY <1>0, <1>3, <2>2 DEF Reject, Shape, TypeWorkers, Busy
  <2>7. Handler(w) \in HandlerRecords
    BY <1>0, <1>a, <1>3 DEF Reject, TypeWorkers
  <2>8. (opuid + Handler(w).bump) % OuidMod \in 0..(OuidMod - 1)
    BY <1>0, <2>7, ParametersAssumption DEF TypeProcess, HandlerRecords
  <2>9. TypeProcess'
    BY <1>0, <1>3, <2>2, <2>8 DEF Reject, TypeProcess
  <2> QED BY <2>1, <2>2, <2>3, <2>4, <2>5, <2>6, <2>7, <2>8, <2>9 DEF TypeInv, TypeOK
<1>4. ASSUME NEW w \in Workers, SendByte(w) PROVE TypeInv'
  <2>1. TypeProcess' /\ TypeKernel' /\ TypeClient'
    BY <1>0, <1>4 DEF SendByte, TypeProcess, TypeKernel, TypeClient
  <2>2. [m |-> req[w], at |-> already[w]] \in Bytes(RequestMsgs)
    BY <1>0, <1>b, <1>4 DEF SendByte, Busy, TypeWorkers, Bytes
  <2>3. TypeWire'
    BY <1>0, <1>4, <2>2 DEF SendByte, TypeWire
  <2>4. Nothing \in Gathers(ReplyMsgs)
    BY DEF Nothing, Gathers
  <2>5. TypeWorkers'
    <3>1. already' \in [Workers -> Nat]
      BY <1>0, <1>4 DEF SendByte, TypeWorkers
    <3>2. got' \in [Workers -> Gathers(ReplyMsgs)]
      BY <1>0, <1>4, <2>4 DEF SendByte, TypeWorkers
    <3>3. pc' \in [Workers -> {"idle", "enter", "send", "hdr", "body"}]
      BY <1>0, <1>4 DEF SendByte, TypeWorkers
    <3> QED BY <1>0, <1>4, <3>1, <3>2, <3>3 DEF SendByte, TypeWorkers
  <2>6. Shape'
    BY <1>0, <1>4 DEF SendByte, Shape, TypeWorkers, Busy, Nothing
  <2> QED BY <2>1, <2>2, <2>3, <2>4, <2>5, <2>6 DEF TypeInv, TypeOK
<1>5. ASSUME NEW w \in Workers, SendFail(w) PROVE TypeInv'
  <2>1. "ebusy" \in Outcomes
    BY DEF Outcomes
  <2>2. /\ pc' = [pc EXCEPT ![w] = "idle"] /\ mu' \in Workers \cup {None}
        /\ ret' \in [Calls -> Outcomes] /\ files' \in [Fds -> OpenFile]
    BY <1>5, <2>1, FailTypes DEF SendFail
  <2>3. TypeKernel'
    BY <1>0, <1>5, <2>2 DEF SendFail, TypeKernel
  <2>4. TypeWorkers'
    BY <1>0, <1>5, <2>2 DEF SendFail, TypeWorkers
  <2>5. TypeWire' /\ TypeClient'
    BY <1>0, <1>5 DEF SendFail, TypeWire, TypeClient
  <2>6. Shape'
    BY <1>0, <1>5, <2>2 DEF SendFail, Shape, TypeWorkers, Busy
  <2>7. TypeProcess'
    BY <1>0, <1>5, <2>2 DEF SendFail, TypeProcess
  <2> QED BY <2>1, <2>2, <2>3, <2>4, <2>5, <2>6, <2>7 DEF TypeInv, TypeOK
<1>6. ASSUME NEW w \in Workers, SigPipe(w) PROVE TypeInv'
  <2>1. TypeProcess'
    BY <1>0, <1>6 DEF SigPipe, TypeProcess
  <2>2. TypeWorkers' /\ TypeWire' /\ TypeKernel' /\ TypeClient'
    BY <1>0, <1>6 DEF SigPipe, TypeWorkers, TypeWire, TypeKernel, TypeClient
  <2>3. Shape'
    BY <1>0, <1>6 DEF SigPipe, Shape, Busy
  <2> QED BY <2>1, <2>2, <2>3 DEF TypeInv, TypeOK
<1>7. ASSUME NEW w \in Workers, RecvByte(w) PROVE TypeInv'
  <2>1. TypeProcess' /\ TypeKernel' /\ TypeClient'
    BY <1>0, <1>7 DEF RecvByte, TypeProcess, TypeKernel, TypeClient
  <2>2. Head(in) \in Bytes(ReplyMsgs)
    BY <1>0, <1>7 DEF RecvByte, TypeWire
  <2>3. TypeWire'
    BY <1>0, <1>7 DEF RecvByte, TypeWire
  <2>4. got[w] \in Gathers(ReplyMsgs) /\ (got[w].k > 0 => got[w].m \in ReplyMsgs)
    BY <1>0, <1>b DEF TypeWorkers
  <2>5. /\ Gather(got[w], Head(in)) \in Gathers(ReplyMsgs)
        /\ Gather(got[w], Head(in)).m \in ReplyMsgs
    BY <2>2, <2>4, GatherType
  <2>6. TypeWorkers'
    BY <1>0, <1>7, <2>5 DEF RecvByte, TypeWorkers
  <2>7. Shape'
    BY <1>0, <1>7, <2>5, NoneAssumption DEF RecvByte, Shape, TypeWorkers, Busy
  <2> QED BY <2>1, <2>2, <2>3, <2>4, <2>5, <2>6, <2>7 DEF TypeInv, TypeOK
<1>8. ASSUME NEW w \in Workers, RecvFail(w) PROVE TypeInv'
  <2>1. "ebusy" \in Outcomes
    BY DEF Outcomes
  <2>2. /\ pc' = [pc EXCEPT ![w] = "idle"] /\ mu' \in Workers \cup {None}
        /\ ret' \in [Calls -> Outcomes] /\ files' \in [Fds -> OpenFile]
    BY <1>8, <2>1, FailTypes DEF RecvFail
  <2>3. TypeKernel'
    BY <1>0, <1>8, <2>2 DEF RecvFail, TypeKernel
  <2>4. TypeWorkers'
    BY <1>0, <1>8, <2>2 DEF RecvFail, TypeWorkers
  <2>5. TypeWire' /\ TypeClient'
    BY <1>0, <1>8 DEF RecvFail, TypeWire, TypeClient
  <2>6. Shape'
    BY <1>0, <1>8, <2>2 DEF RecvFail, Shape, TypeWorkers, Busy
  <2>7. TypeProcess'
    BY <1>0, <1>8, <2>2 DEF RecvFail, TypeProcess
  <2> QED BY <2>1, <2>2, <2>3, <2>4, <2>5, <2>6, <2>7 DEF TypeInv, TypeOK
<1>9. ASSUME NEW w \in Workers, SpinEOF(w) PROVE TypeInv'
  <2>1. TypeProcess' /\ TypeWorkers' /\ TypeWire' /\ TypeKernel' /\ TypeClient' /\ Shape'
    BY <1>0, <1>9 DEF SpinEOF, vars, TypeProcess, TypeWorkers, TypeWire, TypeKernel, TypeClient, Shape, Busy
  <2> QED BY <2>1 DEF TypeInv, TypeOK
<1>10. ASSUME NEW w \in Workers, ReplyError(w) PROVE TypeInv'
  <2>1. "err" \in Outcomes
    BY DEF Outcomes
  <2>2. /\ pc' = [pc EXCEPT ![w] = "idle"] /\ mu' \in Workers \cup {None}
        /\ ret' \in [Calls -> Outcomes] /\ files' \in [Fds -> OpenFile]
    BY <1>10, <2>1, FailTypes DEF ReplyError
  <2>3. \A hdr \in Headers(got[w]) : hdr \in [size : Nat, rtvl : Int]
    <3>1. CASE got[w].ok
      BY <3>1, <1>0, <1>b, <1>10, SizesAssumption DEF ReplyError, Headers, ReplyMsgs
    <3>2. CASE ~got[w].ok
      BY <3>2, SizesAssumption DEF Headers
    <3> QED BY <3>1, <3>2
  <2>4. TypeProcess' /\ TypeKernel'
    BY <1>0, <1>10, <2>2 DEF ReplyError, TypeProcess, TypeKernel
  <2>5. TypeWorkers'
    BY <1>0, <1>10, <2>2, <2>3 DEF ReplyError, TypeWorkers
  <2>6. TypeWire' /\ TypeClient'
    BY <1>0, <1>10 DEF ReplyError, TypeWire, TypeClient
  <2>7. Shape'
    BY <1>0, <1>10, <2>2, <2>3, NoneAssumption DEF ReplyError, Shape, TypeWorkers, Busy
  <2> QED BY <2>1, <2>2, <2>3, <2>4, <2>5, <2>6, <2>7 DEF TypeInv, TypeOK
<1>11. ASSUME NEW w \in Workers, ReplyAbort(w) PROVE TypeInv'
  <2>1. \A hdr \in Headers(got[w]) : hdr \in [size : Nat, rtvl : Int]
    <3>1. CASE got[w].ok
      BY <3>1, <1>0, <1>b, <1>11, SizesAssumption DEF ReplyAbort, Headers, ReplyMsgs
    <3>2. CASE ~got[w].ok
      BY <3>2, SizesAssumption DEF Headers
    <3> QED BY <3>1, <3>2
  <2>2. TypeProcess' /\ TypeKernel' /\ TypeWire' /\ TypeClient'
    BY <1>0, <1>11 DEF ReplyAbort, TypeProcess, TypeKernel, TypeWire, TypeClient
  <2>3. TypeWorkers'
    BY <1>0, <1>11, <2>1 DEF ReplyAbort, TypeWorkers
  <2>4. Shape'
    BY <1>0, <1>11, <2>1, NoneAssumption DEF ReplyAbort, Shape, TypeWorkers, Busy
  <2> QED BY <2>1, <2>2, <2>3, <2>4 DEF TypeInv, TypeOK
<1>12. ASSUME NEW w \in Workers, ReplyAccept(w) PROVE TypeInv'
  <2>1. \A hdr \in Headers(got[w]) : hdr \in [size : Nat, rtvl : Int]
    <3>1. CASE got[w].ok
      BY <3>1, <1>0, <1>b, <1>12, SizesAssumption DEF ReplyAccept, Headers, ReplyMsgs
    <3>2. CASE ~got[w].ok
      BY <3>2, SizesAssumption DEF Headers
    <3> QED BY <3>1, <3>2
  <2>2. TypeProcess' /\ TypeKernel' /\ TypeWire' /\ TypeClient'
    BY <1>0, <1>12 DEF ReplyAccept, TypeProcess, TypeKernel, TypeWire, TypeClient
  <2>3. TypeWorkers'
    BY <1>0, <1>12, <2>1 DEF ReplyAccept, TypeWorkers
  <2>4. Shape'
    BY <1>0, <1>12, <2>1, NoneAssumption DEF ReplyAccept, Shape, TypeWorkers, Busy
  <2> QED BY <2>1, <2>2, <2>3, <2>4 DEF TypeInv, TypeOK
<1>13. ASSUME NEW w \in Workers, Finish(w) PROVE TypeInv'
  <2>1. "ok" \in Outcomes
    BY DEF Outcomes
  <2>2. /\ pc' = [pc EXCEPT ![w] = "idle"] /\ mu' \in Workers \cup {None}
        /\ ret' \in [Calls -> Outcomes] /\ files' \in [Fds -> OpenFile]
    <3>1. CASE Opens(call[w].h)
      <4>1. OpenedFile(w) \in OpenFile
        BY <3>1, <1>0, <1>b, <1>13, OpenedType
      <4> QED BY <3>1, <4>1, <2>1, <1>13, ReturnTypes DEF Finish
    <3>2. CASE ~Opens(call[w].h)
      BY <3>2, <2>1, <1>13, FailTypes DEF Finish
    <3> QED BY <3>1, <3>2
  <2>3. TypeProcess' /\ TypeKernel'
    BY <1>0, <1>13, <2>2 DEF Finish, TypeProcess, TypeKernel
  <2>4. TypeWorkers'
    BY <1>0, <1>13, <2>2 DEF Finish, TypeWorkers
  <2>5. TypeWire' /\ TypeClient'
    BY <1>0, <1>13 DEF Finish, TypeWire, TypeClient
  <2>6. Shape'
    BY <1>0, <1>13, <2>2 DEF Finish, Shape, TypeWorkers, Busy
  <2> QED BY <2>1, <2>2, <2>3, <2>4, <2>5, <2>6 DEF TypeInv, TypeOK
<1>14. ASSUME ClientRead PROVE TypeInv'
  <2>1. TypeProcess' /\ TypeWorkers' /\ TypeKernel'
    BY <1>0, <1>14 DEF ClientRead, TypeProcess, TypeWorkers, TypeKernel
  <2>2. Head(out) \in Bytes(RequestMsgs)
    BY <1>0, <1>14 DEF ClientRead, TypeWire
  <2>3. TypeWire'
    BY <1>0, <1>14 DEF ClientRead, TypeWire
  <2>4. /\ Gather(cgot, Head(out)) \in Gathers(RequestMsgs)
        /\ Gather(cgot, Head(out)).m \in RequestMsgs
    BY <1>0, <1>b, <2>2, GatherType DEF TypeClient
  <2>5. cgot' \in Gathers(RequestMsgs) /\ cgot'.m \in RequestMsgs
    BY <1>14, <2>4, UnderstoodType DEF ClientRead
  <2>6. TypeClient'
    BY <1>0, <1>14, <2>5 DEF ClientRead, TypeClient
  <2>7. Shape'
    BY <1>0, <1>14, <2>5, NoneAssumption DEF ClientRead, Shape, Busy
  <2> QED BY <2>1, <2>3, <2>6, <2>7 DEF TypeInv, TypeOK
<1>15. ASSUME ClientExec PROVE TypeInv'
  <2>1. TypeProcess' /\ TypeWorkers' /\ TypeWire' /\ TypeKernel'
    BY <1>0, <1>15 DEF ClientExec, TypeProcess, TypeWorkers, TypeWire, TypeKernel
  <2>2. cgot.m \in RequestMsgs
    BY <1>0, <1>b, <1>15, SizesAssumption DEF ClientExec, ClientReady, TypeClient, Gathers
  <2>3. PICK r \in Successes(cgot.m) \cup {Failure(cgot.m)} :
           /\ hdl' = HandlesAfter(cgot.m, r)
           /\ crep' = IF LiteralClient /\ NeedNotReply(cgot.m.b) THEN None ELSE r
    BY <1>15 DEF ClientExec
  <2>4. r \in ReplyMsgs
    BY <2>2, <2>3, AnswerType
  <2>5. hdl' \in [Handles -> {"none", "file", "dir"}]
    BY <1>0, <2>3 DEF HandlesAfter, TypeClient
  <2>6. ran' \in [Calls -> Nat]
    <3>1. CASE cgot.m.n \in Calls
      BY <3>1, <1>0, <1>15 DEF ClientExec, TypeClient
    <3>2. CASE cgot.m.n \notin Calls
      BY <3>2, <1>0, <1>15 DEF ClientExec, TypeClient
    <3> QED BY <3>1, <3>2
  <2>7. Nothing \in Gathers(RequestMsgs)
    BY DEF Nothing, Gathers
  <2>8. TypeClient'
    BY <1>0, <1>15, <2>3, <2>4, <2>5, <2>6, <2>7 DEF ClientExec, TypeClient
  <2>9. Shape'
    BY <1>0, <1>15 DEF ClientExec, Shape, Busy, Nothing
  <2> QED BY <2>1, <2>2, <2>3, <2>4, <2>5, <2>6, <2>7, <2>8, <2>9 DEF TypeInv, TypeOK
<1>16. ASSUME ClientSend PROVE TypeInv'
  <2>1. TypeProcess' /\ TypeWorkers' /\ TypeKernel'
    BY <1>0, <1>16 DEF ClientSend, TypeProcess, TypeWorkers, TypeKernel
  <2>2. [m |-> crep, at |-> cput] \in Bytes(ReplyMsgs)
    BY <1>0, <1>16 DEF ClientSend, TypeClient, Bytes
  <2>3. TypeWire'
    BY <1>0, <1>16, <2>2 DEF ClientSend, TypeWire
  <2>4. TypeClient'
    BY <1>0, <1>16 DEF ClientSend, TypeClient
  <2>5. Shape'
    BY <1>0, <1>16 DEF ClientSend, Shape, Busy
  <2> QED BY <2>1, <2>2, <2>3, <2>4, <2>5 DEF TypeInv, TypeOK
<1>17. ASSUME Leave PROVE TypeInv'
  <2>1. TypeProcess' /\ TypeWorkers' /\ TypeKernel'
    BY <1>0, <1>17 DEF Leave, TypeProcess, TypeWorkers, TypeKernel
  <2>2. TypeWire'
    BY <1>0, <1>17 DEF Leave, TypeWire
  <2>3. TypeClient'
    BY <1>0, <1>17 DEF Leave, TypeClient, Nothing, Gathers
  <2>4. Shape'
    BY <1>0, <1>17 DEF Leave, Shape, Busy, Nothing
  <2> QED BY <2>1, <2>2, <2>3, <2>4 DEF TypeInv, TypeOK
<1>18. ASSUME ConnBreak PROVE TypeInv'
  <2>1. TypeProcess' /\ TypeWorkers' /\ TypeWire' /\ TypeKernel' /\ TypeClient' /\ Shape'
    BY <1>0, <1>18 DEF ConnBreak, TypeProcess, TypeWorkers, TypeWire, TypeKernel, TypeClient, Shape, Busy
  <2> QED BY <2>1 DEF TypeInv, TypeOK
<1>19. CASE UNCHANGED vars
  BY <1>0, <1>19 DEF vars, TypeInv, TypeOK, TypeProcess, TypeWorkers, TypeWire, TypeKernel,
     TypeClient, Shape, Busy
<1> QED
  BY <1>1, <1>2, <1>3, <1>4, <1>5, <1>6, <1>7, <1>8, <1>9, <1>10, <1>11,
     <1>12, <1>13, <1>14, <1>15, <1>16, <1>17, <1>18, <1>19
  DEF Next, Step, Client, ClientLost, PeerClose, Terminated

\* Every variable keeps the type of the C object it models, at every step of the
\* handlers, the kernel and the client: no reply, error or failure takes the
\* process' own state out of its range.
THEOREM TypeCorrect == Spec => []TypeOK
<1>1. TypeInv /\ [Next]_vars => TypeInv'
  BY TypeInvNext
<1>2. TypeInv => TypeOK
  BY DEF TypeInv
<1> QED BY TypeInvInit, <1>1, <1>2, PTL DEF Spec

-----------------------------------------------------------------------------
(***************************************************************************)
(* What mu guarantees, for any number of workers: the handlers have the    *)
(* connection to themselves one at a time, and every way out of a handler  *)
(* leaves mu free.  And what opuid, which mu protects, guarantees before   *)
(* it wraps: the requests of the locking handlers are told apart by it.    *)
(***************************************************************************)

\* The handlers that do not take the lock are the four of WorkersAssumption.
LEMMA OnlyFourUnlocked ==
    ASSUME NEW h \in HandlerNames \ {"chmod", "access", "unlink", "utimens"}, NEW a
    PROVE  zhwkrfsp(h, a).lock = TRUE
BY DEF HandlerNames, zhwkrfsp, fuse_getattr, fuse_readlink, fuse_mkdir, fuse_rmdir,
       fuse_symlink, fuse_truncate, fuse_open, fuse_read, fuse_write, fuse_statfs, fuse_release,
       fuse_opendir, fuse_readdir, fuse_releasedir, fuse_creat, Locked, Opening, Handling

LockInv == Exclusion /\ MuGuards

\* A worker on the connection holds mu, unless it is the only worker there is.
LEMMA BusyHoldsMu ==
    ASSUME TypeInv, LockInv, NEW v \in Workers, Busy(v)
    PROVE  mu = v \/ \A w \in Workers : w = v
<1>1. call[v].h \in Handlers
  BY DEF TypeInv, Shape, Busy
<1>2. CASE \A x, y \in Workers : x = y
  BY <1>2
<1>3. CASE Handlers \cap {"chmod", "access", "unlink", "utimens"} = {}
  <2>1. Handler(v).lock
    BY <1>1, <1>3, OnlyFourUnlocked, ParametersAssumption DEF Handler
  <2> QED BY <2>1 DEF LockInv, MuGuards
<1> QED BY <1>2, <1>3, WorkersAssumption

\* Whoever returns from a handler was alone on the connection, and leaves mu free.
LEMMA ReturnKeepsLockInv ==
    ASSUME TypeInv, LockInv, NEW w \in Workers,
           Busy(w) \/ mu = None,
           pc' = [pc EXCEPT ![w] = "idle"], mu' = None, call' = call
    PROVE  LockInv'
<1>1. ASSUME NEW v \in Workers PROVE ~Busy(v)'
  <2>1. CASE v = w
    BY <2>1 DEF TypeInv, TypeOK, TypeWorkers, Busy
  <2>2. CASE v # w
    <3>1. Busy(v)' => Busy(v)
      BY <2>2 DEF TypeInv, TypeOK, TypeWorkers, Busy
    <3>2. Busy(v) => ~Busy(w)
      BY <2>2 DEF LockInv, Exclusion
    <3>3. Busy(v) => mu # None
      BY <2>2, BusyHoldsMu, NoneAssumption
    <3> QED BY <3>1, <3>2, <3>3
  <2> QED BY <2>1, <2>2
<1> QED BY <1>1 DEF LockInv, Exclusion, MuGuards

\* Every action keeps the lock's two guarantees.
LEMMA LockInvNext == TypeInv /\ LockInv /\ [Next]_vars => LockInv'
<1> SUFFICES ASSUME TypeInv, LockInv, [Next]_vars PROVE LockInv'
  OBVIOUS
<1> USE DEF kernelVars, clientVars, workerVars
<1>0. /\ pc \in [Workers -> {"idle", "enter", "send", "hdr", "body"}]
      /\ mu \in Workers \cup {None}
  BY DEF TypeInv, TypeOK, TypeWorkers, TypeProcess
<1>1. ASSUME NEW w \in Workers, Call(w) PROVE LockInv'
  <2>1. \A v \in Workers : /\ Busy(v)' <=> Busy(v)
                           /\ Busy(v) => call'[v] = call[v]
    BY <1>0, <1>1 DEF Call, Busy
  <2> QED BY <2>1, <1>0, <1>1 DEF Call, LockInv, Exclusion, MuGuards, Handler
<1>2. ASSUME NEW w \in Workers, Enter(w) PROVE LockInv'
  <2>1. call' = call /\ \A v \in Workers : Busy(v)' <=> (Busy(v) \/ v = w)
    BY <1>0, <1>2 DEF Enter, q__Mutex_lock, Busy
  <2>2. ~Busy(w)
    BY <1>2 DEF Enter, q__Mutex_lock, Busy
  <2>3. ASSUME NEW v \in Workers, Busy(v) PROVE FALSE
    <3>1. v # w
      BY <2>2, <2>3
    <3>2. mu = v
      BY <2>3, <3>1, BusyHoldsMu
    <3>3. ~Handler(w).lock
      BY <1>2, <3>2, NoneAssumption DEF Enter, q__Mutex_lock
    <3>4. call[w].h \in Handlers
      BY <1>2 DEF TypeInv, Shape, Enter, q__Mutex_lock
    <3> QED BY <3>1, <3>3, <3>4, OnlyFourUnlocked, ParametersAssumption, WorkersAssumption DEF Handler
  <2>4. mu = None
    BY <1>0, <2>3 DEF LockInv, MuGuards
  <2>5. (mu' = w \/ mu' = None) /\ (Handler(w).lock => mu' = w)
    BY <1>2, <2>4 DEF Enter, q__Mutex_lock
  <2>6. \A v \in Workers : Busy(v)' => v = w
    BY <2>1, <2>3
  <2>7. Exclusion'
    BY <2>6 DEF Exclusion
  <2>8. MuGuards'
    BY <2>1, <2>5, <2>6, NoneAssumption DEF MuGuards, Handler
  <2> QED BY <2>7, <2>8 DEF LockInv
<1>3. ASSUME NEW w \in Workers, Reject(w) PROVE LockInv'
  BY <1>3, ReturnKeepsLockInv DEF Reject, Fail, Return, q__Mutex_unlock
<1>4. ASSUME NEW w \in Workers, SendByte(w) PROVE LockInv'
  <2>1. mu' = mu /\ call' = call /\ \A v \in Workers : Busy(v)' <=> Busy(v)
    BY <1>0, <1>4 DEF SendByte, Busy
  <2> QED BY <2>1, <1>0 DEF LockInv, Exclusion, MuGuards, Handler
<1>5. ASSUME NEW w \in Workers, SendFail(w) PROVE LockInv'
  BY <1>5, ReturnKeepsLockInv DEF SendFail, Fail, Return, q__Mutex_unlock, Busy
<1>6. ASSUME NEW w \in Workers, RecvFail(w) PROVE LockInv'
  BY <1>6, ReturnKeepsLockInv DEF RecvFail, Fail, Return, q__Mutex_unlock, Busy
<1>7. ASSUME NEW w \in Workers, ReplyError(w) PROVE LockInv'
  BY <1>7, ReturnKeepsLockInv DEF ReplyError, Fail, Return, q__Mutex_unlock, Busy
<1>8. ASSUME NEW w \in Workers, Finish(w) PROVE LockInv'
  <2>1. Busy(w) /\ pc' = [pc EXCEPT ![w] = "idle"] /\ mu' = None /\ call' = call
    BY <1>8 DEF Finish, Fail, Return, q__Mutex_unlock, Busy
  <2> QED BY <2>1, ReturnKeepsLockInv
<1>9. ASSUME NEW w \in Workers, ReplyAccept(w) PROVE LockInv'
  <2>1. mu' = mu /\ call' = call /\ \A v \in Workers : Busy(v)' <=> Busy(v)
    BY <1>0, <1>9 DEF ReplyAccept, Busy
  <2> QED BY <2>1, <1>0 DEF LockInv, Exclusion, MuGuards, Handler
<1>10. CASE UNCHANGED <<pc, mu, call>>
  BY <1>10 DEF LockInv, Exclusion, MuGuards, Handler, Busy
<1>11. ASSUME NEW w \in Workers, SigPipe(w) \/ RecvByte(w) \/ SpinEOF(w) \/ ReplyAbort(w)
       PROVE  UNCHANGED <<pc, mu, call>>
  BY <1>11 DEF SigPipe, RecvByte, SpinEOF, ReplyAbort, vars
<1>12. ASSUME Client \/ ClientLost \/ PeerClose \/ ConnBreak \/ Terminated \/ UNCHANGED vars
       PROVE  UNCHANGED <<pc, mu, call>>
  BY <1>12 DEF Client, ClientRead, ClientExec, ClientSend, ClientLost, PeerClose, Leave,
               ConnBreak, Terminated, vars
<1> QED
  BY <1>1, <1>2, <1>3, <1>4, <1>5, <1>6, <1>7, <1>8, <1>9, <1>10, <1>11, <1>12 DEF Next, Step

\* Handlers never meet on the connection, and mu is held exactly by the handler
\* that took it, until it returns: with any number of threads when all the
\* handlers lock, with the single thread of fuse_loop when some do not.
THEOREM LockCorrect == Spec => [](Exclusion /\ MuGuards)
<1>1. Init => LockInv
  BY NoneAssumption DEF Init, LockInv, Exclusion, MuGuards, Busy
<1>2. TypeInv /\ [Next]_vars => TypeInv'
  BY TypeInvNext
<1>3. TypeInv /\ LockInv /\ [Next]_vars => LockInv'
  BY LockInvNext
<1>4. LockInv => Exclusion /\ MuGuards
  BY DEF LockInv
<1> QED BY TypeInvInit, <1>1, <1>2, <1>3, <1>4, PTL DEF Spec
-----------------------------------------------------------------------------
\* A handler that takes the lock counts on, by two at the most; the request of one
\* that does not is of a mode in Unlocking.
LEMMA LockersCount ==
    ASSUME NEW h \in HandlerNames, NEW a \in Arguments
    PROVE  /\ zhwkrfsp(h, a).bump \in 0..2
           /\ zhwkrfsp(h, a).req.mode \notin Unlocking =>
                  zhwkrfsp(h, a).lock /\ zhwkrfsp(h, a).bump >= 1
<1>1. CASE h \in {"chmod", "access", "unlink", "utimens"}
  <2>1. zhwkrfsp(h, a).bump = 0
    BY <1>1 DEF zhwkrfsp, fuse_chmod, fuse_access, fuse_unlink, fuse_utimens, Unlocked, Handling
  <2>2. zhwkrfsp(h, a).req.mode \in Unlocking
    BY <1>1 DEF zhwkrfsp, fuse_chmod, fuse_access, fuse_unlink, fuse_utimens, Unlocked, Handling,
                Writ, Request, Unlocking
  <2> QED BY <2>1, <2>2
<1>2. CASE h \notin {"chmod", "access", "unlink", "utimens"}
  <2>1. zhwkrfsp(h, a).bump \in 1..2
    BY <1>2 DEF HandlerNames, zhwkrfsp, fuse_getattr, fuse_readlink, fuse_mkdir, fuse_rmdir,
       fuse_symlink, fuse_truncate, fuse_open, fuse_read, fuse_write, fuse_statfs, fuse_release,
       fuse_opendir, fuse_readdir, fuse_releasedir, fuse_creat, Locked, Opening, Handling
  <2>2. zhwkrfsp(h, a).lock
    BY <1>2, OnlyFourUnlocked
  <2> QED BY <2>1, <2>2
<1> QED BY <1>1, <1>2

\* The calls that have been made and have not counted yet; opuid has not wrapped, and
\* no locking handler has been given a number that is still to come.
Entering == {w \in Workers : pc[w] = "enter"}
OuidInv ==
    /\ IsFiniteSet(Entering)
    /\ opuid + 2 * Cardinality(Entering) <= 2 * ncalls
    /\ \A x \in sent : x.b.mode \notin Unlocking => x.ouid <= opuid
    /\ OuidGroups

\* A uint32_t that does not wrap.
LEMMA BelowOuidMod == ASSUME NEW x \in Nat, x < OuidMod PROVE x % OuidMod = x
BY ParametersAssumption

\* A handler that leaves its first step makes room for the two numbers it may take.
LEMMA EnteringLeft ==
    ASSUME TypeInv, OuidInv, 2 * MaxCalls < OuidMod, NEW w \in Workers, pc[w] = "enter",
           pc'[w] # "enter", \A v \in Workers \ {w} : pc'[v] = pc[v], ncalls' = ncalls
    PROVE  /\ IsFiniteSet(Entering') /\ Cardinality(Entering') \in Nat
           /\ opuid + 2 + 2 * Cardinality(Entering') <= 2 * ncalls /\ opuid + 2 < OuidMod
<1>1. Entering' = Entering \ {w} /\ w \in Entering
  BY DEF Entering
<1>2. IsFiniteSet(Entering) /\ opuid + 2 * Cardinality(Entering) <= 2 * ncalls
  BY DEF OuidInv
<1>3. /\ IsFiniteSet(Entering') /\ Cardinality(Entering') = Cardinality(Entering) - 1
  BY <1>1, <1>2, FS_RemoveElement
<1>4. Cardinality(Entering') \in Nat /\ Cardinality(Entering) \in Nat
  BY <1>2, <1>3, FS_CardinalityType
<1>5. opuid \in Nat /\ ncalls \in Nat /\ MaxCalls \in Nat /\ OuidMod \in Nat /\ ncalls <= MaxCalls
  BY ParametersAssumption DEF TypeInv, TypeOK, TypeProcess, TypeKernel
<1> QED BY <1>2, <1>3, <1>4, <1>5

\* As long as opuid does not wrap, every step keeps the numbers of the locking
\* handlers apart.
LEMMA OuidInvNext ==
    ASSUME TypeInv, OuidInv, 2 * MaxCalls < OuidMod, [Next]_vars
    PROVE  OuidInv'
<1> USE DEF kernelVars, clientVars, workerVars
<1>0. /\ pc \in [Workers -> {"idle", "enter", "send", "hdr", "body"}]
      /\ opuid \in Nat /\ ncalls \in Nat /\ OuidMod \in Nat
      /\ \A x \in sent : x.ouid \in Nat
  BY ParametersAssumption DEF TypeInv, TypeOK, TypeWorkers, TypeProcess, TypeKernel, RequestMsgs
<1>1. ASSUME NEW w \in Workers, Call(w) PROVE OuidInv'
  <2>1. Entering' = Entering \cup {w} /\ w \notin Entering /\ ncalls' = ncalls + 1
        /\ UNCHANGED <<opuid, sent>>
    BY <1>0, <1>1 DEF Call, Entering
  <2>2. IsFiniteSet(Entering') /\ Cardinality(Entering') = Cardinality(Entering) + 1
    BY <2>1, FS_AddElement DEF OuidInv
  <2>3. Cardinality(Entering) \in Nat
    BY FS_CardinalityType DEF OuidInv
  <2>4. opuid' + 2 * Cardinality(Entering') <= 2 * ncalls'
    BY <1>0, <2>1, <2>2, <2>3 DEF OuidInv
  <2> QED BY <2>1, <2>2, <2>4 DEF OuidInv, OuidGroups
<1>2. ASSUME NEW w \in Workers, Enter(w) \/ Reject(w),
             Handler(w).bump \in 0..2
      PROVE  /\ IsFiniteSet(Entering') /\ opuid' + 2 * Cardinality(Entering') <= 2 * ncalls'
             /\ opuid' = opuid + Handler(w).bump /\ opuid + 2 < OuidMod
  <2>1. /\ pc[w] = "enter" /\ pc'[w] # "enter" /\ \A v \in Workers \ {w} : pc'[v] = pc[v]
        /\ ncalls' = ncalls
    BY <1>0, <1>2 DEF Enter, q__Mutex_lock, Reject, Fail, Return, q__Mutex_unlock
  <2>2. /\ IsFiniteSet(Entering') /\ Cardinality(Entering') \in Nat
        /\ opuid + 2 + 2 * Cardinality(Entering') <= 2 * ncalls /\ opuid + 2 < OuidMod
    BY <2>1, EnteringLeft
  <2>3. opuid' = (opuid + Handler(w).bump) % OuidMod
    BY <1>2 DEF Enter, q__Mutex_lock, Reject
  <2>4. opuid + Handler(w).bump \in Nat /\ opuid + Handler(w).bump < OuidMod
    BY <1>0, <1>2, <2>2
  <2>5. opuid' = opuid + Handler(w).bump
    BY <2>3, <2>4, BelowOuidMod
  <2> QED BY <1>0, <1>2, <2>1, <2>2, <2>5
<1>3. ASSUME NEW w \in Workers, pc[w] # "idle"
      PROVE  /\ Handler(w).bump \in 0..2
             /\ Handler(w).req.mode \notin Unlocking => Handler(w).lock /\ Handler(w).bump >= 1
  <2>1. call[w].h \in HandlerNames /\ call[w].a \in Arguments
    BY <1>3, ParametersAssumption DEF TypeInv, TypeOK, TypeWorkers, Shape
  <2> QED BY <2>1, LockersCount DEF Handler
<1>4. ASSUME NEW w \in Workers, Enter(w) PROVE OuidInv'
  <2> DEFINE msg == [n |-> call[w].n, b |-> Handler(w).req,
                     ouid |-> (opuid + IF Handler(w).lock THEN 1 ELSE 0) % OuidMod]
  <2>1. sent' = sent \cup {msg} /\ pc[w] = "enter"
    BY <1>4 DEF Enter, q__Mutex_lock
  <2>2. /\ IsFiniteSet(Entering') /\ opuid' + 2 * Cardinality(Entering') <= 2 * ncalls'
        /\ opuid' = opuid + Handler(w).bump /\ opuid + 2 < OuidMod /\ Handler(w).bump \in 0..2
    BY <1>2, <1>3, <1>4, <2>1
  <2>3. msg.b.mode \notin Unlocking => msg.ouid = opuid + 1 /\ opuid + 1 <= opuid'
    <3> SUFFICES ASSUME msg.b.mode \notin Unlocking
                 PROVE  msg.ouid = opuid + 1 /\ opuid + 1 <= opuid'
      OBVIOUS
    <3>1. Handler(w).lock /\ Handler(w).bump >= 1
      <4>1. Handler(w).req.mode \notin Unlocking
        OBVIOUS
      <4> QED BY <1>3, <2>1, <4>1, Zenon
    <3>2. msg.ouid = (opuid + 1) % OuidMod
      BY <3>1
    <3> QED BY <1>0, <2>2, <3>1, <3>2, BelowOuidMod
  <2> HIDE DEF msg
  <2>4. \A x \in sent' : x.b.mode \notin Unlocking => x.ouid <= opuid'
    <3>1. \A x \in sent : x.b.mode \notin Unlocking => x.ouid <= opuid'
      BY <1>0, <2>2 DEF OuidInv
    <3>2. msg.b.mode \notin Unlocking => msg.ouid <= opuid'
      BY <1>0, <2>3
    <3> QED BY <2>1, <3>1, <3>2
  <2>5. \A x \in sent : x.b.mode \notin Unlocking /\ msg.b.mode \notin Unlocking => x.ouid # msg.ouid
    BY <1>0, <2>3 DEF OuidInv
  <2>6. OuidGroups'
    BY <2>1, <2>5 DEF OuidInv, OuidGroups
  <2> QED BY <2>2, <2>4, <2>6 DEF OuidInv
<1>5. ASSUME NEW w \in Workers, Reject(w) PROVE OuidInv'
  <2>1. sent' = sent /\ pc[w] = "enter"
    BY <1>5 DEF Reject
  <2>2. /\ IsFiniteSet(Entering') /\ opuid' + 2 * Cardinality(Entering') <= 2 * ncalls'
        /\ opuid' = opuid + Handler(w).bump /\ Handler(w).bump \in 0..2
    BY <1>2, <1>3, <1>5, <2>1
  <2>3. \A x \in sent : x.b.mode \notin Unlocking => x.ouid <= opuid'
    BY <1>0, <2>2 DEF OuidInv
  <2> QED BY <2>1, <2>2, <2>3 DEF OuidInv, OuidGroups
<1>6. ASSUME UNCHANGED <<opuid, ncalls, sent>>,
             \A v \in Workers : pc'[v] = "enter" <=> pc[v] = "enter"
      PROVE  OuidInv'
  <2>1. Entering' = Entering
    BY <1>6 DEF Entering
  <2> QED BY <1>6, <2>1 DEF OuidInv, OuidGroups
<1>7. ASSUME NEW w \in Workers,
             SendByte(w) \/ SendFail(w) \/ RecvFail(w) \/ ReplyError(w) \/ ReplyAccept(w) \/ Finish(w)
      PROVE  OuidInv'
  <2>1. UNCHANGED <<opuid, ncalls, sent>>
    BY <1>7 DEF SendByte, SendFail, RecvFail, ReplyError, ReplyAccept, Finish
  <2>2. pc[w] # "enter" /\ pc'[w] # "enter" /\ \A v \in Workers \ {w} : pc'[v] = pc[v]
    BY <1>0, <1>7 DEF SendByte, SendFail, RecvFail, ReplyError, ReplyAccept, Finish, Fail, Return, q__Mutex_unlock
  <2> QED BY <1>6, <2>1, <2>2
<1>8. ASSUME NEW w \in Workers, SigPipe(w) \/ RecvByte(w) \/ SpinEOF(w) \/ ReplyAbort(w)
      PROVE  OuidInv'
  BY <1>6, <1>8 DEF SigPipe, RecvByte, SpinEOF, ReplyAbort, vars
<1>9. CASE Client \/ ClientLost \/ PeerClose \/ ConnBreak \/ Terminated \/ UNCHANGED vars
  BY <1>6, <1>9 DEF Client, ClientRead, ClientExec, ClientSend, ClientLost, PeerClose, Leave,
                    ConnBreak, Terminated, vars
<1> QED BY <1>1, <1>4, <1>5, <1>7, <1>8, <1>9 DEF Next, Step

\* Before opuid wraps, that is for fewer than 2^31 calls, two requests with the same ouid
\* are never both from handlers that take mu: whatever fails, for any number of threads
\* and although truncate counts twice and a rejected open counts without sending.
THEOREM OuidCorrect == ASSUME 2 * MaxCalls < OuidMod PROVE Spec => []OuidGroups
<1>1. Init => OuidInv
  <2> SUFFICES ASSUME Init PROVE OuidInv
    OBVIOUS
  <2>1. Entering = {} /\ opuid = 0 /\ ncalls = 0 /\ sent = {}
    BY DEF Init, Entering
  <2>2. IsFiniteSet(Entering) /\ Cardinality(Entering) = 0
    BY <2>1, FS_EmptySet
  <2> QED BY <2>1, <2>2 DEF OuidInv, OuidGroups
<1>2. TypeInv /\ [Next]_vars => TypeInv'
  BY TypeInvNext
<1>3. TypeInv /\ OuidInv /\ [Next]_vars => OuidInv'
  BY OuidInvNext
<1>4. OuidInv => OuidGroups
  BY DEF OuidInv
<1> QED BY TypeInvInit, <1>1, <1>2, <1>3, <1>4, PTL DEF Spec
=============================================================================
