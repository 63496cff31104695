----------------------------- MODULE FuseServer -----------------------------
(***************************************************************************)
(* The server process (server.c, fuse_server.c, prot.c, netwrap.c): libfuse*)
(* calls a handler for each file system request of the kernel; the handler *)
(* sends one request over the only connection and waits for its reply.     *)
(*                                                                         *)
(* The peer, called the client by the code, executes the requests on its   *)
(* own files.  Its program is not in the repository (client.c is empty):   *)
(* it is modelled as any program that follows README.md and reads requests *)
(* with the functions of prot.c.  The kernel, libfuse and TCP are external *)
(* too.                                                                    *)
(*                                                                         *)
(* A connection is two streams of bytes.  A byte is the message it belongs *)
(* to and its offset there, so that a reader who has lost its place can be *)
(* told from one who has not.  One step moves one byte: that is the finest *)
(* cut read(2) and write(2) can make, and a longer transfer is several of  *)
(* these steps.                                                            *)
(***************************************************************************)
EXTENDS RfspProtocol, Sequences, FiniteSets

CONSTANTS
    Workers,      \* threads that run handlers: one, since main calls fuse_loop
    Handlers,     \* the handlers the kernel calls
    Fds,          \* files the kernel can have open
    BufSizes,     \* buffer sizes of reads and writes
    LinkLens,     \* lengths of link names
    FileInfo,     \* values of *fi at an open
    MaxDirents,   \* bound on the entries of a directory
    MaxCalls,     \* bound on the calls the kernel makes
    OuidMod,      \* 2^32: opuid is a uint32_t
    LiteralClient, \* does the client take README.md literally where prot.c differs?
    MayFail,      \* can the connection fail?
    None          \* no message, no worker, no file

ASSUME ParametersAssumption ==
    /\ Handlers \subseteq HandlerNames
    /\ BufSizes \subseteq Nat
    /\ LinkLens \subseteq 0..ReadlinkBuf
    /\ FileInfo \subseteq FileInfos
    /\ MaxDirents \in Nat /\ MaxCalls \in Nat /\ OuidMod \in Nat \ {0}
    /\ LiteralClient \in BOOLEAN /\ MayFail \in BOOLEAN

\* Handlers that take no lock are only sound under the one-threaded loop.
ASSUME WorkersAssumption ==
    \/ \A v, w \in Workers : v = w
    \/ Handlers \cap {"chmod", "access", "unlink", "utimens"} = {}

Calls == 1..MaxCalls

\* Messages, the bytes they are sent as, and what a reader has gathered of one.
RequestMsgs == [n : Nat, ouid : Nat, b : Requests]
ReplyMsgs == [n : Nat, ouid : Nat, rtvl : Int, size : Nat,
              file_handle : FileHandles, ignore_above : BOOLEAN]
Bytes(M) == [m : M, at : Nat]
Gathers(M) == [m : M \cup {None}, k : Nat, ok : BOOLEAN]

ASSUME NoneAssumption ==
    /\ None \notin Workers /\ None \notin Fds /\ None \notin HandlerNames
    /\ None \notin ReplyMsgs /\ None \notin RequestMsgs /\ None \notin [size : Nat, rtvl : Int]

VARIABLES
    proc,    \* "run", "abort" (ABRT) or "sigpipe": how the process is doing
    mu,      \* the worker that holds mu, or None
    opuid,   \* static uint32_t opuid
    pc,      \* pc[w]: "idle", "enter", "send", "hdr" (wait_reply) or "body" (re_read)
    call,    \* call[w]: the call w is serving
    req,     \* req[w]: the message in the send buffer
    already, \* already[w]: bytes of it that sockwrite has written
    got,     \* got[w]: what sockread has gathered of the reply
    rp,      \* rp[w]: struct RpHdr rp, once read
    conn,    \* the connection as the server's socket sees it
    out, in, \* bytes under way to the client, and to the server
    files,   \* the kernel's open files and their fi->fh
    cup,     \* is the client there?
    cgot,    \* what the client has gathered of a request
    crep,    \* the reply the client is sending, or None
    cput,    \* bytes of it sent
    hdl,     \* the client's open handles
    ncalls,  \* calls made so far
    ran,     \* ran[n]: how often the client has executed the request of call n
    ret,     \* ret[n]: how call n has ended
    sent,    \* the messages composed so far
    sbufs    \* the send buffers that are allocated, by the message they hold

kernelVars == <<files, ncalls>>
clientVars == <<cup, cgot, crep, cput, hdl, ran>>
workerVars == <<pc, call, req, already, got, rp>>
vars == <<proc, mu, opuid, workerVars, conn, out, in, kernelVars, clientVars, ret, sent, sbufs>>

NoInfo == [flags |-> {}, writepage |-> FALSE, direct_io |-> FALSE]
NoCall == [n |-> 0, h |-> None, fd |-> None,
           a |-> [fh |-> ZeroHandle, num |-> 0, fi |-> NoInfo]]

\* sockread's loop: the bytes it has so far.  ok: they are the first k bytes of m.
Nothing == [m |-> None, k |-> 0, ok |-> TRUE]
Gather(g, byte) ==
    [m |-> IF g.k = 0 THEN byte.m ELSE g.m,
     k |-> g.k + 1,
     ok |-> g.ok /\ byte.at = g.k /\ (g.k = 0 \/ byte.m = g.m)]

Handler(w) == zhwkrfsp(call[w].h, call[w].a)

Init ==
    /\ proc = "run" /\ mu = None /\ opuid = 0
    /\ pc = [w \in Workers |-> "idle"]
    /\ call = [w \in Workers |-> NoCall]
    /\ req = [w \in Workers |-> None]
    /\ already = [w \in Workers |-> 0]
    /\ got = [w \in Workers |-> Nothing]
    /\ rp = [w \in Workers |-> None]
    /\ conn = "open" /\ out = <<>> /\ in = <<>>
    /\ files = [f \in Fds |-> [st |-> "free", fh |-> ZeroHandle]]
    /\ ncalls = 0
    /\ cup = TRUE /\ cgot = Nothing /\ crep = None /\ cput = 0
    /\ hdl = [x \in Handles |-> "none"]
    /\ ran = [n \in Calls |-> 0]
    /\ ret = [n \in Calls |-> "none"]
    /\ sent = {} /\ sbufs = {}

-----------------------------------------------------------------------------
(***************************************************************************)
(* The kernel and libfuse (external): a call starts.  The kernel opens a   *)
(* file before it uses it, releases it once, when no call is using it, and *)
(* forgets it however the release ends.                                    *)
(***************************************************************************)
Kind(h) == IF IsDir(h) THEN "dir" ELSE "file"

NumInputs(h) ==
    CASE h \in {"read", "write"} -> BufSizes
      [] h = "symlink"           -> LinkLens
      [] OTHER                   -> {0}

FdInputs(h) ==
    LET InUse(f, hs) ==
            \E v \in Workers : pc[v] # "idle" /\ call[v].fd = f /\ call[v].h \in hs
    IN CASE Opens(h)    -> {f \in Fds : files[f].st = "free" /\ ~InUse(f, Handlers)}
         [] Closes(h)   -> {f \in Fds : files[f].st = Kind(h) /\ ~InUse(f, Handlers)}
         [] UsesFile(h) /\ ~Closes(h) -> {f \in Fds : /\ files[f].st = Kind(h)
                                                      /\ ~InUse(f, {"release", "releasedir"})}
         [] OTHER       -> {None}

Call(w) ==
    /\ proc = "run" /\ pc[w] = "idle" /\ ncalls < MaxCalls
    /\ \E h \in Handlers :
       \E f \in FdInputs(h), num \in NumInputs(h), fi \in IF Opens(h) THEN FileInfo ELSE {NoInfo} :
          call' = [call EXCEPT ![w] =
              [n |-> ncalls + 1, h |-> h, fd |-> f,
               a |-> [fh |-> IF UsesFile(h) THEN files[f].fh ELSE ZeroHandle,
                      num |-> num, fi |-> fi]]]
    /\ pc' = [pc EXCEPT ![w] = "enter"]
    /\ ncalls' = ncalls + 1
    /\ ret' = [ret EXCEPT ![ncalls + 1] = "pending"]
    /\ UNCHANGED <<proc, mu, opuid, req, already, got, rp, conn, out, in, files,
                   clientVars, sent, sbufs>>

\* zhwkre/concurrent/mutex.c: lock waits until nobody holds the mutex, unlock does not
\* ask who does.
q__Mutex_lock(w) == mu = None /\ mu' = w
q__Mutex_unlock == mu' = None

\* Seeded fault: the path for a negative rtvl returns without unlocking.
ReturnLocked(w, how, file) ==
    /\ pc' = [pc EXCEPT ![w] = "idle"]
    /\ mu' = IF how = "err" THEN mu ELSE None
    /\ ret' = [ret EXCEPT ![call[w].n] = how]
    /\ files' = [f \in Fds |->
                    IF f # call[w].fd THEN files[f]
                    ELSE IF Closes(call[w].h) THEN [st |-> "free", fh |-> ZeroHandle]
                    ELSE file]

\* The handler returns: mu.unlock(mu).  file is what becomes
\* of the kernel's file the call is about.
Return(w, how, file) ==
    /\ pc' = [pc EXCEPT ![w] = "idle"]
    /\ q__Mutex_unlock
    /\ ret' = [ret EXCEPT ![call[w].n] = how]
    /\ files' = [f \in Fds |->
                    IF f # call[w].fd THEN files[f]
                    ELSE IF Closes(call[w].h) THEN [st |-> "free", fh |-> ZeroHandle]
                    ELSE file]

Fail(w, how) ==
    Return(w, how, IF call[w].fd \in Fds THEN files[call[w].fd] ELSE None)

(***************************************************************************)
(* The handlers, in the steps another thread or the peer can come between. *)
(***************************************************************************)

\* mu.lock(mu); opuid ++; the header and the body are composed in a new buffer.
Enter(w) ==
    LET hd == Handler(w)
        msg == [n |-> call[w].n, b |-> hd.req,
                ouid |-> (opuid + IF hd.lock THEN 1 ELSE 0) % OuidMod]
    IN /\ proc = "run" /\ pc[w] = "enter"
       /\ ~hd.rejected
       /\ IF hd.lock THEN q__Mutex_lock(w) ELSE UNCHANGED mu
       /\ opuid' = (opuid + hd.bump) % OuidMod
       /\ pc' = [pc EXCEPT ![w] = "send"]
       /\ req' = [req EXCEPT ![w] = msg]
       /\ already' = [already EXCEPT ![w] = 0]
       /\ sent' = sent \cup {msg}
       /\ sbufs' = sbufs \cup {msg}
       /\ UNCHANGED <<proc, call, got, rp, conn, out, in, kernelVars, clientVars, ret>>

\* Unsupported open flags: WARNE("...", -EINVAL, -EINVAL), after the opuid ++.
Reject(w) ==
    /\ proc = "run" /\ pc[w] = "enter"
    /\ Handler(w).rejected
    /\ mu = None
    /\ opuid' = (opuid + Handler(w).bump) % OuidMod
    /\ Fail(w, "einval")
    /\ UNCHANGED <<proc, call, req, already, got, rp, conn, out, in, ncalls,
                   clientVars, sent, sbufs>>

\* sockwrite's loop: write(2) takes bytes while the connection is open, and
\* while only the peer has closed its end; what reaches a closed peer is lost
\* and answered with a reset, after which the socket is dead.
SendByte(w) ==
    /\ proc = "run" /\ pc[w] = "send"
    /\ \/ conn = "open" /\ conn' = conn
       \/ conn = "fin" /\ conn' \in {"fin", "dead"}
    /\ out' = IF conn = "open" THEN Append(out, [m |-> req[w], at |-> already[w]])
                               ELSE out
    /\ already' = [already EXCEPT ![w] = @ + 1]
    /\ IF already[w] + 1 = req[w].b.len
       THEN pc' = [pc EXCEPT ![w] = "hdr"] /\ got' = [got EXCEPT ![w] = Nothing]
       ELSE UNCHANGED <<pc, got>>
    /\ UNCHANGED <<proc, mu, opuid, call, req, rp, in, kernelVars, clientVars, ret, sent, sbufs>>

\* write(2) reports the pending error, once: sockwrite frees the buffer,
\* WARN("write failed", -EBUSY).
SendFail(w) ==
    /\ proc = "run" /\ pc[w] = "send" /\ conn = "reset"
    /\ conn' = "dead"
    /\ sbufs' = sbufs \ {req[w]}
    /\ Fail(w, "ebusy")
    /\ UNCHANGED <<proc, opuid, call, req, already, got, rp, out, in, ncalls,
                   clientVars, sent>>

\* write(2) on a dead socket raises SIGPIPE, which nothing handles.
SigPipe(w) ==
    /\ proc = "run" /\ pc[w] = "send" /\ conn = "dead"
    /\ proc' = "sigpipe"
    /\ UNCHANGED <<mu, opuid, workerVars, conn, out, in, kernelVars, clientVars, ret, sent, sbufs>>

\* Seeded fault: one byte too many is asked for.
WantedOneMore(w) ==
    IF pc[w] = "hdr" THEN SzRpHdr ELSE SzRpHdr + Body(Handler(w).test, rp[w]) + 1

\* How many bytes wait_reply, then re_read or readdir's sockread, will have read.
Wanted(w) ==
    IF pc[w] = "hdr" THEN SzRpHdr ELSE SzRpHdr + Body(Handler(w).test, rp[w])

\* sockread's loop, where read(2) has something to deliver.
RecvByte(w) ==
    /\ proc = "run" /\ pc[w] \in {"hdr", "body"}
    /\ got[w].k < Wanted(w) /\ in # <<>>
    /\ got' = [got EXCEPT ![w] = Gather(@, Head(in))]
    /\ in' = Tail(in)
    /\ UNCHANGED <<proc, mu, opuid, pc, call, req, already, rp, conn, out, kernelVars,
                   clientVars, ret, sent, sbufs>>

\* Seeded faults: the handler goes on as if it had its reply; the handler gives
\* up as soon as read(2) has nothing for it.
RecvFailIgnored(w) ==
    /\ proc = "run" /\ pc[w] \in {"hdr", "body"}
    /\ got[w].k < Wanted(w) /\ in = <<>> /\ conn = "reset"
    /\ conn' = "dead"
    /\ Fail(w, "ok")
    /\ UNCHANGED <<proc, opuid, call, req, already, got, rp, out, in, ncalls,
                   clientVars, sent, sbufs>>
RecvFailEarly(w) ==
    /\ proc = "run" /\ pc[w] \in {"hdr", "body"}
    /\ got[w].k < Wanted(w) /\ in = <<>>
    /\ Fail(w, "ebusy")
    /\ UNCHANGED <<proc, opuid, call, req, already, got, rp, conn, out, in, ncalls,
                   clientVars, sent, sbufs>>

\* read(2) reports the pending error, once, when the buffered bytes are read:
\* WARN("wait reply failed" or "read reply failed", -EBUSY).
RecvFail(w) ==
    /\ proc = "run" /\ pc[w] \in {"hdr", "body"}
    /\ got[w].k < Wanted(w) /\ in = <<>> /\ conn = "reset"
    /\ conn' = "dead"
    /\ Fail(w, "ebusy")
    /\ UNCHANGED <<proc, opuid, call, req, already, got, rp, out, in, ncalls,
                   clientVars, sent, sbufs>>

\* read(2) returns 0 at the end of the stream, which the loop takes for progress.
SpinEOF(w) ==
    /\ proc = "run" /\ pc[w] \in {"hdr", "body"}
    /\ got[w].k < Wanted(w) /\ in = <<>> /\ conn \in {"fin", "dead"}
    /\ UNCHANGED vars

\* What the bytes of a header say.  Bytes that are no header may say anything.
Headers(g) ==
    IF g.ok THEN {[size |-> g.m.size, rtvl |-> g.m.rtvl]}
            ELSE [size : {SzRpHdr, SzRpHdr + 1}, rtvl : {-1, 0}]

\* Seeded fault: a request the client has refused is sent again.
ReplyErrorRetried(w) ==
    /\ proc = "run" /\ pc[w] = "hdr" /\ got[w].k = SzRpHdr
    /\ \E hdr \in Headers(got[w]) : hdr.rtvl < 0 /\ rp' = [rp EXCEPT ![w] = hdr]
    /\ pc' = [pc EXCEPT ![w] = "send"]
    /\ already' = [already EXCEPT ![w] = 0]
    /\ UNCHANGED <<proc, mu, opuid, call, req, got, conn, out, in, kernelVars,
                   clientVars, ret, sent, sbufs>>

\* if(rp.rtvl < 0) WARNE("client", rp.rtvl, rp.rtvl)
ReplyError(w) ==
    /\ proc = "run" /\ pc[w] = "hdr" /\ got[w].k = SzRpHdr
    /\ \E hdr \in Headers(got[w]) : hdr.rtvl < 0 /\ rp' = [rp EXCEPT ![w] = hdr]
    /\ Fail(w, "err")
    /\ UNCHANGED <<proc, opuid, call, req, already, got, conn, out, in, ncalls,
                   clientVars, sent, sbufs>>

\* A size the handler cannot use: ABRT.
ReplyAbort(w) ==
    /\ proc = "run" /\ pc[w] = "hdr" /\ got[w].k = SzRpHdr
    /\ \E hdr \in Headers(got[w]) :
          hdr.rtvl >= 0 /\ ~Accepts(Handler(w).test, hdr) /\ rp' = [rp EXCEPT ![w] = hdr]
    /\ proc' = "abort"
    /\ UNCHANGED <<mu, opuid, pc, call, req, already, got, conn, out, in, kernelVars,
                   clientVars, ret, sent, sbufs>>

ReplyAccept(w) ==
    /\ proc = "run" /\ pc[w] = "hdr" /\ got[w].k = SzRpHdr
    /\ \E hdr \in Headers(got[w]) :
          hdr.rtvl >= 0 /\ Accepts(Handler(w).test, hdr) /\ rp' = [rp EXCEPT ![w] = hdr]
    /\ pc' = [pc EXCEPT ![w] = "body"]
    /\ UNCHANGED <<proc, mu, opuid, call, req, already, got, conn, out, in, kernelVars,
                   clientVars, ret, sent, sbufs>>

\* Seeded fault: ignore_above is read the wrong way round.
OpenedFileInverted(w) ==
    LET ro == got[w].m IN
    [st |-> Kind(call[w].h),
     fh |-> IF ro.ignore_above THEN ro.file_handle ELSE call[w].a.fh]

\* fi->fh after an open: if(!ro.ignore_above) fi->fh = ro.file_handle
OpenedFile(w) ==
    LET ro == got[w].m IN
    [st |-> Kind(call[w].h),
     fh |-> IF ro.ignore_above THEN call[w].a.fh ELSE ro.file_handle]

\* The body is there: the handler converts it, unlocks and returns rtvl or 0.
Finish(w) ==
    /\ proc = "run" /\ pc[w] = "body" /\ got[w].k = Wanted(w)
    /\ IF Opens(call[w].h) THEN Return(w, "ok", OpenedFile(w)) ELSE Fail(w, "ok")
    /\ UNCHANGED <<proc, opuid, call, req, already, got, rp, conn, out, in, ncalls,
                   clientVars, sent, sbufs>>

-----------------------------------------------------------------------------
(***************************************************************************)
(* The client (external): it reads a request, executes it, replies.        *)
(***************************************************************************)
ReplyTo(msg, rtvl, extra) ==
    [n |-> msg.n, ouid |-> msg.ouid, rtvl |-> rtvl, size |-> SzRpHdr + extra,
     file_handle |-> ZeroHandle, ignore_above |-> TRUE]
HandleReply(msg, x) ==
    [n |-> msg.n, ouid |-> msg.ouid, rtvl |-> 0, size |-> SzRpHdr + SzRpOpen,
     file_handle |-> x, ignore_above |-> FALSE]

\* The successful replies README.md describes for each kind of request.  An
\* open answers with a new handle, or with ignore_above from a stateless client.
Successes(msg) ==
    LET b == msg.b IN
    CASE b.opid = OPER_OPEN /\ "OPEN_MKDIR" \in b.flags -> {ReplyTo(msg, 0, 0)}
      [] b.opid = OPER_OPEN /\ "OPEN_MKDIR" \notin b.flags ->
            {ReplyTo(msg, 0, SzRpOpen)} \cup
            {HandleReply(msg, x) : x \in {y \in Handles : hdl[y] = "none"}}
      [] b.mode = "RD_REGULAR" -> {ReplyTo(msg, k, k) : k \in 0..b.count}
      [] b.mode = "RD_STAT"    -> {ReplyTo(msg, 0, SzUstat)}
      [] b.mode = "RD_STATFS"  -> {ReplyTo(msg, 0, SzUstatvfs)}
      [] b.mode = "RD_LINK"    -> {ReplyTo(msg, 0, k) : k \in LinkLens}
      [] b.mode = "RD_DIR"     -> {ReplyTo(msg, 0, k * SzUdirent) : k \in 0..MaxDirents}
      [] b.mode = "WR_REGULAR" -> {ReplyTo(msg, k, 0) : k \in 0..b.count}
      [] OTHER                 -> {ReplyTo(msg, 0, 0)}

\* An error is a header with a negative rtvl.
Failure(msg) == ReplyTo(msg, -1, 0)

\* The client's handles once it has given the reply r: an open may add one, a
\* close removes its own, as close(2) does even when it reports an error.
HandlesAfter(msg, r) ==
    [x \in Handles |->
        CASE msg.b.opid = OPER_OPEN /\ ~r.ignore_above /\ r.file_handle = x ->
                IF "OPEN_DIRECTORY" \in msg.b.flags THEN "dir" ELSE "file"
          [] msg.b.opid = OPER_CLOSE /\ msg.b.fh = x -> "none"
          [] OTHER -> hdl[x]]

\* What README.md says that prot.c does not: the name of a link's source or of a
\* file to delete follows, filled to FILENAME_LEN bytes, and "for mode `mkdir`,
\* you need not to reply".
NameFollows(b) == b.mode \in {"WR_SYMLINK", "WR_REMOVE"}
NeedNotReply(b) == "OPEN_MKDIR" \in b.flags

\* How much the client reads before it executes the request b.
Takes(b) ==
    IF LiteralClient /\ NameFollows(b) THEN SIZEHDR(SzOpWrit) + FILENAME_LEN ELSE Consumes(b)

Required == IF cgot.k < SzOpHdr THEN SzOpHdr ELSE Takes(cgot.m.b)

\* What bytes that are no header may be taken for: wait_operation checks nothing, and
\* opid, handle and size are whatever they happen to be.  One request of each
\* operation, and for a write one of two sizes, stands for the others of it.  Nobody
\* made them: their call is 0.
Misread ==
    {[n |-> 0, ouid |-> 0, b |-> b] :
        b \in {Open({}), Read("RD_STAT")}
              \cup {Writ("WR_CHMOD", n, n) : n \in {SzMode, FILENAME_LEN}}
              \cup {Clos("file", x) : x \in FileHandles}}

\* What the client has once it has gathered g: a request by its header, right or not.
Understood(g) ==
    IF g.k = SzOpHdr /\ ~g.ok THEN {[g EXCEPT !.m = q] : q \in Misread} ELSE {g}

ClientRead ==
    /\ cup /\ crep = None
    /\ cgot.k < Required /\ out # <<>>
    /\ cgot' \in Understood(Gather(cgot, Head(out)))
    /\ out' = Tail(out)
    /\ UNCHANGED <<proc, mu, opuid, workerVars, conn, in, kernelVars, cup, crep, cput,
                   hdl, ran, ret, sent, sbufs>>

ClientReady == cgot.k >= SzOpHdr /\ cgot.k = Required

ClientExec ==
    /\ cup /\ crep = None /\ ClientReady
    /\ \E r \in Successes(cgot.m) \cup {Failure(cgot.m)} :
          /\ hdl' = HandlesAfter(cgot.m, r)
          /\ crep' = IF LiteralClient /\ NeedNotReply(cgot.m.b) THEN None ELSE r
    /\ ran' = [n \in Calls |-> IF n = cgot.m.n THEN ran[n] + 1 ELSE ran[n]]
    /\ cgot' = Nothing
    /\ UNCHANGED <<proc, mu, opuid, workerVars, conn, out, in, kernelVars, cup, cput,
                   ret, sent, sbufs>>

ClientSend ==
    /\ cup /\ crep # None
    /\ in' = IF conn = "open" /\ proc = "run"
             THEN Append(in, [m |-> crep, at |-> cput]) ELSE in
    /\ IF cput + 1 = crep.size THEN crep' = None /\ cput' = 0
                               ELSE crep' = crep /\ cput' = cput + 1
    /\ UNCHANGED <<proc, mu, opuid, workerVars, conn, out, kernelVars, cup, cgot, hdl,
                   ran, ret, sent, sbufs>>

\* The client goes away; its end of the connection is closed.
Leave ==
    /\ cup' = FALSE
    /\ conn' = IF conn = "open" THEN "fin" ELSE conn
    /\ out' = <<>> /\ cgot' = Nothing /\ crep' = None /\ cput' = 0
    /\ UNCHANGED <<proc, mu, opuid, workerVars, in, kernelVars, hdl, ran, ret, sent, sbufs>>

\* An opid that is none of the four: the client gives up.
ClientLost == cup /\ cgot.k = SzOpHdr /\ ~cgot.ok /\ Leave

PeerClose == MayFail /\ cup /\ Leave

\* The connection breaks (a reset, a timeout).  What is under way to the client
\* may still reach it, what it replies no longer reaches the server.
ConnBreak ==
    /\ MayFail /\ conn = "open"
    /\ conn' = "reset"
    /\ UNCHANGED <<proc, mu, opuid, workerVars, out, in, kernelVars, clientVars, ret, sent, sbufs>>

\* All the calls are made and answered, or there is no server any more.
Terminated ==
    /\ proc # "run" \/ (ncalls = MaxCalls /\ \A w \in Workers : pc[w] = "idle")
    /\ UNCHANGED vars

-----------------------------------------------------------------------------
Step(w) ==
    \/ Enter(w) \/ Reject(w)
    \/ SendByte(w) \/ SendFail(w) \/ SigPipe(w)
    \/ RecvByte(w) \/ RecvFail(w) \/ SpinEOF(w)
    \/ ReplyError(w) \/ ReplyAbort(w) \/ ReplyAccept(w) \/ Finish(w)

Client == ClientRead \/ ClientExec \/ ClientSend

Next ==
    \/ \E w \in Workers : Call(w) \/ Step(w)
    \/ Client \/ ClientLost \/ PeerClose \/ ConnBreak
    \/ Terminated

Spec == Init /\ [][Next]_vars

\* A thread that can go on does; so does a client with work to do.
FairSpec == Spec /\ (\A w \in Workers : WF_vars(Step(w))) /\ WF_vars(Client)

-----------------------------------------------------------------------------
Busy(w) == pc[w] \in {"send", "hdr", "body"}
Quiet == \A w \in Workers : ~Busy(w)

OpenFile == [st : {"free", "file", "dir"}, fh : FileHandles]
Outcomes == {"none", "pending", "ok", "err", "ebusy", "einval"}

TypeProcess ==
    /\ proc \in {"run", "abort", "sigpipe"}
    /\ mu \in Workers \cup {None}
    /\ opuid \in 0..(OuidMod - 1)
    /\ conn \in {"open", "fin", "reset", "dead"}
    /\ sent \subseteq RequestMsgs /\ sbufs \subseteq RequestMsgs
TypeWorkers ==
    /\ pc \in [Workers -> {"idle", "enter", "send", "hdr", "body"}]
    /\ call \in [Workers -> [n : Nat, h : HandlerNames \cup {None}, fd : Fds \cup {None},
                             a : Arguments]]
    /\ req \in [Workers -> RequestMsgs \cup {None}]
    /\ already \in [Workers -> Nat]
    /\ got \in [Workers -> Gathers(ReplyMsgs)]
    /\ rp \in [Workers -> [size : Nat, rtvl : Int] \cup {None}]
TypeWire == out \in Seq(Bytes(RequestMsgs)) /\ in \in Seq(Bytes(ReplyMsgs))
TypeKernel ==
    /\ files \in [Fds -> OpenFile]
    /\ ncalls \in 0..MaxCalls
    /\ ret \in [Calls -> Outcomes]
TypeClient ==
    /\ cup \in BOOLEAN /\ cgot \in Gathers(RequestMsgs)
    /\ crep \in ReplyMsgs \cup {None} /\ cput \in Nat
    /\ hdl \in [Handles -> {"none", "file", "dir"}]
    /\ ran \in [Calls -> Nat]

\* The variables hold values of the types of the C objects they stand for.
TypeOK == TypeProcess /\ TypeWorkers /\ TypeWire /\ TypeKernel /\ TypeClient

\* What a worker's variables hold at each place of the handler, which the types
\* leave open: a call that is served, a composed request, a reply's header.
Shape ==
    /\ \A w \in Workers : /\ pc[w] # "idle" => call[w].h \in Handlers /\ call[w].n \in Calls
                          /\ Busy(w) => req[w] # None
                          /\ pc[w] = "body" => rp[w] # None
                          /\ got[w].k > 0 => got[w].m # None
    /\ cgot.k > 0 => cgot.m # None

\* The bytes a handler takes for its reply are the first bytes of the client's
\* reply to that handler's own request, although wait_reply never compares ouid
\* with the request's and every handler reads from the same socket.
OwnReply ==
    \A w \in Workers : pc[w] \in {"hdr", "body"} =>
        /\ got[w].ok
        /\ got[w].k > 0 => got[w].m.n = call[w].n /\ got[w].m.ouid = req[w].ouid

\* Between calls nothing is left over: while the connection is open and no
\* handler is at work on it, both streams are empty and the client waits for
\* the first byte of a header.  Every handler reads exactly the reply it got,
\* and head.size tells the client exactly how much was sent.
InStep ==
    proc = "run" /\ conn = "open" /\ Quiet =>
        out = <<>> /\ in = <<>> /\ cgot = Nothing /\ crep = None

\* A handler that takes mu holds it from its first byte to its return, and mu is
\* never left locked by a handler that has returned, whichever way it returned.
MuGuards ==
    /\ \A w \in Workers : Busy(w) /\ Handler(w).lock => mu = w
    /\ mu # None => Busy(mu)

\* Two handlers are never between them on the connection at the same time.
Exclusion == \A v, w \in Workers : Busy(v) /\ Busy(w) => v = w

\* Every request is executed at most once; a call that has returned the client's
\* answer was executed; a call rejected with EINVAL was not.
AtMostOnce ==
    \A n \in Calls :
        /\ ran[n] <= 1
        /\ ret[n] \in {"ok", "err"} => ran[n] = 1
        /\ ret[n] = "einval" => ran[n] = 0

\* No request is executed twice, also not by a client that has lost its place in the
\* stream and answers what it takes for requests.
NeverTwice == \A n \in Calls : ran[n] <= 1

\* After one -EBUSY no call returns the client's answer any more: a broken
\* connection is never read again as if it were in step.
EbusyIsFinal ==
    [][\A n \in Calls : ret[n] = "pending" /\ ret'[n] \in {"ok", "err"} =>
          \A m \in Calls : ret[m] # "ebusy"]_vars

\* Whenever the client is about to execute a request that names one of its
\* handles, the handle is open, and as the kind of object the request is for.
Names(q) ==
    q.b.fh \in Handles =>
        hdl[q.b.fh] = IF q.b.mode \in {"dir", "RD_DIR"} THEN "dir" ELSE "file"
HandleLive == cup /\ ClientReady => Names(cgot.m)

\* Between calls the handles the client holds open are exactly those of the
\* files the kernel has open, each held by one file: open, creat and opendir
\* keep the handle they got, release and releasedir give it back once.
OpenFiles == {f \in Fds : files[f].st # "free" /\ files[f].fh # ZeroHandle}
HandlesAgree ==
    proc = "run" /\ conn = "open" /\ Quiet =>
        /\ \A f \in OpenFiles : files[f].fh \in Handles /\ hdl[files[f].fh] = files[f].st
        /\ \A x \in Handles : hdl[x] # "none" => \E f \in OpenFiles : files[f].fh = x
        /\ \A f, g \in OpenFiles : files[f].fh = files[g].fh => f = g

\* A client that follows the protocol can make the server abort in one way only:
\* with the reply to a read whose data and header together exceed the buffer.
Oversized(w, r) ==
    call[w].h = "read" /\ r.rtvl <= call[w].a.num /\ SzRpHdr + r.rtvl > call[w].a.num
AbortOnlyOversizedRead ==
    proc = "abort" =>
        \E w \in Workers : pc[w] = "hdr" /\ got[w].m.n = call[w].n /\ Oversized(w, got[w].m)

\* Two requests carry the same ouid only if one of them comes from a handler
\* that takes no lock and leaves opuid alone.
Unlocking == {"WR_CHMOD", "WR_ACCES", "WR_REMOVE", "WR_MODTIME"}
OuidGroups ==
    \A x, y \in sent : x.ouid = y.ouid /\ x # y =>
        x.b.mode \in Unlocking \/ y.b.mode \in Unlocking

\* Every call returns, unless the process dies.
Responsive ==
    \A n \in Calls : ret[n] = "pending" ~> ret[n] # "pending" \/ proc # "run"

\* Every call returns, unless the process dies or the peer has closed the
\* connection: sockread takes the end of the stream for progress.
ResponsiveWhileOpen ==
    \A n \in Calls : ret[n] = "pending" ~>
        ret[n] # "pending" \/ proc # "run" \/ conn \in {"fin", "dead"}

\* The server keeps the promise of module RemoteCall.
RC == INSTANCE RemoteCall WITH Calls <- Calls, ran <- ran, ret <- ret
KeepsPromise == RC!RemoteSpec

-----------------------------------------------------------------------------
(***************************************************************************)
(* Why OwnReply and InStep hold: where the bytes of the one request and of *)
(* the one reply under way are.  Needs head.size to be right (not so for   *)
(* symlink) and a client that goes by it and answers every request.        *)
(***************************************************************************)
Conforming == "symlink" \notin Handlers /\ LiteralClient = FALSE

\* s is a run of consecutive bytes of m, the first one at offset from.
Run(s, m, from) == \A i \in 1..Len(s) : s[i] = [m |-> m, at |-> from + i - 1]

Framed(b) == b.len = Consumes(b) /\ b.len >= SzOpHdr

IsReplyTo(r, q) ==
    /\ r \in ReplyMsgs /\ r.n = q.n /\ r.ouid = q.ouid
    /\ r.size >= SzRpHdr /\ (r.rtvl < 0 => r.size = SzRpHdr)

Receiving(w) == pc[w] \in {"hdr", "body"}
Incoming(w) == IF got[w].k > 0 THEN got[w].m ELSE IF in # <<>> THEN in[1].m ELSE crep

\* The server's end: nothing to read before the request is out, then only bytes
\* of the reply to it, and no more of them than the reply has.
Sends(w) == in = <<>> /\ already[w] < req[w].b.len
Receives(w) ==
    /\ got[w].ok
    /\ got[w].k > 0 \/ in # <<>> =>
          /\ IsReplyTo(Incoming(w), req[w])
          /\ Run(in, Incoming(w), got[w].k)
          /\ got[w].k + Len(in) <= Incoming(w).size
    /\ pc[w] = "hdr" => got[w].k <= SzRpHdr
    /\ pc[w] = "body" => /\ got[w].k >= SzRpHdr
                         /\ rp[w] = [size |-> got[w].m.size, rtvl |-> got[w].m.rtvl]
                         /\ Accepts(Handler(w).test, rp[w])
ServerEnd ==
    /\ \A w \in Workers :
          /\ Busy(w) => req[w].n = call[w].n /\ Framed(req[w].b)
          /\ pc[w] = "send" => Sends(w)
          /\ Receiving(w) => Receives(w)
    /\ Quiet => in = <<>>

\* The client's end while the connection is open: at rest between calls, else
\* reading the request or sending the reply.
AtRest == out = <<>> /\ cgot = Nothing /\ crep = None /\ cput = 0
Asking(w) ==
    /\ pc[w] \in {"send", "hdr"} /\ in = <<>> /\ crep = None /\ cput = 0
    /\ pc[w] = "hdr" => got[w] = Nothing /\ already[w] = req[w].b.len
    /\ cgot.ok /\ cgot.k + Len(out) = already[w]
    /\ Run(out, req[w], cgot.k)
    /\ cgot.k > 0 => cgot.m = req[w]
Answering(w) ==
    /\ Receiving(w) /\ out = <<>> /\ cgot = Nothing
    /\ \/ /\ crep = None /\ cput = 0
          /\ got[w].k > 0 \/ in # <<>>
          /\ got[w].k + Len(in) = Incoming(w).size
       \/ /\ crep # None /\ Incoming(w) = crep /\ IsReplyTo(crep, req[w])
          /\ cput = got[w].k + Len(in) /\ cput < crep.size
ClientEnd ==
    proc = "run" /\ conn = "open" =>
        /\ Quiet => AtRest
        /\ \A w \in Workers : Busy(w) => Asking(w) \/ Answering(w)

\* The bytes of one request and one reply are all there is on the connection:
\* each is, in order, partly read, partly under way and partly unsent.
WireInv == ServerEnd /\ ClientEnd

-----------------------------------------------------------------------------
(***************************************************************************)
(* Why AtMostOnce, EbusyIsFinal and KeepsPromise hold.                     *)
(***************************************************************************)
\* A call is served by one worker, and pending until that worker returns.
OneCallEach ==
    /\ \A n \in Calls : ret[n] = "none" <=> n > ncalls
    /\ \A w \in Workers : /\ pc[w] # "idle" => ret[call[w].n] = "pending"
                          /\ Busy(w) => req[w] \in sent
    /\ \A v, w \in Workers :
          pc[v] # "idle" /\ pc[w] # "idle" /\ call[v].n = call[w].n => v = w

\* The request q is what the client is reading, and it has not been executed.
Gathered(q) ==
    /\ cgot.ok /\ (cgot.k > 0 => cgot.m = q)
    /\ Run(out, q, cgot.k) /\ cgot.k + Len(out) <= q.b.len /\ Framed(q.b)
NotExecuted(q) ==
    /\ q.n \in Calls /\ ran[q.n] = 0 /\ ret[q.n] \in {"pending", "ebusy"}
    /\ \A w \in Workers : pc[w] = "enter" => call[w].n # q.n

\* The client reads one request at a time, also when the connection has broken and
\* the handler has given up, and never one it has executed before.
NotYetRun == cgot.k > 0 \/ out # <<>> => \E q \in sent : Gathered(q) /\ NotExecuted(q)

\* A call is not executed before it is sent, and not while no reply is under way.
Unanswered(w) == Busy(w) /\ crep = None /\ in = <<>> /\ (pc[w] = "send" \/ got[w].k = 0)
UnansweredNotRun ==
    \A w \in Workers :
        /\ pc[w] = "enter" => ran[call[w].n] = 0
        /\ proc = "run" /\ conn = "open" /\ Unanswered(w) => ran[call[w].n] = 0

\* Every byte of a reply comes from an execution.
Executed(r) == r.n \in Calls /\ ran[r.n] = 1
RepliesRan ==
    /\ crep # None => Executed(crep)
    /\ \A i \in 1..Len(in) : Executed(in[i].m)
    /\ \A w \in Workers : Receiving(w) /\ got[w].k > 0 => Executed(got[w].m)

\* After an EBUSY the socket is dead and nobody waits for a reply.
BrokenForGood ==
    (\E n \in Calls : ret[n] = "ebusy") => conn = "dead" /\ \A w \in Workers : ~Receiving(w)

\* Where a call is, from its number to its outcome: it is executed once at most,
\* after it was sent and before it is answered, whatever fails in between.
CallInv ==
    /\ OneCallEach /\ NotYetRun /\ UnansweredNotRun /\ RepliesRan /\ BrokenForGood
    /\ AtMostOnce
    /\ \A n \in Calls : ret[n] = "none" => ran[n] = 0

-----------------------------------------------------------------------------
(***************************************************************************)
(* Why AbortOnlyOversizedRead, HandlesAgree and HandleLive hold.           *)
(***************************************************************************)
Online == proc = "run" /\ conn = "open"

\* A call keeps its file to itself if it opens or closes it, and the file keeps its
\* kind and its handle until the call returns.
ServedFile(c) ==
    /\ Opens(c.h) => c.fd \in Fds /\ files[c.fd].st = "free" /\ c.a.fh = ZeroHandle
    /\ UsesFile(c.h) => c.fd \in Fds /\ files[c.fd] = [st |-> Kind(c.h), fh |-> c.a.fh]
    /\ ~Opens(c.h) /\ ~UsesFile(c.h) => c.fd = None
FilesServed ==
    /\ \A w \in Workers : pc[w] # "idle" => ServedFile(call[w])
    /\ \A v, w \in Workers :
          pc[v] # "idle" /\ pc[w] # "idle" /\ v # w /\ call[v].fd = call[w].fd =>
              ~Opens(call[v].h) /\ ~Closes(call[v].h)

\* The reply to w's request is under way to w: one that its handler can use, or one
\* to a read that leaves no room for the header.
Answered(w) == Receiving(w) /\ (got[w].k > 0 \/ in # <<>> \/ (Online /\ crep # None))
Usable(w, r) == r.rtvl >= 0 => Accepts(Handler(w).test, r) \/ Oversized(w, r)
RepliesUsable ==
    \A w \in Workers : /\ Busy(w) => req[w].b = Handler(w).req
                       /\ Answered(w) => Usable(w, Incoming(w))

\* The handle x is on its way to the open that w serves; the one of f went back.
Brings(w, x) ==
    /\ Answered(w) /\ Opens(call[w].h)
    /\ ~Incoming(w).ignore_above /\ Incoming(w).file_handle = x
GivenBack(f) == \E w \in Workers : Answered(w) /\ Closes(call[w].h) /\ call[w].fd = f

\* Every handle the client holds open belongs to one file of the kernel, or to the
\* one that is being opened; while a close is answered it belongs to nobody.
HandlesOwned ==
    /\ \A f \in OpenFiles :
          /\ files[f].fh \in Handles
          /\ hdl[files[f].fh] = IF GivenBack(f) THEN "none" ELSE files[f].st
    /\ \A f, g \in OpenFiles : files[f].fh = files[g].fh => f = g
    /\ \A w \in Workers : Answered(w) /\ ~Incoming(w).ignore_above =>
          /\ Opens(call[w].h) /\ Incoming(w).rtvl >= 0 /\ Incoming(w).file_handle \in Handles
          /\ hdl[Incoming(w).file_handle] = Kind(call[w].h)
          /\ \A f \in OpenFiles : files[f].fh # Incoming(w).file_handle
    /\ \A x \in Handles : hdl[x] # "none" =>
          (\E f \in OpenFiles : files[f].fh = x) \/ (\E w \in Workers : Brings(w, x))

\* Whatever request is under way to the client, also on a connection that has broken
\* and for a handler that has given up, names a handle that is open.
LiveNames == (cgot.k > 0 => Names(cgot.m)) /\ \A i \in 1..Len(out) : Names(out[i].m)

\* Where every handle is, from the reply that issues it to the request that gives it
\* back, and what the replies under way look like to their handlers.
HandleInv ==
    /\ FilesServed /\ RepliesUsable /\ LiveNames /\ AbortOnlyOversizedRead
    /\ Online => HandlesOwned

-----------------------------------------------------------------------------
(***************************************************************************)
(* What the documentation says and the code does not do.                   *)
(***************************************************************************)

\* README.md: a regular read is answered with "exact the bytes you read", up to
\* the count the request asks for.
ConformingNeverAborts == proc # "abort"

\* sockwrite(sock, &sb, 1), "auto_free": once no handler is at work, no buffer a
\* request was sent from is still allocated.
NoLeak == Quiet => sbufs = {}
=============================================================================
