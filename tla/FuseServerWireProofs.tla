------------------------ MODULE FuseServerWireProofs ------------------------
(***************************************************************************)
(* The server and a conforming client never lose step: a handler's reply   *)
(* is the reply to its own request, although no ouid is ever compared.     *)
(***************************************************************************)
EXTENDS FuseServerProofs

USE DEF OPER_OPEN, OPER_READ, OPER_WRITE, OPER_CLOSE

\* Every handler but symlink declares as many bytes as it appends, and the
\* client takes exactly as many off the stream.
LEMMA HandlersFramed ==
    ASSUME NEW h \in HandlerNames \ {"symlink"}, NEW a \in Arguments
    PROVE  Framed(zhwkrfsp(h, a).req)
<1> USE SizesAssumption
<1>0. ASSUME NEW b,
         \/ b.opid = OPER_OPEN /\ b.len = SzOpHdr + SzOpOpen
         \/ b.opid = OPER_READ /\ b.len = SzOpHdr + SzOpRead
         \/ b.opid = OPER_WRITE /\ b.size = b.len /\ b.len \in Nat /\ b.len >= SzOpHdr
         \/ b.opid = OPER_CLOSE /\ b.len = SzOpHdr + SzOpClos
      PROVE Framed(b)
  <2>1. CASE b.opid = OPER_OPEN /\ b.len = SzOpHdr + SzOpOpen
    BY <2>1 DEF Framed, Consumes
  <2>2. CASE b.opid = OPER_READ /\ b.len = SzOpHdr + SzOpRead
    BY <2>2 DEF Framed, Consumes
  <2>3. CASE b.opid = OPER_WRITE /\ b.size = b.len /\ b.len \in Nat /\ b.len >= SzOpHdr
    <3>1. Consumes(b) = SzOpHdr + SzOpWrit + ((b.size - SzOpHdr) - SzOpWrit)
      BY <2>3 DEF Consumes
    <3> QED BY <2>3, <3>1 DEF Framed
  <2>4. CASE b.opid = OPER_CLOSE /\ b.len = SzOpHdr + SzOpClos
    BY <2>4 DEF Framed, Consumes
  <2> QED BY <1>0, <2>1, <2>2, <2>3, <2>4
<1>1. ASSUME NEW fl PROVE Framed(Open(fl))
  BY <1>0 DEF Open, Request, SIZEHDR
<1>2. ASSUME NEW m, NEW fh, NEW c
      PROVE  /\ Framed(Read(m)) /\ Framed([Read(m) EXCEPT !.fh = fh])
             /\ Framed([Read(m) EXCEPT !.fh = fh, !.count = c])
  BY <1>0 DEF Read, Request, SIZEHDR
<1>3. ASSUME NEW m, NEW d \in Nat, NEW fh, NEW c
      PROVE  Framed(Writ(m, d, d)) /\ Framed([Writ(m, d, d) EXCEPT !.fh = fh, !.count = c])
  <2>1. ASSUME NEW b, b.opid = OPER_WRITE, b.size = SzOpHdr + SzOpWrit + d,
               b.len = SzOpHdr + SzOpWrit + d
        PROVE  Framed(b)
    BY <2>1, <1>0
  <2> QED BY <2>1 DEF Writ, Request, SIZEHDR
<1>4. ASSUME NEW k, NEW fh PROVE Framed(Clos(k, fh))
  BY <1>0 DEF Clos, Request, SIZEHDR
<1>5. CASE h \in {"open", "create", "opendir", "mkdir"}
  BY <1>5, <1>1 DEF zhwkrfsp, fuse_open, fuse_creat, fuse_opendir, fuse_mkdir, Opening, Locked,
                    Handling
<1>6. CASE h \in {"getattr", "readlink", "statfs", "read", "readdir"}
  BY <1>6, <1>2 DEF zhwkrfsp, fuse_getattr, fuse_readlink, fuse_statfs, fuse_read, fuse_readdir,
                    Locked, Handling
<1>7. CASE h \in {"rmdir", "chmod", "access", "unlink", "utimens", "truncate", "write"}
  <2>1. a.num \in Nat
    BY DEF Arguments
  <2> QED
    BY <1>7, <1>3, <2>1 DEF zhwkrfsp, fuse_rmdir, fuse_chmod, fuse_access, fuse_unlink,
       fuse_utimens, fuse_truncate, fuse_write, Locked, Unlocked, Handling
<1>8. CASE h \in {"release", "releasedir"}
  BY <1>8, <1>4 DEF zhwkrfsp, fuse_release, fuse_releasedir, Locked, Handling
<1> QED BY <1>5, <1>6, <1>7, <1>8 DEF HandlerNames

\* A handler that accepts a reply reads all of it.
LEMMA AcceptsBody ==
    ASSUME NEW t \in ReplyTests, NEW r \in [size : Nat, rtvl : Int], Accepts(t, r)
    PROVE  SzRpHdr + Body(t, r) = r.size
<1> USE SizesAssumption
<1>1. CASE t.kind = "exact"
  BY <1>1 DEF Accepts, Body
<1>2. CASE t.kind = "read"
  BY <1>2 DEF Accepts, Body
<1>3. CASE t.kind = "upto"
  BY <1>3 DEF Accepts, Body
<1>4. CASE t.kind = "dirents"
  BY <1>4 DEF Accepts, Body
<1> QED BY <1>1, <1>2, <1>3, <1>4 DEF ReplyTests

\* What the client answers is a reply to the request, and an error is a bare header.
LEMMA AnswersAreReplies ==
    ASSUME NEW msg \in RequestMsgs, NEW r \in Successes(msg) \cup {Failure(msg)}
    PROVE  IsReplyTo(r, msg)
<1> USE SizesAssumption, ParametersAssumption
<1>0. r \in ReplyMsgs
  BY AnswerType
<1>1. ASSUME NEW v \in Nat, NEW e \in Nat, r = ReplyTo(msg, v, e) PROVE IsReplyTo(r, msg)
  BY <1>0, <1>1 DEF ReplyTo, IsReplyTo, RequestMsgs
<1>2. CASE r = Failure(msg)
  BY <1>0, <1>2 DEF Failure, ReplyTo, IsReplyTo, RequestMsgs
<1>3. CASE r \in Successes(msg)
  <2> DEFINE b == msg.b
  <2>0. b.count \in Nat
    BY DEF RequestMsgs, Requests
  <2>1. \/ \E x \in Handles : r = HandleReply(msg, x)
        \/ \E v, e \in Nat : r = ReplyTo(msg, v, e)
    <3>1. \A k \in 0..MaxDirents : k * SzUdirent \in Nat
      OBVIOUS
    <3>2. \A k \in LinkLens : k \in Nat
      OBVIOUS
    <3> QED BY <1>3, <2>0, <3>1, <3>2 DEF Successes
  <2>2. CASE \E x \in Handles : r = HandleReply(msg, x)
    BY <1>0, <2>2 DEF HandleReply, IsReplyTo, RequestMsgs
  <2> QED BY <2>1, <2>2, <1>1
<1> QED BY <1>2, <1>3

\* sockwrite and the client append the next byte of a message.
LEMMA RunAppend ==
    ASSUME NEW S, NEW s \in Seq(S), NEW m, NEW from \in Nat, NEW b \in S, Run(s, m, from),
           b = [m |-> m, at |-> from + Len(s)]
    PROVE  Run(Append(s, b), m, from)
BY DEF Run

\* sockread and the client take the first byte of what is left of a message.
LEMMA RunTail ==
    ASSUME NEW S, NEW s \in Seq(S), NEW m, NEW from \in Nat, Run(s, m, from), s # <<>>
    PROVE  /\ Head(s) = [m |-> m, at |-> from]
           /\ Run(Tail(s), m, from + 1)
           /\ Len(Tail(s)) = Len(s) - 1 /\ Len(s) \in Nat \ {0}
<1>1. Len(s) \in Nat \ {0} /\ Tail(s) \in Seq(S) /\ Len(Tail(s)) = Len(s) - 1
  BY EmptySeq
<1>2. Head(s) = s[1]
  BY <1>1
<1>3. ASSUME NEW i \in 1..Len(Tail(s)) PROVE Tail(s)[i] = [m |-> m, at |-> (from + 1) + i - 1]
  <2>1. i + 1 \in 1..Len(s) /\ Tail(s)[i] = s[i + 1]
    BY <1>1
  <2>2. s[i + 1] = [m |-> m, at |-> from + (i + 1) - 1]
    BY <2>1 DEF Run
  <2> QED BY <2>1, <2>2
<1> QED BY <1>1, <1>2, <1>3 DEF Run

\* A reader in step stays in step when the next byte of its message comes.
LEMMA GatherNext ==
    ASSUME NEW g, NEW m, NEW b, g.ok, g.k = 0 \/ g.m = m, b = [m |-> m, at |-> g.k]
    PROVE  Gather(g, b).m = m /\ Gather(g, b).k = g.k + 1 /\ Gather(g, b).ok
<1>1. Gather(g, b).m = m /\ Gather(g, b).k = g.k + 1
  BY DEF Gather
<1>2. g.ok /\ b.at = g.k /\ (g.k = 0 \/ b.m = g.m)
  OBVIOUS
<1>3. Gather(g, b).ok
  BY <1>2, Zenon DEF Gather
<1> QED BY <1>1, <1>3

-----------------------------------------------------------------------------
\* A step that leaves the server's end of the connection alone.
LEMMA ServerEndStable ==
    ASSUME ServerEnd, UNCHANGED <<req, already, got, rp, in>>,
           \A v \in Workers : \/ pc'[v] = pc[v] /\ (Busy(v) => call'[v] = call[v])
                              \/ ~Busy(v) /\ ~Busy(v)'
    PROVE  ServerEnd'
<1>1. ASSUME NEW v \in Workers
      PROVE  /\ Busy(v)' <=> Busy(v)
             /\ Busy(v) => pc'[v] = pc[v] /\ call'[v] = call[v]
  BY DEF Busy
<1>2. ASSUME NEW v \in Workers, Receiving(v)' PROVE Receives(v)'
  <2>1. Busy(v)' /\ pc'[v] = pc[v] /\ call'[v] = call[v] /\ Receives(v)
    BY <1>1, <1>2 DEF Busy, Receiving, ServerEnd
  <2>2. got[v].k > 0 \/ in # <<>> => Incoming(v)' = Incoming(v)
    BY DEF Incoming
  <2>3. Handler(v)' = Handler(v)
    BY <2>1 DEF Handler
  <2> QED BY <2>1, <2>2, <2>3 DEF Receives
<1>3. ASSUME NEW v \in Workers, pc'[v] = "send" PROVE Sends(v)'
  BY <1>1, <1>3 DEF Busy, ServerEnd, Sends
<1>4. ASSUME NEW v \in Workers, Busy(v)' PROVE (req[v].n = call[v].n)' /\ Framed(req[v].b)'
  BY <1>1, <1>4 DEF ServerEnd
<1>5. Quiet' => in' = <<>>
  BY <1>1 DEF Quiet, ServerEnd
<1> QED BY <1>2, <1>3, <1>4, <1>5 DEF ServerEnd

\* A step that leaves the client's end alone too, the connection and the process.
LEMMA ClientEndStable ==
    ASSUME ClientEnd, UNCHANGED <<req, already, got, in, out, cgot, crep, cput>>,
           proc' = "run" /\ conn' = "open" => proc = "run" /\ conn = "open",
           \A v \in Workers : pc'[v] = pc[v] \/ (~Busy(v) /\ ~Busy(v)')
    PROVE  ClientEnd'
<1> SUFFICES ASSUME proc' = "run", conn' = "open"
             PROVE  /\ Quiet' => AtRest'
                    /\ \A w \in Workers : Busy(w)' => Asking(w)' \/ Answering(w)'
  BY DEF ClientEnd
<1>1. \A v \in Workers : (Busy(v)' <=> Busy(v)) /\ (Busy(v) => pc'[v] = pc[v])
  BY DEF Busy
<1>2. Quiet' => AtRest'
  BY <1>1 DEF Quiet, ClientEnd, AtRest
<1>3. ASSUME NEW w \in Workers, Busy(w)' PROVE Asking(w)' \/ Answering(w)'
  BY <1>1, <1>3 DEF ClientEnd, Asking, Answering, Receiving, Incoming
<1> QED BY <1>2, <1>3

\* A handler that returns with nothing left to read, of an exchange that is over.
LEMMA ReturnInStep ==
    ASSUME LockInv', ServerEnd, ClientEnd, NEW w \in Workers,
           \A v \in Workers : ~Busy(v)',
           in' = <<>>,
           proc' = "run" /\ conn' = "open" => AtRest'
    PROVE  ServerEnd' /\ ClientEnd'
BY DEF ServerEnd, ClientEnd, Busy, Receiving

\* A step after which w is the worker on the connection.
LEMMA OneWorker ==
    ASSUME LockInv', NEW w \in Workers, Busy(w)',
           (req[w].n = call[w].n)' /\ Framed(req[w].b)',
           (pc[w] = "send")' => Sends(w)',
           Receiving(w)' => Receives(w)',
           proc' = "run" /\ conn' = "open" => Asking(w)' \/ Answering(w)'
    PROVE  ServerEnd' /\ ClientEnd'
<1>1. \A v \in Workers : Busy(v)' => v = w
  BY DEF LockInv, Exclusion
<1>2. \A v \in Workers : (pc[v] = "send")' \/ Receiving(v)' => v = w
  BY <1>1 DEF Busy, Receiving
<1>3. ~Quiet'
  BY DEF Quiet
<1> QED BY <1>1, <1>2, <1>3 DEF ServerEnd, ClientEnd

\* What the types say about the worker on the connection.
LEMMA BusyTypes ==
    ASSUME TypeInv, NEW w \in Workers, Busy(w)
    PROVE  /\ req[w] \in RequestMsgs /\ already[w] \in Nat /\ got[w] \in Gathers(ReplyMsgs)
           /\ in \in Seq(Bytes(ReplyMsgs)) /\ out \in Seq(Bytes(RequestMsgs))
           /\ cgot \in Gathers(RequestMsgs) /\ crep \in ReplyMsgs \cup {None} /\ cput \in Nat
           /\ pc \in [Workers -> {"idle", "enter", "send", "hdr", "body"}]
           /\ Handler(w).test \in ReplyTests
           /\ pc[w] = "body" => rp[w] \in [size : Nat, rtvl : Int]
<1>1. call[w].h \in HandlerNames /\ call[w].a \in Arguments
  BY ParametersAssumption DEF TypeInv, TypeOK, TypeWorkers, Shape, Busy
<1>2. Handler(w) \in HandlerRecords
  BY <1>1, HandlerType DEF Handler
<1>3. Handler(w).test \in ReplyTests
  BY <1>2 DEF HandlerRecords
<1>4. req[w] \in RequestMsgs /\ (pc[w] = "body" => rp[w] \in [size : Nat, rtvl : Int])
  BY DEF TypeInv, TypeOK, TypeWorkers, Shape
<1> QED BY <1>3, <1>4 DEF TypeInv, TypeOK, TypeWorkers, TypeWire, TypeClient

-----------------------------------------------------------------------------
\* A handler takes the connection over at rest and composes a framed request.
LEMMA EnterInStep ==
    ASSUME TypeInv, TypeInv', LockInv, LockInv', ServerEnd, ClientEnd, Conforming,
           NEW w \in Workers, Enter(w)
    PROVE  ServerEnd' /\ ClientEnd'
<1> USE DEF kernelVars, clientVars
<1>0. /\ pc \in [Workers -> {"idle", "enter", "send", "hdr", "body"}]
      /\ DOMAIN req = Workers /\ DOMAIN already = Workers
      /\ call[w].h \in Handlers /\ call[w].a \in Arguments
  BY DEF TypeInv, TypeOK, TypeWorkers, Shape, Enter, q__Mutex_lock
<1>1. pc'[w] = "send" /\ call' = call /\ \A v \in Workers \ {w} : pc'[v] = pc[v]
  BY <1>0 DEF Enter, q__Mutex_lock
<1>2. Busy(w)' /\ ~Busy(w)
  BY <1>1 DEF Busy, Enter, q__Mutex_lock
<1>3. Quiet
  <2> SUFFICES ASSUME NEW v \in Workers, Busy(v) PROVE FALSE
    BY DEF Quiet
  <2>1. v # w
    BY <1>2
  <2>2. Busy(v)'
    BY <1>1, <2>1 DEF Busy
  <2> QED BY <1>2, <2>1, <2>2 DEF LockInv, Exclusion
<1>4. in = <<>> /\ (proc = "run" /\ conn = "open" => AtRest)
  BY <1>3 DEF ServerEnd, ClientEnd
<1>5. req'[w].n = call'[w].n /\ req'[w].b = Handler(w).req /\ already'[w] = 0
  BY <1>0, <1>1 DEF Enter, q__Mutex_lock
<1>6. Framed(req'[w].b)
  <2>1. call[w].h \in HandlerNames \ {"symlink"}
    BY <1>0, ParametersAssumption DEF Conforming
  <2> QED BY <1>0, <1>5, <2>1, HandlersFramed DEF Handler
<1>7. 0 < req'[w].b.len
  <2>1. req'[w].b.len \in Nat
    <3>1. req'[w] \in RequestMsgs
      BY <1>2 DEF TypeInv, Shape, TypeOK, TypeWorkers
    <3> QED BY <3>1 DEF RequestMsgs, Requests
  <2> QED BY <1>6, <2>1, SizesAssumption DEF Framed
<1>8. Sends(w)'
  BY <1>4, <1>5, <1>7 DEF Sends, Enter, q__Mutex_lock
<1>9. ASSUME proc' = "run", conn' = "open" PROVE Asking(w)'
  <2>1. out = <<>> /\ cgot = Nothing /\ crep = None /\ cput = 0
    BY <1>4, <1>9 DEF Enter, q__Mutex_lock, AtRest
  <2>2. out' = <<>> /\ cgot' = Nothing /\ crep' = None /\ cput' = 0 /\ in' = <<>>
    BY <1>4, <2>1 DEF Enter, q__Mutex_lock
  <2>3. Len(<<>>) = 0 /\ cgot'.k = 0 /\ cgot'.ok
    BY <2>2 DEF Nothing
  <2> QED BY <1>1, <1>5, <2>2, <2>3 DEF Asking, Run
<1>10. ~Receiving(w)'
  BY <1>1 DEF Receiving
<1> QED BY <1>2, <1>5, <1>6, <1>8, <1>9, <1>10, OneWorker

\* sockwrite puts the next byte of the request behind the ones under way.
LEMMA SendByteInStep ==
    ASSUME TypeInv, TypeInv', LockInv, LockInv', ServerEnd, ClientEnd,
           NEW w \in Workers, SendByte(w)
    PROVE  ServerEnd' /\ ClientEnd'
<1> USE DEF kernelVars, clientVars
<1>0. Busy(w) /\ pc[w] = "send"
  BY DEF Busy, SendByte
<1>1. /\ req[w] \in RequestMsgs /\ already[w] \in Nat /\ already \in [Workers -> Nat]
      /\ got \in [Workers -> Gathers(ReplyMsgs)] /\ out \in Seq(Bytes(RequestMsgs))
      /\ pc \in [Workers -> {"idle", "enter", "send", "hdr", "body"}]
      /\ cgot \in Gathers(RequestMsgs)
  BY <1>0, BusyTypes DEF TypeInv, TypeOK, TypeWorkers
<1>2. /\ req[w].n = call[w].n /\ Framed(req[w].b) /\ in = <<>> /\ already[w] < req[w].b.len
      /\ req[w].b.len \in Nat
  BY <1>0, <1>1 DEF ServerEnd, Sends, RequestMsgs, Requests
<1>3. /\ req' = req /\ call' = call /\ in' = in /\ already'[w] = already[w] + 1
      /\ UNCHANGED <<proc, cgot, crep, cput>>
  BY <1>1 DEF SendByte
<1>4. \/ pc'[w] = "send" /\ already[w] + 1 # req[w].b.len
      \/ pc'[w] = "hdr" /\ already[w] + 1 = req[w].b.len /\ got'[w] = Nothing
  BY <1>0, <1>1 DEF SendByte
<1>5. Busy(w)'
  BY <1>4 DEF Busy
<1>6. pc'[w] = "send" => Sends(w)'
  BY <1>1, <1>2, <1>3, <1>4 DEF Sends
<1>7. Receiving(w)' => Receives(w)'
  <2> SUFFICES ASSUME Receiving(w)' PROVE Receives(w)'
    OBVIOUS
  <2>1. pc'[w] = "hdr" /\ got'[w] = Nothing /\ in' = <<>>
    BY <1>2, <1>3, <1>4 DEF Receiving
  <2>2. got'[w].ok /\ got'[w].k = 0
    BY <2>1 DEF Nothing
  <2> QED BY <2>1, <2>2, SizesAssumption DEF Receives
<1>8. ASSUME proc' = "run", conn' = "open" PROVE Asking(w)'
  <2>1. conn = "open" /\ proc = "run" /\ out' = Append(out, [m |-> req[w], at |-> already[w]])
    BY <1>8 DEF SendByte
  <2>2. Asking(w)
    BY <1>0, <2>1 DEF ClientEnd, Answering, Receiving
  <2>3. Len(out) \in Nat /\ cgot.k \in Nat /\ Len(out') = Len(out) + 1
    BY <1>1, <2>1 DEF Gathers
  <2>4. Run(out, req[w], cgot.k) /\ cgot.k + Len(out) = already[w]
    BY <2>2 DEF Asking
  <2>5. Run(out', req[w], cgot.k)
    <3>1. [m |-> req[w], at |-> already[w]] \in Bytes(RequestMsgs)
      BY <1>1 DEF Bytes
    <3> QED BY <1>1, <2>1, <2>3, <2>4, <3>1, RunAppend
  <2>6. cgot'.k + Len(out') = already'[w]
    BY <1>1, <1>3, <2>3, <2>4
  <2> QED BY <1>2, <1>3, <1>4, <2>2, <2>5, <2>6 DEF Asking
<1> QED BY <1>2, <1>3, <1>5, <1>6, <1>7, <1>8, OneWorker

\* sockread takes the next byte of the one reply there is.
LEMMA RecvByteInStep ==
    ASSUME TypeInv, TypeInv', LockInv, LockInv', ServerEnd, ClientEnd,
           NEW w \in Workers, RecvByte(w)
    PROVE  ServerEnd' /\ ClientEnd'
<1> USE DEF kernelVars, clientVars
<1> DEFINE r == Incoming(w)
<1>0. Busy(w) /\ Receiving(w) /\ in # <<>>
  BY DEF Busy, Receiving, RecvByte
<1>1. /\ got[w] \in Gathers(ReplyMsgs) /\ got \in [Workers -> Gathers(ReplyMsgs)]
      /\ in \in Seq(Bytes(ReplyMsgs)) /\ got[w].k \in Nat /\ got'[w].k \in Nat
  <2>1. got[w] \in Gathers(ReplyMsgs) /\ in \in Seq(Bytes(ReplyMsgs))
    BY <1>0, BusyTypes
  <2>2. got \in [Workers -> Gathers(ReplyMsgs)] /\ got' \in [Workers -> Gathers(ReplyMsgs)]
    BY DEF TypeInv, TypeOK, TypeWorkers
  <2> QED BY <2>1, <2>2 DEF Gathers
<1>2. /\ Receives(w) /\ req[w].n = call[w].n /\ Framed(req[w].b)
  BY <1>0 DEF ServerEnd
<1>3. /\ got[w].ok /\ IsReplyTo(r, req[w]) /\ Run(in, r, got[w].k)
      /\ got[w].k + Len(in) <= r.size /\ (got[w].k > 0 => got[w].m = r)
  BY <1>0, <1>2 DEF Receives, Incoming
<1>4. /\ Head(in) = [m |-> r, at |-> got[w].k] /\ Run(in', r, got[w].k + 1)
      /\ Len(in') = Len(in) - 1 /\ Len(in) \in Nat
  <2> HIDE DEF r
  <2>1. in' = Tail(in)
    BY DEF RecvByte
  <2> QED BY <1>0, <1>1, <1>3, <2>1, RunTail
<1>5. got'[w].m = r /\ got'[w].k = got[w].k + 1 /\ got'[w].ok
  <2> HIDE DEF r
  <2>1. got'[w] = Gather(got[w], Head(in))
    BY <1>1 DEF RecvByte
  <2>2. got[w].k = 0 \/ got[w].m = r
    BY <1>1, <1>3
  <2>3. got[w].ok /\ Head(in) = [m |-> r, at |-> got[w].k]
    BY <1>3, <1>4
  <2>4. /\ Gather(got[w], Head(in)).m = r /\ Gather(got[w], Head(in)).k = got[w].k + 1
        /\ Gather(got[w], Head(in)).ok
    BY <2>2, <2>3, GatherNext, Zenon
  <2> QED BY <2>1, <2>4
<1>6. UNCHANGED <<proc, pc, call, req, rp, conn, out, cgot, crep, cput>>
  BY DEF RecvByte
<1>7. Incoming(w)' = r
  BY <1>1, <1>5 DEF Incoming
<1>8. got'[w].k + Len(in') = got[w].k + Len(in)
  BY <1>1, <1>4, <1>5
<1>9. Receives(w)'
  <2>1. (pc[w] = "hdr")' => got'[w].k <= SzRpHdr
    BY <1>1, <1>5, <1>6, SizesAssumption DEF RecvByte, Wanted
  <2>2. (pc[w] = "body")' =>
           /\ got'[w].k >= SzRpHdr
           /\ rp'[w] = [size |-> got'[w].m.size, rtvl |-> got'[w].m.rtvl]
           /\ Accepts(Handler(w).test, rp[w])'
    <3> SUFFICES ASSUME pc[w] = "body"
                 PROVE  /\ got'[w].k >= SzRpHdr
                        /\ rp'[w] = [size |-> got'[w].m.size, rtvl |-> got'[w].m.rtvl]
                        /\ Accepts(Handler(w).test, rp[w])'
      BY <1>6
    <3>1. got[w].k >= SzRpHdr /\ Accepts(Handler(w).test, rp[w])
          /\ rp[w] = [size |-> got[w].m.size, rtvl |-> got[w].m.rtvl]
      BY <1>2 DEF Receives
    <3>2. got[w].m = r
      BY <1>1, <1>3, <3>1, SizesAssumption
    <3>3. got'[w].m = r /\ got'[w].k >= SzRpHdr
      BY <1>1, <1>5, <3>1, SizesAssumption
    <3>4. Accepts(Handler(w).test, rp[w])'
      BY <1>6, <3>1 DEF Handler
    <3> QED BY <1>6, <3>1, <3>2, <3>3, <3>4
  <2>3. IsReplyTo(Incoming(w), req[w])' /\ Run(in, Incoming(w), got[w].k)'
    BY <1>3, <1>4, <1>5, <1>6, <1>7 DEF IsReplyTo
  <2>4. (got[w].k + Len(in) <= Incoming(w).size)'
    BY <1>3, <1>7, <1>8
  <2> QED BY <1>5, <2>1, <2>2, <2>3, <2>4 DEF Receives
<1>10. ASSUME proc' = "run", conn' = "open" PROVE Answering(w)'
  <2>1. Answering(w)
    BY <1>0, <1>6, <1>10 DEF ClientEnd, Asking
  <2>2. got'[w].k > 0
    BY <1>1, <1>5
  <2> QED BY <1>5, <1>6, <1>7, <1>8, <2>1, <2>2 DEF Answering, Receiving, IsReplyTo
<1>11. Busy(w)' /\ ~(pc[w] = "send")'
  BY <1>0, <1>6 DEF Busy, Receiving
<1>12. (req[w].n = call[w].n)' /\ Framed(req[w].b)'
  BY <1>2, <1>6 DEF Framed, Consumes
<1> QED BY <1>9, <1>10, <1>11, <1>12, OneWorker

\* The header is complete and says what the client put into it.
LEMMA HeaderRead ==
    ASSUME TypeInv, ServerEnd, NEW w \in Workers, pc[w] = "hdr", got[w].k = SzRpHdr
    PROVE  /\ Headers(got[w]) = {[size |-> got[w].m.size, rtvl |-> got[w].m.rtvl]}
           /\ Incoming(w) = got[w].m /\ IsReplyTo(got[w].m, req[w])
           /\ got[w].k + Len(in) <= got[w].m.size
<1>1. Receives(w)
  BY DEF ServerEnd, Receiving
<1>2. Incoming(w) = got[w].m
  BY SizesAssumption DEF Incoming
<1> QED BY <1>1, <1>2, SizesAssumption DEF Receives, Headers

\* A handler that accepts the header goes on with the same reply.
LEMMA ReplyAcceptInStep ==
    ASSUME TypeInv, TypeInv', LockInv, LockInv', ServerEnd, ClientEnd,
           NEW w \in Workers, ReplyAccept(w)
    PROVE  ServerEnd' /\ ClientEnd'
<1> USE DEF kernelVars, clientVars
<1>0. Busy(w) /\ Receiving(w) /\ pc[w] = "hdr" /\ got[w].k = SzRpHdr
  BY DEF Busy, Receiving, ReplyAccept
<1>1. /\ pc \in [Workers -> {"idle", "enter", "send", "hdr", "body"}] /\ DOMAIN rp = Workers
  BY DEF TypeInv, TypeOK, TypeWorkers
<1>2. /\ Receives(w) /\ req[w].n = call[w].n /\ Framed(req[w].b)
  BY <1>0 DEF ServerEnd
<1>3. UNCHANGED <<proc, call, req, already, got, conn, out, in, cgot, crep, cput>> /\ pc'[w] = "body"
  BY <1>1 DEF ReplyAccept
<1>4. rp'[w] = [size |-> got[w].m.size, rtvl |-> got[w].m.rtvl] /\ Accepts(Handler(w).test, rp'[w])
  BY <1>0, <1>1, HeaderRead DEF ReplyAccept
<1>5. Receives(w)'
  <2>1. Incoming(w)' = Incoming(w)
    BY <1>3 DEF Incoming
  <2>2. Accepts(Handler(w).test, rp[w])'
    BY <1>3, <1>4 DEF Handler
  <2> QED BY <1>0, <1>2, <1>3, <1>4, <2>1, <2>2, SizesAssumption DEF Receives, IsReplyTo
<1>6. ASSUME proc' = "run", conn' = "open" PROVE Answering(w)'
  <2>1. ~Asking(w)
    BY <1>0, SizesAssumption DEF Asking, Nothing
  <2>2. Answering(w)
    BY <1>0, <1>3, <1>6, <2>1 DEF ClientEnd
  <2>3. Incoming(w)' = Incoming(w)
    BY <1>3 DEF Incoming
  <2> QED BY <1>3, <2>2, <2>3 DEF Answering, Receiving
<1>7. Busy(w)' /\ ~(pc[w] = "send")'
  BY <1>3 DEF Busy
<1>8. (req[w].n = call[w].n)' /\ Framed(req[w].b)'
  BY <1>2, <1>3 DEF Framed, Consumes
<1> QED BY <1>5, <1>6, <1>7, <1>8, OneWorker

\* A handler leaves with its reply read to the end, or with a connection that is
\* dead.
LEMMA HandlerReturnsInStep ==
    ASSUME TypeInv, TypeInv', LockInv, LockInv', ServerEnd, ClientEnd, NEW w \in Workers,
           SendFail(w) \/ RecvFail(w) \/ ReplyError(w) \/ Finish(w)
    PROVE  ServerEnd' /\ ClientEnd'
<1> USE DEF kernelVars, clientVars
<1>0. Busy(w)
  BY DEF SendFail, RecvFail, ReplyError, Finish, Busy
<1>1. ASSUME NEW v \in Workers PROVE ~Busy(v)'
  <2>1. pc \in [Workers -> {"idle", "enter", "send", "hdr", "body"}]
    BY DEF TypeInv, TypeOK, TypeWorkers
  <2>2. pc' = [pc EXCEPT ![w] = "idle"]
    BY DEF SendFail, RecvFail, ReplyError, Finish, Fail, Return, q__Mutex_unlock
  <2>3. Busy(v) => v = w
    BY <1>0 DEF LockInv, Exclusion
  <2> QED BY <2>1, <2>2, <2>3 DEF Busy
<1>2. UNCHANGED <<proc, in, out, cgot, crep, cput>>
  BY DEF SendFail, RecvFail, ReplyError, Finish
<1>3. CASE SendFail(w)
  <2>1. in = <<>>
    BY <1>3 DEF SendFail, ServerEnd, Sends
  <2>2. conn' = "dead"
    BY <1>3 DEF SendFail
  <2> QED BY <1>1, <1>2, <2>1, <2>2, ReturnInStep
<1>4. CASE RecvFail(w)
  <2>1. in = <<>> /\ conn' = "dead"
    BY <1>4 DEF RecvFail
  <2> QED BY <1>1, <1>2, <2>1, ReturnInStep
<1>5. ASSUME Receiving(w), got[w].k >= SzRpHdr, got[w].k = got[w].m.size, conn' = conn
      PROVE  ServerEnd' /\ ClientEnd'
  <2>1. got[w].k \in Nat /\ Len(in) \in Nat /\ in \in Seq(Bytes(ReplyMsgs))
    BY <1>0, BusyTypes DEF Gathers
  <2>2. Incoming(w) = got[w].m
    BY <1>5, <2>1, SizesAssumption DEF Incoming
  <2>3. got[w].k + Len(in) <= got[w].m.size
    <3>1. Receives(w) /\ got[w].k > 0
      BY <1>5, <2>1, SizesAssumption DEF ServerEnd
    <3> QED BY <2>2, <3>1 DEF Receives
  <2>4. Len(in) = 0 /\ in = <<>>
    <3>1. Len(in) = 0
      BY <1>5, <2>1, <2>3
    <3> QED BY <2>1, <3>1, EmptySeq
  <2>5. ASSUME proc' = "run", conn' = "open" PROVE AtRest
    <3>1. ~Asking(w)
      BY <1>5, SizesAssumption DEF Asking, Nothing, Receiving
    <3>2. Answering(w)
      BY <1>0, <1>2, <1>5, <2>5, <3>1 DEF ClientEnd
    <3> QED BY <1>5, <2>1, <2>2, <2>4, <3>2 DEF Answering, AtRest
  <2>6. proc' = "run" /\ conn' = "open" => AtRest'
    BY <1>2, <2>5 DEF AtRest
  <2> QED BY <1>1, <1>2, <2>4, <2>6, ReturnInStep
<1>6. CASE ReplyError(w)
  <2>1. pc[w] = "hdr" /\ got[w].k = SzRpHdr /\ got[w].m.rtvl < 0 /\ conn' = conn
    BY <1>6, HeaderRead DEF ReplyError
  <2>2. got[w].m.size = SzRpHdr
    BY <2>1, HeaderRead DEF IsReplyTo
  <2> QED BY <1>5, <2>1, <2>2, SizesAssumption DEF Receiving
<1>7. CASE Finish(w)
  <2>1. pc[w] = "body" /\ got[w].k = Wanted(w) /\ conn' = conn /\ Receiving(w)
    BY <1>7 DEF Finish, Receiving
  <2>2. /\ rp[w] = [size |-> got[w].m.size, rtvl |-> got[w].m.rtvl]
        /\ Accepts(Handler(w).test, rp[w]) /\ got[w].k >= SzRpHdr
    BY <2>1 DEF ServerEnd, Receives
  <2>3. SzRpHdr + Body(Handler(w).test, rp[w]) = rp[w].size
    BY <1>0, <2>1, <2>2, BusyTypes, AcceptsBody
  <2>4. got[w].k = got[w].m.size
    BY <2>1, <2>2, <2>3 DEF Wanted
  <2> QED BY <1>5, <2>1, <2>2, <2>4
<1> QED BY <1>3, <1>4, <1>6, <1>7

-----------------------------------------------------------------------------
\* While the connection is open the client has something to read, to execute or
\* to send only on behalf of the one worker that is on the connection.
LEMMA ClientServesOne ==
    ASSUME ClientEnd, proc = "run", conn = "open", ~AtRest
    PROVE  \E w \in Workers : Busy(w) /\ (Asking(w) \/ Answering(w))
BY DEF ClientEnd, Quiet

\* The client takes the next byte of the one request there is.
LEMMA ClientReadInStep ==
    ASSUME TypeInv, TypeInv', LockInv', ServerEnd, ClientEnd, ClientRead
    PROVE  ServerEnd' /\ ClientEnd'
<1> USE DEF kernelVars, workerVars
<1>0. UNCHANGED <<proc, pc, call, req, already, got, rp, conn, in, crep, cput>> /\ out # <<>>
  BY DEF ClientRead
<1>1. ServerEnd'
  BY <1>0, ServerEndStable
<1>2. ASSUME proc' = "run", conn' = "open" PROVE ClientEnd'
  <2>1. PICK w \in Workers : Busy(w) /\ (Asking(w) \/ Answering(w))
    BY <1>0, <1>2, ClientServesOne DEF AtRest
  <2>2. Asking(w)
    BY <1>0, <2>1 DEF Answering
  <2>3. out \in Seq(Bytes(RequestMsgs)) /\ cgot.k \in Nat /\ cgot'.k \in Nat
    BY DEF TypeInv, TypeOK, TypeWire, TypeClient, Gathers
  <2>4. /\ cgot.ok /\ Run(out, req[w], cgot.k) /\ (cgot.k = 0 \/ cgot.m = req[w])
        /\ cgot.k + Len(out) = already[w]
    BY <2>2, <2>3 DEF Asking
  <2>5. /\ Head(out) = [m |-> req[w], at |-> cgot.k] /\ Run(out', req[w], cgot.k + 1)
        /\ Len(out') = Len(out) - 1 /\ Len(out) \in Nat
    <3>1. out' = Tail(out)
      BY DEF ClientRead
    <3> QED BY <1>0, <2>3, <2>4, <3>1, RunTail
  <2>6. cgot'.m = req[w] /\ cgot'.k = cgot.k + 1 /\ cgot'.ok
    <3>1. /\ Gather(cgot, Head(out)).m = req[w] /\ Gather(cgot, Head(out)).k = cgot.k + 1
          /\ Gather(cgot, Head(out)).ok
      BY <2>4, <2>5, GatherNext, Zenon
    <3>2. cgot' = Gather(cgot, Head(out))
      BY <3>1, UnderstoodRight DEF ClientRead
    <3> QED BY <3>1, <3>2
  <2>7. cgot'.k + Len(out') = already[w]
    BY <2>3, <2>4, <2>5, <2>6
  <2>8. Asking(w)'
    BY <1>0, <2>2, <2>5, <2>6, <2>7 DEF Asking
  <2>9. Busy(w)' /\ \A v \in Workers : Busy(v)' => v = w
    BY <1>0, <2>1 DEF Busy, LockInv, Exclusion
  <2> QED BY <2>8, <2>9 DEF ClientEnd, Quiet
<1>3. ~(proc' = "run" /\ conn' = "open") => ClientEnd'
  BY DEF ClientEnd
<1> QED BY <1>1, <1>2, <1>3

\* The client executes a request when it has all of it, and has its answer ready.
LEMMA ClientExecInStep ==
    ASSUME TypeInv, TypeInv', LockInv', ServerEnd, ClientEnd, Conforming, ClientExec
    PROVE  ServerEnd' /\ ClientEnd'
<1> USE DEF kernelVars, workerVars
<1>0. /\ UNCHANGED <<proc, pc, call, req, already, got, rp, conn, out, in, cput>>
      /\ cgot' = Nothing /\ cgot.k >= SzOpHdr /\ cgot.k = Required
  BY DEF ClientExec, ClientReady
<1>1. ServerEnd'
  BY <1>0, ServerEndStable
<1>2. ASSUME proc' = "run", conn' = "open" PROVE ClientEnd'
  <2>0. cgot.k \in Nat /\ cgot.k > 0 /\ out \in Seq(Bytes(RequestMsgs)) /\ Len(out) \in Nat
    BY <1>0, SizesAssumption DEF TypeInv, TypeOK, TypeWire, TypeClient, Gathers
  <2>1. PICK w \in Workers : Busy(w) /\ (Asking(w) \/ Answering(w))
    BY <1>0, <1>2, <2>0, ClientServesOne DEF AtRest, Nothing
  <2>2. Asking(w) /\ cgot.m = req[w]
    BY <2>0, <2>1 DEF Answering, Asking, Nothing
  <2>3. cgot.k = req[w].b.len
    <3>1. Framed(req[w].b)
      BY <2>1 DEF ServerEnd
    <3>2. ~(cgot.k < SzOpHdr)
      BY <1>0, <2>0, SizesAssumption
    <3> QED BY <1>0, <2>2, <3>1, <3>2 DEF Required, Takes, Conforming, Framed
  <2>4. pc[w] = "hdr" /\ out = <<>>
    <3>1. already[w] \in Nat /\ req[w].b.len \in Nat
      BY <2>1, BusyTypes DEF RequestMsgs, Requests
    <3>2. cgot.k + Len(out) = already[w]
      BY <2>2 DEF Asking
    <3>3. pc[w] # "send"
      BY <2>0, <2>3, <3>1, <3>2 DEF ServerEnd, Sends
    <3>4. pc[w] = "hdr" /\ already[w] = req[w].b.len
      BY <2>2, <3>3 DEF Asking
    <3>5. Len(out) = 0
      BY <2>0, <2>3, <3>1, <3>2, <3>4
    <3> QED BY <2>0, <3>4, <3>5, EmptySeq
  <2>5. PICK r \in Successes(cgot.m) \cup {Failure(cgot.m)} : crep' = r
    BY DEF ClientExec, Conforming
  <2>6. /\ IsReplyTo(crep', req[w]) /\ crep' # None /\ crep' \in ReplyMsgs
    <3>1. req[w] \in RequestMsgs
      BY <2>1, BusyTypes
    <3>2. IsReplyTo(r, req[w])
      BY <2>2, <3>1, AnswersAreReplies
    <3> QED BY <2>5, <3>2, NoneAssumption DEF IsReplyTo
  <2>7. got[w].k = 0 /\ in = <<>> /\ cput = 0 /\ Len(<<>>) = 0
    BY <2>2, <2>4 DEF Asking, Nothing
  <2>8. Incoming(w)' = crep' /\ 0 < crep'.size
    <3>1. crep'.size \in Nat /\ crep'.size >= SzRpHdr
      BY <2>6 DEF IsReplyTo, ReplyMsgs
    <3> QED BY <1>0, <2>7, <3>1, SizesAssumption DEF Incoming
  <2>9. Answering(w)'
    BY <1>0, <2>4, <2>6, <2>7, <2>8 DEF Answering, Receiving
  <2>10. Busy(w)' /\ \A v \in Workers : Busy(v)' => v = w
    BY <1>0, <2>1 DEF Busy, LockInv, Exclusion
  <2> QED BY <2>9, <2>10 DEF ClientEnd, Quiet
<1>3. ~(proc' = "run" /\ conn' = "open") => ClientEnd'
  BY DEF ClientEnd
<1> QED BY <1>1, <1>2, <1>3

\* The client puts the next byte of the reply behind the ones under way.
LEMMA ClientSendInStep ==
    ASSUME TypeInv, TypeInv', LockInv', ServerEnd, ClientEnd, ClientSend
    PROVE  ServerEnd' /\ ClientEnd'
<1> USE DEF kernelVars, workerVars
<1>0. UNCHANGED <<proc, pc, call, req, already, got, rp, conn, out, cgot>> /\ crep # None
  BY DEF ClientSend
<1>1. CASE ~(proc = "run" /\ conn = "open")
  <2>1. in' = in
    BY <1>1 DEF ClientSend
  <2>2. ServerEnd'
    BY <1>0, <2>1, ServerEndStable
  <2> QED BY <1>0, <1>1, <2>2 DEF ClientEnd
<1>2. CASE proc = "run" /\ conn = "open"
  <2>1. PICK w \in Workers : Busy(w) /\ (Asking(w) \/ Answering(w))
    BY <1>0, <1>2, ClientServesOne DEF AtRest
  <2>2. /\ Answering(w) /\ Receiving(w) /\ Incoming(w) = crep /\ IsReplyTo(crep, req[w])
        /\ cput = got[w].k + Len(in) /\ cput < crep.size /\ out = <<>> /\ cgot = Nothing
    BY <1>0, <2>1 DEF Asking, Answering
  <2>3. /\ in \in Seq(Bytes(ReplyMsgs)) /\ Len(in) \in Nat /\ got[w].k \in Nat /\ cput \in Nat
        /\ crep \in ReplyMsgs /\ crep.size \in Nat
    <3>1. /\ in \in Seq(Bytes(ReplyMsgs)) /\ got[w] \in Gathers(ReplyMsgs)
          /\ crep \in ReplyMsgs \cup {None} /\ cput \in Nat
      BY <2>1, BusyTypes
    <3>2. crep \in ReplyMsgs /\ got[w].k \in Nat
      BY <1>0, <3>1 DEF Gathers
    <3> QED BY <3>1, <3>2 DEF ReplyMsgs
  <2>4. Receives(w) /\ req[w].n = call[w].n /\ Framed(req[w].b)
    BY <2>1, <2>2 DEF ServerEnd
  <2>5. in' = Append(in, [m |-> crep, at |-> cput]) /\ Len(in') = Len(in) + 1
    BY <1>2, <2>3 DEF ClientSend
  <2>6. Run(in', crep, got[w].k) /\ in' # <<>> /\ in'[1].m = crep
    <3>1. Run(in, crep, got[w].k)
      <4>1. CASE in = <<>>
        BY <4>1 DEF Run
      <4>2. CASE in # <<>>
        BY <2>2, <2>4, <4>2 DEF Receives
      <4> QED BY <4>1, <4>2
    <3>2. [m |-> crep, at |-> cput] \in Bytes(ReplyMsgs)
      BY <2>3 DEF Bytes
    <3>3. Run(in', crep, got[w].k)
      BY <2>2, <2>3, <2>5, <3>1, <3>2, RunAppend
    <3>4. 1 \in 1..Len(in')
      BY <2>3, <2>5
    <3>5. in'[1] = [m |-> crep, at |-> got[w].k + 1 - 1]
      BY <3>3, <3>4 DEF Run
    <3> QED BY <3>3, <3>4, <3>5, <2>3, <2>5
  <2>7. Incoming(w)' = crep
    BY <1>0, <2>2, <2>6 DEF Incoming
  <2>8. got[w].k + Len(in') = cput + 1 /\ cput + 1 <= crep.size
    <3>1. cput = got[w].k + Len(in) /\ cput < crep.size /\ Len(in') = Len(in) + 1
      BY <2>2, <2>5
    <3>2. Len(in) \in Nat /\ got[w].k \in Nat /\ cput \in Nat /\ crep.size \in Nat
      BY <2>3
    <3>3. got[w].k + Len(in') = cput + 1
      BY <3>1, <3>2
    <3>4. cput + 1 <= crep.size
      BY <3>1, <3>2
    <3> QED BY <3>3, <3>4
  <2>9. Receives(w)'
    <3>1. pc[w] = "body" => Accepts(Handler(w).test, rp[w])'
      BY <1>0, <2>4 DEF Receives, Handler
    <3>2. IsReplyTo(Incoming(w), req[w])' /\ Run(in, Incoming(w), got[w].k)'
      BY <1>0, <2>2, <2>6, <2>7 DEF IsReplyTo
    <3>3. (got[w].k + Len(in) <= Incoming(w).size)'
      BY <1>0, <2>7, <2>8
    <3>4. got'[w].ok /\ (pc'[w] = "hdr" => got'[w].k <= SzRpHdr)
      BY <1>0, <2>4 DEF Receives
    <3>5. pc'[w] = "body" => /\ got'[w].k >= SzRpHdr
                             /\ rp'[w] = [size |-> got'[w].m.size, rtvl |-> got'[w].m.rtvl]
      BY <1>0, <2>4 DEF Receives
    <3> QED BY <1>0, <3>1, <3>2, <3>3, <3>4, <3>5 DEF Receives
  <2>10. Answering(w)'
    <3>1. CASE cput + 1 = crep.size
      <4>1. crep' = None /\ cput' = 0
        BY <3>1 DEF ClientSend
      <4> QED BY <1>0, <2>2, <2>6, <2>7, <2>8, <3>1, <4>1 DEF Answering, Receiving
    <3>2. CASE cput + 1 # crep.size
      <4>1. crep' = crep /\ cput' = cput + 1
        BY <3>2 DEF ClientSend
      <4>2. cput' < crep.size
        BY <2>3, <2>8, <3>2, <4>1
      <4> QED BY <1>0, <2>2, <2>7, <2>8, <4>1, <4>2 DEF Answering, Receiving, IsReplyTo
    <3> QED BY <3>1, <3>2
  <2>11. Busy(w)' /\ ~(pc[w] = "send")'
    BY <1>0, <2>1, <2>2 DEF Busy, Receiving
  <2>12. (req[w].n = call[w].n)' /\ Framed(req[w].b)'
    BY <1>0, <2>4 DEF Framed, Consumes
  <2> QED BY <2>9, <2>10, <2>11, <2>12, OneWorker
<1> QED BY <1>1, <1>2

-----------------------------------------------------------------------------
\* Every step keeps the bytes of the one request and the one reply in place.
LEMMA WireInvNext ==
    ASSUME TypeInv, TypeInv', LockInv, LockInv', WireInv, Conforming, [Next]_vars
    PROVE  WireInv'
<1> USE DEF kernelVars, clientVars, workerVars, WireInv
<1>0. pc \in [Workers -> {"idle", "enter", "send", "hdr", "body"}]
      /\ DOMAIN call = Workers
  BY DEF TypeInv, TypeOK, TypeWorkers
<1>1. ASSUME NEW w \in Workers, Call(w) \/ Reject(w) PROVE WireInv'
  <2>1. UNCHANGED <<proc, req, already, got, rp, conn, in, out, cgot, crep, cput>>
    BY <1>1 DEF Call, Reject
  <2>2. \A v \in Workers : \/ pc'[v] = pc[v] /\ call'[v] = call[v]
                           \/ ~Busy(v) /\ ~Busy(v)'
    BY <1>0, <1>1 DEF Call, Reject, Fail, Return, q__Mutex_unlock, Busy
  <2> QED BY <2>1, <2>2, ServerEndStable, ClientEndStable
<1>2. ASSUME NEW w \in Workers, Enter(w) PROVE WireInv'
  BY <1>2, EnterInStep
<1>3. ASSUME NEW w \in Workers, SendByte(w) PROVE WireInv'
  BY <1>3, SendByteInStep
<1>4. ASSUME NEW w \in Workers, SendFail(w) \/ RecvFail(w) \/ ReplyError(w) \/ Finish(w)
      PROVE  WireInv'
  BY <1>4, HandlerReturnsInStep
<1>5. ASSUME NEW w \in Workers, SigPipe(w) PROVE WireInv'
  <2>1. /\ UNCHANGED <<pc, call, req, already, got, rp, in>> /\ proc' = "sigpipe"
    BY <1>5 DEF SigPipe
  <2> QED BY <2>1, ServerEndStable DEF ClientEnd
<1>6. ASSUME NEW w \in Workers, RecvByte(w) PROVE WireInv'
  BY <1>6, RecvByteInStep
<1>7. ASSUME NEW w \in Workers, ReplyAccept(w) PROVE WireInv'
  BY <1>7, ReplyAcceptInStep
<1>8. ASSUME NEW w \in Workers, ReplyAbort(w) PROVE WireInv'
  <2>1. UNCHANGED <<pc, call, req, already, got, in, crep>> /\ proc' = "abort" /\ pc[w] = "hdr"
    BY <1>8 DEF ReplyAbort
  <2>2. \A v \in Workers : Busy(v) => v = w
    BY <2>1 DEF LockInv, Exclusion, Busy
  <2>3. Busy(w)' /\ ~(pc[w] = "send")' /\ pc'[w] = "hdr"
    BY <2>1 DEF Busy
  <2>4. Receives(w) /\ req[w].n = call[w].n /\ Framed(req[w].b)
    BY <2>1 DEF ServerEnd, Busy, Receiving
  <2>5. Receives(w)'
    <3>1. Incoming(w)' = Incoming(w)
      BY <2>1 DEF Incoming
    <3> QED BY <2>1, <2>3, <2>4, <3>1 DEF Receives
  <2>6. (req[w].n = call[w].n)' /\ Framed(req[w].b)'
    BY <2>1, <2>4 DEF Framed, Consumes
  <2> QED BY <2>1, <2>3, <2>5, <2>6, OneWorker
<1>9. CASE ClientRead
  BY <1>9, ClientReadInStep
<1>10. CASE ClientExec
  BY <1>10, ClientExecInStep
<1>11. CASE ClientSend
  BY <1>11, ClientSendInStep
<1>12. CASE ClientLost \/ PeerClose \/ ConnBreak
  <2>1. UNCHANGED <<pc, call, req, already, got, rp, in>> /\ conn' # "open"
    BY <1>12 DEF ClientLost, PeerClose, Leave, ConnBreak
  <2> QED BY <2>1, ServerEndStable DEF ClientEnd
<1>13. CASE UNCHANGED vars
  <2>1. UNCHANGED <<proc, pc, call, req, already, got, rp, conn, in, out, cgot, crep, cput>>
    BY <1>13 DEF vars
  <2> QED BY <2>1, ServerEndStable, ClientEndStable
<1>14. ASSUME Terminated \/ \E w \in Workers : SpinEOF(w) PROVE UNCHANGED vars
  BY <1>14 DEF Terminated, SpinEOF
<1> QED
  BY <1>1, <1>2, <1>3, <1>4, <1>5, <1>6, <1>7, <1>8, <1>9, <1>10, <1>11, <1>12, <1>13, <1>14
  DEF Next, Step, Client

\* Without symlink, and with a client that answers every request, the two ends
\* never lose step, whatever breaks: each handler reads exactly the reply to its
\* own request, and between calls nothing is left on an open connection.  For
\* any sizes of the structures and any number of workers, calls and files.
THEOREM InStepCorrect == ASSUME Conforming PROVE Spec => [](WireInv /\ InStep /\ OwnReply)
<1>1. Init => WireInv
  BY DEF Init, WireInv, ServerEnd, ClientEnd, Busy, Receiving, AtRest, Quiet
<1>2. TypeInv /\ [Next]_vars => TypeInv'
  BY TypeInvNext
<1>3. Init => LockInv
  BY NoneAssumption DEF Init, LockInv, Exclusion, MuGuards, Busy
<1>4. TypeInv /\ LockInv /\ [Next]_vars => LockInv'
  BY LockInvNext
<1>5. TypeInv /\ TypeInv' /\ LockInv /\ LockInv' /\ WireInv /\ [Next]_vars => WireInv'
  BY WireInvNext
<1>6. TypeInv /\ WireInv => InStep /\ OwnReply
  <2> SUFFICES ASSUME TypeInv, WireInv PROVE InStep /\ OwnReply
    OBVIOUS
  <2>1. InStep
    BY DEF InStep, WireInv, ServerEnd, ClientEnd, AtRest
  <2>2. ASSUME NEW w \in Workers, Receiving(w)
        PROVE  got[w].ok /\ (got[w].k > 0 => got[w].m.n = call[w].n /\ got[w].m.ouid = req[w].ouid)
    <3>1. Receives(w) /\ req[w].n = call[w].n
      BY <2>2 DEF WireInv, ServerEnd, Busy, Receiving
    <3> QED BY <3>1 DEF Receives, Incoming, IsReplyTo
  <2> QED BY <2>1, <2>2 DEF OwnReply, Receiving
<1> QED BY TypeInvInit, <1>1, <1>2, <1>3, <1>4, <1>5, <1>6, PTL DEF Spec

-----------------------------------------------------------------------------
(***************************************************************************)
(* The server implements RemoteCall: with a conforming client each call is *)
(* executed at most once, before it is answered, and an EBUSY is final,    *)
(* whatever fails and whenever.                                            *)
(***************************************************************************)

\* What the types say of a call that is served.
LEMMA CallTypes ==
    ASSUME TypeInv
    PROVE  /\ pc \in [Workers -> {"idle", "enter", "send", "hdr", "body"}]
           /\ ran \in [Calls -> Nat] /\ ret \in [Calls -> Outcomes]
           /\ ncalls \in 0..MaxCalls /\ MaxCalls \in Nat
           /\ DOMAIN call = Workers /\ DOMAIN req = Workers /\ DOMAIN got = Workers
           /\ \A w \in Workers : pc[w] # "idle" => call[w].n \in Calls
           /\ \A w \in Workers : Busy(w) => req[w] \in RequestMsgs
BY ParametersAssumption
DEF TypeInv, TypeOK, TypeWorkers, TypeClient, TypeKernel, Shape, Busy

\* The kernel's call gets a number of its own.
LEMMA CallCounted ==
    ASSUME TypeInv, CallInv, NEW w \in Workers, Call(w)
    PROVE  CallInv' /\ RC!Invoke(ncalls + 1) /\ ncalls + 1 \in Calls
<1> USE DEF kernelVars, clientVars, CallInv
<1> DEFINE n == ncalls + 1
<1>0. /\ pc[w] = "idle" /\ pc' = [pc EXCEPT ![w] = "enter"] /\ ncalls' = n
      /\ ret' = [ret EXCEPT ![n] = "pending"] /\ ncalls < MaxCalls
      /\ UNCHANGED <<proc, req, got, conn, out, in, cgot, crep, ran, sent>>
  BY DEF Call
<1>1. n \in Calls /\ ret[n] = "none" /\ ran[n] = 0
  BY <1>0, CallTypes DEF Calls, OneCallEach
<1>2. call'[w].n = n /\ \A v \in Workers \ {w} : call'[v] = call[v] /\ pc'[v] = pc[v]
  BY CallTypes DEF Call
<1>3. pc'[w] = "enter"
  BY <1>0, CallTypes
<1>4. \A v \in Workers : Busy(v)' <=> Busy(v)
  BY <1>0, <1>2, <1>3 DEF Busy
<1>5. \A v \in Workers : Receiving(v)' <=> Receiving(v)
  BY <1>0, <1>2, <1>3 DEF Receiving
<1>6. \A v \in Workers : pc[v] # "idle" => call[v].n # n /\ call[v].n \in Calls /\ v # w
  BY <1>0, <1>1, CallTypes DEF OneCallEach
<1>7. \A m \in Calls : m # n => ret'[m] = ret[m]
  BY <1>0, CallTypes
<1>8. ret'[n] = "pending"
  BY <1>0, <1>1, CallTypes
<1>9. OneCallEach'
  <2>1. \A m \in Calls : ret'[m] = "none" <=> m > ncalls'
    <3>1. \A m \in Calls : m # n => (m > n <=> m > ncalls)
      BY CallTypes DEF Calls
    <3> QED BY <3>1, <1>0, <1>1, <1>7, <1>8, CallTypes DEF OneCallEach
  <2>2. \A v \in Workers : pc'[v] # "idle" => ret'[call'[v].n] = "pending"
    BY <1>2, <1>6, <1>7, <1>8 DEF OneCallEach
  <2>3. \A v \in Workers : Busy(v)' => req'[v] \in sent'
    BY <1>0, <1>4 DEF OneCallEach
  <2>4. \A u, v \in Workers :
           pc'[u] # "idle" /\ pc'[v] # "idle" /\ call'[u].n = call'[v].n => u = v
    BY <1>2, <1>6 DEF OneCallEach
  <2> QED BY <2>1, <2>2, <2>3, <2>4 DEF OneCallEach
<1>10. NotYetRun'
  <2> SUFFICES ASSUME cgot.k > 0 \/ out # <<>>
               PROVE  \E q \in sent : Gathered(q)' /\ NotExecuted(q)'
    BY <1>0 DEF NotYetRun
  <2>1. PICK q \in sent : Gathered(q) /\ NotExecuted(q)
    BY DEF NotYetRun
  <2>2. q.n # n /\ q.n \in Calls
    BY <1>1, <2>1 DEF NotExecuted
  <2>3. NotExecuted(q)'
    BY <2>1, <2>2, <1>0, <1>2, <1>7 DEF NotExecuted
  <2>4. Gathered(q)'
    BY <2>1, <1>0 DEF Gathered, Run
  <2> QED BY <2>3, <2>4
<1>11. UnansweredNotRun'
  BY <1>0, <1>1, <1>2, <1>3, <1>4 DEF UnansweredNotRun, Unanswered, Busy
<1>12. RepliesRan'
  BY <1>0, <1>5 DEF RepliesRan, Executed
<1>13. BrokenForGood'
  BY <1>0, <1>5, <1>7, <1>8 DEF BrokenForGood
<1>14. AtMostOnce'
  BY <1>0, <1>7, <1>8 DEF AtMostOnce
<1>15. \A m \in Calls : ret'[m] = "none" => ran'[m] = 0
  BY <1>0, <1>7, <1>8
<1>16. RC!Invoke(n)
  BY <1>0, <1>1 DEF RC!Invoke
<1> QED BY <1>1, <1>9, <1>10, <1>11, <1>12, <1>13, <1>14, <1>15, <1>16

\* A handler returns: with the client's answer only if the call was executed, with
\* EINVAL only before it was sent, and with EBUSY only when it leaves nobody behind on
\* a socket that is dead.
LEMMA ReturnCounted ==
    ASSUME TypeInv, CallInv, NEW w \in Workers, NEW how,
           pc[w] # "idle", pc' = [pc EXCEPT ![w] = "idle"],
           ret' = [ret EXCEPT ![call[w].n] = how],
           UNCHANGED <<proc, call, req, got, out, in, ncalls, cgot, crep, ran, sent>>,
           conn' = conn \/ conn' = "dead",
           \/ how \in {"ok", "err"} /\ Busy(w) /\ ran[call[w].n] = 1
           \/ how = "einval" /\ pc[w] = "enter"
           \/ how = "ebusy" /\ conn' = "dead" /\ \A v \in Workers \ {w} : ~Busy(v)
    PROVE  CallInv'
<1> USE DEF CallInv
<1> DEFINE n == call[w].n
<1>1. n \in Calls /\ ret[n] = "pending" /\ ret'[n] = how
  BY CallTypes DEF OneCallEach
<1>2. \A m \in Calls : m # n => ret'[m] = ret[m]
  BY CallTypes
<1>3. pc'[w] = "idle" /\ \A v \in Workers \ {w} : pc'[v] = pc[v]
  BY CallTypes
<1>4. \A v \in Workers : (Busy(v)' <=> Busy(v) /\ v # w) /\ (Receiving(v)' <=> Receiving(v) /\ v # w)
  BY <1>3 DEF Busy, Receiving
<1>5. \A v \in Workers : pc[v] # "idle" /\ v # w => call[v].n # n /\ call[v].n \in Calls
  BY CallTypes DEF OneCallEach
<1>6. OneCallEach'
  <2>1. \A m \in Calls : ret'[m] = "none" <=> m > ncalls'
    BY <1>1, <1>2 DEF OneCallEach
  <2>2. \A v \in Workers : pc'[v] # "idle" => ret'[call'[v].n] = "pending"
    BY <1>2, <1>3, <1>5 DEF OneCallEach
  <2>3. \A v \in Workers : Busy(v)' => req'[v] \in sent'
    BY <1>4 DEF OneCallEach
  <2>4. \A u, v \in Workers :
           pc'[u] # "idle" /\ pc'[v] # "idle" /\ call'[u].n = call'[v].n => u = v
    BY <1>3 DEF OneCallEach
  <2> QED BY <2>1, <2>2, <2>3, <2>4 DEF OneCallEach
<1>7. NotYetRun'
  <2> SUFFICES ASSUME cgot.k > 0 \/ out # <<>>
               PROVE  \E q \in sent : Gathered(q)' /\ NotExecuted(q)'
    BY DEF NotYetRun
  <2>1. PICK q \in sent : Gathered(q) /\ NotExecuted(q)
    BY DEF NotYetRun
  <2>2. Gathered(q)'
    BY <2>1 DEF Gathered, Run
  <2>3. q.n \in Calls /\ ran[q.n] = 0 /\ ret[q.n] \in {"pending", "ebusy"}
    BY <2>1 DEF NotExecuted
  <2>4. q.n = n => how = "ebusy"
    BY <2>1, <2>3 DEF NotExecuted
  <2>5. ret'[q.n] \in {"pending", "ebusy"}
    BY <1>1, <1>2, <2>3, <2>4
  <2>6. NotExecuted(q)'
    BY <2>1, <2>3, <2>5, <1>3 DEF NotExecuted
  <2> QED BY <2>2, <2>6
<1>8. UnansweredNotRun'
  <2>1. \A v \in Workers : pc'[v] = "enter" => ran'[call'[v].n] = 0
    BY <1>3 DEF UnansweredNotRun
  <2>2. \A v \in Workers : Unanswered(v)' => Unanswered(v) /\ v # w
    BY <1>3, <1>4 DEF Unanswered
  <2>3. conn' = "open" => conn = "open"
    OBVIOUS
  <2> QED BY <2>1, <2>2, <2>3 DEF UnansweredNotRun
<1>9. RepliesRan'
  BY <1>4 DEF RepliesRan, Executed
<1>10. BrokenForGood'
  <2>1. CASE how = "ebusy"
    BY <2>1, <1>4 DEF BrokenForGood, Busy, Receiving
  <2>2. CASE how # "ebusy"
    BY <2>2, <1>1, <1>2, <1>4 DEF BrokenForGood
  <2> QED BY <2>1, <2>2
<1>11. AtMostOnce'
  BY <1>1, <1>2 DEF AtMostOnce, UnansweredNotRun
<1>12. \A m \in Calls : ret'[m] = "none" => ran'[m] = 0
  BY <1>1, <1>2
<1> QED BY <1>6, <1>7, <1>8, <1>9, <1>10, <1>11, <1>12

\* Nothing changes for the calls when a handler, or the process, only goes on to
\* its next place.
LEMMA GoesOnCounted ==
    ASSUME TypeInv, CallInv,
           UNCHANGED <<call, req, got, out, in, ncalls, cgot, crep, ran, ret, sent>>,
           conn' = conn \/ (conn' # "open" /\ conn # "dead"),
           proc' = "run" => proc = "run",
           \A v \in Workers : /\ (pc'[v] = "enter" <=> pc[v] = "enter")
                             /\ (pc'[v] = "idle" <=> pc[v] = "idle")
                             /\ (pc'[v] = "send" <=> pc[v] = "send")
                             /\ Busy(v)' = Busy(v) /\ Receiving(v)' = Receiving(v)
    PROVE  CallInv'
<1> USE DEF CallInv
<1>1. OneCallEach'
  BY DEF OneCallEach
<1>2. NotYetRun'
  BY DEF NotYetRun, Gathered, Run, NotExecuted
<1>3. UnansweredNotRun'
  BY DEF UnansweredNotRun, Unanswered
<1>4. RepliesRan'
  BY DEF RepliesRan, Executed
<1>5. BrokenForGood'
  BY DEF BrokenForGood
<1>6. AtMostOnce'
  BY DEF AtMostOnce
<1> QED BY <1>1, <1>2, <1>3, <1>4, <1>5, <1>6

\* A composed request belongs to a call that was not executed.
LEMMA EnterCounted ==
    ASSUME TypeInv, CallInv, NEW w \in Workers, Enter(w)
    PROVE  CallInv' /\ UNCHANGED <<ran, ret>>
<1> USE DEF kernelVars, clientVars, CallInv
<1>0. /\ pc[w] = "enter" /\ pc' = [pc EXCEPT ![w] = "send"]
      /\ UNCHANGED <<proc, call, got, conn, out, in, ncalls, cgot, crep, ran, ret>>
  BY DEF Enter, q__Mutex_lock
<1>1. /\ pc'[w] = "send" /\ \A v \in Workers \ {w} : pc'[v] = pc[v] /\ req'[v] = req[v]
      /\ req'[w] \in sent' /\ sent \subseteq sent'
  BY CallTypes DEF Enter, q__Mutex_lock
<1>2. \A v \in Workers : Receiving(v)' <=> Receiving(v)
  BY <1>0, <1>1 DEF Receiving
<1>3. OneCallEach'
  <2>1. \A v \in Workers : Busy(v)' => req'[v] \in sent'
    BY <1>1 DEF OneCallEach, Busy
  <2> QED BY <1>0, <1>1, <2>1 DEF OneCallEach
<1>4. NotYetRun'
  <2>1. \A q : Gathered(q) => Gathered(q)'
    BY <1>0 DEF Gathered, Run
  <2>2. \A q : NotExecuted(q) => NotExecuted(q)'
    BY <1>0, <1>1 DEF NotExecuted
  <2> QED BY <1>0, <1>1, <2>1, <2>2 DEF NotYetRun
<1>5. UnansweredNotRun'
  BY <1>0, <1>1 DEF UnansweredNotRun, Unanswered, Busy
<1>6. RepliesRan' /\ BrokenForGood' /\ AtMostOnce'
  BY <1>0, <1>2 DEF RepliesRan, Executed, BrokenForGood, AtMostOnce
<1> QED BY <1>0, <1>3, <1>4, <1>5, <1>6

\* sockwrite adds a byte of the one request the client is reading.
LEMMA SendByteCounted ==
    ASSUME TypeInv, TypeInv', LockInv, LockInv', ServerEnd, ClientEnd, CallInv,
           NEW w \in Workers, SendByte(w)
    PROVE  CallInv' /\ UNCHANGED <<ran, ret>>
<1> USE DEF kernelVars, clientVars, CallInv
<1>0. /\ pc[w] = "send" /\ proc = "run" /\ conn \in {"open", "fin"}
      /\ UNCHANGED <<proc, call, req, in, ncalls, cgot, crep, ran, ret, sent>>
      /\ conn' = "open" => conn = "open"
  BY DEF SendByte
<1>1. /\ pc'[w] \in {"send", "hdr"} /\ (pc'[w] = "hdr" => got'[w].k = 0)
      /\ \A v \in Workers \ {w} : pc'[v] = pc[v] /\ got'[v] = got[v]
  BY CallTypes, <1>0 DEF SendByte, Nothing
<1>2. \A v \in Workers : Busy(v)' <=> Busy(v)
  BY <1>0, <1>1 DEF Busy
<1>3. \A v \in Workers \ {w} : Receiving(v)' <=> Receiving(v)
  BY <1>1 DEF Receiving
<1>4. OneCallEach'
  BY <1>0, <1>1, <1>2 DEF OneCallEach
<1>5. UnansweredNotRun'
  <2>1. \A v \in Workers : pc'[v] = "enter" => pc[v] = "enter"
    BY <1>1
  <2>2. \A v \in Workers : Unanswered(v)' => Unanswered(v)
    BY <1>0, <1>1, <1>2 DEF Unanswered
  <2> QED BY <1>0, <2>1, <2>2 DEF UnansweredNotRun
<1>6. NotYetRun'
  <2>1. CASE conn # "open"
    <3>1. out' = out
      BY <2>1 DEF SendByte
    <3> QED BY <3>1, <1>0, <1>1 DEF NotYetRun, Gathered, Run, NotExecuted
  <2>2. CASE conn = "open"
    <3>1. out \in Seq(Bytes(RequestMsgs)) /\ out' \in Seq(Bytes(RequestMsgs))
      BY DEF TypeInv, TypeOK, TypeWire
    <3>2. out' # <<>> /\ conn' = "open"
      BY <2>2, <3>1 DEF SendByte
    <3>3. Busy(w) /\ Busy(w)'
      BY <1>0, <1>2 DEF Busy
    <3>4. ServerEnd' /\ ClientEnd'
      BY SendByteInStep
    <3>5. Asking(w)' /\ Asking(w)
      BY <1>0, <2>2, <3>2, <3>3, <3>4 DEF ClientEnd, Answering, Receiving
    <3>6. Unanswered(w)
      BY <1>0, <3>3, <3>5 DEF Unanswered, Asking
    <3>7. ran[call[w].n] = 0
      BY <1>0, <2>2, <3>6 DEF UnansweredNotRun
    <3>8. req[w].n = call[w].n /\ Framed(req[w].b) /\ req[w] \in sent /\ call[w].n \in Calls
      BY <3>3, <1>0, CallTypes DEF ServerEnd, OneCallEach
    <3>9. already'[w] <= req[w].b.len
      <4>1. already'[w] \in Nat /\ req[w].b.len \in Nat
        BY <3>3, CallTypes DEF TypeInv, TypeOK, TypeWorkers, RequestMsgs, Requests
      <4>2. CASE pc'[w] = "send"
        BY <4>1, <4>2, <3>4, <1>0 DEF ServerEnd, Sends
      <4>3. CASE pc'[w] = "hdr"
        BY <4>1, <4>3, <3>5, <1>0 DEF Asking
      <4> QED BY <4>2, <4>3, <1>1
    <3>10. Gathered(req[w])'
      BY <3>5, <3>8, <3>9, <1>0 DEF Asking, Gathered, Framed
    <3>11. NotExecuted(req[w])'
      <4>1. \A v \in Workers : pc'[v] = "enter" => call[v].n # call[w].n
        BY <1>0, <1>1 DEF OneCallEach
      <4> QED BY <4>1, <1>0, <3>7, <3>8 DEF NotExecuted, OneCallEach
    <3> QED BY <3>8, <3>10, <3>11, <1>0 DEF NotYetRun
  <2> QED BY <2>1, <2>2
<1>7. RepliesRan'
  <2>1. \A v \in Workers : Receiving(v)' /\ got'[v].k > 0 => Receiving(v) /\ got'[v] = got[v]
    BY <1>1, <1>3 DEF Receiving
  <2> QED BY <1>0, <2>1 DEF RepliesRan, Executed
<1>8. BrokenForGood' /\ AtMostOnce'
  BY <1>0 DEF BrokenForGood, AtMostOnce
<1> QED BY <1>0, <1>4, <1>5, <1>6, <1>7, <1>8

\* sockread takes a byte of a reply.
LEMMA RecvByteCounted ==
    ASSUME TypeInv, LockInv, CallInv, NEW w \in Workers, RecvByte(w)
    PROVE  CallInv' /\ UNCHANGED <<ran, ret>>
<1> USE DEF kernelVars, clientVars, CallInv
<1>0. /\ Receiving(w) /\ in # <<>> /\ in' = Tail(in)
      /\ UNCHANGED <<proc, pc, call, req, conn, out, ncalls, cgot, crep, ran, ret, sent>>
  BY DEF RecvByte, Receiving
<1>1. in \in Seq(Bytes(ReplyMsgs)) /\ got[w].k \in Nat
  BY DEF TypeInv, TypeOK, TypeWire, TypeWorkers, Gathers
<1>2. /\ got'[w].k = got[w].k + 1
      /\ got'[w].m = IF got[w].k = 0 THEN Head(in).m ELSE got[w].m
      /\ \A v \in Workers \ {w} : got'[v] = got[v]
  BY CallTypes DEF RecvByte, Gather
<1>3. Head(in) = in[1] /\ 1 \in 1..Len(in)
      /\ \A i \in 1..Len(in') : i + 1 \in 1..Len(in) /\ in'[i] = in[i + 1]
  BY <1>0, <1>1
<1>4. OneCallEach' /\ BrokenForGood' /\ AtMostOnce'
  BY <1>0 DEF OneCallEach, BrokenForGood, AtMostOnce, Busy, Receiving
<1>5. NotYetRun'
  <2>1. \A q : Gathered(q) => Gathered(q)'
    BY <1>0 DEF Gathered, Run
  <2>2. \A q : NotExecuted(q) => NotExecuted(q)'
    BY <1>0 DEF NotExecuted
  <2> QED BY <1>0, <2>1, <2>2 DEF NotYetRun
<1>6. UnansweredNotRun'
  <2>1. ~Unanswered(w)'
    BY <1>0, <1>1, <1>2 DEF Unanswered, Receiving
  <2>2. \A v \in Workers : Busy(v) => v = w
    BY <1>0 DEF LockInv, Exclusion, Busy, Receiving
  <2>3. \A v \in Workers : ~Unanswered(v)'
    BY <1>0, <2>1, <2>2 DEF Unanswered, Busy
  <2> QED BY <1>0, <2>3 DEF UnansweredNotRun
<1>7. RepliesRan'
  <2>1. Executed(got'[w].m)
    BY <1>0, <1>1, <1>2, <1>3 DEF RepliesRan
  <2>2. \A i \in 1..Len(in') : Executed(in'[i].m)
    BY <1>3 DEF RepliesRan
  <2>3. \A v \in Workers : Receiving(v)' /\ got'[v].k > 0 => Executed(got'[v].m)
    BY <1>0, <1>2, <2>1 DEF RepliesRan, Receiving
  <2>4. \A r : Executed(r)' <=> Executed(r)
    BY <1>0 DEF Executed
  <2> QED BY <1>0, <2>2, <2>3, <2>4 DEF RepliesRan
<1> QED BY <1>0, <1>4, <1>5, <1>6, <1>7

\* What the client reads is the next byte of the one request under way, which it takes
\* for nothing else.
LEMMA ClientReadsRight ==
    ASSUME TypeInv, NotYetRun, ClientRead
    PROVE  /\ cgot' = Gather(cgot, Head(out))
           /\ \E q \in sent :
                 /\ Gathered(q) /\ NotExecuted(q)
                 /\ cgot'.m = q /\ cgot'.k = cgot.k + 1 /\ cgot'.ok
                 /\ Run(out', q, cgot'.k) /\ cgot'.k + Len(out') <= q.b.len
<1>0. out # <<>> /\ out' = Tail(out) /\ cgot' \in Understood(Gather(cgot, Head(out)))
  BY DEF ClientRead
<1>1. PICK q \in sent : Gathered(q) /\ NotExecuted(q)
  BY <1>0 DEF NotYetRun
<1>2. cgot.k \in Nat /\ out \in Seq(Bytes(RequestMsgs)) /\ q.b.len \in Nat
  BY DEF TypeInv, TypeOK, TypeProcess, TypeWire, TypeClient, Gathers, RequestMsgs, Requests
<1>3. /\ Head(out) = [m |-> q, at |-> cgot.k] /\ Run(Tail(out), q, cgot.k + 1)
      /\ Len(Tail(out)) = Len(out) - 1 /\ Len(out) \in Nat \ {0}
  BY <1>0, <1>1, <1>2, RunTail DEF Gathered
<1>4. cgot.ok /\ (cgot.k = 0 \/ cgot.m = q) /\ cgot.k + Len(out) <= q.b.len
  BY <1>1, <1>2 DEF Gathered
<1>5. /\ Gather(cgot, Head(out)).m = q /\ Gather(cgot, Head(out)).k = cgot.k + 1
      /\ Gather(cgot, Head(out)).ok
  BY <1>3, <1>4, GatherNext, Zenon
<1>6. cgot' = Gather(cgot, Head(out))
  BY <1>0, <1>5, UnderstoodRight
<1>7. cgot'.k + Len(out') <= q.b.len
  BY <1>0, <1>2, <1>3, <1>4, <1>5, <1>6
<1> QED BY <1>0, <1>1, <1>3, <1>5, <1>6, <1>7

\* The client takes a byte of the request it is reading.
LEMMA ClientReadCounted ==
    ASSUME TypeInv, CallInv, ClientRead
    PROVE  CallInv' /\ UNCHANGED <<ran, ret>>
<1> USE DEF kernelVars, workerVars, CallInv
<1>0. UNCHANGED <<proc, pc, call, req, got, conn, in, ncalls, crep, ran, ret, sent>>
  BY DEF ClientRead
<1>1. OneCallEach' /\ BrokenForGood' /\ AtMostOnce' /\ RepliesRan' /\ UnansweredNotRun'
  BY <1>0 DEF OneCallEach, BrokenForGood, AtMostOnce, Busy, Receiving, RepliesRan, Executed,
              UnansweredNotRun, Unanswered
<1>2. NotYetRun'
  <2>1. PICK q \in sent :
           /\ Gathered(q) /\ NotExecuted(q)
           /\ cgot'.m = q /\ cgot'.k = cgot.k + 1 /\ cgot'.ok
           /\ Run(out', q, cgot'.k) /\ cgot'.k + Len(out') <= q.b.len
    BY ClientReadsRight
  <2>2. Gathered(q)' /\ NotExecuted(q)'
    BY <1>0, <2>1 DEF Gathered, NotExecuted
  <2> QED BY <1>0, <2>2 DEF NotYetRun
<1> QED BY <1>0, <1>1, <1>2

\* A request is executed when nothing of it is under way any more.
LEMMA ExecutedWhole ==
    ASSUME TypeInv, NotYetRun, Conforming, ClientExec
    PROVE  out = <<>>
<1>0. cgot.k >= SzOpHdr /\ cgot.k = Required
  BY DEF ClientExec, ClientReady
<1>1. cgot.k \in Nat /\ cgot.k > 0 /\ out \in Seq(Bytes(RequestMsgs)) /\ Len(out) \in Nat
  BY <1>0, SizesAssumption DEF TypeInv, TypeOK, TypeWire, TypeClient, Gathers
<1>2. PICK q \in sent : Gathered(q)
  BY <1>1 DEF NotYetRun
<1>3. cgot.m = q /\ q \in RequestMsgs /\ q.b.len \in Nat
  BY <1>1, <1>2 DEF Gathered, TypeInv, TypeOK, TypeProcess, RequestMsgs, Requests
<1>4. ~(cgot.k < SzOpHdr)
  BY <1>0, <1>1, SizesAssumption
<1>5. cgot.k = q.b.len
  BY <1>0, <1>2, <1>3, <1>4 DEF Required, Takes, Conforming, Gathered, Framed
<1>6. Len(out) = 0
  BY <1>1, <1>2, <1>3, <1>5 DEF Gathered
<1> QED BY <1>1, <1>6, EmptySeq

\* The client executes a request that was never executed, and has then read all of
\* it.
LEMMA ClientExecCounted ==
    ASSUME TypeInv, CallInv, Conforming, ClientExec
    PROVE  CallInv' /\ \E n \in Calls : RC!Execute(n)
<1> USE DEF kernelVars, workerVars, CallInv
<1>0. /\ cgot' = Nothing /\ cgot.k >= SzOpHdr /\ cgot.k = Required
      /\ ran' = [n \in Calls |-> IF n = cgot.m.n THEN ran[n] + 1 ELSE ran[n]]
      /\ UNCHANGED <<proc, pc, call, req, got, conn, out, in, ncalls, ret, sent>>
  BY DEF ClientExec, ClientReady
<1>1. cgot.k \in Nat /\ cgot.k > 0 /\ out \in Seq(Bytes(RequestMsgs)) /\ Len(out) \in Nat
  BY <1>0, SizesAssumption DEF TypeInv, TypeOK, TypeWire, TypeClient, Gathers
<1>2. PICK q \in sent : Gathered(q) /\ NotExecuted(q)
  BY <1>1 DEF NotYetRun
<1>3. cgot.m = q /\ q \in RequestMsgs /\ q.b.len \in Nat
  BY <1>1, <1>2 DEF Gathered, TypeInv, TypeOK, TypeProcess, RequestMsgs, Requests
<1>4. out = <<>>
  BY ExecutedWhole
<1>5. q.n \in Calls /\ ran[q.n] = 0 /\ ret[q.n] \in {"pending", "ebusy"}
  BY <1>2 DEF NotExecuted
<1>6. ran' = [ran EXCEPT ![q.n] = 1]
  <2>1. ran \in [Calls -> Nat]
    BY DEF TypeInv, TypeOK, TypeClient
  <2>2. ran' = [n \in Calls |-> IF n = q.n THEN ran[n] + 1 ELSE ran[n]]
    BY <1>0, <1>3
  <2>3. \A n \in Calls : (IF n = q.n THEN ran[n] + 1 ELSE ran[n]) = [ran EXCEPT ![q.n] = 1][n]
    BY <1>5, <2>1
  <2> QED BY <1>5, <2>1, <2>2, <2>3
<1>7. ran'[q.n] = 1 /\ \A m \in Calls : m # q.n => ran'[m] = ran[m]
  BY <1>5, <1>6, CallTypes
<1>8. PICK r \in Successes(cgot.m) \cup {Failure(cgot.m)} : crep' = r
  BY DEF ClientExec, Conforming
<1>9. crep' # None /\ crep'.n = q.n
  BY <1>3, <1>8, AnswersAreReplies, NoneAssumption DEF IsReplyTo
<1>10. OneCallEach' /\ BrokenForGood'
  BY <1>0 DEF OneCallEach, BrokenForGood, Busy, Receiving
<1>11. NotYetRun'
  BY <1>0, <1>4 DEF NotYetRun, Nothing
<1>12. UnansweredNotRun'
  <2>1. \A v \in Workers : ~Unanswered(v)'
    BY <1>9 DEF Unanswered
  <2>2. \A v \in Workers : pc[v] = "enter" => call[v].n # q.n /\ call[v].n \in Calls
    BY <1>2, CallTypes DEF NotExecuted
  <2> QED BY <1>0, <1>7, <2>1, <2>2 DEF UnansweredNotRun
<1>13. RepliesRan'
  <2>1. \A x : Executed(x) => Executed(x)'
    BY <1>5, <1>7 DEF Executed
  <2>2. Executed(crep)'
    BY <1>5, <1>7, <1>9 DEF Executed
  <2> QED BY <1>0, <2>1, <2>2 DEF RepliesRan, Receiving
<1>14. AtMostOnce' /\ \A n \in Calls : ret'[n] = "none" => ran'[n] = 0
  BY <1>0, <1>5, <1>7 DEF AtMostOnce
<1>15. RC!Execute(q.n)
  BY <1>0, <1>5, <1>6 DEF RC!Execute
<1> QED BY <1>5, <1>10, <1>11, <1>12, <1>13, <1>14, <1>15

\* The client sends a byte of the reply to what it has executed.
LEMMA ClientSendCounted ==
    ASSUME TypeInv, CallInv, ClientSend
    PROVE  CallInv' /\ UNCHANGED <<ran, ret>>
<1> USE DEF kernelVars, workerVars, CallInv
<1>0. /\ crep # None /\ crep' \in {crep, None}
      /\ UNCHANGED <<proc, pc, call, req, got, conn, out, ncalls, cgot, ran, ret, sent>>
      /\ in' = IF conn = "open" /\ proc = "run"
               THEN Append(in, [m |-> crep, at |-> cput]) ELSE in
  BY DEF ClientSend
<1>1. in \in Seq(Bytes(ReplyMsgs)) /\ [m |-> crep, at |-> cput] \in Bytes(ReplyMsgs)
  BY <1>0 DEF TypeInv, TypeOK, TypeWire, TypeClient, Bytes
<1>2. OneCallEach' /\ BrokenForGood' /\ AtMostOnce'
  BY <1>0 DEF OneCallEach, BrokenForGood, AtMostOnce, Busy, Receiving
<1>3. NotYetRun'
  BY <1>0 DEF NotYetRun, Gathered, Run, NotExecuted
<1>4. UnansweredNotRun'
  <2>1. conn = "open" /\ proc = "run" => in' # <<>>
    BY <1>0, <1>1
  <2> QED BY <1>0, <2>1 DEF UnansweredNotRun, Unanswered
<1>5. RepliesRan'
  <2>1. \A x : Executed(x)' <=> Executed(x)
    BY <1>0 DEF Executed
  <2>2. Executed(crep)
    BY <1>0 DEF RepliesRan
  <2>3. \A i \in 1..Len(in') : Executed(in'[i].m)
    <3>1. CASE in' = in
      BY <3>1 DEF RepliesRan
    <3>2. CASE in' = Append(in, [m |-> crep, at |-> cput])
      <4>1. \A i \in 1..Len(in') : (i \in 1..Len(in) /\ in'[i] = in[i]) \/ in'[i].m = crep
        BY <1>1, <3>2
      <4> QED BY <4>1, <2>2 DEF RepliesRan
    <3> QED BY <3>1, <3>2, <1>0
  <2> QED BY <1>0, <2>1, <2>2, <2>3 DEF RepliesRan, Receiving
<1> QED BY <1>0, <1>2, <1>3, <1>4, <1>5

\* The client leaves: what it was reading is never executed.
LEMMA LeaveCounted ==
    ASSUME TypeInv, CallInv, Leave
    PROVE  CallInv' /\ UNCHANGED <<ran, ret>>
<1> USE DEF kernelVars, workerVars, CallInv
<1>0. /\ out' = <<>> /\ cgot' = Nothing /\ crep' = None /\ conn' # "open"
      /\ (conn = "dead" => conn' = "dead")
      /\ UNCHANGED <<proc, pc, call, req, got, in, ncalls, ran, ret, sent>>
  BY DEF Leave
<1>1. OneCallEach' /\ BrokenForGood' /\ AtMostOnce'
  BY <1>0 DEF OneCallEach, BrokenForGood, AtMostOnce, Busy, Receiving
<1>2. NotYetRun'
  BY <1>0 DEF NotYetRun, Nothing
<1>3. UnansweredNotRun' /\ RepliesRan'
  BY <1>0 DEF UnansweredNotRun, RepliesRan, Executed, Receiving
<1> QED BY <1>0, <1>1, <1>2, <1>3

\* A handler that has read a reply has read the one to its own call, so the call was
\* executed; and no call has ended with EBUSY before.
LEMMA AnswerRan ==
    ASSUME TypeInv, WireInv, CallInv, NEW w \in Workers, Receiving(w), got[w].k > 0
    PROVE  ran[call[w].n] = 1 /\ \A m \in Calls : ret[m] # "ebusy"
<1>1. Receives(w) /\ req[w].n = call[w].n
  BY DEF WireInv, ServerEnd, Busy, Receiving
<1>2. got[w].m.n = call[w].n
  BY <1>1 DEF Receives, Incoming, IsReplyTo
<1>3. ran[call[w].n] = 1
  BY <1>2 DEF CallInv, RepliesRan, Executed
<1>4. \A m \in Calls : ret[m] # "ebusy"
  BY DEF CallInv, BrokenForGood
<1> QED BY <1>3, <1>4

\* The ways a handler returns are those of RemoteCall.
LEMMA HandlerReturns ==
    ASSUME TypeInv, LockInv, WireInv, CallInv, NEW w \in Workers,
           Reject(w) \/ SendFail(w) \/ RecvFail(w) \/ ReplyError(w) \/ Finish(w)
    PROVE  /\ CallInv'
           /\ RC!Refuse(call[w].n) \/ RC!GiveUp(call[w].n) \/ RC!Answer(call[w].n)
           /\ call[w].n \in Calls
<1> USE DEF kernelVars, clientVars
<1> DEFINE n == call[w].n
<1>0. /\ pc[w] # "idle" /\ pc' = [pc EXCEPT ![w] = "idle"]
      /\ UNCHANGED <<proc, call, req, got, out, in, ncalls, cgot, crep, ran, sent>>
  BY DEF Reject, SendFail, RecvFail, ReplyError, Finish, Fail, Return, q__Mutex_unlock
<1>1. n \in Calls /\ ret[n] = "pending"
  BY <1>0, CallTypes DEF CallInv, OneCallEach
<1>2. CASE Reject(w)
  <2>1. pc[w] = "enter" /\ conn' = conn /\ ret' = [ret EXCEPT ![n] = "einval"]
    BY <1>2 DEF Reject, Fail, Return, q__Mutex_unlock
  <2>2. CallInv'
    BY <1>0, <2>1, ReturnCounted
  <2>3. ran[n] = 0
    BY <2>1 DEF CallInv, UnansweredNotRun
  <2> QED BY <1>0, <1>1, <2>1, <2>2, <2>3 DEF RC!Refuse
<1>3. CASE SendFail(w) \/ RecvFail(w)
  <2>1. Busy(w) /\ conn' = "dead" /\ ret' = [ret EXCEPT ![n] = "ebusy"]
    BY <1>3 DEF SendFail, RecvFail, Fail, Return, q__Mutex_unlock, Busy
  <2>2. \A v \in Workers \ {w} : ~Busy(v)
    BY <2>1 DEF LockInv, Exclusion
  <2>3. CallInv'
    BY <1>0, <2>1, <2>2, ReturnCounted
  <2> QED BY <1>0, <1>1, <2>1, <2>3 DEF RC!GiveUp
<1>4. CASE ReplyError(w) \/ Finish(w)
  <2>1. Receiving(w) /\ Busy(w) /\ conn' = conn
    BY <1>4 DEF ReplyError, Finish, Receiving, Busy
  <2>2. PICK how \in {"ok", "err"} : ret' = [ret EXCEPT ![n] = how]
    BY <1>4 DEF ReplyError, Finish, Fail, Return, q__Mutex_unlock
  <2>3. got[w].k > 0
    <3>1. CASE ReplyError(w)
      BY <3>1, SizesAssumption DEF ReplyError
    <3>2. CASE Finish(w)
      <4>1. got[w].k >= SzRpHdr /\ got[w].k \in Nat
        BY <3>2, <2>1 DEF Finish, WireInv, ServerEnd, Receives, TypeInv, TypeOK, TypeWorkers, Gathers
      <4> QED BY <4>1, SizesAssumption
    <3> QED BY <1>4, <3>1, <3>2
  <2>4. ran[n] = 1 /\ \A m \in Calls : ret[m] # "ebusy"
    BY <2>1, <2>3, AnswerRan
  <2>5. CallInv'
    BY <1>0, <2>1, <2>2, <2>4, ReturnCounted
  <2> QED BY <1>0, <1>1, <2>2, <2>4, <2>5 DEF RC!Answer
<1> QED BY <1>1, <1>2, <1>3, <1>4

\* Every step keeps the invariant, and is a step of RemoteCall or none.
LEMMA CallInvNext ==
    ASSUME TypeInv, TypeInv', LockInv, LockInv', WireInv, CallInv, Conforming, [Next]_vars
    PROVE  CallInv' /\ [RC!RemoteNext]_(RC!RemoteVars)
<1> DEFINE Counted == CallInv' /\ UNCHANGED <<ran, ret>>
<1> USE DEF kernelVars, clientVars, workerVars
<1>0. Counted => CallInv' /\ [RC!RemoteNext]_(RC!RemoteVars)
  BY DEF RC!RemoteVars
<1>1. ASSUME NEW w \in Workers, Call(w) PROVE CallInv' /\ RC!RemoteNext
  BY <1>1, CallCounted DEF RC!RemoteNext
<1>2. ASSUME NEW w \in Workers,
             Reject(w) \/ SendFail(w) \/ RecvFail(w) \/ ReplyError(w) \/ Finish(w)
      PROVE  CallInv' /\ RC!RemoteNext
  BY <1>2, HandlerReturns DEF RC!RemoteNext
<1>3. ASSUME NEW w \in Workers, Enter(w) PROVE Counted
  BY <1>3, EnterCounted
<1>4. ASSUME NEW w \in Workers, SendByte(w) PROVE Counted
  BY <1>4, SendByteCounted DEF WireInv
<1>5. ASSUME NEW w \in Workers, RecvByte(w) PROVE Counted
  BY <1>5, RecvByteCounted
<1>6. ASSUME NEW w \in Workers, ReplyAccept(w) PROVE Counted
  <2>1. UNCHANGED <<proc, call, req, got, conn, out, in, ncalls, cgot, crep, ran, ret, sent>>
    BY <1>6 DEF ReplyAccept
  <2>2. pc[w] = "hdr" /\ pc'[w] = "body" /\ \A v \in Workers \ {w} : pc'[v] = pc[v]
    BY <1>6, CallTypes DEF ReplyAccept
  <2>3. \A v \in Workers : Busy(v)' = Busy(v) /\ Receiving(v)' = Receiving(v)
    BY <2>2 DEF Busy, Receiving
  <2> QED BY <2>1, <2>2, <2>3, GoesOnCounted
<1>7. ASSUME UNCHANGED <<pc, call, req, got, out, in, ncalls, cgot, crep, ran, ret, sent>>,
             conn' = conn \/ (conn' # "open" /\ conn # "dead"), proc' = "run" => proc = "run"
      PROVE  Counted
  <2>1. \A v \in Workers : Busy(v)' = Busy(v) /\ Receiving(v)' = Receiving(v)
    BY <1>7 DEF Busy, Receiving
  <2> QED BY <1>7, <2>1, GoesOnCounted
<1>8. ASSUME NEW w \in Workers, SigPipe(w) \/ ReplyAbort(w) \/ SpinEOF(w) PROVE Counted
  BY <1>7, <1>8 DEF SigPipe, ReplyAbort, SpinEOF, vars
<1>9. CASE ConnBreak \/ Terminated \/ UNCHANGED vars
  BY <1>0, <1>7, <1>9 DEF ConnBreak, Terminated, vars
<1>10. CASE ClientRead
  BY <1>0, <1>10, ClientReadCounted
<1>11. CASE ClientExec
  BY <1>11, ClientExecCounted DEF RC!RemoteNext
<1>12. CASE ClientSend
  BY <1>0, <1>12, ClientSendCounted
<1>13. CASE ClientLost \/ PeerClose
  BY <1>0, <1>13, LeaveCounted DEF ClientLost, PeerClose
<1> QED
  BY <1>0, <1>1, <1>2, <1>3, <1>4, <1>5, <1>6, <1>8, <1>9, <1>10, <1>11, <1>12, <1>13
  DEF Next, Step, Client

\* The initial state of the server satisfies the invariant.
LEMMA CallInvInit == Init => CallInv
BY ParametersAssumption
DEF Init, CallInv, OneCallEach, NotYetRun, UnansweredNotRun, RepliesRan, BrokenForGood, AtMostOnce,
    Busy, Receiving, Unanswered, Nothing, Calls

\* The invariants of the server and of its calls, together.
LEMMA AllInvariant ==
    ASSUME Conforming
    PROVE  Spec => [](TypeInv /\ LockInv /\ WireInv /\ CallInv)
<1>1. Init => WireInv
  BY DEF Init, WireInv, ServerEnd, ClientEnd, Busy, Receiving, AtRest, Quiet
<1>2. Init => LockInv
  BY NoneAssumption DEF Init, LockInv, Exclusion, MuGuards, Busy
<1>3. TypeInv /\ [Next]_vars => TypeInv'
  BY TypeInvNext
<1>4. TypeInv /\ LockInv /\ [Next]_vars => LockInv'
  BY LockInvNext
<1>5. TypeInv /\ TypeInv' /\ LockInv /\ LockInv' /\ WireInv /\ [Next]_vars => WireInv'
  BY WireInvNext
<1>6. TypeInv /\ TypeInv' /\ LockInv /\ LockInv' /\ WireInv /\ CallInv /\ [Next]_vars => CallInv'
  BY CallInvNext
<1> QED BY TypeInvInit, CallInvInit, <1>1, <1>2, <1>3, <1>4, <1>5, <1>6, PTL DEF Spec

\* Every request is executed at most once, an answer is returned only for one that
\* was executed and EINVAL only for one that was not: whatever breaks between two
\* bytes, for any number of calls, workers and files.
THEOREM AtMostOnceCorrect == ASSUME Conforming PROVE Spec => [](AtMostOnce /\ CallInv)
<1>1. CallInv => AtMostOnce
  BY DEF CallInv
<1> QED BY AllInvariant, <1>1, PTL

\* The server implements RemoteCall: seen through ran and ret alone, each of its steps
\* is a call, an execution or a return that RemoteCall allows, or nothing at all.
THEOREM PromiseKept == ASSUME Conforming PROVE Spec => KeepsPromise
<1>1. Init => RC!RemoteInit
  BY DEF Init, RC!RemoteInit
<1>2. TypeInv /\ TypeInv' /\ LockInv /\ LockInv' /\ WireInv /\ CallInv /\ [Next]_vars
        => [RC!RemoteNext]_(RC!RemoteVars)
  BY CallInvNext
<1> QED BY AllInvariant, <1>1, <1>2, PTL DEF Spec, KeepsPromise, RC!RemoteSpec

\* Once a call has returned EBUSY no call returns the client's answer any more: what
\* is left of a broken connection is never read as a reply.
THEOREM EbusyFinal == ASSUME Conforming PROVE Spec => EbusyIsFinal
<1> DEFINE A == \A n \in Calls : ret[n] = "pending" /\ ret'[n] \in {"ok", "err"} =>
                    \A m \in Calls : ret[m] # "ebusy"
<1>1. TypeInv /\ TypeInv' /\ LockInv /\ LockInv' /\ WireInv /\ CallInv /\ [Next]_vars => A
  <2> SUFFICES ASSUME TypeInv, TypeInv', LockInv, LockInv', WireInv, CallInv, [Next]_vars,
                      NEW n \in Calls, ret[n] = "pending", ret'[n] \in {"ok", "err"}
               PROVE  \A m \in Calls : ret[m] # "ebusy"
    OBVIOUS
  <2>1. [RC!RemoteNext]_(RC!RemoteVars)
    BY CallInvNext
  <2>2. PICK k \in Calls : RC!Invoke(k) \/ RC!Execute(k) \/ RC!Answer(k) \/ RC!GiveUp(k) \/ RC!Refuse(k)
    BY <2>1 DEF RC!RemoteNext, RC!RemoteVars
  <2>3. RC!Answer(k)
    BY <2>2, CallTypes DEF RC!Invoke, RC!Execute, RC!GiveUp, RC!Refuse
  <2> QED BY <2>3 DEF RC!Answer
<1>2. A => [A]_vars
  OBVIOUS
<1> QED BY AllInvariant, <1>1, <1>2, PTL DEF Spec, EbusyIsFinal
=============================================================================
