---------------------------- MODULE RfspProtocol ----------------------------
(***************************************************************************)
(* The wire format of the remote file system protocol (prot.h, ustruct.h)  *)
(* and, for each FUSE handler of fuse_server.c, what the handler does that *)
(* its siblings do not: whether it takes the mutex, how far it advances    *)
(* opuid, the request it composes and the test it puts its reply to.  What *)
(* the handlers have in common is in module FuseServer.                    *)
(*                                                                         *)
(* A C structure is its size: only sizes decide how the two byte streams   *)
(* of the connection are cut into messages.  Path names, offsets, modes    *)
(* and file contents are left out.                                         *)
(***************************************************************************)
EXTENDS Integers

CONSTANTS
    SzOpHdr, SzRpHdr,                       \* sizeof the two unified headers
    SzOpOpen, SzOpRead, SzOpWrit, SzOpClos, \* sizeof the request bodies
    SzRpOpen, SzUstat, SzUstatvfs, SzUdirent, \* sizeof the reply bodies
    SzMode, SzTimeModder, FILENAME_LEN,     \* what may follow an OpWrit
    ReadlinkBuf,                            \* the buffer libfuse gives readlink
    Handles                                 \* file handles a client may issue

ASSUME SizesAssumption ==
    /\ SzOpHdr \in Nat \ {0} /\ SzRpHdr \in Nat \ {0}
    /\ SzOpOpen \in Nat /\ SzOpRead \in Nat /\ SzOpWrit \in Nat /\ SzOpClos \in Nat
    /\ SzRpOpen \in Nat /\ SzUstat \in Nat /\ SzUstatvfs \in Nat /\ SzUdirent \in Nat \ {0}
    /\ SzMode \in Nat /\ SzTimeModder \in Nat /\ FILENAME_LEN \in Nat
    /\ ReadlinkBuf \in Nat

\* The value fi->fh has before an open sets it (libfuse zeroes the structure),
\* and a file_handle member that a handler leaves uninitialised.
ZeroHandle == "zero"
Unset == "unset"

ASSUME HandlesAssumption == ZeroHandle \notin Handles /\ Unset \notin Handles

FileHandles == Handles \cup {ZeroHandle, Unset}

OPER_OPEN == 0
OPER_READ == 1
OPER_WRITE == 2
OPER_CLOSE == 3

OpenFlags == {"OPEN_CREAT", "OPEN_DIRECT", "OPEN_DIRECTORY", "OPEN_NOFOLLOW",
              "OPEN_TRUNC", "OPEN_MKDIR"}
ReadModes == {"RD_REGULAR", "RD_STAT", "RD_STATFS", "RD_LINK", "RD_DIR"}
WriteModes == {"WR_REGULAR", "WR_CHMOD", "WR_SYMLINK", "WR_REMOVE", "WR_TRUNC",
               "WR_ACCES", "WR_RMDIR", "WR_MODTIME"}
Modes == ReadModes \cup WriteModes \cup {"open", "file", "dir"}

\* struct fuse_file_info, as far as the handlers look at it.
OFlags == {"O_TRUNC", "O_NOFOLLOW", "O_APPEND", "O_ASYNC", "O_CLOEXEC",
           "O_DSYNC", "O_EXCL", "O_SYNC"}
FileInfos == [flags : SUBSET OFlags, writepage : BOOLEAN, direct_io : BOOLEAN]

\* What a handler is called with: fi->fh, a buffer size (read, write) or the
\* length of a link's name (symlink), and the rest of *fi.
Arguments == [fh : FileHandles, num : Nat, fi : FileInfos]

(***************************************************************************)
(* Requests.  size is what head.size declares, len is how many bytes are   *)
(* appended to the send buffer.                                            *)
(***************************************************************************)
Requests == [opid : {OPER_OPEN, OPER_READ, OPER_WRITE, OPER_CLOSE}, mode : Modes,
             flags : SUBSET OpenFlags, fh : FileHandles, count : Nat, size : Nat, len : Nat]

SIZEHDR(st) == SzOpHdr + st

Request(opid, mode, declared, appended) ==
    [opid |-> opid, mode |-> mode, flags |-> {}, fh |-> Unset,
     count |-> 0, size |-> declared, len |-> appended]

Open(flags) == [Request(OPER_OPEN, "open", SIZEHDR(SzOpOpen), SIZEHDR(SzOpOpen))
                   EXCEPT !.flags = flags]
Read(mode) == Request(OPER_READ, mode, SIZEHDR(SzOpRead), SIZEHDR(SzOpRead))
Writ(mode, declared, appended) ==
    Request(OPER_WRITE, mode, SIZEHDR(SzOpWrit) + declared, SIZEHDR(SzOpWrit) + appended)
Clos(kind, fh) == [Request(OPER_CLOSE, kind, SIZEHDR(SzOpClos), SIZEHDR(SzOpClos))
                      EXCEPT !.fh = fh]

(***************************************************************************)
(* The four tests the handlers put a non-negative reply to.                *)
(***************************************************************************)
ReplyTests == [kind : {"exact", "upto", "read", "dirents"}, n : Nat]

Exact(n) == [kind |-> "exact", n |-> n]     \* the header and a structure
UpTo(n) == [kind |-> "upto", n |-> n]       \* readlink: no more than fits
ReadTest(n) == [kind |-> "read", n |-> n]   \* read: the bytes rtvl announces
Dirents == [kind |-> "dirents", n |-> 0]    \* readdir: at least the header

Accepts(test, rp) ==
    CASE test.kind = "exact"   -> rp.size = SzRpHdr + test.n
      [] test.kind = "upto"    -> ~(rp.size > SzRpHdr + test.n)
      [] test.kind = "read"    -> ~(rp.size > test.n) /\ rp.size = SzRpHdr + rp.rtvl
      [] test.kind = "dirents" -> ~(rp.size < SzRpHdr)

\* Seeded fault: structures are left unread.
BodyUnread(test, rp) ==
    CASE test.kind = "exact" -> 0
      [] test.kind = "read"  -> rp.rtvl
      [] OTHER               -> rp.size - SzRpHdr

\* How many bytes the handler reads after the header of a reply it accepts.
Body(test, rp) ==
    CASE test.kind = "exact" -> test.n
      [] test.kind = "read"  -> rp.rtvl
      [] OTHER               -> rp.size - SzRpHdr

(***************************************************************************)
(* The handlers.  lock: the handler takes mu (every one of them releases   *)
(* it).  bump: what it adds to opuid in all; head.ouid is the value after  *)
(* the first increment, or the current value when there is none.           *)
(* rejected: the handler returns -EINVAL without sending anything.         *)
(***************************************************************************)
HandlerRecords == [lock : BOOLEAN, bump : 0..2, rejected : BOOLEAN,
                   req : Requests, test : ReplyTests]

Handling(lock, bump, rejected, req, test) ==
    [lock |-> lock, bump |-> bump, rejected |-> rejected, req |-> req, test |-> test]

Locked(req, test) == Handling(TRUE, 1, FALSE, req, test)
Unlocked(req, test) == Handling(FALSE, 0, FALSE, req, test)
Opening(rejected, flags) == Handling(TRUE, 1, rejected, Open(flags), Exact(SzRpOpen))

Unsupported == {"O_APPEND", "O_ASYNC", "O_CLOEXEC", "O_DSYNC", "O_EXCL", "O_SYNC"}

Rejects(fi, unsupported) == fi.writepage \/ fi.flags \cap unsupported # {}

\* The if-chains that turn fi->flags and fi->direct_io into bits of op.flags.
Translated(fi) ==
    (IF "O_TRUNC" \in fi.flags THEN {"OPEN_TRUNC"} ELSE {})
        \cup (IF "O_NOFOLLOW" \in fi.flags THEN {"OPEN_NOFOLLOW"} ELSE {})
        \cup (IF fi.direct_io THEN {"OPEN_DIRECT"} ELSE {})

\* Seeded faults in single handlers: a forgotten lock, a forgotten opuid ++, a
\* size that leaves out what follows the structure, a reply test that leaves out
\* the structure, the count of a read reduced by the header, is_dir mixed up.
getattr_Unlocked(a) == Unlocked(Read("RD_STAT"), Exact(SzUstat))
rmdir_SameOuid(a) == Handling(TRUE, 0, FALSE, Writ("WR_RMDIR", 0, 0), Exact(0))
chmod_ShortSize(a) == Unlocked(Writ("WR_CHMOD", 0, SzMode), Exact(0))
open_HeaderOnly(a) ==
    Handling(TRUE, 1, Rejects(a.fi, Unsupported), Open(Translated(a.fi)), Exact(0))
read_CountWithoutHeader(a) ==
    Locked([Read("RD_REGULAR") EXCEPT !.fh = a.fh, !.count = a.num - SzRpHdr], ReadTest(a.num))
release_IsDir(a) == Locked(Clos("dir", a.fh), Exact(0))

fuse_getattr(a) == Locked(Read("RD_STAT"), Exact(SzUstat))

fuse_readlink(a) == Locked(Read("RD_LINK"), UpTo(ReadlinkBuf))

fuse_mkdir(a) == Locked(Open({"OPEN_MKDIR"}), Exact(0))

fuse_rmdir(a) == Locked(Writ("WR_RMDIR", 0, 0), Exact(0))

\* head.size counts the srcfnsz bytes of the name, but FILENAME_LEN bytes are
\* appended.
fuse_symlink(a) == Locked(Writ("WR_SYMLINK", a.num, FILENAME_LEN), Exact(0))

fuse_chmod(a) == Unlocked(Writ("WR_CHMOD", SzMode, SzMode), Exact(0))

\* head.ouid = opuid ++, after the opuid ++ that every locking handler starts with.
fuse_truncate(a) == Handling(TRUE, 2, FALSE, Writ("WR_TRUNC", 0, 0), Exact(0))

fuse_open(a) == Opening(Rejects(a.fi, Unsupported), Translated(a.fi))

fuse_read(a) ==
    Locked([Read("RD_REGULAR") EXCEPT !.fh = a.fh, !.count = a.num], ReadTest(a.num))

fuse_write(a) ==
    Locked([Writ("WR_REGULAR", a.num, a.num) EXCEPT !.fh = a.fh, !.count = a.num], Exact(0))

fuse_statfs(a) == Locked(Read("RD_STATFS"), Exact(SzUstatvfs))

fuse_release(a) == Locked(Clos("file", a.fh), Exact(0))

fuse_opendir(a) ==
    Opening(Rejects(a.fi, Unsupported \cup {"O_TRUNC"}),
            (Translated(a.fi) \ {"OPEN_TRUNC", "OPEN_DIRECT"}) \cup {"OPEN_DIRECTORY"})

fuse_readdir(a) == Locked([Read("RD_DIR") EXCEPT !.fh = a.fh], Dirents)

fuse_releasedir(a) == Locked(Clos("dir", a.fh), Exact(0))

fuse_access(a) == Unlocked(Writ("WR_ACCES", SzMode, SzMode), Exact(0))

fuse_unlink(a) == Unlocked(Writ("WR_REMOVE", 0, 0), Exact(0))

fuse_creat(a) ==
    Opening(Rejects(a.fi, Unsupported), Translated(a.fi) \cup {"OPEN_CREAT"})

fuse_utimens(a) == Unlocked(Writ("WR_MODTIME", SzTimeModder, SzTimeModder), Exact(0))

HandlerNames == {"getattr", "readlink", "mkdir", "rmdir", "symlink", "chmod",
                 "truncate", "open", "read", "write", "statfs", "release", "opendir",
                 "readdir", "releasedir", "access", "create", "unlink", "utimens"}

\* struct fuse_operations zhwkrfsp: the table libfuse dispatches through.
zhwkrfsp(h, a) ==
    CASE h = "getattr"    -> fuse_getattr(a)
      [] h = "readlink"   -> fuse_readlink(a)
      [] h = "mkdir"      -> fuse_mkdir(a)
      [] h = "rmdir"      -> fuse_rmdir(a)
      [] h = "symlink"    -> fuse_symlink(a)
      [] h = "chmod"      -> fuse_chmod(a)
      [] h = "truncate"   -> fuse_truncate(a)
      [] h = "open"       -> fuse_open(a)
      [] h = "read"       -> fuse_read(a)
      [] h = "write"      -> fuse_write(a)
      [] h = "statfs"     -> fuse_statfs(a)
      [] h = "release"    -> fuse_release(a)
      [] h = "opendir"    -> fuse_opendir(a)
      [] h = "readdir"    -> fuse_readdir(a)
      [] h = "releasedir" -> fuse_releasedir(a)
      [] h = "access"     -> fuse_access(a)
      [] h = "create"     -> fuse_creat(a)
      [] h = "unlink"     -> fuse_unlink(a)
      [] h = "utimens"    -> fuse_utimens(a)

\* The handlers whose fi is the file of an earlier open, and those that open one.
Opens(h) == h \in {"open", "create", "opendir"}
Closes(h) == h \in {"release", "releasedir"}
UsesFile(h) == h \in {"read", "write", "readdir"} \/ Closes(h)
IsDir(h) == h \in {"opendir", "readdir", "releasedir"}

(***************************************************************************)
(* The client's side of the wire.                                          *)
(***************************************************************************)

\* What a client that reads requests with wait_operation and then as_open,
\* as_read, as_write or as_close takes off the stream for one request.
Consumes(b) ==
    CASE b.opid = OPER_OPEN  -> SzOpHdr + SzOpOpen
      [] b.opid = OPER_READ  -> SzOpHdr + SzOpRead
      [] b.opid = OPER_WRITE -> SzOpHdr + SzOpWrit + ((b.size - SzOpHdr) - SzOpWrit)
      [] b.opid = OPER_CLOSE -> SzOpHdr + SzOpClos
=============================================================================
