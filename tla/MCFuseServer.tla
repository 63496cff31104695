---------------------------- MODULE MCFuseServer ----------------------------
(***************************************************************************)
(* Small instances of FuseServer for TLC.  The sizes of the structures are *)
(* small numbers that keep what matters about them: headers and bodies of  *)
(* more than one byte can be cut, a link's name is shorter than            *)
(* FILENAME_LEN, and a buffer may or may not have room for a header.       *)
(***************************************************************************)
EXTENDS FuseServer, TLC

AllHandlers == HandlerNames \ {"symlink"}
FaultHandlers == {"open", "read", "write", "release", "chmod", "mkdir", "getattr"}
Lockers == {"symlink", "open", "getattr", "release"}
Numbered == {"getattr", "chmod", "truncate", "access"}
Links == {"symlink"}
Documented == {"mkdir", "unlink"}
Reads == {"open", "read", "release"}

Plain == NoInfo
Flagged(fs) == [flags |-> fs, writepage |-> FALSE, direct_io |-> FALSE]
SomeInfo == {Plain, Flagged({"O_TRUNC"}), Flagged({"O_EXCL", "O_NOFOLLOW"})}
PlainInfo == {Plain}
EveryInfo == SomeInfo \cup {[flags |-> {"O_NOFOLLOW"}, writepage |-> FALSE, direct_io |-> TRUE],
                            [flags |-> {}, writepage |-> TRUE, direct_io |-> FALSE]}

Interchangeable == Permutations(Workers) \cup Permutations(Fds) \cup Permutations(Handles)
=============================================================================
