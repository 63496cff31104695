----------------------------- MODULE RemoteCall -----------------------------
(***************************************************************************)
(* What the server promises the kernel about a file system call, without   *)
(* connection, bytes, handlers or lock:                                    *)
(*                                                                         *)
(*   - the operation is executed at most once;                             *)
(*   - a call that returns the client's answer (success or error) has been *)
(*     executed, one that is rejected (EINVAL) never is;                   *)
(*   - a call that returns EBUSY may have been executed, or may still be;  *)
(*   - EBUSY is final: afterwards no call returns an answer any more.      *)
(***************************************************************************)
EXTENDS Integers

CONSTANT Calls
VARIABLES ran, ret

RemoteVars == <<ran, ret>>

Outcomes == {"none", "pending", "ok", "err", "ebusy", "einval"}

RemoteInit == ran = [n \in Calls |-> 0] /\ ret = [n \in Calls |-> "none"]

Invoke(n) ==
    /\ ret[n] = "none"
    /\ ret' = [ret EXCEPT ![n] = "pending"]
    /\ ran' = ran

Execute(n) ==
    /\ ret[n] \in {"pending", "ebusy"} /\ ran[n] = 0
    /\ ran' = [ran EXCEPT ![n] = 1]
    /\ ret' = ret

Answer(n) ==
    /\ ret[n] = "pending" /\ ran[n] = 1
    /\ \A m \in Calls : ret[m] # "ebusy"
    /\ \E how \in {"ok", "err"} : ret' = [ret EXCEPT ![n] = how]
    /\ ran' = ran

GiveUp(n) ==
    /\ ret[n] = "pending"
    /\ ret' = [ret EXCEPT ![n] = "ebusy"]
    /\ ran' = ran

Refuse(n) ==
    /\ ret[n] = "pending" /\ ran[n] = 0
    /\ ret' = [ret EXCEPT ![n] = "einval"]
    /\ ran' = ran

RemoteNext ==
    \E n \in Calls : Invoke(n) \/ Execute(n) \/ Answer(n) \/ GiveUp(n) \/ Refuse(n)

RemoteSpec == RemoteInit /\ [][RemoteNext]_RemoteVars
=============================================================================
