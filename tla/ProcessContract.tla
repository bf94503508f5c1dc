--------------------------- MODULE ProcessContract ---------------------------
(***************************************************************************)
(* What domain.ProcessManager promises the VPN service, which calls Start  *)
(* and Stop one at a time: a Start that succeeds is the only thing that    *)
(* makes IsRunning true, one that fails leaves it as it was, a Stop that   *)
(* succeeds leaves it false, and the process may go away at any moment.    *)
(* VPNLifecycle is built on this contract, ProcessManager implements it.   *)
(***************************************************************************)

VARIABLES
    up,     \* what IsRunning tells
    op,     \* the call under way: "idle", "starting" or "stopping"
    result  \* how the last call ended: "none" (under way), "ok" or "failed"

vars == <<up, op, result>>

Init == up \in BOOLEAN /\ op = "idle" /\ result = "none"

Begin ==
    /\ op = "idle" /\ op' \in {"starting", "stopping"}
    /\ result' = "none"
    /\ UNCHANGED up

Down ==
    /\ up /\ ~up'
    /\ UNCHANGED <<op, result>>

\* a Start may succeed and find its process dead in the same moment
EndStart ==
    /\ op = "starting" /\ op' = "idle"
    /\ \/ result' = "ok" /\ up' \in BOOLEAN
       \/ result' = "failed" /\ up' \in {up, FALSE}

EndStop ==
    /\ op = "stopping" /\ op' = "idle"
    /\ \/ result' = "ok" /\ up' = FALSE
       \/ result' = "failed" /\ up' \in {up, FALSE}

Next == Begin \/ Down \/ EndStart \/ EndStop

Spec == Init /\ [][Next]_vars
=============================================================================
