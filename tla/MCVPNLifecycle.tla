--------------------------- MODULE MCVPNLifecycle ---------------------------
(***************************************************************************)
(* VPNLifecycle for TLC: up to two callers, which may be exchanged, and    *)
(* the sets of operations the runs let them ask for.                       *)
(***************************************************************************)
EXTENDS VPNLifecycle, TLC

CallersSymmetry == Permutations(Callers)

EveryOp == AllOps
UserOnly == {"start", "stop"}
=============================================================================
