-------------------------- MODULE MCProcessManager --------------------------
(***************************************************************************)
(* ProcessManager for TLC: the sets of the cfg files are model values.     *)
(***************************************************************************)
EXTENDS ProcessManager, TLC

OwnSymmetry == Permutations(Own)
=============================================================================
