-------------------------- MODULE MCStatusListener --------------------------
(***************************************************************************)
(* StatusListener for TLC: the operations a caller asks for.               *)
(***************************************************************************)
EXTENDS StatusListener

UserOnly == {"start", "stop"}
RestartsOnly == {"restart"}
=============================================================================
