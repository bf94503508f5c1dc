----------------------------- MODULE MCApplication ----------------------------
(* Model checking of Application, and beside it of what else lives around the  *)
(* tray's process: the instances with the helpers that end them, the display   *)
(* of the VPN's status. They share no state: in a behaviour one of them moves, *)
(* the application has exited or the others have not begun.                    *)
EXTENDS Application, Instances, TLC

CONSTANTS Workers, Threshold, MaxChanges                      \* StatusDisplay

VARIABLES
    part,                                                     \* the one that moves
    status, changes, wake, reader, shown, connBad, check, verdict, failures, overtaken

dispVars == <<status, changes, wake, reader, shown, connBad, check, verdict, failures, overtaken>>

Disp == INSTANCE StatusDisplay
ASSUME Disp!ThresholdAssumption

\* At rest: the application has exited, no check of the display begins, and a
\* helper that is not run has no duty.
Gone ==
    /\ ready = FALSE /\ loop = "absent" /\ systray = "absent" /\ exited = TRUE
    /\ click = none /\ slot = none /\ worker = none /\ toggles = 0
    /\ asked = none /\ applied = none /\ opMu = Nobody /\ job = [j \in Jobs |-> "idle"]
    /\ quit = [q \in Quits |-> "no"] /\ relaunch = [r \in Relaunches |-> "no"]
    /\ installed = FALSE /\ successors = 0
Unwatched ==
    /\ status = "stopped" /\ changes = 0 /\ wake = FALSE
    /\ reader = [r \in Disp!Readers |-> [seen |-> Disp!Nothing, at |-> 0]]
    /\ shown = "stopped" /\ connBad = FALSE /\ overtaken = FALSE
    /\ check = "resting" /\ verdict = "none" /\ failures = 0

AllInit ==
    /\ part \in {"application", "instances", "display"}
    /\ IF part = "application" THEN Init ELSE Gone
    /\ InstInit
    /\ IF part = "display" THEN Disp!Init ELSE Unwatched

AllNext ==
    \/ part = "application" /\ Next /\ UNCHANGED <<part, instVars, dispVars>>
    \/ part = "instances" /\ InstNext /\ UNCHANGED <<part, vars, dispVars>>
    \/ part = "display" /\ Disp!Next /\ UNCHANGED <<part, vars, instVars>>

AllFairSpec ==
    /\ AllInit /\ [][AllNext]_<<part, vars, instVars, dispVars>>
    /\ Fairness /\ HelperFairness /\ Disp!Fairness

-----------------------------------------------------------------------------
\* See StatusDisplay: the tray comes to show what is.
DisplaySettles == Disp!DisplaySettles
=============================================================================
