---------------------------- MODULE MCUpdateSwap ----------------------------
(***************************************************************************)
(* What replaces files on disk, for TLC: the update of sing-box (three     *)
(* releases, of which the second brings one library more and the third     *)
(* only one of them), the update of the app, and the takeover of an older  *)
(* copy. They share no state: in a behaviour one of them moves.            *)
(***************************************************************************)
EXTENDS UpdateSwap, SelfUpdate, Takeover

CONSTANTS cronet, other

VARIABLE part   \* the one that moves

MCVersions == 1 .. 3
MCLibs == {cronet, other}
MCCarries == [v \in MCVersions |-> IF v = 2 THEN {cronet, other} ELSE {cronet}]

AllInit ==
    /\ part \in {"update", "app", "takeover"}
    /\ Init /\ AppInit /\ TakeInit
    /\ 1 \in works \/ works = {2, 3}    \* the first release runs, or the other two
    /\ part # "update" => exe = 1 /\ accepts = Versions /\ works = Versions
    /\ old = "runs" /\ (task.enabled \/ part = "takeover")
    /\ task.enabled => DataFiles \subseteq from

AllNext ==
    \/ part = "update" /\ Next /\ UNCHANGED <<part, appVars, takeVars>>
    \/ part = "app" /\ AppNext /\ UNCHANGED <<part, vars, takeVars>>
    \/ part = "takeover" /\ TakeNext /\ UNCHANGED <<part, vars, appVars>>

AllSpec == AllInit /\ [][AllNext]_<<part, vars, appVars, takeVars>>
=============================================================================
