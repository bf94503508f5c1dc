------------------------- MODULE MCSubscriptionSync -------------------------
(* Model checking of SubscriptionSync, and beside it of what the user is told *)
(* of the refreshes. They share no state: in a behaviour one of them moves.   *)
EXTENDS SubscriptionSync, SubscriptionReports, TLC

CONSTANTS a, b, c, u1, u2

VARIABLE part       \* the one that moves

AllInit == part \in {"sync", "reports"} /\ Init /\ ReportInit
AllNext ==
    \/ part = "sync" /\ Next /\ UNCHANGED <<part, reportVars>>
    \/ part = "reports" /\ ReportNext /\ UNCHANGED <<part, vars>>
AllSpec == AllInit /\ [][AllNext]_<<part, vars, reportVars>>

On(server, version) == [server |-> server, version |-> version]
N(name, content) == [name |-> name, content |-> content]

MCContents == {On(1, 1), On(1, 2), On(2, 1), On(3, 1)}

\* The provider of u1 renames and changes a node while it adds one, and goes
\* back; that of u2 serves one node under a name u1 uses
MCBodies ==
    (u1 :> {<<N(a, On(1, 1))>>, <<N(c, On(2, 1)), N(b, On(1, 2))>>}
     @@ u2 :> {<<N(b, On(3, 1))>>})

MCRefusable == {On(1, 2), On(3, 1)}

MCOwn == <<N(a, On(3, 1))>>
MCImports == {N(b, On(3, 1))}

\* A provider that numbers its nodes and drops the first
NoNodes == <<>>
NumberedBodies ==
    (u1 :> {<<N(a, On(1, 1)), N(b, On(2, 1)), N(c, On(3, 1))>>,
            <<N(a, On(2, 1)), N(b, On(3, 1))>>})
=============================================================================
