------------------------------ MODULE MCDPIBypass -----------------------------
(* Model checking of what works on config.json: the files and the operations   *)
(* of the bypass, the search for rings, the check of dependencies and          *)
(* references, the merge that leaves odd nodes out, the credentials of the     *)
(* settings page, and the settings server itself. They share no state: in a    *)
(* behaviour one of them moves and the others rest.                            *)
EXTENDS DPIBypass, WebServer, RingSearch, Dependencies, Refusal, Secrets, TLC

CONSTANTS s1, a, b, c, g, s, x, y

VARIABLE part   \* the one that moves

-----------------------------------------------------------------------------
\* Other programs remove the config or write one without the bypass: a clean one,
\* one with rules that lead to it, one that sing-box does not start with
MCDocs == Document
NoBypass(rule, final, other) ==
    [rule |-> rule, final |-> final, detour |-> {}, other |-> other, bypass |-> FALSE]
MCForeigns == {Absent, NoBypass(Bypass, s1, FALSE), NoBypass(Direct, Bypass, TRUE)}

-----------------------------------------------------------------------------
(* Dependencies: nodes a and b, a group g, a rule set x, a client c, a DNS     *)
(* server s.                                                                   *)

Node(d) == [detour |-> d, members |-> {}, default |-> None]
Group(m, d) == [detour |-> None, members |-> m, default |-> d]

MCOutbounds ==
    LET As == {Node(None), Node(b), Node(g)}
        Bs == {Node(None), Node(a)}
        Gs == {Group({a, b}, b), Group({a}, b)}
    IN  {[v \in {a} |-> n] : n \in As} \cup {[v \in {b} |-> n] : n \in Bs}
        \cup {a :> n @@ b :> m : n \in As, m \in Bs}
        \cup {a :> n @@ b :> m @@ g :> o : n \in As, m \in Bs, o \in Gs}

RuleSet(remote, d, client, own) == [remote |-> remote, detour |-> d, client |-> client, ownDetour |-> own]
RuleSets == {x :> RuleSet(TRUE, b, None, None), x :> RuleSet(TRUE, None, None, None),
             x :> RuleSet(TRUE, None, c, None), x :> RuleSet(TRUE, None, Own, b),
             x :> RuleSet(FALSE, None, None, None)}
Route(final, named, sets, client) ==
    [final |-> final, named |-> named, prefers |-> {}, sets |-> sets, client |-> client]
MCRoutes ==
    {Route(final, {}, <<>>, None) : final \in {None, a}}
    \cup {Route(None, named, sets, client) : named \in {{}, {x}}, sets \in RuleSets, client \in {None, c}}
    \cup {[Route(None, {}, <<>>, None) EXCEPT !.prefers = {b}]}
MCClients == {<<>>, <<[tag |-> c, detour |-> None]>>, <<[tag |-> c, detour |-> b]>>}
Other(dns, named, ntp) == [dns |-> s :> dns, named |-> named, ntp |-> [enabled |-> ntp, detour |-> b]]
MCOthers == {Other(None, {}, FALSE), Other(b, {}, FALSE), Other(None, {x}, TRUE)}

-----------------------------------------------------------------------------
(* Refusal: short lists with detours (to the node itself, to each other, to    *)
(* outbounds a and b of the config or a missing one), long ones with crashes.  *)

Odd(verdict) == [detour |-> None, verdict |-> verdict]
Short ==
    UNION {[1..n -> [detour : {None, a, b, 1, 2, 3}, verdict : {"ok"}]
                    \cup {Odd(v) : v \in {"guard", "field", "odd", "crash"}}
                    \cup {[detour |-> 1, verdict |-> "odd"]}] : n \in 1..3}
Long ==
    {[i \in 1..n |-> Odd(IF i \in bad THEN "crash" ELSE "ok")] :
        n \in {8, 20}, bad \in {1..20, 1..4, {2, 17}, {k \in 1..20 : k % 2 = 0}}}
    \cup {[i \in 1..20 |-> Odd(IF i = 3 THEN "odd" ELSE IF i % 3 = 0 THEN "field" ELSE "ok")]}
MCIncomings == Short \cup Long
MCArounds == {<<>>, a :> None, a :> b @@ b :> None}

-----------------------------------------------------------------------------
(* Secrets: a chain, a detour to what dials directly, a ring of two.           *)

MCSections == {<<Item(a, 1, {b}, x), Item(b, 1, {c}, y), Item(c, 1, {}, Empty)>>,
               <<Item(a, 1, {b}, x), Item(b, 1, {a}, Empty)>>}

-----------------------------------------------------------------------------
(* The parts that rest are in a state of theirs: a graph without an edge, a     *)
(* config that was broken by hand, a merge before its first pass, no page.      *)

RingsRest == RingInit /\ edges = [v \in Nodes |-> {}]
DepsRest ==
    /\ byHand = TRUE
    /\ config = [outbounds |-> [v \in {a} |-> Node(b)], route |-> Route(None, {}, <<>>, None),
                 clients |-> <<>>, other |-> Other(None, {}, FALSE)]
MergeRests == MergeInit /\ incoming = [i \in 1..1 |-> Odd("odd")] /\ around = <<>>
PageRests == PageInit /\ Len(stored) = 2
WebRests == WebInit /\ list = {}

AllInit ==
    /\ Init
    /\ part \in {"bypass", "rings", "dependencies", "merge", "page", "web"}
    /\ part # "bypass" => conf = Absent
    /\ IF part = "rings" THEN RingInit ELSE RingsRest
    /\ IF part = "dependencies" THEN DepInit ELSE DepsRest
    /\ IF part = "merge" THEN MergeInit ELSE MergeRests
    /\ IF part = "page" THEN PageInit ELSE PageRests
    /\ IF part = "web" THEN WebInit ELSE WebRests

BypassMoves ==
    part = "bypass" /\ Next /\ UNCHANGED <<part, ringVars, depVars, mergeVars, pageVars, webVars>>
RingsMove ==
    part = "rings" /\ RingNext /\ UNCHANGED <<part, vars, depVars, mergeVars, pageVars, webVars>>
DepsMove ==
    part = "dependencies" /\ DepNext /\ UNCHANGED <<part, vars, ringVars, mergeVars, pageVars, webVars>>
MergeMoves ==
    part = "merge" /\ MergeNext /\ UNCHANGED <<part, vars, ringVars, depVars, pageVars, webVars>>
PageMoves ==
    part = "page" /\ PageNext /\ UNCHANGED <<part, vars, ringVars, depVars, mergeVars, webVars>>
WebMoves ==
    part = "web" /\ WebNext /\ UNCHANGED <<part, vars, ringVars, depVars, mergeVars, pageVars>>

AllNext == BypassMoves \/ RingsMove \/ DepsMove \/ MergeMoves \/ PageMoves \/ WebMoves

AllSpec == AllInit /\ [][AllNext]_<<part, vars, ringVars, depVars, mergeVars, pageVars, webVars>>
=============================================================================
