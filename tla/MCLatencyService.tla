---------------------------- MODULE MCLatencyService --------------------------
(* Model checking of LatencyService, and beside it of the plan its test        *)
(* instance runs. They share no state: in a behaviour one of them moves, the   *)
(* other rests.                                                                *)
EXTENDS LatencyService, ProbePlan, TLC

CONSTANTS a, p, g, s, t     \* the outbounds and DNS servers of the plan

VARIABLE part   \* the one that moves

MCKeepMargin(d) == IF d > 2 THEN 2 ELSE 1
MCRoutings == {Node(tag) : tag \in Tags} \cup
              {[kind |-> k, tag |-> NoTag] : k \in {"none", "selector", "urltest"}}

-----------------------------------------------------------------------------
(* ProbePlan: nodes a and p, a group g, DNS servers s and t.                   *)

Outbound(type, detour, resolver, byName) ==
    [type |-> type, detour |-> detour, members |-> {}, default |-> None, resolver |-> resolver, byName |-> byName]
Selector(m, d) == [Outbound("selector", None, None, FALSE) EXCEPT !.members = m, !.default = d]
Outbounds(na, np, ng) == a :> na @@ p :> np @@ g :> ng
Plain(d) == Outbound("node", d, None, FALSE)
ByName(d) == Outbound("node", d, None, TRUE)
Foreign == Outbound("foreign", None, None, FALSE)
Local == Outbound("local", None, None, FALSE)
DirectOut == Outbound("direct", None, None, FALSE)

DnsServer(tag, type, d, r) == [tag |-> tag, type |-> type, detour |-> d, resolver |-> r]
Known(tag) == DnsServer(tag, "known", None, None)
To(outbound, more, inverted) ==
    [outbound |-> outbound, other |-> more, inverted |-> inverted, action |-> "route", server |-> t]
Does(outbound, action) == [To(outbound, FALSE, FALSE) EXCEPT !.action = action, !.server = None]
DnsRules ==
    {<<>>, <<To({AnyOut}, FALSE, FALSE)>>, <<To({a}, FALSE, TRUE)>>, <<To({a}, TRUE, FALSE)>>,
     <<To({p}, FALSE, FALSE)>>, <<To({}, TRUE, FALSE)>>, <<Does({a}, "reject")>>,
     <<Does({AnyOut}, "route-options"), To({a}, FALSE, FALSE)>>}

Document(o, n, sv, f, r, rs, rf) ==
    [order |-> o, nodes |-> n, servers |-> sv, final |-> f, rules |-> r, resolver |-> rs, routeFinal |-> rf]
\* who resolves decides a rule, the default server, an outbound of the way there
ByRules ==
    {Document(<<p, a, g>>, Outbounds(ByName(d), np, Selector({a, p}, p)), sv, f, r, None, None) :
        d \in {None, p}, np \in {ByName(None), DirectOut},
        sv \in {<<Known(s), Known(t)>>, <<DnsServer(s, "foreign", None, None), Known(t)>>,
                <<Known(s), DnsServer(t, "fakeip", None, None)>>},
        f \in {None, t}, r \in DnsRules}
\* servers of the old format, which dial through the default outbound
OldFormat ==
    {Document(o, Outbounds(ByName(d), np, Selector({a, p}, p)), sv, f, r, rs, rf) :
        o \in {<<p, a, g>>, <<None, a, p, g>>}, d \in {None, p}, np \in {Plain(None), Foreign},
        sv \in {<<DnsServer(s, "legacy", None, None), DnsServer(t, "known", g, None)>>, <<DnsServer(s, "legacy", None, t), Known(t)>>},
        f \in {None, t}, r \in {<<To({AnyOut}, FALSE, FALSE)>>}, rs \in {None, s}, rf \in {None, g}}
\* a default server that is reached through a group
ThroughGroup ==
    {Document(<<p, a, g>>, Outbounds(na, np, ng), <<DnsServer(s, "known", g, None)>>, None, <<>>, None, None) :
        na \in {Plain(None), Plain(g), Plain(p), ByName(None), Outbound("node", None, s, TRUE)},
        np \in {Plain(None), Local, Foreign, DirectOut}, ng \in {Selector({a, p}, p), Selector({p}, None)}}
\* the first DNS server has no tag, and so is nobody's default in the plan
Nameless ==
    {Document(<<a, p>>, Outbounds(ByName(None), Outbound("node", None, t, TRUE), Selector({a, p}, p)),
              <<Known(None), Known(t)>>, f, <<>>, None, None) : f \in {None, t}}
Bare == Document(<<>>, <<>>, <<>>, None, <<>>, None, None)
MCConfigs == ByRules \cup OldFormat \cup ThroughGroup \cup Nameless \cup {Bare}

-----------------------------------------------------------------------------
\* The plan rests at the first start for a config without outbounds
PlanRests == ProbeInit /\ cfg = Bare

AllInit ==
    /\ part \in {"check", "plan"}
    /\ Init /\ (part = "plan" => servers = {} /\ routing.kind = "none")
    /\ IF part = "plan" THEN ProbeInit ELSE PlanRests

AllNext ==
    \/ part = "check" /\ Next /\ UNCHANGED <<part, planVars>>
    \/ part = "plan" /\ ProbeNext /\ UNCHANGED <<part, vars>>

AllSpec == AllInit /\ [][AllNext]_<<part, vars, planVars>>
=============================================================================
