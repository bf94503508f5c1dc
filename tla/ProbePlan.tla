------------------------------- MODULE ProbePlan ------------------------------
(* The config of the latency test's own sing-box (configfile/latency.go): the  *)
(* servers to measure with everything they need to dial and nothing else, and  *)
(* the starts of the test instance, which leave a server out when sing-box     *)
(* cannot create it (latency/prober_windows.go). Spellings of keys, the notes  *)
(* and the redaction of outputs are left out.                                  *)
EXTENDS OutboundGraph, SequencesExt, Sublists

CONSTANTS
    AnyOut,         \* the outbound condition "any" of a DNS rule
    Configs,        \* the configs to plan for
    Retries         \* LatencyIsolateRetries

(* A config: order, the tags of the outbounds as they stand (one without a tag *)
(* is None); nodes, tag -> [type, detour, members, default, resolver, byName]; *)
(* servers, Seq of [tag, type, detour, resolver]; final (of dns), rules, Seq   *)
(* of [outbound, other, inverted, action, server]; resolver (of route) and     *)
(* routeFinal. Type "foreign": one the test never carries, a realm, a netns;   *)
(* type "local": a node whose server is this machine, carried but not measured *)
VARIABLES
    cfg, broken,    \* config.json; the outbounds sing-box cannot create alone
    failed,         \* the outbounds left out so far
    again,          \* the other restarts made: a new port, a file for stdin
    phase           \* start | measuring | nothing | toomany | gone

planVars == <<cfg, broken, failed, again, phase>>

(* A config as sing-box takes it: finitely many outbounds, each with a tag;     *)
(* no tag of a DNS server used twice; a selector has members, and its default   *)
(* is one of them.                                                              *)
IsNode(o) ==
    /\ o = [type |-> o.type, detour |-> o.detour, members |-> o.members, default |-> o.default,
            resolver |-> o.resolver, byName |-> o.byName]
    /\ IsFiniteSet(o.members) /\ None \notin o.members /\ o.default \in o.members \cup {None}
    /\ o.type = "selector" => o.members # {}
IsConfig(c) ==
    /\ IsFiniteSet(DOMAIN c.nodes) /\ None \notin DOMAIN c.nodes
    /\ \A t \in DOMAIN c.nodes : IsNode(c.nodes[t])
    /\ c.order \in Seq(ToSet(c.order)) /\ c.servers \in Seq(ToSet(c.servers)) /\ c.rules \in Seq(ToSet(c.rules))
    /\ \A i, j \in DOMAIN c.servers : c.servers[i].tag = c.servers[j].tag /\ c.servers[i].tag # None => i = j
    /\ \A rule \in ToSet(c.rules) : rule.inverted \in BOOLEAN
ConfigAssumption == Retries \in Nat /\ \A c \in Configs : IsConfig(c)
ASSUME ConfigAssumption

-----------------------------------------------------------------------------
Out(tag) == <<"outbound", tag>>
Dns(tag) == <<"dns", tag>>
Outs(tags) == {Out(t) : t \in tags \ {None}}
Dnss(tags) == {Dns(t) : t \in tags \ {None}}

ServerTags(c) == {s.tag : s \in ToSet(c.servers)}
Server(c, tag) == CHOOSE s \in ToSet(c.servers) : s.tag = tag

DefaultServer(c) ==
    IF c.final # None THEN c.final ELSE IF c.servers # <<>> THEN Head(c.servers).tag ELSE None
DefaultOut(c) ==
    IF c.routeFinal # None THEN c.routeFinal ELSE IF c.order # <<>> THEN Head(c.order) ELSE None
Globals(c) == Dnss({DefaultServer(c), c.resolver})

SkippedServer(c, tag) == tag \notin ServerTags(c) \/ Server(c, tag).type = "fakeip"
LegacyDials(s) == s.type = "legacy" /\ s.detour = None

ResolvesLocally(c, tag) ==
    LET o == c.nodes[tag]
    IN  o.detour = None /\ o.resolver = None /\ (o.type = "direct" \/ o.byName)
RulesResolve(c, tag) == ResolvesLocally(c, tag) /\ c.resolver = None /\ Len(c.servers) >= 2

-----------------------------------------------------------------------------
(* The DNS server the rules resolve an outbound's server name with.            *)

Names(rule, tag) == AnyOut \in rule.outbound \/ tag \in rule.outbound
PassedOver(c, rule, tag) ==
    \/ rule.action = "route" /\ rule.server # None /\ SkippedServer(c, rule.server)
    \/ rule.outbound # {} /\ ~Names(rule, tag) /\ ~rule.inverted
\* mutant: an inverted condition is taken for a plain one
Unseen(rule) == rule.outbound # {} /\ ~rule.other
ByOutboundOnly(rule) == rule.outbound # {} /\ ~rule.inverted /\ ~rule.other

\* i, the rule that decides, 0 for none; the ones before it that do not are copied
Decided(c, tag, i) ==
    [ok |-> i = 0 \/ (ByOutboundOnly(c.rules[i]) /\ c.rules[i].action = "route" /\ c.rules[i].server # None),
     server |-> IF i = 0 THEN DefaultServer(c) ELSE c.rules[i].server,
     copied |-> {k \in DOMAIN c.rules : (i = 0 \/ k < i) /\ ~PassedOver(c, c.rules[k], tag)} \cup ({i} \ {0})]
RuleResolution(c, tag) ==
    LET Decides(rule) == /\ ~PassedOver(c, rule, tag)
                         /\ ~(ByOutboundOnly(rule) /\ rule.action = "route-options")
    IN  Decided(c, tag, SelectInSeq(c.rules, Decides))

NameResolution(c, tag) ==
    IF RulesResolve(c, tag) THEN RuleResolution(c, tag)
    ELSE [ok |-> TRUE, server |-> IF ~ResolvesLocally(c, tag) THEN None
                                  ELSE IF c.resolver # None THEN c.resolver ELSE DefaultServer(c)]

-----------------------------------------------------------------------------
(* What one outbound or DNS server depends on (visit).                         *)

DnsProblem(c, tag) ==
    \/ tag \notin ServerTags(c) \/ Server(c, tag).type = "foreign"
    \/ LegacyDials(Server(c, tag)) /\ c.order # <<>> /\ DefaultOut(c) = None
OutProblem(c, left, tag) ==
    tag \notin DOMAIN c.nodes \/ tag \in left \/ c.nodes[tag].type = "foreign" \/ ~NameResolution(c, tag).ok
\* mutant: a server left out is forgotten in the next plan
Unmarked(c, left, r) == IF r[1] = "dns" THEN DnsProblem(c, r[2]) ELSE OutProblem(c, {}, r[2])
Problem(c, left, r) == IF r[1] = "dns" THEN DnsProblem(c, r[2]) ELSE OutProblem(c, left, r[2])

\* mutant: a server of the old format without a detour dials directly
Directly(c, s) == {s.detour}
DialsThrough(c, s) == {IF LegacyDials(s) THEN DefaultOut(c) ELSE s.detour}

Next1(c, r) ==
    IF r[1] = "dns"
    THEN LET srv == Server(c, r[2]) IN Outs(DialsThrough(c, srv)) \cup Dnss({srv.resolver})
    ELSE LET o == c.nodes[r[2]] IN Outs({o.detour}) \cup Dnss({o.resolver, NameResolution(c, r[2]).server})
Members(c, r) == IF r[1] = "dns" THEN {} ELSE Outs(c.nodes[r[2]].members)
IsGroup(c, r) == r[1] = "outbound" /\ c.nodes[r[2]].type = "selector"

Refs(c) == Outs(DOMAIN c.nodes) \cup Dnss(ServerTags(c))
Reached(graph, start) == start \cup UNION {DependsOn(graph, r) : r \in start}

\* The config as a graph: what has a problem is not looked behind
Visits(c, left) ==
    [r \in {r \in Refs(c) : ~Problem(c, left, r)} |-> Next1(c, r) \cup Members(c, r)]

\* The closure of a candidate, and whether the test instance can carry it
Walk(visits, tag) == Reached(visits, {Out(tag)})
Carriable(visits, tag) == Walk(visits, tag) \subseteq DOMAIN visits

\* mutant: a group stays without the members that cannot be carried, were it none
Emptied(c, r, ok) == Next1(c, r) \subseteq ok
Supported(c, r, ok) ==
    Next1(c, r) \subseteq ok /\ (IsGroup(c, r) => Members(c, r) \cap ok # {})

Carried(c, visits, universe) ==
    LET ok[n \in 0..Cardinality(universe)] ==
            IF n = 0 THEN universe \cap DOMAIN visits
            ELSE LET before == ok[n - 1] IN {r \in before : Supported(c, r, before)}
    IN  ok[Cardinality(universe)]
WithoutRest(c, carried) == [r \in carried |-> Next1(c, r) \cup (Members(c, r) \cap carried)]
CarriedOf(c, carried) == Reached(WithoutRest(c, carried), Globals(c) \cap carried)
CarriedGlobals(c, visits) == CarriedOf(c, Carried(c, visits, Reached(visits, Globals(c))))

-----------------------------------------------------------------------------
\* A local node, a group and a direct outbound are carried for others only
Measurable(c, left, visits) ==
    {t \in DOMAIN c.nodes : c.nodes[t].type = "node" /\ t \notin left /\ Carriable(visits, t)}
Testable(c, left) == Measurable(c, left, Visits(c, left))

NeededFor(c, visits, testable) ==
    IF testable = {} THEN {}
    ELSE CarriedGlobals(c, visits) \cup UNION {Walk(visits, t) : t \in testable}

\* mutant: the group is copied with all its members
Whole(o, needed) == o
ProbeOutbound(o, needed) ==
    [o EXCEPT !.members = {m \in @ : Out(m) \in needed},
              !.default = IF Out(@) \in needed THEN @ ELSE None]

\* mutant: the rules are left out
NoRules(c, needed) == <<>>
ProbeRules(c, needed) ==
    LET resolving == {t \in DOMAIN c.nodes : Out(t) \in needed /\ RulesResolve(c, t)}
    IN  At(c.rules, UNION {RuleResolution(c, t).copied : t \in {t \in resolving : RuleResolution(c, t).ok}})

\* mutant: the default outbound of the test instance is its own first one
OwnFirst(c, needed) == None
LegacyDefaultDetour(c, needed) ==
    IF Out(DefaultOut(c)) \in needed /\ \E s \in ToSet(c.servers) : Dns(s.tag) \in needed /\ LegacyDials(s)
    THEN DefaultOut(c) ELSE None

\* The config of the test instance (buildProbePlan)
PlanWith(c, needed) ==
    LET IfCarried(t, server) == IF Dns(server) \in needed THEN t ELSE None
    IN  [order |-> At(c.order, {i \in DOMAIN c.order : Out(c.order[i]) \in needed}),
         nodes |-> [t \in {t \in DOMAIN c.nodes : Out(t) \in needed} |-> ProbeOutbound(c.nodes[t], needed)],
         servers |-> At(c.servers, {i \in DOMAIN c.servers : Dns(c.servers[i].tag) \in needed}),
         final |-> IfCarried(c.final, DefaultServer(c)),
         rules |-> ProbeRules(c, needed),
         resolver |-> IfCarried(c.resolver, c.resolver),
         routeFinal |-> LegacyDefaultDetour(c, needed)]
PlanFor(c, left, visits) == PlanWith(c, NeededFor(c, visits, Measurable(c, left, visits)))
Plan(c, left) == PlanFor(c, left, Visits(c, left))

-----------------------------------------------------------------------------
(* The starts of the test instance (Measure, start, launch). sing-box creates  *)
(* the outbounds in their order and then listens.                              *)

ProbeInit ==
    /\ cfg \in Configs /\ broken \in SUBSET DOMAIN cfg.nodes
    /\ failed = {} /\ again = {} /\ phase = "start"

Launching == phase = "start" /\ Testable(cfg, failed) # {}

NothingLeft ==
    /\ phase = "start" /\ Testable(cfg, failed) = {}
    /\ phase' = "nothing"
    /\ UNCHANGED <<cfg, broken, failed, again>>

\* Exited with the position of an outbound: left out, unless too many were
ExcludeOne ==
    /\ Launching
    /\ \E plan \in {Plan(cfg, failed)} :
        LET IsBroken(t) == t \in broken
            first == SelectInSeq(plan.order, IsBroken)
        IN  /\ first # 0
            /\ IF Cardinality(failed) < Retries
               THEN failed' = failed \cup {plan.order[first]} /\ phase' = phase
               ELSE failed' = failed /\ phase' = "toomany"
    /\ UNCHANGED <<cfg, broken, again>>

Creatable == broken \cap ToSet(Plan(cfg, failed).order) = {}

\* A port taken meanwhile or a build that reads no stdin: once each
StartAgain(why) ==
    /\ Launching /\ (why = "port" => Creatable)
    /\ IF why \in again THEN why = "port" /\ phase' = "gone" /\ again' = again
                        ELSE again' = again \cup {why} /\ phase' = phase
    /\ UNCHANGED <<cfg, broken, failed>>

Up ==
    /\ Launching /\ Creatable
    /\ phase' = "measuring"
    /\ UNCHANGED <<cfg, broken, failed, again>>

\* The check is called off, or the instance neither answers nor exits
GivenUp ==
    /\ Launching /\ phase' = "gone"
    /\ UNCHANGED <<cfg, broken, failed, again>>

ProbeNext == NothingLeft \/ ExcludeOne \/ (\E why \in {"port", "stdin"} : StartAgain(why)) \/ Up \/ GivenUp

ProbeSpec == ProbeInit /\ [][ProbeNext]_planVars

-----------------------------------------------------------------------------
(* What sing-box does with a config, from the comments of latency.go: a DNS    *)
(* rule with another condition matches a name or not; world are those that do. *)

Matches(rule, tag, world) ==
    ((rule.outbound = {} \/ Names(rule, tag)) /\ (rule.other => rule \in world)) # rule.inverted

ResolvedBy(c, tag, world) ==
    LET Decides(rule) == /\ Matches(rule, tag, world) /\ rule.action # "route-options"
                         /\ ~(rule.action = "route" /\ SkippedServer(c, rule.server))
        i == SelectInSeq(c.rules, Decides)
        chosen == IF i = 0 THEN DefaultServer(c)
                  ELSE IF c.rules[i].action = "route" THEN c.rules[i].server ELSE "rejected"
    IN  IF RulesResolve(c, tag) THEN chosen
        ELSE IF ~ResolvesLocally(c, tag) THEN c.nodes[tag].resolver
        ELSE IF c.resolver # None THEN c.resolver ELSE DefaultServer(c)

NoneOr(tags) == tags \cup {None}
ClosedConfig(c) ==
    LET tags == DOMAIN c.nodes
        dns == ServerTags(c)
    IN  /\ \A t \in tags :
             LET o == c.nodes[t]
             IN  /\ o.detour \in NoneOr(tags) /\ o.resolver \in NoneOr(dns) /\ o.members \subseteq tags
                 /\ o.type = "selector" => o.members # {} /\ o.default \in NoneOr(o.members)
        /\ \A s \in ToSet(c.servers) : s.detour \in NoneOr(tags) /\ s.resolver \in NoneOr(dns)
        /\ c.final \in NoneOr(dns) /\ c.resolver \in NoneOr(dns) /\ c.routeFinal \in NoneOr(tags)
        /\ \A k \in DOMAIN c.rules : c.rules[k].action = "route" => c.rules[k].server \in dns

\* The test instance's config refers to nothing it does not carry, whatever was
\* left out of it and however the config's globals reach it: sing-box starts it
\* as far as it starts config.json.
PlanStarts == ClosedConfig(Plan(cfg, failed))

\* A first DNS server without a tag is the default one for sing-box, and none for
\* the plan, which then makes another one the default
DefaultIsNamed(c) == c.final # None \/ c.servers = <<>> \/ Head(c.servers).tag # None

Through(c, tag) == IF LegacyDials(Server(c, tag)) THEN DefaultOut(c) ELSE Server(c, tag).detour

\* A server is measured the way the VPN would dial it: the outbounds it dials
\* through are those of config.json, groups with all their members, each of
\* them resolves its server's name with the DNS server the VPN uses, whatever
\* the other conditions of the rules match, and that server is reached through
\* the same outbound.
MeasuredAsTheVPNDials ==
    DefaultIsNamed(cfg) =>
      \A visits \in {Visits(cfg, failed)} : \A plan \in {PlanFor(cfg, failed, visits)} :
        \A t \in Measurable(cfg, failed, visits) : \A r \in Walk(visits, t) :
          IF r[1] = "outbound"
          THEN /\ plan.nodes[r[2]] = cfg.nodes[r[2]]
               /\ \A world \in SUBSET {rule \in ToSet(cfg.rules) : rule.other} :
                    ResolvedBy(plan, r[2], world) = ResolvedBy(cfg, r[2], world)
          ELSE Through(plan, r[2]) = Through(cfg, r[2])

Unbroken(visits) == {t \in Measurable(cfg, {}, visits) : Walk(visits, t) \cap Outs(broken) = {}}
Healthy == Unbroken(Visits(cfg, {}))

\* One server sing-box cannot create does not take the others along: those that
\* need no such server are measured, and the check gives up for them only when
\* more of them stand in the way than it may leave out.
HealthyAreMeasured ==
    /\ phase \in {"measuring", "nothing"} => Healthy \subseteq Testable(cfg, failed)
    /\ phase = "toomany" => Cardinality(broken) > Retries
=============================================================================
