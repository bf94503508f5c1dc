------------------------------ MODULE Dependencies ----------------------------
(* The check before every save for what sing-box check passes and sing-box     *)
(* then does not start with (configfile/dependency.go, refusal.go): outbounds  *)
(* that depend on a missing one or on each other, selectors whose default is   *)
(* no member, references from the other sections. The sections of config.json  *)
(* are replaced one at a time by the settings page, imports and refreshes, and *)
(* by hand by an administrator. Spellings of keys are left out.                *)
EXTENDS OutboundGraph, SequencesExt

CONSTANTS
    Own,            \* an HTTP client of the rule set's own, an object
    Outbounds, Routes, Clients, Others  \* the values of the sections

VARIABLES config, byHand    \* config.json; an administrator may have broken it

depVars == <<config, byHand>>

(* outbounds: tag -> [detour, members, default], endpoints without members;    *)
(* route: [final, named (by rules), prefers, sets, client]; a rule set:        *)
(* [remote, detour, client, ownDetour]; clients: Seq of [tag, detour];         *)
(* other: [dns: server -> detour, named, ntp].                                 *)
Configs == [outbounds : Outbounds, route : Routes, clients : Clients, other : Others]

(* As sing-box decodes the sections: there are finitely many outbounds; a local *)
(* rule set downloads nothing, a remote one in one of the three ways at most;   *)
(* a shared client has a tag.                                                   *)
Downloads(set) ==
    /\ set.client = None \/ set.detour = None
    /\ ~set.remote => set.client = None /\ set.detour = None
SectionsAssumption ==
    /\ Own # None
    /\ \A outbounds \in Outbounds : IsFiniteSet(DOMAIN outbounds)
    /\ \A clients \in Clients : \A c \in ToSet(clients) : c.tag # None
    /\ \A route \in Routes : route.client # Own /\ \A s \in DOMAIN route.sets : Downloads(route.sets[s])
ASSUME SectionsAssumption

Some(tag) == {tag} \ {None}
Graph(cfg) == [t \in DOMAIN cfg.outbounds |->
                 Some(cfg.outbounds[t].detour) \cup cfg.outbounds[t].members]
ClientTags(cfg) == {c.tag : c \in ToSet(cfg.clients)} \ {None}

-----------------------------------------------------------------------------
(* Problems: [kind, owner, missing]. The owner is part of the key, a position  *)
(* never is: the same problem in two configs is the same record.               *)

Problem(kind, owner, missing) == [kind |-> kind, owner |-> owner, missing |-> missing]

OutboundProblems(cfg) ==
    LET graph == Graph(cfg)
        present == [t \in DOMAIN graph |-> graph[t] \cap DOMAIN graph]
    IN  {Problem("ring", ring, None) : ring \in Rings(present)}
        \cup UNION {{Problem("missing", t, d) : d \in graph[t] \ DOMAIN graph} : t \in DOMAIN graph}

DefaultClients(cfg) ==
    IF cfg.route.client # None THEN {cfg.route.client}
    ELSE IF cfg.clients # <<>> THEN Some(cfg.clients[1].tag) ELSE {}

HasOwn(set) == set.client # None \/ set.detour # None

\* mutant: the client a rule set falls back to is forgotten
NamedClients(cfg) == {cfg.route.sets[s].client : s \in DOMAIN cfg.route.sets} \ {None, Own}
DownloadClients(cfg) ==
    LET sets == cfg.route.sets
    IN  ({sets[s].client : s \in DOMAIN sets} \ {None, Own})
        \cup IF \E s \in DOMAIN sets : ~HasOwn(sets[s]) /\ sets[s].remote THEN DefaultClients(cfg) ELSE {}

Lacking(kind, owner, tags, present) == {Problem(kind, owner, t) : t \in tags \ present}

RouteProblems(cfg) ==
    LET route == cfg.route
        nodes == DOMAIN cfg.outbounds
        OfSet(s) ==
            LET set == route.sets[s]
            IN  Lacking("download_detour", s, Some(set.detour), nodes)
                \cup IF set.client = Own THEN Lacking("http_client.detour", s, Some(set.ownDetour), nodes)
                     ELSE Lacking("http_client", s, Some(set.client), ClientTags(cfg))
    IN  Lacking("final", None, Some(route.final), nodes)
        \cup Lacking("rule_set", None, route.named, DOMAIN route.sets)
        \cup Lacking("preferred_by", None, route.prefers, nodes)
        \cup Lacking("default_http_client", None, Some(route.client), ClientTags(cfg))
        \cup UNION {OfSet(s) : s \in DOMAIN route.sets}

ReferenceProblems(cfg) ==
    LET nodes == DOMAIN cfg.outbounds
        downloading == {c \in ToSet(cfg.clients) : c.tag \in DownloadClients(cfg)}
    IN  RouteProblems(cfg)
        \cup (UNION {Lacking("http_client.dials", c.tag, Some(c.detour), nodes) : c \in downloading})
        \cup (UNION {Lacking("dns", s, Some(cfg.other.dns[s]), nodes) : s \in DOMAIN cfg.other.dns})
        \cup Lacking("dns_rule_set", None, cfg.other.named, DOMAIN cfg.route.sets)
        \cup (IF cfg.other.ntp.enabled THEN Lacking("ntp", None, Some(cfg.other.ntp.detour), nodes) ELSE {})

DependencyProblems(cfg) == OutboundProblems(cfg) \cup ReferenceProblems(cfg)

DanglingDefaults(cfg) ==
    UNION {Lacking("default", t, Some(cfg.outbounds[t].default), cfg.outbounds[t].members) :
           t \in DOMAIN cfg.outbounds}

CheckDependencies(old, new) == DependencyProblems(new) \subseteq DependencyProblems(old)
CheckSelectorDefaults(old, new) == DanglingDefaults(new) \subseteq DanglingDefaults(old)

-----------------------------------------------------------------------------
Replaced(section, value) == [config EXCEPT ![section] = value]
Passes(new) == CheckSelectorDefaults(config, new) /\ CheckDependencies(config, new)

Save(section, value) ==
    /\ Passes(Replaced(section, value))
    /\ config' = Replaced(section, value)
    /\ UNCHANGED byHand

ByHand ==
    /\ ~byHand /\ byHand' = TRUE
    /\ \E value \in Outbounds : config' = [config EXCEPT !.outbounds = value]

DepInit == config \in Configs /\ DependencyProblems(config) = {} /\ DanglingDefaults(config) = {} /\ byHand = FALSE

DepNext ==
    \/ \E value \in Outbounds : Save("outbounds", value)
    \/ \E value \in Routes : Save("route", value)
    \/ \E value \in Clients : Save("clients", value)
    \/ \E value \in Others : Save("other", value)
    \/ ByHand

DepSpec == DepInit /\ [][DepNext]_depVars

-----------------------------------------------------------------------------
(* What sing-box does when it starts, from the comments of dependency.go: the  *)
(* outbounds in the order of their dependencies, each selector's default, then *)
(* every look-up of an outbound, a rule set or a client by tag; a remote rule  *)
(* set of which no copy is cached is downloaded, through its detour, its own   *)
(* client, the shared one it names or else the default of them.                *)

DefaultTag(cfg) == IF cfg.route.client = None THEN cfg.clients[1].tag ELSE cfg.route.client

\* the shared client c serves the rule set
Serves(cfg, c, set) ==
    \/ set.client = c.tag
    \/ set.client = None /\ set.detour = None /\ c.tag = DefaultTag(cfg)

Transport(cfg, set) ==
    IF set.client = Own THEN Some(set.ownDetour)
    ELSE Some(set.detour) \cup ({c.detour : c \in {c \in ToSet(cfg.clients) : Serves(cfg, c, set)}} \ {None})

SingBoxStarts(cfg, cached) ==
    LET graph == Graph(cfg)
        sets == cfg.route.sets
        remote == {s \in DOMAIN sets : sets[s].remote}
    IN  /\ Started(graph) = DOMAIN graph
        /\ \A t \in DOMAIN graph : Some(cfg.outbounds[t].default) \subseteq cfg.outbounds[t].members
        /\ Some(cfg.route.final) \cup cfg.route.prefers \subseteq DOMAIN graph
        /\ cfg.route.named \cup cfg.other.named \subseteq DOMAIN sets
        /\ (Some(cfg.route.client) \cup {sets[s].client : s \in DOMAIN sets}) \ {None, Own} \subseteq ClientTags(cfg)
        /\ \A s \in remote \ cached : Transport(cfg, sets[s]) \subseteq DOMAIN graph
        /\ \A s \in DOMAIN cfg.other.dns : Some(cfg.other.dns[s]) \subseteq DOMAIN graph
        /\ cfg.other.ntp.enabled => Some(cfg.other.ntp.detour) \subseteq DOMAIN graph

StartsFresh(cfg) == SingBoxStarts(cfg, {})
StartsAnyhow(cfg) == \A cached \in SUBSET DOMAIN cfg.route.sets : SingBoxStarts(cfg, cached)

Judged(new) == IF Passes(new) THEN StartsAnyhow(new) ELSE ~StartsFresh(new)

\* A config sing-box starts with also when nothing is cached is kept that way
\* by every save, whichever section it edits and whatever the others refer to
\* in it: what is saved starts whatever is cached, and what is refused would
\* not have started with no rule set cached (check before every write; a
\* download detour "counts either way", also where a cached copy would do).
SavesWhatStarts ==
    StartsFresh(config) =>
        /\ \A value \in Outbounds : Judged(Replaced("outbounds", value))
        /\ \A value \in Routes : Judged(Replaced("route", value))
        /\ \A value \in Clients : Judged(Replaced("clients", value))
        /\ \A value \in Others : Judged(Replaced("other", value))
=============================================================================
