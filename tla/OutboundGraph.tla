----------------------------- MODULE OutboundGraph ----------------------------
(* What depends on what among the outbounds and endpoints of a config          *)
(* (configfile/dependency.go). A graph maps every tag to the tags it depends   *)
(* on: its detour, a group's members; a tag without an entry does not exist.   *)
EXTENDS Integers, FiniteSets

CONSTANT None   \* no tag: the field is absent or ""

OneStep(graph, tags) == UNION {graph[t] : t \in tags \cap DOMAIN graph}

\* Everything the tag depends on, directly or through others
DependsOn(graph, tag) ==
    LET reached[n \in 0..Cardinality(DOMAIN graph)] ==
            IF n = 0 THEN OneStep(graph, {tag})
            ELSE LET before == reached[n - 1] IN before \cup OneStep(graph, before)
    IN  reached[Cardinality(DOMAIN graph)]

\* The sets of outbounds that depend on each other, or one on itself
Rings(graph) ==
    LET deps == [t \in DOMAIN graph |-> DependsOn(graph, t)]
    IN  {{u \in deps[t] \cap DOMAIN graph : t \in deps[u]} : t \in {t \in DOMAIN graph : t \in deps[t]}}

(* sing-box starts an outbound after the ones it depends on, and fails when    *)
(* none of the rest can be next (adapter/outbound/manager.go, startOutbounds). *)
Started(graph) ==
    LET up[n \in 0..Cardinality(DOMAIN graph)] ==
            IF n = 0 THEN {}
            ELSE LET before == up[n - 1] IN {t \in DOMAIN graph : graph[t] \subseteq before}
    IN  up[Cardinality(DOMAIN graph)]
=============================================================================
