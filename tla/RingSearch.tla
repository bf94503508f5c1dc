------------------------------ MODULE RingSearch ------------------------------
(* The search for rings of outbounds (dependency.go, rings: Tarjan), one       *)
(* visited edge at a time, on every graph over Nodes. The order of the tags and *)
(* of a tag's edges is left open.                                              *)
EXTENDS OutboundGraph, SequencesExt

CONSTANT Nodes

ASSUME NodesAssumption == IsFiniteSet(Nodes)

VARIABLES
    edges,          \* dependencies that exist
    index, low,     \* Unseen before the visit
    stack,          \* the tags not assigned to a set yet
    calls,          \* the visits under way, the innermost first: tag and edges left
    found

ringVars == <<edges, index, low, stack, calls, found>>

Unseen == -1
Lower(m, n) == IF m < n THEN m ELSE n
SeenNodes == {t \in Nodes : index[t] # Unseen}

\* mutant: a tag whose set is complete still counts
Anything(w) == TRUE
OnStack(w) == Contains(stack, w)

Visit(v, callers) ==
    /\ index' = [index EXCEPT ![v] = Cardinality(SeenNodes)]
    /\ low' = [low EXCEPT ![v] = Cardinality(SeenNodes)]
    /\ stack' = <<v>> \o stack
    /\ calls' = <<[tag |-> v, todo |-> edges[v]]>> \o callers
    /\ UNCHANGED <<edges, found>>

Root(v) == calls = <<>> /\ index[v] = Unseen /\ Visit(v, <<>>)

Follow(w) ==
    /\ calls # <<>> /\ w \in Head(calls).todo
    /\ LET v == Head(calls).tag
           rest == [calls EXCEPT ![1].todo = @ \ {w}]
       IN  IF index[w] = Unseen THEN Visit(w, rest)
           ELSE /\ low' = IF OnStack(w) THEN [low EXCEPT ![v] = Lower(@, index[w])] ELSE low
                /\ calls' = rest
                /\ UNCHANGED <<edges, index, stack, found>>

Complete ==
    /\ calls # <<>> /\ Head(calls).todo = {}
    /\ LET v == Head(calls).tag
           at == CHOOSE i \in DOMAIN stack : stack[i] = v
           set == {stack[i] : i \in 1..at}
       IN  /\ IF low[v] = index[v]
              THEN /\ stack' = SubSeq(stack, at + 1, Len(stack))
                   /\ found' = IF Cardinality(set) > 1 \/ v \in edges[v] THEN found \cup {set} ELSE found
              ELSE UNCHANGED <<stack, found>>
           /\ calls' = Tail(calls)
           /\ low' = IF Tail(calls) = <<>> THEN low
                     ELSE LET u == calls[2].tag IN [low EXCEPT ![u] = Lower(@, low[v])]
    /\ UNCHANGED <<edges, index>>

RingInit ==
    /\ edges \in [Nodes -> SUBSET Nodes]
    /\ index = [t \in Nodes |-> Unseen] /\ low = [t \in Nodes |-> Unseen]
    /\ stack = <<>> /\ calls = <<>> /\ found = {}

RingNext == Complete \/ \E t \in Nodes : Root(t) \/ Follow(t)
RingSpec == RingInit /\ [][RingNext]_ringVars

-----------------------------------------------------------------------------
\* The rings named to the user are the sets of outbounds that depend on each
\* other, none left out and none too large, whatever the order the config lists
\* them in; and without one (and nothing missing) sing-box starts every outbound.
RingsAreFound ==
    /\ found \subseteq Rings(edges)
    /\ calls = <<>> /\ SeenNodes = Nodes =>
            found = Rings(edges) /\ (found = {} <=> Started(edges) = Nodes)
=============================================================================
