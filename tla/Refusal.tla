-------------------------------- MODULE Refusal -------------------------------
(* One odd node must not cost the others (configfile/refusal.go): a merge the  *)
(* checks refuse is tried again without the incoming nodes to blame, until one *)
(* passes. The guard and the dependency check name the nodes they refuse;      *)
(* sing-box check names the first one, or none when it crashes.                *)
(* Names are final (unique); a node's own check sees it without its detour.    *)
EXTENDS OutboundGraph, SequencesExt, Sublists

CONSTANTS
    Incomings,  \* the incoming lists: Seq of [detour, verdict], the tag is the position
    Arounds     \* the config around them: outbound -> detour, without a problem of its own

(* A node's verdict: "ok"; refused by the "guard"; by sing-box for an unknown  *)
(* "field" (its options are decoded before any outbound is built) or as it is  *)
(* built ("odd"); "crash" of sing-box building it.                             *)
Verdicts == {"ok", "guard", "field", "odd", "crash"}

ASSUME IncomingAssumption ==
    \A list \in Incomings :
        /\ Len(list) \in Nat /\ DOMAIN list = 1..Len(list) /\ None \notin DOMAIN list
        /\ \A i \in DOMAIN list : list[i].verdict \in Verdicts
        /\ \A kept \in Arounds : DOMAIN kept \cap DOMAIN list = {}

ASSUME AroundAssumption ==
    \A kept \in Arounds :
        IsFiniteSet(DOMAIN kept) /\ Started([t \in DOMAIN kept |-> {kept[t]} \ {None}]) = DOMAIN kept

VARIABLES
    incoming, around,
    out,        \* positions left out (reasons)
    merge       \* "merging", "saved", "nothing", "refused" (the error is returned)

mergeVars == <<incoming, around, out, merge>>

Positions == DOMAIN incoming
Left == Positions \ out
Work == Only([i \in Positions |-> i], Left)

-----------------------------------------------------------------------------
(* sing-box check on a list of nodes: [ok], [named, which] or a crash *)

Passed == [says |-> "ok", at |-> 0]
Crashed == [says |-> "crash", at |-> 0]
Naming(i) == [says |-> "named", at |-> i]

First(list, verdicts) ==
    LET hits == {k \in DOMAIN list : incoming[list[k]].verdict \in verdicts}
    IN  IF hits = {} THEN 0 ELSE list[CHOOSE k \in hits : \A l \in hits : k <= l]

SingBoxCheck(list) ==
    LET field == First(list, {"field"})
        built == First(list, {"odd", "crash"})
    IN  IF field # 0 THEN Naming(field)
        ELSE IF built = 0 THEN Passed
        ELSE IF incoming[built].verdict = "odd" THEN Naming(built) ELSE Crashed

\* Nodes of one type that carry the same unknown field go together. Mutant: all
\* nodes of the type
SameType(i, named) == incoming[named].verdict = "field"
SameUnknownField(i, named) == incoming[named].verdict = "field" /\ incoming[i].verdict = "field"

Halves(list) == LET half == Len(list) \div 2 IN <<SubSeq(list, 1, half), SubSeq(list, half + 1, Len(list))>>

\* bits.Len
Bits(n) == Cardinality({b \in 0..n : 2^b <= n})

OneByOne(list) == {i \in ToSet(list) : SingBoxCheck(<<i>>).says # "ok"}

\* The nodes found, the halvings left, what sing-box said of the whole list
Result(bad, halvings, says) == [bad |-> bad, halvings |-> halvings, says |-> says]

\* One round on a list; the lists it leaves go to the rounds of isolate
Round(isolate, list, halvings) ==
    LET answer == SingBoxCheck(list)
        gone == {i \in ToSet(list) : i = answer.at \/ SameUnknownField(i, answer.at)}
        rest == isolate[Only(list, ToSet(list) \ gone)][halvings]
        left == isolate[Halves(list)[1]][halvings - 1]
        right == isolate[Halves(list)[2]][left.halvings]
        back == IF left.says = "crash" /\ right.says = "crash" THEN 0 ELSE 1
    IN  IF list = <<>> \/ answer.says = "ok" THEN Result({}, halvings, "ok")
        ELSE IF Len(list) = 1 THEN Result({Head(list)}, halvings, answer.says)
        ELSE IF answer.says = "named" THEN Result(gone \cup rest.bad, rest.halvings, "named")
        ELSE IF halvings <= 0 THEN Result(OneByOne(list), halvings, "crash")
        ELSE Result(left.bad \cup right.bad, right.halvings + back, "crash")

\* The nodes sing-box refuses
Isolate(pending, budget) ==
    LET isolate[list \in Seq(Positions)] == [halvings \in Int |-> Round(isolate, list, halvings)]
    IN  isolate[pending][budget].bad

Budget(n) == 2 * Bits(n) + 2

\* The guard first, then sing-box on the others
RefusedAlone(list) ==
    LET guarded == {i \in ToSet(list) : incoming[i].verdict = "guard"}
        pending == Only(list, ToSet(list) \ guarded)
    IN  guarded \cup Isolate(pending, Budget(Len(pending)))

-----------------------------------------------------------------------------
(* The merged config's dependencies *)

Merged(nodes) ==
    [t \in nodes \cup DOMAIN around |->
        {IF t \in Positions THEN incoming[t].detour ELSE around[t]} \ {None}]

Blamed(nodes) ==
    LET graph == Merged(nodes)
        known == [t \in DOMAIN graph |-> graph[t] \cap DOMAIN graph]
    IN  {t \in DOMAIN graph : ~(graph[t] \subseteq DOMAIN graph)} \cup UNION Rings(known)

\* With a node go the ones that dial through it
Chained(bad) ==
    LET gone[n \in 0..Len(incoming)] ==
            IF n = 0 THEN bad
            ELSE LET before == gone[n - 1]
                 IN  before \cup {i \in Positions : incoming[i].detour \in before}
    IN  gone[Len(incoming)]

-----------------------------------------------------------------------------
(* One pass: merge what is left, check, save or find whom to blame *)

Leave(bad) ==
    IF bad = {} THEN merge' = "refused" /\ UNCHANGED out
    ELSE out' = Chained(out \cup bad) /\ UNCHANGED merge

Merging == merge = "merging" /\ Left # {}

AllLeftOut ==
    /\ merge = "merging" /\ Left = {} /\ Positions # {}
    /\ merge' = "nothing"
    /\ UNCHANGED <<incoming, around, out>>

PassGuard ==
    /\ Merging
    /\ \E i \in Left : incoming[i].verdict = "guard"
    /\ \E bad \in {RefusedAlone(Work)} : Leave(bad)
    /\ UNCHANGED <<incoming, around>>

PassDependencies ==
    /\ Merging /\ ~\E i \in Left : incoming[i].verdict = "guard"
    /\ Blamed(Left) # {}
    /\ Leave(Blamed(Left) \cap Left)
    /\ UNCHANGED <<incoming, around>>

\* A whole config sing-box refuses; surroundings may be to blame
PassSingBox(surroundings) ==
    /\ Merging /\ ~\E i \in Left : incoming[i].verdict = "guard"
    /\ Blamed(Left) = {}
    /\ IF surroundings /\ \A i \in Left : incoming[i].verdict = "ok"
       THEN merge' = "saved" /\ UNCHANGED out
       ELSE \E bad \in {RefusedAlone(Work)} : Leave(bad)
    /\ UNCHANGED <<incoming, around>>

MergeInit ==
    /\ incoming \in Incomings /\ around \in Arounds
    /\ out = {} /\ merge = "merging"

MergeNext == AllLeftOut \/ PassGuard \/ PassDependencies \/ \E fine \in BOOLEAN : PassSingBox(fine)
MergeSpec == MergeInit /\ [][MergeNext]_mergeVars

-----------------------------------------------------------------------------
\* The nodes a correct outcome keeps: accepted on their own, and started by
\* sing-box beside the config and the other sound ones
Sound ==
    LET fine == {i \in Positions : incoming[i].verdict = "ok"}
    IN  Started(Merged(fine)) \cap Positions

\* One odd node costs neither the others nor the save (saveMerged): the nodes
\* saved are exactly the sound ones, in whatever pass the guard, a missing or
\* circular detour, sing-box's refusals and crashes were met; nothing is saved
\* only when none is sound.
GoodNodesAreSaved ==
    /\ merge = "saved" => Left = Sound
    /\ merge = "nothing" => Sound = {}
    /\ merge = "refused" => Left = Sound
=============================================================================
