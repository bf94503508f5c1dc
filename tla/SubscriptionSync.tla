-------------------------- MODULE SubscriptionSync --------------------------
(* Subscriptions (subscription_service.go, subscription/store.go) and the     *)
(* merge of their nodes into config.json (configfile: SyncOutbounds,          *)
(* AddOutbounds, merge.go), with manual imports and the restart of the VPN    *)
(* that applies a change.                                                     *)
(*                                                                            *)
(* A tag is a name and a number: <<"de", 1>> is "de", <<"de", 2>> "de (2)".   *)
(* The content of a node is a server (identityKey) and a version of its other *)
(* fields; equal contents are an equal contentKey.                            *)
EXTENDS Naturals, FiniteSets, Sequences, Functions, Sublists

CONSTANTS
    Urls,           \* the subscriptions there may be
    Names,          \* the names providers and share links use
    Contents,       \* [server, version]
    Refusable,      \* the contents the checks may refuse
    Bodies,         \* Bodies[u]: the lists the provider of u may serve
    Own,            \* the servers of the user the config begins with
    Imports,        \* the nodes the user may import by hand
    Direct,         \* the outbound past the VPN
    Down, Stale,    \* no sing-box is running; it missed a change of the config
    MaxEdits,       \* bounds the imports, switches and edits of the user
    MaxFailures     \* bounds the failures and crashes

Node == [name : Names, content : Contents]
Hand == "hand"              \* the origin of a node imported by the user

ASSUME BodiesAssumption ==
    /\ Bodies \in [Urls -> SUBSET Seq(Node)]
    /\ \A u \in Urls : \A b \in Bodies[u] :
          b # <<>> /\ \A i, j \in DOMAIN b : b[i].name = b[j].name => i = j
    /\ Refusable \subseteq Contents /\ Imports \subseteq Node
    /\ Own \in Seq(Node) /\ \A i, j \in DOMAIN Own : Own[i].name = Own[j].name => i = j
ASSUME ApartAssumption == Hand \notin Urls /\ Direct \notin Names \X Nat
ASSUME BoundsAssumption == MaxEdits \in Nat /\ MaxFailures \in Nat

VARIABLES
    outbounds, chosen,      \* config.json: its servers, the one the traffic takes
    list,                   \* subscriptions.json
    running,                \* what the running sing-box has read, or Down, or Stale
    pc, subs, todo,         \* an operation under opMu: its copy of the list, the URLs left
    changed,                \* a restart is due
    edits, failures,
    \* history
    parted                  \* the list has fallen behind the config, or the user edited it

vars == <<outbounds, chosen, list, running, pc, subs, todo, changed, edits, failures, parted>>
config == <<outbounds, chosen>>

Tags(s) == {s[i].tag : i \in DOMAIN s}
Tagged(s, tags) == Only(s, {x \in Range(s) : x.tag \in tags})
Untagged(s, tags) == Only(s, {x \in Range(s) : x.tag \notin tags})
Owned(s) == UNION {s[i].tags : i \in DOMAIN s}
Known(s, u) == \E i \in DOMAIN s : s[i].url = u
ContentOf(s, t) == IF t \in Tags(s) THEN (CHOOSE o \in Range(s) : o.tag = t).content ELSE Direct

\* What a sing-box that reads this config works with: it never asks for a tag
Image(out, c) == [nodes |-> [i \in DOMAIN out |-> out[i].content], uses |-> ContentOf(out, c)]

-----------------------------------------------------------------------------
(* The merge *)

\* mutant: protected names are not looked at
SuffixNone(nodes, protected) ==
    [i \in DOMAIN nodes |->
       [tag |-> <<nodes[i].name, 1>>, content |-> nodes[i].content, origin |-> nodes[i].origin,
        fits |-> nodes[i].fits]]

\* A protected name gets the first free number
SuffixTaken(nodes, protected) ==
    [i \in DOMAIN nodes |->
       [tag |-> <<nodes[i].name,
                  CHOOSE k \in 1 .. Cardinality(protected) + 1 :
                     /\ <<nodes[i].name, k>> \notin protected
                     /\ \A m \in 1 .. k - 1 : <<nodes[i].name, m>> \in protected>>,
        content |-> nodes[i].content, origin |-> nodes[i].origin, fits |-> nodes[i].fits]]

Rank(s, i) == Cardinality({j \in 1 .. i : s[j].content = s[i].content})

SameContent(dropped, appearing) ==
    {p \in (DOMAIN dropped) \X (DOMAIN appearing) :
        /\ dropped[p[1]].content = appearing[p[2]].content
        /\ Rank(dropped, p[1]) = Rank(appearing, p[2])}

TagPairs(pairs, dropped, appearing) == {<<dropped[p[1]].tag, appearing[p[2]].tag>> : p \in pairs}

\* mutant: only nodes equal but for the tag are recognised
PairSameContent(dropped, appearing) ==
    TagPairs(SameContent(dropped, appearing), dropped, appearing)

\* The nodes that reappear under a new tag: pairs <<old tag, new tag>>, first
\* those of the same content, in order, then those of the same server where
\* that is unique on both sides
PairRenamed(dropped, appearing) ==
    LET same  == SameContent(dropped, appearing)
        restD == DOMAIN dropped \ {p[1] : p \in same}
        restA == DOMAIN appearing \ {p[2] : p \in same}
        Of(s, rest, srv) == {i \in rest : s[i].content.server = srv}
        moved == {p \in restD \X restA :
                    LET srv == dropped[p[1]].content.server
                    IN Of(dropped, restD, srv) = {p[1]} /\ Of(appearing, restA, srv) = {p[2]}}
    IN TagPairs(same \cup moved, dropped, appearing)

Renamed(renames, t) ==
    IF \E p \in renames : p[1] = t THEN (CHOOSE p \in renames : p[1] = t)[2] ELSE t

Upsert(out, incoming) ==
    [i \in DOMAIN out |->
       IF out[i].tag \in Tags(incoming)
       THEN LET n == CHOOSE n \in Range(incoming) : n.tag = out[i].tag
            IN [out[i] EXCEPT !.content = n.content, !.origin = n.origin]
       ELSE out[i]]
    \o LET fresh == Untagged(incoming, Tags(out))
       IN [i \in DOMAIN fresh |->
             [tag |-> fresh[i].tag, content |-> fresh[i].content, origin |-> fresh[i].origin]]

\* mutant: the reference to a removed node is left alone
PruneNothing(c, removed, incoming, out) == c

\* References to a removed node: the first new one, else any that is left
Prune(c, removed, incoming, out) ==
    IF c \notin removed THEN c
    ELSE IF incoming # <<>> THEN incoming[1].tag
    ELSE IF out # <<>> THEN out[1].tag
    ELSE Direct

\* The owned nodes whose update the checks refuse: they stay, and stay owned
Held(mine, refused, unpaired) ==
    LET new == Untagged(refused, mine)
    IN (Tags(refused) \cap mine) \cup {p[1] : p \in PairRenamed(unpaired, new)}

\* mutant: a held node is not owned any more
OnlyIncoming(incoming, held) == Tags(incoming)
OwnedNow(incoming, held) == Tags(incoming) \cup held

\* mutant: every refresh restarts
Always(before, c, out, c2) == TRUE

\* Nothing but new names: the running sing-box works the same
NeedsRestart(before, c, out, c2) == <<before, c>> # <<out, c2>>

\* The config rewritten: the new names, without the removed, with the incoming
Rewrite(out, c, incoming, renames, held, removed) ==
    LET before  == [i \in DOMAIN out |-> [out[i] EXCEPT !.tag = Renamed(renames, @)]]
        follows == Renamed(renames, c)
        merged  == Upsert(Untagged(before, removed), incoming)
        c2      == Prune(follows, removed, incoming, merged)
    IN [ok |-> TRUE, outbounds |-> merged, chosen |-> c2, tags |-> OwnedNow(incoming, held),
        restart |-> NeedsRestart(before, follows, merged, c2)]

\* What becomes of the owned nodes that are not served any more, or refused:
\* renamed, held as they are, or removed
Reconcile(out, c, mine, incoming, refused) ==
    LET dropped  == Tagged(out, mine \ Tags(incoming))
        open     == Untagged(dropped, Tags(refused))
        renames  == PairRenamed(open, Untagged(incoming, Tags(out)))
        unpaired == Untagged(open, {p[1] : p \in renames})
        held     == Held(mine, refused, unpaired)
    IN Rewrite(out, c, incoming, renames, held, Tags(unpaired) \ held)

\* What SyncOutbounds makes of a config. nodes carry their origin, and fits:
\* whether the checks accept them.
SyncMerge(out, c, ownedTags, nodes) ==
    LET mine     == ownedTags \cap Tags(out)
        named    == SuffixTaken(nodes, Tags(out) \ mine)
        incoming == Only(named, {n \in Range(named) : n.fits})
        refused  == Only(named, {n \in Range(named) : ~n.fits})
    IN IF nodes # <<>> /\ incoming = <<>>
       THEN [ok |-> FALSE, outbounds |-> out, chosen |-> c, tags |-> ownedTags, restart |-> FALSE]
       ELSE Reconcile(out, c, mine, incoming, refused)

\* The checks refuse some of the nodes that may be refused
Verdicts(b) == SUBSET {i \in DOMAIN b : b[i].content \in Refusable}

\* A list as it comes from a provider or the clipboard, and which nodes fit
Judged(b, origin, bad) ==
    [i \in DOMAIN b |-> [name |-> b[i].name, content |-> b[i].content, origin |-> origin,
                         fits |-> i \notin bad]]

Edit == edits < MaxEdits /\ edits' = edits + 1
Fail == failures < MaxFailures /\ failures' = failures + 1

-----------------------------------------------------------------------------
(* Operations, one at a time under opMu *)

\* Add, Update, UpdateAll: read the list
Load(copy, urls) ==
    /\ pc = "idle" /\ urls # {}
    /\ pc' = "refresh"
    /\ subs' = copy
    /\ todo' = urls
    /\ changed' = FALSE
    /\ UNCHANGED <<config, list, running, edits, failures, parted>>

\* mutant: a URL that is known is added again
AddedAgain(u) == Append(list, [url |-> u, tags |-> {}])
With(u) == IF Known(list, u) THEN list ELSE Append(list, [url |-> u, tags |-> {}])

Add(u) == Load(With(u), {u})
Update(u) == Known(list, u) /\ Load(list, {u})
UpdateAll == Load(list, {list[i].url : i \in DOMAIN list})

\* refresh: the next subscription of the list that is to be refreshed
Turn == CHOOSE i \in DOMAIN subs :
            subs[i].url \in todo /\ \A j \in 1 .. i - 1 : subs[j].url \notin todo

\* mutant: the last subscription decides about the restart
LastDecides(old, new) == new
Accumulate(old, new) == old \/ new

\* refreshOne that saves nothing: no download, an unreadable body, only info
\* entries, or the config could not be changed
RefreshFails ==
    /\ pc = "refresh" /\ todo # {}
    /\ todo' = todo \ {subs[Turn].url}
    /\ UNCHANGED <<config, list, running, pc, subs, changed, edits, failures, parted>>

\* refreshOne that reaches the config; the checks may refuse any of the nodes
Refresh ==
    /\ pc = "refresh" /\ todo # {}
    /\ LET u == subs[Turn].url
       IN \E b \in Bodies[u] : \E bad \in Verdicts(b) :
          \E m \in {SyncMerge(outbounds, chosen, subs[Turn].tags, Judged(b, u, bad))} :
             /\ outbounds' = m.outbounds
             /\ chosen' = m.chosen
             /\ subs' = [subs EXCEPT ![Turn].tags = m.tags]
             /\ changed' = Accumulate(changed, m.restart)
             /\ todo' = todo \ {u}
    /\ UNCHANGED <<list, running, pc, edits, failures, parted>>

\* Remove: the nodes first, then the subscription
RemoveUrl(u) ==
    /\ pc = "idle" /\ Known(list, u)
    /\ \E s \in {x \in Range(list) : x.url = u} :
       \E m \in {SyncMerge(outbounds, chosen, s.tags, <<>>)} :
          /\ outbounds' = m.outbounds
          /\ chosen' = m.chosen
          /\ changed' = m.restart
          /\ subs' = Only(list, {x \in Range(list) : x.url # u})
    /\ pc' = "refresh" /\ todo' = {}
    /\ UNCHANGED <<list, running, edits, failures, parted>>

Done == pc' = "idle" /\ subs' = <<>> /\ todo' = {} /\ changed' = FALSE

\* RestartIfRunning when a restart is due: it applies the config, or fails, or
\* the application ends before it; sing-box survives that
Apply(due) ==
    \/ /\ running' = IF due /\ running # Down THEN Image(outbounds', chosen') ELSE running
       /\ UNCHANGED failures
    \/ /\ due /\ running # Down /\ Fail
       /\ running' \in {Stale, Down}

Save ==
    /\ pc = "refresh" /\ todo = {}
    /\ list' = subs
    /\ UNCHANGED <<config, edits, parted>>
    /\ Apply(changed)
    /\ Done

\* The list cannot be saved and the operation returns before the restart, or
\* the application ends inside the operation
Interrupted ==
    /\ pc = "refresh" /\ Fail
    /\ parted' = (parted \/ subs # list)
    /\ running' = IF changed /\ running # Down THEN Stale ELSE running
    /\ Done
    /\ UNCHANGED <<config, list, edits>>

Reserved == Owned(list)

\* ImportFromText: AddOutbounds with the nodes of the subscriptions reserved
Import(n) ==
    /\ pc = "idle" /\ Edit
    /\ outbounds' = Upsert(outbounds, SuffixTaken(Judged(<<n>>, Hand, {}), Reserved))
    /\ UNCHANGED <<chosen, list, pc, subs, todo, changed, parted>>
    /\ Apply(outbounds' # outbounds)

-----------------------------------------------------------------------------
(* The user and the machine *)

\* SwitchOutbound
Switch(t) ==
    /\ pc = "idle" /\ Edit /\ t # chosen
    /\ chosen' = t
    /\ UNCHANGED <<outbounds, list, pc, subs, todo, changed, parted>>
    /\ Apply(TRUE)

\* WriteSection: the user deletes a server on the settings page
Delete(t) ==
    /\ pc = "idle" /\ Edit /\ t # chosen
    /\ outbounds' = Untagged(outbounds, {t})
    /\ parted' = (parted \/ t \in Owned(list))
    /\ UNCHANGED <<chosen, list, pc, subs, todo, changed>>
    /\ Apply(TRUE)

\* Start reads the config as it is
Start ==
    /\ running = Down
    /\ running' = Image(outbounds, chosen)
    /\ UNCHANGED <<config, list, pc, subs, todo, changed, edits, failures, parted>>
Stop ==
    /\ running # Down
    /\ running' = Down
    /\ UNCHANGED <<config, list, pc, subs, todo, changed, edits, failures, parted>>

Init ==
    /\ outbounds = Upsert(<<>>, SuffixTaken(Judged(Own, Hand, {}), {}))
    /\ chosen = Direct /\ list = <<>> /\ running = Down
    /\ pc = "idle" /\ subs = <<>> /\ todo = {} /\ changed = FALSE
    /\ edits = 0 /\ failures = 0 /\ parted = FALSE

Next ==
    \/ \E u \in Urls : Add(u) \/ Update(u) \/ RemoveUrl(u)
    \/ UpdateAll \/ Refresh \/ RefreshFails \/ Save \/ Interrupted \/ Start \/ Stop
    \/ \E n \in Imports : Import(n)
    \/ \E t \in Tags(outbounds) : Switch(t) \/ Delete(t)

Spec == Init /\ [][Next]_vars

-----------------------------------------------------------------------------
(* Properties *)

AllTags == Names \X (Nat \ {0})
NodeIn == [tag : AllTags, content : Contents, origin : Urls \cup {Hand}]

TypeOK ==
    /\ outbounds \in Seq(NodeIn) /\ chosen \in AllTags \cup {Direct}
    /\ list \in Seq([url : Urls, tags : SUBSET AllTags])
    /\ subs \in Seq([url : Urls, tags : SUBSET AllTags]) /\ todo \subseteq Urls
    /\ pc \in {"idle", "refresh"} /\ changed \in BOOLEAN
    /\ parted \in BOOLEAN
    /\ \A i, j \in DOMAIN list : list[i].url = list[j].url => i = j

\* No subscription operation replaces, renames or deletes a server the user
\* has imported, whatever names the provider uses and however far the list is
\* behind the config after a crash (merge.go suffixTaken, importReplaceable).
UserNodesSpared ==
    []["refresh" \in {pc, pc'} =>
          \A o \in Range(outbounds) : o.origin = Hand => o \in Range(outbounds')]_vars

\* After any chain of refreshes, renames, refusals, imports and removals every
\* tag is the tag of one node, and the traffic is sent to a node that exists:
\* sing-box does not start otherwise (merge.go pruneOutboundReferences). Between
\* operations the list and the config agree on who owns which node, unless a
\* save of the list has failed, the application died inside an operation or the
\* user deleted a node of a subscription: no node is left behind by its
\* subscription, none is claimed by two (refreshOne, Remove).
ListMatchesConfig ==
    /\ Cardinality(Tags(outbounds)) = Len(outbounds)
    /\ chosen \in Tags(outbounds) \cup {Direct}
    /\ pc = "idle" /\ ~parted =>
          /\ {o.origin : o \in Range(outbounds)} \ {Hand} \subseteq {s.url : s \in Range(list)}
          /\ \A s \in Range(list) :
                s.tags = {o.tag : o \in {x \in Range(outbounds) : x.origin = s.url}}

\* The traffic follows the chosen server to its new name, also when other
\* fields of it have changed at the same time (merge.go pairRenamed).
ChoiceFollowsServer ==
    [][("refresh" \in {pc, pc'} /\ chosen \in Tags(outbounds) \ Tags(outbounds')) =>
          LET srv   == ContentOf(outbounds, chosen).server
              Of(s) == {o \in Range(s) : o.content.server = srv}
              new   == {o \in Of(outbounds') : o.tag \notin Tags(outbounds)}
          IN Cardinality(Of(outbounds)) = 1 /\ Cardinality(new) = 1
             => ContentOf(outbounds', chosen').server = srv]_vars

\* Between operations a running sing-box works with the saved config, unless
\* applying a change failed: the restarts that are skipped (nothing but new
\* names, a subscription that changed nothing) were not needed (refresh).
RunsWhatIsSaved ==
    pc = "idle" /\ running \notin {Down, Stale} => running = Image(outbounds, chosen)

\* The same list refreshed again changes nothing: the numbers of taken names
\* are stable, refused nodes stay held (merge.go suffixTaken). Asked while
\* sing-box is down, which it can be with any config.
RefreshIsStable ==
    pc = "idle" /\ running = Down =>
        \A s \in Range(list) : \A b \in Bodies[s.url] : \A bad \in Verdicts(b) :
            LET nodes == Judged(b, s.url, bad)
                m == SyncMerge(outbounds, chosen, s.tags, nodes)
            IN SyncMerge(m.outbounds, m.chosen, m.tags, nodes) = [m EXCEPT !.restart = FALSE]

\* "keeps the active server when it survived": under whatever name
ActiveServerKept ==
    [][("refresh" \in {pc, pc'} /\ chosen \in Tags(outbounds) \ Tags(outbounds')) =>
          LET srv == ContentOf(outbounds, chosen).server
          IN (\E o \in Range(outbounds') : o.content.server = srv)
             => ContentOf(outbounds', chosen').server = srv]_vars
=============================================================================
