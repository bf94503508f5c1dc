-------------------------------- MODULE Secrets -------------------------------
(* Credentials and the settings page (configfile/secrets.go, ReadSection and   *)
(* WriteSection of editor.go): the page shows the outbounds with placeholders, *)
(* and a save puts the stored values back, while refreshes and imports change  *)
(* the stored section under an open page. An outbound is its tag, the tags it  *)
(* dials through, its other parameters and one credential.                     *)
EXTENDS OutboundGraph, SequencesExt, Sublists

CONSTANTS
    Tags, Params, Values,   \* tags; parameters that are shown; credentials
    Empty, Hidden,          \* no credential; the placeholder
    Sections,               \* stored outbounds to begin with
    MaxEdits, MaxRefreshes  \* bounds: edits on the page; changes by the app

ASSUME SecretAssumption == Hidden \notin Values \cup {Empty} /\ Empty \notin Values
ASSUME BoundAssumption == MaxEdits \in Nat /\ MaxRefreshes \in Nat

VARIABLES
    stored,     \* the outbounds of config.json
    page,       \* the text in the browser
    answer,     \* of the last request: "read", "saved", "refused", none
    edits, refreshes

pageVars == <<stored, page, answer, edits, refreshes>>

Item(tag, params, via, secret) == [tag |-> tag, params |-> params, via |-> via, secret |-> secret]
Items == [tag : Tags, params : Params, via : SUBSET Tags, secret : Values \cup {Empty, Hidden}]

MaskValue(v) == IF v = Empty THEN v ELSE Hidden
Masked(list) == [i \in DOMAIN list |-> [list[i] EXCEPT !.secret = MaskValue(@)]]

Strip(item) == [tag |-> item.tag, params |-> item.params, via |-> item.via]
WithTag(list, tag) == At(list, {i \in DOMAIN list : list[i].tag = tag})
ShownAs(list, tag) == [i \in DOMAIN WithTag(list, tag) |-> Strip(WithTag(list, tag)[i])]

DialGraph(list) == [t \in {item.tag : item \in ToSet(list)} |->
                  UNION {item.via : item \in ToSet(WithTag(list, t))}]

\* mutant: only what it dials through directly
Nearest(list, tag) == OneStep(DialGraph(list), {tag})
DialsThrough(list, tag) == DependsOn(DialGraph(list), tag)

ChangedDependency(tag, list) ==
    \E t \in DialsThrough(stored, tag) : ShownAs(stored, t) # ShownAs(list, t)

\* The stored outbounds a placeholder may take its value from
Matches(item, list) ==
    {s \in ToSet(stored) : Strip(s) = Strip(item) /\ s.secret # Empty /\ ~ChangedDependency(item.tag, list)}

Restorable(list) == \A item \in ToSet(list) : item.secret = Hidden => Matches(item, list) # {}
Restored(list) ==
    [i \in DOMAIN list |->
        IF list[i].secret = Hidden THEN CHOOSE s \in Matches(list[i], list) : TRUE ELSE list[i]]

\* sing-box check refuses a tag used twice
Accepted(list) == \A i, j \in DOMAIN list : list[i].tag = list[j].tag => i = j

\* config.json as a save leaves it: no placeholder, no tag used twice
SectionAssumption ==
    \A list \in Sections : list \in Seq(Items) /\ Accepted(list) /\ \A i \in DOMAIN list : list[i].secret # Hidden
ASSUME SectionAssumption

-----------------------------------------------------------------------------
ReadSection ==
    /\ page' = Masked(stored) /\ answer' = "read"
    /\ UNCHANGED <<stored, edits, refreshes>>

WriteSection ==
    /\ page # <<>>
    /\ IF Restorable(page) /\ Accepted(page)
       THEN stored' = Restored(page) /\ answer' = "saved"
       ELSE UNCHANGED stored /\ answer' = "refused"
    /\ UNCHANGED <<page, edits, refreshes>>

EditPage ==
    /\ edits < MaxEdits /\ edits' = edits + 1
    /\ \/ \E i \in DOMAIN page, item \in Items : page' = [page EXCEPT ![i] = item]
       \/ \E i \in DOMAIN page : page' = RemoveAt(page, i)
       \/ \E item \in Items : page' = Append(page, item)
    /\ answer' = "none"
    /\ UNCHANGED <<stored, refreshes>>

\* A refresh, an import: the app replaces an outbound, adds or drops one
Refresh ==
    /\ refreshes < MaxRefreshes /\ refreshes' = refreshes + 1
    /\ \E i \in DOMAIN stored :
        \/ \E item \in Items : item.secret # Hidden /\ stored' = [stored EXCEPT ![i] = item]
        \/ stored' = RemoveAt(stored, i)
    /\ Accepted(stored')
    /\ answer' = "none"
    /\ UNCHANGED <<page, edits>>

PageInit ==
    /\ stored \in Sections /\ page = <<>> /\ answer = "none" /\ edits = 0 /\ refreshes = 0

PageNext == ReadSection \/ WriteSection \/ EditPage \/ Refresh
PageSpec == PageInit /\ [][PageNext]_pageVars

-----------------------------------------------------------------------------
KeepsSecrets ==
    /\ answer' = "saved" =>
            \A i \in DOMAIN page : page[i].secret = Hidden =>
                /\ stored'[i] \in ToSet(stored) /\ stored'[i].secret \in Values
                /\ \A t \in DependsOn(DialGraph(stored'), page[i].tag) : ShownAs(stored', t) = ShownAs(stored, t)
    /\ answer' \in {"saved", "refused"} /\ page = Masked(stored) => stored' = stored /\ answer' = "saved"

\* A credential stays with its server and its way there: when a save keeps a
\* placeholder, the outbound gets the value stored for it and for nothing else,
\* and whatever it dials through after the save, directly or through others, is
\* what it dialed through before; a page saved as it was read loses nothing,
\* and one that was overtaken by a refresh is saved with the new values or not
\* at all.
SecretStays == [][KeepsSecrets]_pageVars
=============================================================================
