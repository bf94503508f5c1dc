------------------------------ MODULE DPIBypass ------------------------------
(* The operations on config.json that a click starts, over the files of       *)
(* ConfigStore: the DPI bypass (dpibypass_service.go, dpibypass/docker.go)    *)
(* with its container, the switch of the server, the rollback to an archived  *)
(* version and the first config (settings_service.go). One at a time: each    *)
(* holds opMu. The restart that ends them is VPNLifecycle's.                  *)
EXTENDS ConfigStore

CONSTANTS
    Servers,
    Bypass,         \* the outbound that is the container's proxy
    Direct,         \* the outbound past the VPN
    Foreigns        \* the documents other programs write, and the user

Via == Servers \cup {Bypass, Direct}

\* rule: where the route rules send the traffic; final: where the rest goes;
\* detour: the servers dialled through the container; other: a group, a DNS
\* server, a rule set or its client names the bypass outbound; bypass: it is there
Document == [rule : Via, final : Via, detour : SUBSET Servers, other : BOOLEAN, bypass : BOOLEAN]

ASSUME DocumentAssumption ==
    /\ Docs = Document /\ Foreigns \subseteq Docs \cup {Absent}
    /\ Bypass \notin Servers \cup {Direct}

VARIABLES
    container,      \* "absent", "stopped", "running"
    todo,           \* the steps left of the operation under opMu
    target,         \* the server EnableChain has found in use
    meddled,        \* history: another program has changed config.json during the operation
    astray          \* history: it has written a reference to a bypass outbound that is missing

vars == <<storeVars, container, todo, target, meddled, astray>>

Proxies(d) == Servers \cup (IF d.bypass THEN {Bypass} ELSE {})

\* ActiveOutbound: the proxy the rules name, or route.final
Active(d) == IF d.rule \in Proxies(d) THEN d.rule ELSE d.final

\* SwitchOutbound: what goes to a proxy goes to t; route.final if nothing did
Switched(d, t) ==
    LET repointed(v) == IF v \in Proxies(d) THEN t ELSE v
    IN  [d EXCEPT !.rule = repointed(@),
                  !.final = IF d.rule \in Proxies(d) THEN repointed(@) ELSE t]

\* RouteReferences: the rules and route.final, nothing else
Routed(d) == d.rule = Bypass \/ d.final = Bypass

\* The references to the bypass outbound that sing-box does not start with when
\* it is missing. A rule that names it is none of them: sing-box starts.
Dangling(d) ==
    IF d.bypass THEN {}
    ELSE {<<"detour", s>> : s \in d.detour}
         \cup {<<w, Bypass>> : w \in {v \in {"final", "other"} :
                                        IF v = "final" THEN d.final = Bypass ELSE d.other}}

\* A save is refused for what it would add
Checked(d) == Dangling(d) \subseteq Dangling(conf)
SaveChecked(d) == Checked(d) /\ Begin(d)

-----------------------------------------------------------------------------
(* The operations begin with opMu free *)

Operation(steps) ==
    /\ phase = "idle" /\ todo = <<>>
    /\ todo' = steps
    /\ meddled' = FALSE
    /\ UNCHANGED <<container, astray>>

\* The container first: a restarted sing-box never points at a dead proxy
EnableChain ==
    /\ conf \in Docs /\ Active(conf) \in Servers
    /\ Operation(<<"start", "ensure", "detour">>)
    /\ target' = Active(conf)
    /\ UNCHANGED storeVars

DisableChain == Operation(<<"clear", "stop">>) /\ UNCHANGED <<storeVars, target>>

\* The user then switches to the bypass, an operation of its own
EnableDirect ==
    /\ conf \in Docs
    /\ Operation(<<"start", "ensure">>)
    /\ UNCHANGED <<storeVars, target>>

SwitchOutbound(t) ==
    /\ Operation(<<"save">>)
    /\ conf \in Docs /\ t \in Proxies(conf)
    /\ SaveChecked(Switched(conf, t))
    /\ UNCHANGED target

\* The user saves a section on the settings page, the outbounds or the route;
\* other references stand in both
SaveSection(d) ==
    /\ Operation(<<"save">>)
    /\ conf \in Docs
    /\ \E other \in {conf.other, d.other} :
          \/ SaveChecked([conf EXCEPT !.detour = d.detour, !.bypass = d.bypass, !.other = other])
          \/ SaveChecked([conf EXCEPT !.rule = d.rule, !.final = d.final, !.other = other])
    /\ UNCHANGED target

\* It needs a config.json that can be read, to archive it
RestoreVersion(s) ==
    /\ Operation(<<"save">>)
    /\ conf \in Docs /\ Whole(history[s])
    /\ SaveChecked(history[s])
    /\ UNCHANGED target

CreateConfig(d) ==
    /\ Operation(<<"save">>)
    /\ Dangling(d) = {}
    /\ Create(d)
    /\ UNCHANGED target

-----------------------------------------------------------------------------
(* Their steps *)

StartContainer ==
    /\ phase = "idle" /\ todo # <<>> /\ Head(todo) = "start"
    /\ container' = "running"
    /\ todo' = Tail(todo)
    /\ UNCHANGED <<storeVars, target, meddled, astray>>

\* mutant: stopped as soon as nothing detours through it
Undetoured(d) == d.detour = {}
\* DisableChain asks whether something is still routed to it
Unused(d) == ~Routed(d)

\* A container that cannot be stopped is left
StopContainer ==
    /\ phase = "idle" /\ todo # <<>> /\ Head(todo) = "stop"
    /\ conf \in Docs
    /\ \/ Unused(conf) /\ container' = IF container = "running" THEN "stopped" ELSE container
       \/ container' = container
    /\ todo' = Tail(todo)
    /\ UNCHANGED <<storeVars, target, meddled, astray>>

\* mutant: the bypass outbound is taken to be there still
AnyTarget(d) == TRUE
\* SetDetour looks for the outbound it is to refer to
HasBypass(d) == d.bypass

\* What an editor call makes of the document it reads; many errors end it
Edited(step, d) ==
    CASE step = "ensure" -> {[d EXCEPT !.bypass = TRUE]}
      [] step = "detour" -> IF HasBypass(d) THEN {[d EXCEPT !.detour = @ \cup {target}]} ELSE {}
      [] step = "clear" -> {[d EXCEPT !.detour = {}]}
      [] OTHER -> {}

\* A document that is already so is not saved
Edit ==
    /\ phase = "idle" /\ todo # <<>> /\ conf \in Docs
    /\ \E d \in Edited(Head(todo), conf) :
          IF d = conf THEN todo' = Tail(todo) /\ UNCHANGED storeVars
                      ELSE SaveChecked(d) /\ todo' = todo
    /\ UNCHANGED <<container, target, meddled, astray>>

\* A step that fails ends the operation: docker, an unreadable config.json, a
\* document the checks refuse
StepFails ==
    /\ phase = "idle" /\ todo # <<>> /\ Head(todo) # "save"
    /\ todo' = <<>>
    /\ UNCHANGED <<storeVars, container, target, meddled, astray>>

SaveStep == Files /\ UNCHANGED <<container, todo, target, meddled, astray>>

Continue == IF phase = "done" THEN Tail(todo) ELSE <<>>

Returns ==
    /\ Return
    /\ todo' = Continue
    /\ UNCHANGED <<container, target, meddled, astray>>

Dies ==
    /\ phase # "idle" \/ todo # <<>>
    /\ Crash
    /\ todo' = <<>>
    /\ UNCHANGED <<container, target, meddled, astray>>

OtherProgram(d) ==
    /\ Foreign(d)
    /\ meddled' = (todo # <<>>)
    /\ astray' = (astray \/ (d \in Docs /\ Dangling(d) # {}))
    /\ UNCHANGED <<container, todo, target>>

ClockSetBack == SetBack /\ UNCHANGED <<container, todo, target, meddled, astray>>

Init ==
    /\ StoreInit
    /\ conf \in {Absent} \cup [rule : {Direct}, final : Servers \cup {Direct},
                               detour : {{}}, other : {FALSE}, bypass : {FALSE}]
    /\ container = "absent" /\ todo = <<>> /\ target = Direct
    /\ meddled = FALSE /\ astray = FALSE

Next ==
    \/ EnableChain \/ DisableChain \/ EnableDirect
    \/ \E t \in Servers \cup {Bypass} : SwitchOutbound(t)
    \/ \E s \in DOMAIN history : RestoreVersion(s)
    \/ \E d \in Foreigns \ {Absent} : SaveSection(d) \/ CreateConfig(d)
    \/ StartContainer \/ StopContainer \/ Edit \/ StepFails
    \/ SaveStep \/ Returns \/ Dies
    \/ \E d \in Foreigns : OtherProgram(d)
    \/ ClockSetBack

Spec == Init /\ [][Next]_vars

-----------------------------------------------------------------------------
(* Properties *)

TypeOK ==
    /\ StoreTypeOK
    /\ container \in {"absent", "stopped", "running"}
    /\ todo \in Seq({"start", "stop", "ensure", "detour", "clear", "save"})
    /\ target \in Servers \cup {Direct} /\ meddled \in BOOLEAN /\ astray \in BOOLEAN

NoDangling == conf \in Docs /\ ~astray => Dangling(conf) = {}

ContainerFirst ==
    /\ (todo # <<>> /\ Head(todo) = "detour" /\ conf' # conf /\ phase' = "done")
          => container = "running"
    /\ (container = "running" /\ container' = "stopped") => conf.detour = {} /\ ~Routed(conf)

\* What config.json dials through is there. It has no reference to a bypass
\* outbound it lacks that sing-box would not start with, until another program
\* writes one: whatever sections the settings page saves, whatever is rolled back
\* to, and when another program rewrites the file between the steps of
\* EnableChain (SetDetour, checkDependencies). A route rule may name one that is
\* missing: the checks allow it and sing-box starts. And a chain is saved only
\* over a running container, which is stopped only when nothing is dialled
\* through it and neither a rule nor route.final leads to it, whichever step of
\* whichever operation fails (EnableChain, DisableChain); this part without
\* edits by other programs during the operation. Groups, DNS servers and rule
\* sets may still name it then: DisableChain does not ask them.
BypassIsServed == [][NoDangling' /\ (~meddled' => ContainerFirst)]_vars
=============================================================================
