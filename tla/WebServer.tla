------------------------------- MODULE WebServer ------------------------------
(* The settings server (webui/server.go): login codes traded for sessions, the *)
(* sessions' end, and the way of a request: session, body, service, opMu,      *)
(* answer. Pages send requests, any program of the user may present a login    *)
(* link, the tray holds opMu for operations of its own.                        *)
(* Secrets are numbered in the order they are drawn: they never repeat.        *)
EXTENDS Integers, SequencesExt, Sublists

CONSTANTS
    Requests,       \* requests under way at once
    Asked,          \* the endpoints asked for, of Endpoints
    Missing,         \* endpoints whose service is nil in this build
    Subs, NoSub,    \* subscriptions, by ID; no ID
    MaxPending, MaxSessions,        \* maxPendingCodes, maxSessions
    CodeLife, IdleLife, SessionLife,\* config.WebLoginCodeSeconds, WebSessionIdleMinutes, WebSessionMaxHours
    MaxCodes, MaxLogins,            \* bounds: codes issued, sessions opened
    Tray, Nobody

ASSUME LimitAssumption ==
    /\ {MaxPending, MaxSessions, CodeLife, IdleLife, SessionLife} \subseteq Nat \ {0}
    /\ MaxCodes \in Nat /\ MaxLogins \in Nat
ASSUME SubAssumption == NoSub \notin Subs
ASSUME HolderAssumption == Nobody \notin Requests \cup {Tray} /\ Tray \notin Requests

VARIABLES
    up,         \* Server.base is set: the listener runs
    codes,      \* pending login codes, oldest first
    codeAge,    \* every issued code's age, CodeLife once it is over
    sessions,   \* live sessions by lastSeen, the one idle longest first
    logins,     \* sessions opened so far
    opMu,       \* holder of the lock shared with the tray
    list,       \* the saved subscriptions
    req,        \* each request's local state
    presented   \* history: the codes a login was asked with, and those asked with twice

webVars == <<up, codes, codeAge, sessions, logins, opMu, list, req, presented>>
access == <<up, codes, codeAge, sessions, logins, presented>>

Issued == DOMAIN codeAge
Drawn == 1..logins

(* The endpoints, by what their handlers do *)
Reads == {"session", "config", "logs", "history", "dpi", "subscriptions"}
VPNSwitch == {"vpn"}
ConfigEdits == {"section", "create", "switch"}
Updates == {"update", "app-update"}
Restores == {"restore"}
BypassSwitches == {"chain", "direct"}
ByID == {"sub-update", "sub-remove"}
Additions == {"sub-add", "import"}
Locked == ConfigEdits \cup Updates \cup Restores \cup BypassSwitches \cup ByID \cup Additions
Endpoints == Reads \cup VPNSwitch \cup Locked

ASSUME EndpointAssumption == Asked \subseteq Endpoints /\ Missing \subseteq Endpoints

\* The subscription a request may name: Locked handlers of its own list only
Names(to) == IF to \in ByID \cup Additions THEN Subs \cup (IF to = "sub-remove" THEN {} ELSE {NoSub})
             ELSE {NoSub}

Free == [at |-> "free", to |-> "session", sub |-> NoSub]

-----------------------------------------------------------------------------
(* Codes and sessions, under Server.mu *)

Pruned(cs) == Only(cs, {c \in Issued : codeAge[c] < CodeLife})
Kept(ss) == Only(ss, {s \in ToSet(ss) : s.idle < IdleLife /\ s.age < SessionLife})

Without(ss, id) == Only(ss, {s \in ToSet(ss) : s.id # id})
Ids(ss) == {s.id : s \in ToSet(ss)}

\* The session idle longest makes room
Evicted(ss) == IF Len(ss) < MaxSessions THEN ss ELSE Tail(ss)

AddSession(ss, code) ==
    Append(Evicted(ss), [id |-> logins + 1, code |-> code, age |-> 0, idle |-> 0])

\* mutant: the new code goes when too many wait
OldestKept(cs, c) == IF Len(cs) < MaxPending THEN Append(cs, c) ELSE cs
Queued(cs, c) == Append(IF Len(cs) < MaxPending THEN cs ELSE Tail(cs), c)

\* The listener is started once; a failure to listen ends the call
Open ==
    /\ Len(codeAge) < MaxCodes
    /\ up' = TRUE
    /\ codes' = Queued(Pruned(codes), Len(codeAge) + 1)
    /\ codeAge' = Append(codeAge, 0)
    /\ sessions' = Kept(sessions)
    /\ UNCHANGED <<logins, opMu, list, req, presented>>

Shown(code) ==
    presented' = [once |-> presented.once \cup {code},
                  again |-> presented.again \cup ({code} \cap presented.once)]

OpensWith(code) ==
    /\ codes' = Only(Pruned(codes), Issued \ {code})
    /\ sessions' = AddSession(Kept(sessions), code)
    /\ logins' = logins + 1

\* mutant: a used code is only refused
JustRefused(ss, code) == ss
Closed(ss, code) == Only(ss, {s \in ToSet(ss) : s.code # code})

\* A speculative load changes nothing and is no presentation
Login(code) ==
    /\ up /\ code \in Issued
    /\ IF Contains(Pruned(codes), code)
       THEN logins < MaxLogins /\ OpensWith(code)
       ELSE /\ codes' = Pruned(codes)
            /\ sessions' = Closed(Kept(sessions), code) /\ UNCHANGED logins
    /\ Shown(code)
    /\ UNCHANGED <<up, codeAge, opMu, list, req>>

Logout(id) ==
    /\ id \in Ids(sessions)
    /\ sessions' = Without(sessions, id)
    /\ UNCHANGED <<up, codes, codeAge, logins, opMu, list, req, presented>>

Older(n, limit) == IF n < limit THEN n + 1 ELSE limit

Tick ==
    /\ codeAge' = [c \in Issued |-> Older(codeAge[c], CodeLife)]
    /\ sessions' = [i \in DOMAIN sessions |->
                      [sessions[i] EXCEPT !.age = Older(@, SessionLife), !.idle = Older(@, IdleLife)]]
    /\ UNCHANGED <<up, codes, logins, opMu, list, req, presented>>

-----------------------------------------------------------------------------
(* A request *)

Touched(ss, id) ==
    LET old == ss[CHOOSE i \in DOMAIN ss : ss[i].id = id]
    IN  Append(Without(ss, id), [old EXCEPT !.idle = 0])

\* 401 without a live session; the body and the service are looked at next
Arrive(r, id, to, sub) ==
    /\ up /\ req[r].at = "free" /\ id \in Drawn
    /\ sub \in Names(to)
    /\ codes' = Pruned(codes)
    /\ IF id \in Ids(Kept(sessions))
       THEN /\ sessions' = Touched(Kept(sessions), id)
            /\ req' = [req EXCEPT ![r] = [at |-> "authorised", to |-> to, sub |-> sub]]
       ELSE /\ sessions' = Kept(sessions)
            /\ UNCHANGED req
    /\ UNCHANGED <<up, codeAge, logins, opMu, list, presented>>

Done(r) == req' = [req EXCEPT ![r] = Free]
Goes(r, at) == req' = [req EXCEPT ![r].at = at]

\* An unreadable body, a service that is nil, a value the handler refuses
Reject(r) ==
    /\ req[r].at = "authorised" /\ req[r].to \notin {"session", "config", "logs"}
    /\ Done(r)
    /\ UNCHANGED <<access, opMu, list>>

Read(r) ==
    /\ req[r].at = "authorised" /\ req[r].to \in Reads \ Missing
    /\ Done(r)
    /\ UNCHANGED <<access, opMu, list>>

SetVPN(r) ==
    /\ req[r].at = "authorised" /\ req[r].to \in VPNSwitch
    /\ Done(r)
    /\ UNCHANGED <<access, opMu, list>>

Lock(r) ==
    /\ req[r].at = "authorised" /\ req[r].to \in Locked \ Missing
    /\ opMu = Nobody /\ opMu' = r
    /\ Goes(r, "locked")
    /\ UNCHANGED <<access, list>>

\* mutant: the lock is left before the service is called
Released(r) == Nobody
Held(r) == r

\* No ID asks for all of them
LookUp(r) ==
    /\ req[r].at = "locked" /\ req[r].to \in ByID /\ req[r].sub # NoSub
    /\ IF req[r].sub \in list
       THEN Goes(r, "serving") /\ opMu' = Held(r)
       ELSE Done(r) /\ opMu' = Nobody
    /\ UNCHANGED <<access, list>>

Serve(r) ==
    /\ req[r].at = "locked"
    /\ req[r].to \notin ByID \/ (req[r].to = "sub-update" /\ req[r].sub = NoSub)
    /\ Goes(r, "serving")
    /\ UNCHANGED <<access, opMu, list>>

\* The service's own errors leave the list as it is
Answer(r) ==
    /\ req[r].at = "serving"
    /\ opMu' = Nobody
    /\ \/ req[r].to \in Additions /\ req[r].sub # NoSub /\ list' = list \cup {req[r].sub}
       \/ req[r].to = "sub-remove" /\ list' = list \ {req[r].sub}
       \/ UNCHANGED list
    /\ Done(r)
    /\ UNCHANGED access

(* The tray's operations: an import of a subscription's URL, an update *)
TrayLocks ==
    /\ opMu = Nobody /\ opMu' = Tray
    /\ UNCHANGED <<access, list, req>>

TrayDone ==
    /\ opMu = Tray /\ opMu' = Nobody
    /\ \E add \in SUBSET Subs : list' = list \cup add
    /\ UNCHANGED <<access, req>>

-----------------------------------------------------------------------------
WebInit ==
    /\ up = FALSE /\ codes = <<>> /\ codeAge = <<>> /\ sessions = <<>> /\ logins = 0
    /\ opMu = Nobody /\ list \in SUBSET Subs
    /\ req = [r \in Requests |-> Free]
    /\ presented = [once |-> {}, again |-> {}]

Handled(r) == Read(r) \/ SetVPN(r)
LockedStep(r) == Lock(r) \/ LookUp(r) \/ Serve(r) \/ Answer(r)

WebNext ==
    \/ Open \/ Tick \/ TrayLocks \/ TrayDone
    \/ \E c \in 1..MaxCodes : Login(c)
    \/ \E id \in 1..MaxLogins : Logout(id)
    \/ \E r \in Requests :
        \/ \E id \in 1..MaxLogins, to \in Asked, sub \in Subs \cup {NoSub} : Arrive(r, id, to, sub)
        \/ Reject(r) \/ Handled(r) \/ LockedStep(r)

WebSpec == WebInit /\ [][WebNext]_webVars

-----------------------------------------------------------------------------
WebTypeOK ==
    /\ up \in BOOLEAN /\ codes \in Seq(Issued) /\ codeAge \in Seq(0..CodeLife)
    /\ sessions \in Seq([id : Drawn, code : Issued, age : 0..SessionLife, idle : 0..IdleLife])
    /\ logins \in 0..MaxLogins /\ opMu \in Requests \cup {Tray, Nobody} /\ list \subseteq Subs
    /\ req \in [Requests -> [at : {"free", "authorised", "locked", "serving"},
                             to : Endpoints, sub : Subs \cup {NoSub}]]
    /\ presented.once \subseteq Issued /\ presented.again \subseteq presented.once

CodeOpensOnce ==
    /\ \A i, j \in DOMAIN sessions : sessions[i].code = sessions[j].code => i = j
    /\ \A i \in DOMAIN sessions : sessions[i].code \notin presented.again

NewestCodesWork ==
    \A c \in Issued : (c > Len(codeAge) - MaxPending /\ codeAge[c] < CodeLife /\ c \notin presented.once)
                        => Contains(codes, c)

\* A login link opens one session, and none that it opened is alive once the
\* link was presented a second time (handleLogin's replay rule); however often
\* "Settings" is clicked, the last links work: one of the last maxPendingCodes
\* that is not over and that nobody presented waits for its use.
LoginLinks == CodeOpensOnce /\ NewestCodesWork

\* The subscription an operation found by its ID is still saved when the service
\* is called with it ("the list cannot change between this lookup and the
\* operation", subscriptionURL), whatever the tray and other pages do.
LookupHolds ==
    \A r \in Requests : (req[r].at = "serving" /\ req[r].to \in ByID /\ req[r].sub # NoSub)
                           => req[r].sub \in list
=============================================================================
