---------------------------- MODULE LatencyService ----------------------------
(* "Check the delays" and "select the fastest" (latency_service.go,           *)
(* fastest.go): one check at a time, measured without opMu, its report kept   *)
(* and decided on again while recent, the routing read and the switch made    *)
(* under opMu. Beside it: the other operations that hold opMu, the page that  *)
(* goes away, and RequestQuit of application.go.                              *)
(* Times are ages that stop at the longest one the code compares with.        *)
EXTENDS Integers, FiniteSets

CONSTANTS
    Tray, Pages,    \* goroutines that ask: of the tray item, of page requests
    Tags,           \* servers, numbered in the order of the config
    Eligible,       \* the ones "select the fastest" may choose
    Delays,         \* milliseconds a server may answer in
    KeepMargin(_),  \* how much slower than the best the current server may be and stay
    Interval,       \* LatencyMinIntervalSeconds
    Reuse,          \* FastestConfirmSeconds
    Routings,       \* where the routing may send the traffic, see Routing
    Nobody

Callers == Tray \cup Pages
NoTag == 0
NoAnswer == 0
Missing == [t \in {NoTag} |-> NoAnswer]     \* no report

Kinds == {"none", "node", "selector", "partial", "urltest", "endpoint", "split"}
Routing == [kind : Kinds, tag : Tags \cup {NoTag}]
Node(t) == [kind |-> "node", tag |-> t]

ASSUME DelayAssumption ==
    /\ Tags \subseteq Nat \ {NoTag} /\ Eligible \subseteq Tags
    /\ Delays \subseteq Nat \ {NoAnswer} /\ \A d \in Delays : KeepMargin(d) \in Nat
ASSUME TimeAssumption == Interval \in Nat \ {0} /\ Reuse \in Nat
ASSUME CallerAssumption ==
    /\ Nobody \notin Callers \cup {"other", "quit"} /\ Tray \cap Pages = {}
    /\ Callers \cap {"other", "quit"} = {}
ASSUME RoutingAssumption ==     \* a group or an endpoint is no server that is measured
    Routings \subseteq {rt \in Routing : rt.kind # "node" => rt.tag = NoTag}

VARIABLES
    servers, routing,   \* config.json: the servers that can be measured, RoutingTarget
    opLock, other,      \* opMu: its holder; another operation under it
    flight, cancel,     \* the flight lock's holder; whose context Cancel ends
    last, lastEnded, stale, \* LatencyService.last and what is known of it
    ended, tested,      \* since the last test instance ended, since last was made
    run,                \* each caller's local state
    quit,               \* RequestQuit: "no", "asked", "held" (opMu, until the exit)
    rested, gone, underway  \* history: since an instance ended; switches last sent to
                            \* a server gone; the checks under way when the user quit

config == <<servers, routing>>
report_ == <<last, lastEnded, stale, tested>>
locks == <<opLock, other, flight, cancel>>
history == <<rested, gone, underway>>
vars == <<config, locks, report_, ended, run, quit, history>>

Idle == [at |-> "idle", asks |-> "test", over |-> FALSE, plan |-> {},
         report |-> Missing, target |-> NoTag]
Lesser(m, n) == IF m < n THEN m ELSE n

-----------------------------------------------------------------------------
(* The decision: ChooseFastest *)

Answered(r) == {t \in DOMAIN r \ {NoTag} : r[t] # NoAnswer}
Candidates(r) == Answered(r) \cap Eligible
Best(r) == CHOOSE t \in Candidates(r) : \A u \in Candidates(r) \ {t} : r[t] < r[u] \/ (r[t] = r[u] /\ t < u)
Refused(rt) == rt.kind \in {"urltest", "endpoint", "split", "partial"}

\* The current server is good enough: no restart for a few milliseconds
Kept(r, rt) ==
    /\ rt.kind = "node" /\ rt.tag \in Candidates(r)
    /\ r[rt.tag] <= r[Best(r)] + KeepMargin(r[Best(r)])

Switches(r, rt, confirmed) ==
    /\ ~Refused(rt) /\ Candidates(r) # {} /\ ~Kept(r, rt)
    /\ rt.kind = "selector" => confirmed

-----------------------------------------------------------------------------
(* A check *)

Goes(c, to) == run' = [run EXCEPT ![c].at = to]

\* A second check is refused at once (ErrLatencyBusy)
Ask(c, asks) ==
    /\ run[c].at = "idle" /\ flight = Nobody
    /\ c \in Tray => asks = "fastest"
    /\ flight' = c
    /\ run' = [run EXCEPT ![c] = [Idle EXCEPT !.at = "flying", !.asks = asks]]
    /\ UNCHANGED <<config, opLock, other, cancel, report_, ended, quit, history>>

\* mutant: only a check that measures can be cancelled
IfMeasured(c) == IF last = Missing \/ stale THEN c ELSE cancel
Registered(c) == c

Cancellable(c) ==
    /\ run[c].at = "flying"
    /\ cancel' = Registered(c)
    /\ Goes(c, "checking")
    /\ UNCHANGED <<config, opLock, other, flight, report_, ended, quit, history>>

Recent(confirmed) ==
    /\ last # Missing /\ ~stale
    /\ \/ lastEnded /\ ended < Interval
       \/ confirmed /\ tested <= Reuse

UseRecent(c) ==
    /\ run[c].at = "checking" /\ run[c].asks # "test" /\ Recent(run[c].asks = "confirm")
    /\ run' = [run EXCEPT ![c].at = "deciding", ![c].report = last]
    /\ UNCHANGED <<config, locks, report_, ended, quit, history>>

Keep(r, measured) ==
    /\ last' = r /\ lastEnded' = measured /\ stale' = FALSE /\ tested' = 0
    /\ gone' = 0

Reported(c, r) ==
    run' = [run EXCEPT ![c].at = IF run[c].asks = "test" THEN "leaving" ELSE "deciding",
                       ![c].report = r]

Measures(c) ==
    /\ run[c].at = "checking"
    /\ run[c].asks = "test" \/ ~Recent(run[c].asks = "confirm")

\* config.json cannot be read, or the last test instance ended just now
CheckRefused(c) ==
    /\ Measures(c) /\ Goes(c, "leaving")
    /\ UNCHANGED <<config, locks, report_, ended, quit, history>>

\* No server to measure: a report, and no test instance
NothingToMeasure(c) ==
    /\ Measures(c) /\ servers = {}
    /\ Keep(<<>>, FALSE) /\ Reported(c, <<>>)
    /\ UNCHANGED <<config, locks, ended, quit, rested, underway>>

StartInstance(c) ==
    /\ Measures(c) /\ servers # {} /\ ended >= Interval
    /\ run' = [run EXCEPT ![c].at = "measuring", ![c].plan = servers]
    /\ UNCHANGED <<config, locks, report_, ended, quit, history>>

\* mutant: only a check that made its report counts for the interval
AfterReport(ok) == IF ok THEN 0 ELSE ended
\* Every test instance connected to every server, whatever came of it
EndedAt(ok) == 0

InstanceEnds(c) ==
    /\ run[c].at = "measuring" /\ rested' = 0
    /\ UNCHANGED <<config, locks, quit, underway>>

\* Cancelled, out of time, or the test instance did not start
CheckFails(c) ==
    /\ InstanceEnds(c)
    /\ ended' = EndedAt(FALSE) /\ lastEnded' = FALSE
    /\ Goes(c, "leaving")
    /\ UNCHANGED <<last, stale, tested, gone>>

Measured(c) ==
    /\ InstanceEnds(c)
    /\ ~run[c].over
    /\ ended' = EndedAt(TRUE)
    /\ \E r \in [run[c].plan -> Delays \cup {NoAnswer}] : Keep(r, TRUE) /\ Reported(c, r)

-----------------------------------------------------------------------------
(* The switch *)

\* mutant: the decision is made beside the other operations
AtOnce == TRUE
OpFree == opLock = Nobody

LockForSwitch(c) ==
    /\ run[c].at = "deciding" /\ OpFree
    /\ opLock' = c
    /\ Goes(c, "locked")
    /\ UNCHANGED <<config, other, flight, cancel, report_, ended, quit, history>>

\* Nobody asks for the switch any more, config.json cannot be read, or
\* ChooseFastest leaves the routing as it is
NoSwitch(c) ==
    /\ run[c].at = "locked" /\ Goes(c, "leaving")
    /\ UNCHANGED <<config, locks, report_, ended, quit, history>>

Decide(c) ==
    /\ run[c].at = "locked" /\ ~run[c].over
    /\ Switches(run[c].report, routing, run[c].asks = "confirm")
    /\ run' = [run EXCEPT ![c].at = "switching", ![c].target = Best(run[c].report)]
    /\ UNCHANGED <<config, locks, report_, ended, quit, history>>

\* SwitchOutbound saves; a restart of the VPN that fails leaves it saved
Use(c) ==
    /\ run[c].at = "switching" /\ run[c].target \in servers
    /\ routing' \in {Node(run[c].target), routing}      \* or the save fails
    /\ Goes(c, "leaving")
    /\ UNCHANGED <<servers, locks, report_, ended, quit, history>>

\* mutant: the report is decided on again
StillGood(c) == stale
\* The report it chose from is never decided on again
Spoilt(c) == stale \/ last = run[c].report

\* ErrNoSuchOutbound
TargetGone(c) ==
    /\ run[c].at = "switching" /\ run[c].target \notin servers
    /\ stale' = Spoilt(c)
    /\ gone' = Lesser(gone + 1, 2)
    /\ Goes(c, "leaving")
    /\ UNCHANGED <<config, locks, last, lastEnded, tested, ended, quit, rested, underway>>

\* mutant: the cancel function of a check that is over is kept
CancelLeft == cancel
Uncancelled == Nobody

Leave(c) ==
    /\ run[c].at = "leaving"
    /\ opLock' = IF opLock = c THEN Nobody ELSE opLock
    /\ cancel' = Uncancelled /\ flight' = Nobody
    /\ run' = [run EXCEPT ![c] = Idle]
    /\ underway' = underway \ {c}
    /\ UNCHANGED <<config, other, report_, ended, quit, rested, gone>>

-----------------------------------------------------------------------------
(* Beside it *)

\* The page is closed: the context of its request ends
PageGoes(c) ==
    /\ c \in Pages /\ run[c].at # "idle"
    /\ run' = [run EXCEPT ![c].over = TRUE]
    /\ UNCHANGED <<config, locks, report_, ended, quit, history>>

OtherBegins ==
    /\ opLock = Nobody /\ ~other
    /\ opLock' = "other" /\ other' = TRUE
    /\ UNCHANGED <<config, flight, cancel, report_, ended, run, quit, history>>

\* A refresh, an import, an edit or a switch the user makes
OtherEnds(s, rt) ==
    /\ other /\ other' = FALSE
    /\ opLock' = IF opLock = "other" THEN Nobody ELSE opLock
    /\ rt.tag \in s \cup {NoTag}
    /\ servers' = s /\ routing' = rt
    /\ UNCHANGED <<flight, cancel, report_, ended, run, quit, history>>

RequestQuit ==
    /\ quit = "no" /\ quit' = "asked"
    /\ run' = [c \in Callers |-> IF c = cancel THEN [run[c] EXCEPT !.over = TRUE] ELSE run[c]]
    /\ underway' = {c \in Callers : run[c].at \in {"checking", "measuring", "deciding", "locked"}}
    /\ UNCHANGED <<config, locks, report_, ended, rested, gone>>

QuitLocks ==
    /\ quit = "asked" /\ opLock = Nobody
    /\ opLock' = "quit" /\ quit' = "held"
    /\ UNCHANGED <<config, other, flight, cancel, report_, ended, run, history>>

Tick ==
    /\ ended' = Lesser(ended + 1, Interval) /\ rested' = Lesser(rested + 1, Interval)
    /\ tested' = Lesser(tested + 1, Reuse + 1)
    /\ UNCHANGED <<config, locks, last, lastEnded, stale, run, quit, gone, underway>>

Init ==
    /\ servers \in SUBSET Tags /\ routing \in Routings /\ routing.tag \in servers \cup {NoTag}
    /\ opLock = Nobody /\ other = FALSE /\ flight = Nobody /\ cancel = Nobody
    /\ last = Missing /\ lastEnded = FALSE /\ stale = FALSE
    /\ ended = Interval /\ tested = Reuse + 1
    /\ run = [c \in Callers |-> Idle] /\ quit = "no"
    /\ rested = Interval /\ gone = 0 /\ underway = {}

CheckStep(c) ==
    \/ \E asks \in {"test", "fastest", "confirm"} : Ask(c, asks)
    \/ Cancellable(c) \/ UseRecent(c) \/ CheckRefused(c) \/ NothingToMeasure(c)
    \/ StartInstance(c) \/ CheckFails(c) \/ Measured(c)
    \/ LockForSwitch(c) \/ NoSwitch(c) \/ Decide(c) \/ Use(c) \/ TargetGone(c)
    \/ Leave(c)

Next ==
    \/ \E c \in Callers : CheckStep(c) \/ PageGoes(c)
    \/ OtherBegins
    \/ \E s \in SUBSET Tags, rt \in Routings : OtherEnds(s, rt)
    \/ RequestQuit \/ QuitLocks \/ Tick

Spec == Init /\ [][Next]_vars

-----------------------------------------------------------------------------
(* Properties *)

Reports == {Missing} \cup UNION {[s -> Delays \cup {NoAnswer}] : s \in SUBSET Tags}
Runs == [at : {"idle", "flying", "checking", "measuring", "deciding", "locked", "switching", "leaving"},
         asks : {"test", "fastest", "confirm"}, over : BOOLEAN, plan : SUBSET Tags,
         report : Reports, target : Tags \cup {NoTag}]

\* With it: only the check that is under way can be cancelled.
TypeOK ==
    /\ servers \in SUBSET Tags /\ routing \in Routing
    /\ opLock \in Callers \cup {Nobody, "other", "quit"} /\ other \in BOOLEAN
    /\ flight \in Callers \cup {Nobody}
    /\ last \in Reports /\ lastEnded \in BOOLEAN /\ stale \in BOOLEAN
    /\ ended \in 0..Interval /\ rested \in 0..Interval /\ tested \in 0..(Reuse + 1)
    /\ run \in [Callers -> Runs] /\ quit \in {"no", "asked", "held"}
    /\ cancel \in {Nobody, flight}
    /\ gone \in 0..2 /\ underway \in SUBSET Callers

Measuring(c) == run[c].at = "measuring"

\* "The test instances at least LatencyMinIntervalSeconds apart": none starts
\* sooner after the end of another, cancelled and failed ones included, nor
\* beside one (Test, SelectFastest, check).
InstancesApart ==
    [][\A c \in Callers : ~Measuring(c) /\ Measuring(c)' =>
          rested = Interval /\ \A d \in Callers : ~Measuring(d)]_vars

\* The routing the switch replaces is the one the decision saw, whatever other
\* operations did during the check: never off a urltest group, an endpoint or a
\* split, off a selector group only when confirmed, and off a server that
\* answered only for one better by more than the margin; and a server that had
\* gone when the switch came to it costs one failed attempt, no retry picks it
\* from the same report again (SelectFastest, stale).
SwitchIsSound ==
    [][gone' < 2 /\ \A c \in Callers :
          run[c].at = "switching" /\ run'[c].at = "leaving" /\ routing' # routing =>
             LET r == run[c].report  new == routing'.tag  old == routing.tag IN
             /\ new \in servers \cap Candidates(r) /\ \A t \in Candidates(r) : r[new] <= r[t]
             /\ routing.kind \in {"none", "node", "selector"}
             /\ routing.kind = "selector" => run[c].asks = "confirm"
             /\ old \in Candidates(r) => r[old] > r[new] + KeepMargin(r[new])]_vars

\* A check under way when the user asks to quit does not go on to a switch,
\* however long another operation holds opMu (RequestQuit, cancellable).
QuitCallsOff ==
    [][\A c \in underway : run[c].at # "switching" => run'[c].at # "switching"]_vars

=============================================================================
