----------------------------- MODULE Application ------------------------------
(* The tray application around opMu (application.go, and the handlers of      *)
(* webui/server.go that share the lock): the event loop, the start/stop       *)
(* requests and their worker, long operations and the popups after them, the  *)
(* quit asked for in the tray or by another process, the relaunch into an     *)
(* installed update. What the operations do is the other modules'.            *)
EXTENDS Naturals

CONSTANTS
    Clicks, Requests,   \* goroutines of tray items; handlers of the web UI
    Quits,              \* calls of RequestQuit: the tray's and the other processes'
    TrayQuit,           \* the one of the tray item
    Relaunches,         \* calls of RelaunchAfterUpdate: the tray's, the page's
    MaxToggles,         \* bound: start/stop clicks
    Nobody, none

Jobs == Clicks \cup Requests
Wants == {"start", "stop"}

ASSUME ActorAssumption ==
    /\ Clicks \cap Requests = {} /\ Jobs \cap Quits = {}
    /\ Relaunches \cap (Jobs \cup Quits) = {}
    /\ TrayQuit \in Quits /\ Nobody \notin Jobs \cup Quits \cup Relaunches
    /\ none \notin Wants \cup {"absent", "select", "returned"} /\ MaxToggles \in Nat

VARIABLES
    ready,          \* trayReady: systray.Run has called OnReady
    loop,           \* eventLoop: "select", the request it is handing over, "returned"
    click,          \* what listenEvents holds out on ToggleCh
    slot,           \* toggleReq, one place
    worker,         \* toggleWorker: the request it carries out
    opMu,           \* its holder
    job,            \* each long operation: "idle", "waiting", "working", "popup"
    quit,           \* each RequestQuit: "no", "asked", "leaving"
    relaunch,       \* each RelaunchAfterUpdate: "no", "asked", "starting", "leaving"
    installed,      \* the exe on disk is the new version
    systray,        \* the native loop: "absent", "running", "quit", "deaf"
    exited,
    toggles,        \* bound: the clicks so far
    asked, applied, \* history: the last start/stop click taken; the last one carried out
    successors      \* history: instances of the new version started

toggling == <<click, slot, worker, toggles, asked, applied>>
leaving == <<quit, relaunch, installed, successors>>
vars == <<ready, loop, toggling, opMu, job, leaving, systray, exited>>

-----------------------------------------------------------------------------
(* The tray *)

\* main goes through the shell wait into systray.Run
OnReady ==
    /\ ~ready /\ systray = "absent"
    /\ ready' = TRUE /\ systray' = "running" /\ loop' = "select"
    /\ UNCHANGED <<toggling, opMu, job, leaving, exited>>

\* systray drops a click that listenEvents is not there to take. Which of the
\* two the menu offers depends on the status it showed last: either
Toggle(want) ==
    /\ ready /\ click = none /\ loop # "returned" /\ toggles < MaxToggles
    /\ click' = want /\ asked' = want /\ toggles' = toggles + 1
    /\ UNCHANGED <<ready, loop, slot, worker, applied, opMu, job, leaving, systray, exited>>

\* The loop empties the slot before it sends
Drained == none

ReceiveToggle ==
    /\ loop = "select" /\ click # none
    /\ loop' = click /\ click' = none
    /\ slot' = Drained
    /\ UNCHANGED <<ready, worker, toggles, asked, applied, opMu, job, leaving, systray, exited>>

\* mutant: a click while a start or a stop is under way is ignored
UnlessBusy == IF worker = none THEN loop ELSE none
HandedOver == loop

SendToggle ==
    /\ loop \in Wants /\ slot = none
    /\ slot' = HandedOver /\ loop' = "select"
    /\ UNCHANGED <<ready, click, worker, toggles, asked, applied, opMu, job, leaving, systray, exited>>

TakeToggle ==
    /\ worker = none /\ slot # none
    /\ worker' = slot /\ slot' = none
    /\ UNCHANGED <<ready, loop, click, toggles, asked, applied, opMu, job, leaving, systray, exited>>

\* handleToggleVPN: VPNService's Start or Stop, seconds; no opMu. Its error is
\* shown by a goroutine of its own
ApplyToggle ==
    /\ worker # none
    /\ applied' = worker /\ worker' = none
    /\ UNCHANGED <<ready, loop, click, slot, toggles, asked, opMu, job, leaving, systray, exited>>

-----------------------------------------------------------------------------
(* Long operations: runLocked, and the handlers of the web UI *)

Begin(j) ==
    /\ job[j] = "idle" /\ ready
    /\ j \in Clicks => loop = "select"
    /\ job' = [job EXCEPT ![j] = "waiting"]
    /\ UNCHANGED <<ready, loop, toggling, opMu, leaving, systray, exited>>

Lock(j) ==
    /\ job[j] = "waiting" /\ opMu = Nobody
    /\ opMu' = j /\ job' = [job EXCEPT ![j] = "working"]
    /\ UNCHANGED <<ready, loop, toggling, leaving, systray, exited>>

\* mutant: the popup is shown before the unlock
UntilDismissed(j) == IF j \in Clicks THEN j ELSE Nobody
Unlocked(j) == Nobody

Finish(j) ==
    /\ job[j] = "working"
    /\ installed' \in {installed, TRUE}       \* or it was the self-update
    /\ job' = [job EXCEPT ![j] = IF j \in Clicks THEN "popup" ELSE "idle"]
    /\ opMu' = Unlocked(j)
    /\ UNCHANGED <<ready, loop, toggling, quit, relaunch, successors, systray, exited>>

\* The user, some time
Dismiss(j) ==
    /\ job[j] = "popup" /\ job' = [job EXCEPT ![j] = "idle"]
    /\ UNCHANGED <<ready, loop, toggling, opMu, leaving, systray, exited>>

-----------------------------------------------------------------------------
(* The end *)

\* systray.Quit, once in a process: before Run it is swallowed for good
SystrayQuit == systray' = CASE systray = "running" -> "quit" [] systray = "absent" -> "deaf" [] OTHER -> systray

\* The tray item ends the event loop
RequestQuit(q) ==
    /\ quit[q] = "no"
    /\ q = TrayQuit => loop = "select"
    /\ quit' = [quit EXCEPT ![q] = "asked"]
    /\ loop' = IF q = TrayQuit THEN "returned" ELSE loop
    /\ UNCHANGED <<ready, toggling, opMu, job, relaunch, installed, successors, systray, exited>>

\* mutant: an operation is not waited for
AtOnce == TRUE
OpsEnded == opMu = Nobody
\* mutant: systray.Quit whether the tray is there or not
AlwaysSystray == SystrayQuit /\ UNCHANGED exited
\* Before the tray is there main is left directly
LeaveMain == IF ready THEN SystrayQuit /\ UNCHANGED exited
                      ELSE exited' = TRUE /\ UNCHANGED systray

Quit(q) ==
    /\ quit[q] = "asked" /\ OpsEnded
    /\ opMu' = q /\ quit' = [quit EXCEPT ![q] = "leaving"]
    /\ LeaveMain
    /\ UNCHANGED <<ready, loop, toggling, job, relaunch, installed, successors>>

\* The popup after the update, or the page half a second after its answer
AskRelaunch(r) ==
    /\ relaunch[r] = "no" /\ installed /\ ready
    /\ relaunch' = [relaunch EXCEPT ![r] = "asked"]
    /\ UNCHANGED <<ready, loop, toggling, opMu, job, quit, installed, successors, systray, exited>>

LockForRelaunch(r) ==
    /\ relaunch[r] = "asked" /\ opMu = Nobody
    /\ opMu' = r /\ relaunch' = [relaunch EXCEPT ![r] = "starting"]
    /\ UNCHANGED <<ready, loop, toggling, job, quit, installed, successors, systray, exited>>

\* mutant: the lock is given back with the new instance started
GivenBack(r) == Nobody
\* Only the exit releases it
KeptToTheEnd(r) == r

Relaunched(r) ==
    /\ relaunch[r] = "starting"
    /\ successors' = successors + 1
    /\ opMu' = KeptToTheEnd(r) /\ relaunch' = [relaunch EXCEPT ![r] = "leaving"]
    /\ UNCHANGED <<ready, loop, toggling, job, quit, installed, systray, exited>>

RelaunchLeaves(r) ==
    /\ relaunch[r] = "leaving" /\ systray = "running" /\ SystrayQuit
    /\ UNCHANGED <<ready, loop, toggling, opMu, job, leaving, exited>>

\* mutant: the lock is kept on the error path
KeptOnError(r) == r
ReleasedOnError(r) == Nobody

RelaunchFails(r) ==
    /\ relaunch[r] = "starting"
    /\ opMu' = ReleasedOnError(r) /\ relaunch' = [relaunch EXCEPT ![r] = "no"]
    /\ UNCHANGED <<ready, loop, toggling, job, quit, installed, successors, systray, exited>>

\* The native loop ends, main returns
Exit ==
    /\ systray = "quit" /\ exited' = TRUE
    /\ UNCHANGED <<ready, loop, toggling, opMu, job, leaving, systray>>

Init ==
    /\ ready = FALSE /\ loop = "absent" /\ systray = "absent" /\ exited = FALSE
    /\ click = none /\ slot = none /\ worker = none /\ toggles = 0
    /\ asked = none /\ applied = none
    /\ opMu = Nobody /\ job = [j \in Jobs |-> "idle"]
    /\ quit = [q \in Quits |-> "no"] /\ relaunch = [r \in Relaunches |-> "no"]
    /\ installed = FALSE /\ successors = 0

TogglePath == ReceiveToggle \/ SendToggle \/ TakeToggle \/ ApplyToggle

Next ==
    /\ ~exited
    /\ \/ OnReady \/ Exit \/ TogglePath
       \/ \E want \in Wants : Toggle(want)
       \/ \E j \in Jobs : Begin(j) \/ Lock(j) \/ Finish(j) \/ Dismiss(j)
       \/ \E q \in Quits : RequestQuit(q) \/ Quit(q)
       \/ \E r \in Relaunches : \/ AskRelaunch(r) \/ LockForRelaunch(r)
                                \/ Relaunched(r) \/ RelaunchLeaves(r) \/ RelaunchFails(r)

Spec == Init /\ [][Next]_vars

\* Goroutines that can go on do, an operation ends, and a mutex given back again
\* and again is not withheld from a goroutine for ever (Go's starvation mode).
\* Popups need not be dismissed, and nothing need ever be asked.
Alive(A) == ~exited /\ A
Fairness ==
    /\ WF_vars(Alive(TogglePath)) /\ WF_vars(Alive(Exit))
    /\ WF_vars(Alive(\E j \in Jobs : Finish(j)))
    /\ WF_vars(Alive(\E r \in Relaunches : Relaunched(r) \/ RelaunchFails(r) \/ RelaunchLeaves(r)))
    /\ \A j \in Jobs : SF_vars(Alive(Lock(j)))
    /\ SF_vars(Alive(\E q \in Quits : Quit(q)))

FairSpec == Spec /\ Fairness

-----------------------------------------------------------------------------
(* Properties *)

\* With it: opMu has exactly the holder that believes to have it.
TypeOK ==
    /\ ready \in BOOLEAN /\ installed \in BOOLEAN /\ exited \in BOOLEAN
    /\ loop \in Wants \cup {"absent", "select", "returned"}
    /\ click \in Wants \cup {none} /\ slot \in Wants \cup {none} /\ worker \in Wants \cup {none}
    /\ asked \in Wants \cup {none} /\ applied \in Wants \cup {none}
    /\ opMu \in Jobs \cup Quits \cup Relaunches \cup {Nobody}
    /\ job \in [Jobs -> {"idle", "waiting", "working", "popup"}]
    /\ quit \in [Quits -> {"no", "asked", "leaving"}]
    /\ relaunch \in [Relaunches -> {"no", "asked", "starting", "leaving"}]
    /\ systray \in {"absent", "running", "quit", "deaf"}
    /\ toggles \in 0..MaxToggles /\ successors \in Nat
    /\ \A j \in Jobs : opMu = j <=> job[j] = "working"
    /\ \A q \in Quits : opMu = q <=> quit[q] = "leaving"
    /\ \A r \in Relaunches : opMu = r <=> relaunch[r] \in {"starting", "leaving"}

\* "This loop is the only sender, so the send below never blocks": the menu
\* does not freeze while a start takes its seconds (eventLoop).
LoopNeverBlocks == loop \in Wants => slot = none

\* A save or a binary swap is never cut short: the process ends with no
\* operation under way, whoever asked for it and when (RequestQuit,
\* RelaunchAfterUpdate).
NothingCutShort == exited => \A j \in Jobs : job[j] # "working"

\* However often the tray and the page ask for the relaunch, one new instance
\* is started (RelaunchAfterUpdate keeps opMu to the end).
OneSuccessor == successors <= 1

\* The last start or stop the user asked for is the one that is carried out
\* last, whatever was clicked while an earlier one took its time.
LastClickWins == <>[](applied = asked \/ exited \/ loop = "returned")

\* Who asks for the end gets it, with popups nobody dismisses, before and after
\* the tray is there, beside a relaunch (RequestQuit, runLocked); and who waits
\* for opMu gets it or the application ends, also after a relaunch that failed.
QuitEnds ==
    /\ (\E q \in Quits : quit[q] = "asked") ~> exited
    /\ \A j \in Jobs : job[j] = "waiting" ~> (job[j] # "waiting" \/ exited)
=============================================================================
