------------------------------- MODULE Instances ------------------------------
(* One instance of the app at a time (windows.go), the installer's --quit and  *)
(* the uninstaller's --quit-installation that ask it to end (main.go,          *)
(* control_windows.go), and the relaunch after a self-update (selfupdate).     *)
(* A named mutex, event or marker exists while any process has a handle of it; *)
(* Windows closes the handles of a process that ends.                          *)
EXTENDS Integers, FiniteSets

CONSTANTS
    Apps,           \* processes of the tray app
    Installed,      \* those of the installed copy; the others' is a portable one
    Quitters,       \* helpers: --quit
    Uninstallers,   \* helpers: --quit-installation of the installed copy
    MaxStarts,      \* bound: starts of the app
    NoProcess

Helpers == Quitters \cup Uninstallers
Processes == Apps \cup Helpers
ASSUME ProcessAssumption ==
    Installed \subseteq Apps /\ Apps \cap Helpers = {} /\ Quitters \cap Uninstallers = {} /\ NoProcess \notin Processes
ASSUME StartAssumption == MaxStarts \in Nat

VARIABLES
    mutex,      \* processes with a handle of the single-instance mutex
    marker,     \* ... of the installed copy's marker
    event,      \* ... of the quit event
    signalled,  \* the quit event is set: manual reset, it stays so
    app,        \* each app process' local state
    helper, late, \* each helper's; its deadline has passed
    starts,
    reached       \* history: the apps alive that a helper's signal has reached

instVars == <<mutex, marker, event, signalled, app, helper, late, starts, reached>>
objects == <<mutex, marker, event, signalled>>

Alone == {"won", "marked", "listening", "deaf", "leaving"}

-----------------------------------------------------------------------------
(* The app *)

Off == [at |-> "off", for |-> NoProcess]
AppGoes(a, at) == app' = [app EXCEPT ![a].at = at]

Start(a) ==
    /\ app[a].at = "off" /\ starts < MaxStarts
    /\ starts' = starts + 1
    /\ AppGoes(a, "opening")
    /\ UNCHANGED <<objects, helper, late, reached>>

\* mutant: a successor takes the mutex's owner for its predecessor
Inherits(a) == mutex = {} \/ app[a].for # NoProcess
Wins(a) == mutex = {}

\* CreateMutex of a mutex that exists gives a handle too; the loser closes it.
\* (A mutex that cannot be created at all lets the app go on: not modelled.)
Open(a) ==
    /\ app[a].at = "opening"
    /\ mutex' = mutex \cup {a}
    /\ AppGoes(a, IF Wins(a) THEN "won" ELSE "losing")
    /\ UNCHANGED <<marker, event, signalled, helper, late, starts, reached>>

Lose(a) ==
    /\ app[a].at = "losing"
    /\ mutex' = mutex \ {a}
    /\ app' = [app EXCEPT ![a] = Off]
    /\ UNCHANGED <<marker, event, signalled, helper, late, starts, reached>>

MarkInstallation(a) ==
    /\ app[a].at = "won"
    /\ marker' = IF a \in Installed THEN marker \cup {a} ELSE marker
    /\ AppGoes(a, "marked")
    /\ UNCHANGED <<mutex, event, signalled, helper, late, starts, reached>>

\* An event that exists already cannot be created: the instance stays deaf
Listen(a) ==
    /\ app[a].at = "marked"
    /\ IF event = {}
       THEN event' = {a} /\ signalled' = FALSE /\ AppGoes(a, "listening")
       ELSE UNCHANGED <<event, signalled>> /\ AppGoes(a, "deaf")
    /\ UNCHANGED <<mutex, marker, helper, late, starts, reached>>

\* A signal, or the user: RequestQuit waits for the running operation
Hear(a) ==
    /\ app[a].at = "listening" /\ signalled
    /\ AppGoes(a, "leaving")
    /\ UNCHANGED <<objects, helper, late, starts, reached>>

UserQuits(a) ==
    /\ app[a].at \in {"listening", "deaf"}
    /\ AppGoes(a, "leaving")
    /\ UNCHANGED <<objects, helper, late, starts, reached>>

\* The new version is started and waits for this process
Relaunch(a, b) ==
    /\ app[a].at \in {"listening", "deaf"} /\ app[b].at = "off"
    /\ a \in Installed <=> b \in Installed
    /\ starts < MaxStarts
    /\ starts' = starts + 1
    /\ app' = [app EXCEPT ![a].at = "leaving", ![b] = [at |-> "waiting", for |-> a]]
    /\ UNCHANGED <<objects, helper, late, reached>>

\* ... for 30 seconds, then it goes on all the same
WaitOver(b) ==
    /\ app[b].at = "waiting"
    /\ AppGoes(b, "opening")
    /\ UNCHANGED <<objects, helper, late, starts, reached>>

ProcessEnds(a) ==
    /\ app[a].at # "off"
    /\ mutex' = mutex \ {a} /\ marker' = marker \ {a} /\ event' = event \ {a}
    /\ signalled' = (signalled /\ event' # {})
    /\ app' = [app EXCEPT ![a] = Off]
    /\ reached' = [h \in Helpers |-> reached[h] \ {a}]
    /\ UNCHANGED <<helper, late, starts>>

-----------------------------------------------------------------------------
(* A helper *)

HelperGoes(h, at) == helper' = [helper EXCEPT ![h] = at]

Run(h) ==
    /\ helper[h] = "off"
    /\ HelperGoes(h, IF h \in Uninstallers THEN "marking" ELSE "asking")
    /\ late' = [late EXCEPT ![h] = FALSE] /\ reached' = [reached EXCEPT ![h] = {}]
    /\ UNCHANGED <<objects, app, starts>>

InstallationRunning(h) ==
    /\ helper[h] = "marking"
    /\ HelperGoes(h, IF marker # {} THEN "asking" ELSE "none")
    /\ UNCHANGED <<objects, app, late, starts, reached>>

\* RequestQuit opens the event, sets it, and closes its handle; an error of either
\* call ends the helper
OpenEvent(h) ==
    /\ helper[h] = "asking"
    /\ IF event = {} THEN HelperGoes(h, "probing") /\ UNCHANGED event
       ELSE \/ HelperGoes(h, "opened") /\ event' = event \cup {h}
            \/ HelperGoes(h, "failed") /\ UNCHANGED event
    /\ UNCHANGED <<mutex, marker, signalled, app, late, starts, reached>>

SetEvent(h) ==
    /\ helper[h] = "opened"
    /\ signalled' = TRUE
    /\ reached' = [reached EXCEPT ![h] = {a \in Apps : app[a].at \in Alone}]
    /\ HelperGoes(h, "closing")
    /\ UNCHANGED <<mutex, marker, event, app, late, starts>>

CloseEvent(h) ==
    /\ helper[h] = "closing"
    /\ event' = event \ {h} /\ signalled' = (signalled /\ event' # {})
    /\ late' = [late EXCEPT ![h] = FALSE]
    /\ HelperGoes(h, "waiting")
    /\ UNCHANGED <<mutex, marker, app, starts, reached>>

\* InstanceRunning has a handle of the mutex for a moment
Peek(h, at) ==
    /\ mutex # {} /\ mutex' = mutex \cup {h}
    /\ HelperGoes(h, at)

Probe(h) ==
    /\ helper[h] = "probing"
    /\ \/ Peek(h, "probed")
       \/ mutex = {} /\ HelperGoes(h, "none") /\ UNCHANGED mutex
    /\ UNCHANGED <<marker, event, signalled, app, late, starts, reached>>

\* mutant: the event that nobody listens to any more stands for the end
NobodyListens == \A a \in Apps : app[a].at # "listening"
NobodyHolds == mutex = {}

WaitForExit(h) ==
    /\ helper[h] = "waiting"
    /\ \/ NobodyHolds /\ HelperGoes(h, "done") /\ UNCHANGED mutex
       \/ ~NobodyHolds /\ Peek(h, "peeked")
    /\ UNCHANGED <<marker, event, signalled, app, late, starts, reached>>

\* mutant: the deadline is looked at by the first loop only
FirstLoopOnly(h) == late[h] /\ helper[h] = "probed"
TimedOut(h) == late[h]

Again(h) ==
    /\ helper[h] \in {"probed", "peeked"}
    /\ mutex' = mutex \ {h}
    /\ HelperGoes(h, IF TimedOut(h) THEN "failed" ELSE IF helper[h] = "probed" THEN "asking" ELSE "waiting")
    /\ UNCHANGED <<marker, event, signalled, app, late, starts, reached>>

\* 30 seconds for the asking, 30 more for the waiting
Deadline(h) ==
    /\ helper[h] \in {"asking", "opened", "probing", "probed", "waiting", "peeked"} /\ ~late[h]
    /\ late' = [late EXCEPT ![h] = TRUE]
    /\ UNCHANGED <<objects, app, helper, starts, reached>>

-----------------------------------------------------------------------------
InstInit ==
    /\ mutex = {} /\ marker = {} /\ event = {} /\ signalled = FALSE
    /\ app = [a \in Apps |-> Off]
    /\ helper = [h \in Helpers |-> "off"] /\ late = [h \in Helpers |-> FALSE]
    /\ starts = 0 /\ reached = [h \in Helpers |-> {}]

AppStep(a) ==
    \/ Start(a) \/ Open(a) \/ Lose(a) \/ MarkInstallation(a) \/ Listen(a) \/ Hear(a) \/ UserQuits(a)
    \/ WaitOver(a) \/ ProcessEnds(a) \/ \E b \in Apps : Relaunch(a, b)

HelperStep(h) ==
    InstallationRunning(h) \/ OpenEvent(h) \/ SetEvent(h) \/ CloseEvent(h) \/ Probe(h) \/ WaitForExit(h) \/ Again(h)

InstNext == (\E a \in Apps : AppStep(a)) \/ (\E h \in Helpers : Run(h) \/ HelperStep(h) \/ Deadline(h))

\* A helper is never held up, and time passes
HelperFairness == \A h \in Helpers : WF_instVars(HelperStep(h)) /\ WF_instVars(Deadline(h))
InstSpec == InstInit /\ [][InstNext]_instVars /\ HelperFairness

-----------------------------------------------------------------------------
InstTypeOK ==
    /\ mutex \subseteq Processes /\ marker \subseteq Installed /\ event \subseteq Processes /\ signalled \in BOOLEAN
    /\ app \in [Apps -> [at : Alone \cup {"off", "waiting", "opening", "losing"}, for : Apps \cup {NoProcess}]]
    /\ helper \in [Helpers -> {"off", "marking", "asking", "opened", "closing", "probing", "probed",
                               "waiting", "peeked", "done", "none", "failed"}]
    /\ late \in [Helpers -> BOOLEAN] /\ starts \in 0..MaxStarts /\ reached \in [Helpers -> SUBSET Apps]

\* Two instances never run side by side, whoever starts one: the user, logon,
\* a relaunch whose wait ran out, a helper that looks at the mutex meanwhile
\* (AcquireSingleInstance).
OneInstance == \A a, b \in Apps : app[a].at \in Alone /\ app[b].at \in Alone => a = b

\* When --quit reports that the instance has exited (code 0), the instance it
\* asked is gone with its exe file, and not merely on its way out (runMode: the
\* installer replaces the exe next).
QuitMeansGone == \A h \in Helpers : helper[h] = "done" => reached[h] = {}

\* Every --quit returns: asked too early, at a deaf instance, or while another
\* helper keeps the mutex alive by looking at it.
QuitCallEnds == \A h \in Helpers : helper[h] = "asking" ~> helper[h] \in {"done", "none", "failed"}
=============================================================================
