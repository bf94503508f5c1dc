--------------------------- MODULE StatusListener ---------------------------
(***************************************************************************)
(* VPNLifecycle with the listener of its notifications, the event loop of  *)
(* app/application.go: a notification wakes it, the payload is not looked  *)
(* at, and the status is read as anyone reads it.  The service does not    *)
(* know what the loop has read: it compares with what it has sent itself.  *)
(***************************************************************************)
EXTENDS VPNLifecycle

VARIABLES
    listener,  \* "waiting", "woken", or "down": it has found no process and looks on
    heard      \* the status it read at its last wake-up

listening == <<listener, heard>>
allVars == <<vars, listening>>

-----------------------------------------------------------------------------
\* the notification is taken out of the channel
Wake ==
    /\ listener = "waiting" /\ Receive
    /\ listener' = "woken"
    /\ UNCHANGED heard

\* GetStatus, first half: IsRunning
LookAtProcess ==
    /\ listener = "woken"
    /\ IF Running THEN heard' = "Running" /\ listener' = "waiting"
       ELSE listener' = "down" /\ UNCHANGED heard
    /\ UNCHANGED vars

\* GetStatus, second half: the intent and whether the monitor has given up
LookAtIntent ==
    /\ listener = "down"
    /\ heard' = IF intent /\ ~gaveUp THEN "Starting" ELSE "Stopped"
    /\ listener' = "waiting"
    /\ UNCHANGED vars

ListenerStep == Wake \/ LookAtProcess \/ LookAtIntent

\* the steps of the service and of the world around both
ServiceStep ==
    \/ \E c \in Callers : Request(c) \/ CallerStep(c)
    \/ BgStep
    \/ \E t \in Threads : Send(t) \/ Record(t)
    \/ Die \/ EndSession \/ BackoffPasses \/ UpForLong \/ Dismiss

ListenInit == Init /\ listener = "waiting" /\ heard = "Stopped"

\* One life of the application: the next one begins in an initial state again
ListenNext ==
    \/ ListenerStep
    \/ ServiceStep /\ UNCHANGED listening

\* What the code's scheduling justifies: every goroutine goes on, a waiter gets
\* a Go mutex in the end, the event loop reads its channel and time passes.
\* Nothing makes a caller ask for an operation, or the process die.
Fairness ==
    /\ \A c \in Callers : WF_allVars(CallerStep(c) /\ UNCHANGED listening)
                        /\ SF_allVars(Lock(c) /\ UNCHANGED listening)
    /\ WF_allVars(BgStep /\ UNCHANGED listening)
    /\ SF_allVars(RestoreLock /\ UNCHANGED listening)
    /\ \A t \in Threads : WF_allVars((Send(t) \/ Record(t)) /\ UNCHANGED listening)
    /\ WF_allVars(ListenerStep)
    /\ WF_allVars(BackoffPasses /\ UNCHANGED listening)

ListenSpec == ListenInit /\ [][ListenNext]_allVars /\ Fairness

-----------------------------------------------------------------------------
(* Properties *)

\* Every variable has its type.
ListenTypeOK == TypeOK /\ listener \in {"waiting", "woken", "down"} /\ heard \in Statuses

Quiet == (\A c \in Callers : pc[c] = "idle") /\ ~sessionEnding

\* A loop of quick crashes or failing starts is given up: without the user,
\* and with no run that lasted, the monitor makes no attempt any more.
CrashLoopEnds ==
    (<>[]Quiet /\ <>[](upSince # "long")) => <>[](pc[bg] # "autoStart")

\* A status that stays is in the end what the listener has read, whatever was
\* dropped, sent or recorded out of order on the way (StatusChangeCh: listeners
\* re-read GetStatus; monitorTick: compared with what the listener has actually
\* received, so that an optimistic "running" is corrected), and it is not
\* "Starting": someone brings the VPN up or the monitor gives up.
StatusSettles ==
    (<>[]Quiet /\ <>[][Status' = Status]_vars) => <>[](heard = Status /\ Status # "Starting")
=============================================================================
