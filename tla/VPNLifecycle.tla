---------------------------- MODULE VPNLifecycle ----------------------------
(***************************************************************************)
(* The life cycle of the VPN process as domain/vpn_service.go runs it: the *)
(* user's Start and Stop, RestartIfRunning after a config change, the      *)
(* binary swap WithStoppedOrUndo, the restore at application start, the    *)
(* crash monitor, and the status notifications all of them send.           *)
(*                                                                         *)
(* Every operation that starts or stops the process holds lifeMu; the      *)
(* status is read without it, so each operation is cut into the steps      *)
(* between which another goroutine can look.  The process manager is taken *)
(* by its contract (Start succeeds or leaves the process as it was, Stop   *)
(* ends it or fails, IsRunning tells whether it runs).                     *)
(***************************************************************************)
EXTENDS Naturals

CONSTANTS
    Callers,                 \* goroutines that call the service: tray, web UI
    bg,                      \* the goroutine of StartBackground: restore, then monitor
    free,                    \* lifeMu is not held
    Ops,                     \* what the callers do here, a subset of AllOps
    RestoreStartAttempts,    \* config.RestoreStartAttempts
    AutoRestartMaxAttempts,  \* config.AutoRestartMaxAttempts
    SaveFails,               \* writing the intent to the registry can fail
    StopFails,               \* the process manager's Stop can fail
    SessionEnds,             \* Windows can log off or shut down
    MaxAppRestarts           \* bound: how often the application dies and is started again

AllOps == {"start", "stop", "turnOff", "restart", "swap"}
Threads == Callers \cup {bg}
Statuses == {"Stopped", "Running", "Starting"}

ASSUME ThreadsAssumption == bg \notin Callers /\ free \notin Threads
ASSUME OpsAssumption == Ops \subseteq AllOps
ASSUME AttemptsAssumption ==
    /\ RestoreStartAttempts \in Nat \ {0}
    /\ AutoRestartMaxAttempts \in Nat \ {0}
    /\ MaxAppRestarts \in Nat
ASSUME FailuresAssumption ==
    SaveFails \in BOOLEAN /\ StopFails \in BOOLEAN /\ SessionEnds \in BOOLEAN

VARIABLES
    \* the machine: these outlive the application
    proc,            \* sing-box: "up", "down", or "ended" by the closing session
    intent,          \* the registry's VPNRunning: the user's last Start or Stop
    sessionEnding,   \* GetSystemMetrics(SM_SHUTTINGDOWN)
    \* VPNService
    lifeMu,          \* its holder, or free
    autoRestarts, gaveUp,
    backoff,         \* nextAutoRestart lies ahead
    upSince,         \* runningSince: "none", "recent", or "long" (AutoRestartResetAfter ago)
    pending,         \* statusChangeCh holds its one notification
    published, notifyDropped,
    popup,           \* a give-up report is on the screen
    \* the goroutines
    pc,              \* the next step of each
    notice,          \* the notification a goroutine is sending, and its next step
    call,            \* the locals of a caller's operation
    restoreAttempt, lastStatus, curStatus,
    resume,          \* where bg goes on once it has released lifeMu
    \* bounds and history
    appRestarts,
    userOff          \* the user's last Start or Stop to take effect was a Stop, and it has returned

machine == <<proc, intent, sessionEnding>>
budget  == <<autoRestarts, gaveUp, backoff>>
channel == <<pending, published, notifyDropped>>
bgLocal == <<restoreAttempt, lastStatus, curStatus, resume>>
history == <<appRestarts, userOff>>
vars == <<machine, lifeMu, budget, upSince, channel, popup, pc, notice, call, bgLocal, history>>

NewCall(o, u) ==
    [op |-> o, undo |-> u, wasRunning |-> FALSE, fnOK |-> FALSE, attempt |-> 1]
NoCall == NewCall("none", FALSE)
NoNotice == [status |-> "Stopped", then |-> "none"]

Running == proc = "up"

\* What GetStatus returns when nothing changes while it looks
Status == IF Running THEN "Running"
          ELSE IF intent /\ ~gaveUp THEN "Starting" ELSE "Stopped"

IsStop(c) == call[c].op \in {"stop", "turnOff"}

-----------------------------------------------------------------------------
(* Steps every operation is made of *)

Goto(t, label) == pc' = [pc EXCEPT ![t] = label]

\* the contract of ProcessManager.Start and Stop
StartProcess(ok) == proc' = IF ok THEN "up" ELSE proc
StopProcess(ok) == (ok \/ StopFails) /\ proc' = IF ok THEN "down" ELSE proc

ResetBudget == autoRestarts' = 0 /\ gaveUp' = FALSE /\ backoff' = FALSE

\* Call notifyStatusChange(s), then go on at label next
Notify(t, s, next) ==
    /\ notice' = [notice EXCEPT ![t] = [status |-> s, then |-> next]]
    /\ Goto(t, "send")

\* The select of notifyStatusChange: the channel has room, or it has not
Send(t) ==
    /\ pc[t] = "send"
    /\ pending' = TRUE
    /\ Goto(t, IF pending THEN "recordDrop" ELSE "recordSent")
    /\ UNCHANGED <<machine, lifeMu, budget, upSince, published, notifyDropped, popup,
                   notice, call, bgLocal, history>>

\* What notifyStatusChange writes down after it, under restartMu
Record(t) ==
    /\ \/ /\ pc[t] = "recordSent"
          /\ published' = notice[t].status
          /\ notifyDropped' = FALSE
       \/ /\ pc[t] = "recordDrop"
          /\ notifyDropped' = TRUE
          /\ UNCHANGED published
    /\ Goto(t, notice[t].then)
    /\ notice' = [notice EXCEPT ![t] = NoNotice]
    /\ UNCHANGED <<machine, lifeMu, budget, upSince, pending, popup, call, bgLocal, history>>

-----------------------------------------------------------------------------
(* The callers' operations *)

\* A caller enters an operation.  "turnOff" is the answer "yes" to the give-up
\* popup: it looks at the status first.
Request(c) ==
    /\ pc[c] = "idle"
    /\ \E o \in Ops, u \in BOOLEAN :
          /\ u => o = "swap"
          /\ o = "turnOff" => popup
          /\ call' = [call EXCEPT ![c] = NewCall(o, u)]
          /\ popup' = (popup /\ o # "turnOff")
          /\ Goto(c, IF o = "turnOff" THEN "askStatus" ELSE "lock")
    /\ UNCHANGED <<machine, lifeMu, budget, upSince, channel, notice, bgLocal, history>>

AskStatus(c) ==
    /\ pc[c] = "askStatus"
    /\ Goto(c, IF Running THEN "idle" ELSE "lock")
    /\ call' = IF Running THEN [call EXCEPT ![c] = NoCall] ELSE call
    /\ UNCHANGED <<machine, lifeMu, budget, upSince, channel, popup, notice, bgLocal, history>>

Lock(c) ==
    /\ pc[c] = "lock"
    /\ lifeMu = free
    /\ lifeMu' = c
    /\ Goto(c, CASE call[c].op = "start"   -> "startProc"
                 [] IsStop(c)              -> "stopSave"
                 [] call[c].op = "restart" -> "restartCheck"
                 [] call[c].op = "swap"    -> "swapCheck")
    /\ UNCHANGED <<machine, budget, upSince, channel, popup, notice, call, bgLocal, history>>

\* The deferred Unlock: the operation returns
Unlock(c) ==
    /\ pc[c] = "unlock"
    /\ lifeMu' = free
    /\ Goto(c, "idle")
    /\ call' = [call EXCEPT ![c] = NoCall]
    /\ userOff' = (userOff \/ IsStop(c))
    /\ UNCHANGED <<machine, budget, upSince, channel, popup, notice, bgLocal, appRestarts>>

\* resetAutoRestarts, wherever an operation calls it
Reset(c) ==
    /\ pc[c] = "reset"
    /\ ResetBudget
    /\ IF call[c].op = "start" THEN Notify(c, "Running", "unlock")
       ELSE /\ Goto(c, IF IsStop(c) THEN "stopProc" ELSE "unlock")
            /\ UNCHANGED notice
    /\ UNCHANGED <<machine, lifeMu, upSince, channel, popup, call, bgLocal, history>>

(* Start *)

StartProc(c) ==
    /\ pc[c] = "startProc"
    /\ \E ok \in BOOLEAN :
          /\ StartProcess(ok)
          /\ Goto(c, IF ok THEN "startSave" ELSE "unlock")
          /\ userOff' = (userOff /\ ~ok)
    /\ UNCHANGED <<intent, sessionEnding, lifeMu, budget, upSince, channel, popup, notice,
                   call, bgLocal, appRestarts>>

StartSave(c) ==
    /\ pc[c] = "startSave"
    /\ \E saved \in {TRUE, ~SaveFails} : intent' = (intent \/ saved)
    /\ Goto(c, "reset")
    /\ UNCHANGED <<proc, sessionEnding, lifeMu, budget, upSince, channel, popup, notice,
                   call, bgLocal, history>>

(* Stop *)

StopSave(c) ==
    /\ pc[c] = "stopSave"
    /\ \E saved \in {TRUE, ~SaveFails} : intent' = (intent /\ ~saved)
    /\ Goto(c, "reset")
    /\ UNCHANGED <<proc, sessionEnding, lifeMu, budget, upSince, channel, popup, notice,
                   call, bgLocal, history>>

StopProc(c) ==
    /\ pc[c] = "stopProc"
    /\ \E ok \in BOOLEAN :
          /\ StopProcess(ok)
          /\ IF ok THEN Notify(c, "Stopped", "unlock")
             ELSE Goto(c, "unlock") /\ UNCHANGED notice
    /\ UNCHANGED <<intent, sessionEnding, lifeMu, budget, upSince, channel, popup, call,
                   bgLocal, history>>

(* RestartIfRunning *)

RestartCheck(c) ==
    /\ pc[c] = "restartCheck"
    /\ Goto(c, IF Running THEN "restartStop" ELSE "reset")
    /\ UNCHANGED <<machine, lifeMu, budget, upSince, channel, popup, notice, call, bgLocal,
                   history>>

RestartStop(c) ==
    /\ pc[c] = "restartStop"
    /\ \E ok \in BOOLEAN :
          /\ StopProcess(ok)
          /\ Goto(c, IF ok THEN "restartStart" ELSE "unlock")
    /\ UNCHANGED <<intent, sessionEnding, lifeMu, budget, upSince, channel, popup, notice,
                   call, bgLocal, history>>

RestartStart(c) ==
    /\ pc[c] = "restartStart"
    /\ \E ok \in BOOLEAN :
          /\ StartProcess(ok)
          /\ Notify(c, IF ok THEN "Running" ELSE "Stopped", "unlock")
    /\ UNCHANGED <<intent, sessionEnding, lifeMu, budget, upSince, channel, popup, call,
                   bgLocal, history>>

(* WithStoppedOrUndo *)

SwapCheck(c) ==
    /\ pc[c] = "swapCheck"
    /\ call' = [call EXCEPT ![c].wasRunning = Running]
    /\ Goto(c, IF Running THEN "swapStop" ELSE "swapFn")
    /\ UNCHANGED <<machine, lifeMu, budget, upSince, channel, popup, notice, bgLocal, history>>

SwapStop(c) ==
    /\ pc[c] = "swapStop"
    /\ \E ok \in BOOLEAN :
          /\ StopProcess(ok)
          /\ IF ok THEN Notify(c, "Stopped", "swapFn")
             ELSE Goto(c, "unlock") /\ UNCHANGED notice
    /\ UNCHANGED <<intent, sessionEnding, lifeMu, budget, upSince, channel, popup, call,
                   bgLocal, history>>

\* fn itself: Install replaces the binary, or fails and has put it back
SwapFn(c) ==
    /\ pc[c] = "swapFn"
    /\ \E ok \in BOOLEAN :
          /\ call' = [call EXCEPT ![c].fnOK = ok]
          /\ Goto(c, IF call[c].wasRunning THEN "swapStart"
                     ELSE IF ok THEN "reset" ELSE "unlock")
    /\ UNCHANGED <<machine, lifeMu, budget, upSince, channel, popup, notice, bgLocal, history>>

\* the change went through and can be taken back: startToKeep instead of Start
Keeping(c) == call[c].fnOK /\ call[c].undo

\* an attempt of startToKeep failed: one more, then the undo
NextTry(c) ==
    /\ Goto(c, IF call[c].attempt = 1 THEN "swapStart" ELSE "swapUndo")
    /\ call' = [call EXCEPT ![c].attempt = 2]

SwapStart(c) ==
    /\ pc[c] = "swapStart"
    /\ \E ok \in BOOLEAN :
          /\ StartProcess(ok)
          /\ \/ ok /\ Keeping(c)  /\ Goto(c, "swapKeep") /\ UNCHANGED <<notice, call>>
             \/ ok /\ ~Keeping(c) /\ Notify(c, "Running", "unlock") /\ UNCHANGED call
             \/ ~ok /\ Keeping(c) /\ NextTry(c) /\ UNCHANGED notice
             \/ ~ok /\ ~Keeping(c) /\ Goto(c, "unlock") /\ UNCHANGED <<notice, call>>
    /\ UNCHANGED <<intent, sessionEnding, lifeMu, budget, upSince, channel, popup, bgLocal,
                   history>>

\* keepsRunning: the process survives swapSurvival, or a poll finds it gone
SwapKeep(c) ==
    /\ pc[c] = "swapKeep"
    /\ IF Running THEN Notify(c, "Running", "unlock") /\ UNCHANGED call
       ELSE NextTry(c) /\ UNCHANGED notice
    /\ UNCHANGED <<machine, lifeMu, budget, upSince, channel, popup, bgLocal, history>>

SwapUndo(c) ==
    /\ pc[c] = "swapUndo"
    /\ \E ok \in BOOLEAN : Goto(c, IF ok THEN "swapAgain" ELSE "unlock")
    /\ UNCHANGED <<machine, lifeMu, budget, upSince, channel, popup, notice, call, bgLocal,
                   history>>

SwapAgain(c) ==
    /\ pc[c] = "swapAgain"
    /\ \E ok \in BOOLEAN :
          /\ StartProcess(ok)
          /\ IF ok THEN Notify(c, "Running", "unlock")
             ELSE Goto(c, "unlock") /\ UNCHANGED notice
    /\ UNCHANGED <<intent, sessionEnding, lifeMu, budget, upSince, channel, popup, call,
                   bgLocal, history>>

CallerStep(c) ==
    \/ AskStatus(c) \/ Lock(c) \/ Unlock(c) \/ Reset(c)
    \/ StartProc(c) \/ StartSave(c) \/ StopSave(c) \/ StopProc(c)
    \/ RestartCheck(c) \/ RestartStop(c) \/ RestartStart(c)
    \/ SwapCheck(c) \/ SwapStop(c) \/ SwapFn(c) \/ SwapStart(c) \/ SwapKeep(c)
    \/ SwapUndo(c) \/ SwapAgain(c)

-----------------------------------------------------------------------------
(* The background goroutine: RestoreLastState, then StartMonitoring *)

Load ==
    /\ pc[bg] = "load"
    /\ Goto(bg, IF intent THEN "restoreLock" ELSE "readProc")
    /\ UNCHANGED <<machine, lifeMu, budget, upSince, channel, popup, notice, call, bgLocal,
                   history>>

IntentNotReread == TRUE \* mutant: the start relies on the first load
\* intentRunning (the registry's LoadVPNState reports no errors)
IntentRunning == intent

\* startProcess: the intent is read again under lifeMu
RestoreLock ==
    /\ pc[bg] = "restoreLock"
    /\ lifeMu = free
    /\ lifeMu' = bg
    /\ IF IntentRunning THEN Goto(bg, "restoreStart") /\ UNCHANGED resume
       ELSE Goto(bg, "bgUnlock") /\ resume' = "readProc"
    /\ UNCHANGED <<machine, budget, upSince, channel, popup, notice, call, restoreAttempt,
                   lastStatus, curStatus, history>>

\* the label after a failed attempt of the restore
NextRestore == IF restoreAttempt < RestoreStartAttempts THEN "restoreLock" ELSE "readProc"
CountRestore ==
    restoreAttempt' = IF restoreAttempt < RestoreStartAttempts THEN restoreAttempt + 1
                      ELSE restoreAttempt

RestoreStart ==
    /\ pc[bg] = "restoreStart"
    /\ \/ /\ StartProcess(TRUE)
          /\ resume' = "restoreVerify"
          /\ Notify(bg, "Running", "bgUnlock")
          /\ UNCHANGED restoreAttempt
       \/ /\ StartProcess(FALSE)
          /\ resume' = NextRestore
          /\ CountRestore
          /\ Goto(bg, "bgUnlock")
          /\ UNCHANGED notice
    /\ UNCHANGED <<intent, sessionEnding, lifeMu, budget, upSince, channel, popup, call,
                   lastStatus, curStatus, history>>

\* after RestoreCheckDelay, without the lock: did it survive?
RestoreVerify ==
    /\ pc[bg] = "restoreVerify"
    /\ IF Running THEN Goto(bg, "readProc") /\ UNCHANGED restoreAttempt
       ELSE Goto(bg, NextRestore) /\ CountRestore
    /\ UNCHANGED <<machine, lifeMu, budget, upSince, channel, popup, notice, call, lastStatus,
                   curStatus, resume, history>>

BgUnlock ==
    /\ pc[bg] = "bgUnlock"
    /\ lifeMu' = free
    /\ Goto(bg, resume)
    /\ UNCHANGED <<machine, budget, upSince, channel, popup, notice, call, bgLocal, history>>

(* monitorTick; the first pass is StartMonitoring's own look at the status *)

\* GetStatus, first half: IsRunning
ReadProc ==
    /\ pc[bg] = "readProc"
    /\ IF Running THEN curStatus' = "Running" /\ Goto(bg, "observe")
       ELSE Goto(bg, "readIntent") /\ UNCHANGED curStatus
    /\ UNCHANGED <<machine, lifeMu, budget, upSince, channel, popup, notice, call,
                   restoreAttempt, lastStatus, resume, history>>

\* GetStatus, second half: the intent and whether the monitor has given up
ReadIntent ==
    /\ pc[bg] = "readIntent"
    /\ curStatus' = IF intent /\ ~gaveUp THEN "Starting" ELSE "Stopped"
    /\ Goto(bg, "observe")
    /\ UNCHANGED <<machine, lifeMu, budget, upSince, channel, popup, notice, call,
                   restoreAttempt, lastStatus, resume, history>>

\* markRunning when the status has changed, and before the first tick
Observe ==
    /\ pc[bg] = "observe"
    /\ upSince' = IF curStatus = lastStatus THEN upSince
                  ELSE IF curStatus = "Running" THEN "recent" ELSE "none"
    /\ lastStatus' = curStatus
    /\ Goto(bg, IF lastStatus = "unknown" THEN "readProc" ELSE "compare")
    /\ UNCHANGED <<machine, lifeMu, budget, channel, popup, notice, call, restoreAttempt,
                   curStatus, resume, history>>

NotifyOnlyDropped == notifyDropped \* mutant: trusts every optimistic "running"
\* the listener has not been sent exactly this status
NotifyDue == notifyDropped \/ curStatus # published

Compare ==
    /\ pc[bg] = "compare"
    /\ IF NotifyDue THEN Notify(bg, curStatus, "decide")
       ELSE Goto(bg, "decide") /\ UNCHANGED notice
    /\ UNCHANGED <<machine, lifeMu, budget, upSince, channel, popup, call, bgLocal, history>>

StableAtOnce == upSince # "none" \* mutant: any observed run clears the counter
\* up for AutoRestartResetAfter
Stable == upSince = "long"

\* maybeResetAutoRestarts while it runs, autoRestartDue while it does not
Decide ==
    /\ pc[bg] = "decide"
    /\ \/ /\ curStatus = "Running"
          /\ IF Stable THEN ResetBudget ELSE UNCHANGED budget
          /\ Goto(bg, "readProc")
       \/ /\ curStatus # "Running"
          /\ Goto(bg, IF gaveUp \/ backoff THEN "readProc" ELSE "tryLock")
          /\ UNCHANGED budget
    /\ UNCHANGED <<machine, lifeMu, upSince, channel, popup, notice, call, bgLocal, history>>

NeverBusy == FALSE \* mutant: the monitor does not ask for the lock
\* the TryLock of tryAutoRestart
Busy == lifeMu # free

\* tryAutoRestart: never into a closing session, never into an operation
TryLock ==
    /\ pc[bg] = "tryLock"
    /\ IF sessionEnding \/ Busy THEN Goto(bg, "readProc") /\ UNCHANGED lifeMu
       ELSE lifeMu' = bg /\ Goto(bg, "autoCheck")
    /\ UNCHANGED <<machine, budget, upSince, channel, popup, notice, call, bgLocal, history>>

CrashedOrStopped == ~Running \* mutant: the intent is not asked
\* down although the stored intent says it should run
Crashed == intent /\ ~Running

OneAttemptMore == autoRestarts <= AutoRestartMaxAttempts \* mutant: off by one
AttemptsLeft == autoRestarts < AutoRestartMaxAttempts

GiveUpSilently == UNCHANGED gaveUp /\ resume' = "readProc" \* mutant: tries no more, says nothing
\* the attempts are used up
GiveUp ==
    /\ gaveUp' = TRUE
    /\ resume' = IF gaveUp THEN "readProc" ELSE "report"

AutoCheck ==
    /\ pc[bg] = "autoCheck"
    /\ \/ /\ ~Crashed
          /\ Goto(bg, "bgUnlock")
          /\ resume' = "readProc"
          /\ UNCHANGED budget
       \/ /\ Crashed /\ ~AttemptsLeft
          /\ GiveUp
          /\ Goto(bg, "bgUnlock")
          /\ UNCHANGED <<autoRestarts, backoff>>
       \/ /\ Crashed /\ AttemptsLeft
          /\ autoRestarts' = autoRestarts + 1
          /\ backoff' = TRUE
          /\ Goto(bg, "autoStart")
          /\ resume' = "readProc"
          /\ UNCHANGED gaveUp
    /\ UNCHANGED <<machine, lifeMu, upSince, channel, popup, notice, call, restoreAttempt,
                   lastStatus, curStatus, history>>

AutoStart ==
    /\ pc[bg] = "autoStart"
    /\ \E ok \in BOOLEAN :
          /\ StartProcess(ok)
          /\ IF ok THEN Notify(bg, "Running", "bgUnlock")
             ELSE Goto(bg, "bgUnlock") /\ UNCHANGED notice
    /\ UNCHANGED <<intent, sessionEnding, lifeMu, budget, upSince, channel, popup, call,
                   bgLocal, history>>

\* OnAutoRestartFailed, outside lifeMu; a second popup is the same to this model,
\* and one that nobody will answer with "yes" is none
Report ==
    /\ pc[bg] = "report"
    /\ popup' = ("turnOff" \in Ops)
    /\ Goto(bg, "readProc")
    /\ UNCHANGED <<machine, lifeMu, budget, upSince, channel, notice, call, bgLocal, history>>

BgStep ==
    \/ Load \/ RestoreLock \/ RestoreStart \/ RestoreVerify \/ BgUnlock
    \/ ReadProc \/ ReadIntent \/ Observe \/ Compare \/ Decide
    \/ TryLock \/ AutoCheck \/ AutoStart \/ Report

-----------------------------------------------------------------------------
(* The world around the service *)

\* sing-box dies on its own, or Windows ends it at logoff
Die ==
    /\ Running
    /\ proc' = IF sessionEnding THEN "ended" ELSE "down"
    /\ UNCHANGED <<intent, sessionEnding, lifeMu, budget, upSince, channel, popup, pc, notice,
                   call, bgLocal, history>>

EndSession ==
    /\ SessionEnds /\ ~sessionEnding
    /\ sessionEnding' = TRUE
    /\ UNCHANGED <<proc, intent, lifeMu, budget, upSince, channel, popup, pc, notice, call,
                   bgLocal, history>>

\* the event loop takes the notification (StatusListener: what it does then)
Receive ==
    /\ pending
    /\ pending' = FALSE
    /\ UNCHANGED <<machine, lifeMu, budget, upSince, published, notifyDropped, popup, pc,
                   notice, call, bgLocal, history>>

\* time: the backoff of the last attempt has passed
BackoffPasses ==
    /\ backoff
    /\ backoff' = FALSE
    /\ UNCHANGED <<machine, lifeMu, autoRestarts, gaveUp, upSince, channel, popup, pc, notice,
                   call, bgLocal, history>>

\* time: AutoRestartResetAfter seconds since runningSince
UpForLong ==
    /\ upSince = "recent"
    /\ upSince' = "long"
    /\ UNCHANGED <<machine, lifeMu, budget, channel, popup, pc, notice, call, bgLocal, history>>

\* a popup is closed with "no"
Dismiss ==
    /\ popup
    /\ popup' = FALSE
    /\ UNCHANGED <<machine, lifeMu, budget, upSince, channel, pc, notice, call, bgLocal, history>>

\* A fresh VPNService: what the application starts with
Fresh ==
    /\ lifeMu = free
    /\ autoRestarts = 0 /\ gaveUp = FALSE /\ backoff = FALSE
    /\ upSince = "none"
    /\ pending = FALSE /\ published = "Stopped" /\ notifyDropped = FALSE
    /\ popup = FALSE
    /\ pc = [t \in Threads |-> IF t = bg THEN "load" ELSE "idle"]
    /\ notice = [t \in Threads |-> NoNotice]
    /\ call = [c \in Callers |-> NoCall]
    /\ restoreAttempt = 1
    /\ lastStatus = "unknown" /\ curStatus = "Stopped"
    /\ resume = "readProc"

\* The application dies at any point (sing-box may outlive it, or go with a
\* reboot) and is started again, with a fresh VPNService
AppRestart ==
    /\ appRestarts < MaxAppRestarts
    /\ appRestarts' = appRestarts + 1
    /\ proc' \in {IF Running THEN "up" ELSE "down", "down"}
    /\ sessionEnding' = FALSE
    /\ lifeMu' = free
    /\ ResetBudget
    /\ upSince' = "none"
    /\ pending' = FALSE /\ published' = "Stopped" /\ notifyDropped' = FALSE
    /\ popup' = FALSE
    /\ pc' = [t \in Threads |-> IF t = bg THEN "load" ELSE "idle"]
    /\ notice' = [t \in Threads |-> NoNotice]
    /\ call' = [c \in Callers |-> NoCall]
    /\ restoreAttempt' = 1
    /\ lastStatus' = "unknown" /\ curStatus' = "Stopped"
    /\ resume' = "readProc"
    /\ UNCHANGED <<intent, userOff>>

Init ==
    /\ proc \in {"up", "down"}
    /\ intent \in BOOLEAN
    /\ sessionEnding = FALSE
    /\ Fresh
    /\ appRestarts = 0
    /\ userOff = FALSE

Next ==
    \/ \E c \in Callers : Request(c) \/ CallerStep(c)
    \/ BgStep
    \/ \E t \in Threads : Send(t) \/ Record(t)
    \/ Die \/ EndSession \/ Receive \/ BackoffPasses \/ UpForLong \/ Dismiss \/ AppRestart

Spec == Init /\ [][Next]_vars

-----------------------------------------------------------------------------
(* Properties *)

CallerLabels == {"idle", "askStatus", "lock", "unlock", "reset", "startProc", "startSave",
    "stopSave", "stopProc", "restartCheck", "restartStop", "restartStart", "swapCheck",
    "swapStop", "swapFn", "swapStart", "swapKeep", "swapUndo", "swapAgain"}
BgLabels == {"load", "restoreLock", "restoreStart", "restoreVerify", "bgUnlock", "readProc",
    "readIntent", "observe", "compare", "decide", "tryLock", "autoCheck", "autoStart", "report"}
NotifyLabels == {"send", "recordSent", "recordDrop"}

Calls == [op : AllOps \cup {"none"}, undo : BOOLEAN, wasRunning : BOOLEAN, fnOK : BOOLEAN,
          attempt : {1, 2}]
Notices == [status : Statuses, then : {"none", "unlock", "swapFn", "bgUnlock", "decide"}]

\* Every variable has its type.
TypeOK ==
    /\ proc \in {"up", "down", "ended"}
    /\ intent \in BOOLEAN /\ sessionEnding \in BOOLEAN
    /\ lifeMu \in Threads \cup {free}
    /\ autoRestarts \in 0..AutoRestartMaxAttempts
    /\ gaveUp \in BOOLEAN /\ backoff \in BOOLEAN
    /\ upSince \in {"none", "recent", "long"}
    /\ pending \in BOOLEAN /\ published \in Statuses /\ notifyDropped \in BOOLEAN
    /\ popup \in BOOLEAN
    /\ pc \in [Threads -> CallerLabels \cup BgLabels \cup NotifyLabels]
    /\ notice \in [Threads -> Notices]
    /\ call \in [Callers -> Calls]
    /\ restoreAttempt \in 1..RestoreStartAttempts
    /\ lastStatus \in Statuses \cup {"unknown"} /\ curStatus \in Statuses
    /\ resume \in {"restoreLock", "restoreVerify", "readProc", "report"}
    /\ appRestarts \in 0..MaxAppRestarts
    /\ userOff \in BOOLEAN

\* WithStoppedOrUndo promises fn, and the undo, a sing-box that is down: no
\* restore, monitor or other caller brings it up while the binary is replaced
\* (vpn_service.go WithStopped, startToKeep, tryAutoRestart's TryLock).
DownWhileSwapped ==
    \A c \in Callers : pc[c] \in {"swapFn", "swapUndo"} => ~Running

\* A step that brings sing-box up after the user's Stop has returned.
UserAskedAgain ==
    (~Running /\ Running' /\ userOff) =>
        /\ lifeMu \in Callers
        /\ \/ call[lifeMu].op = "start"
           \/ StopFails /\ call[lifeMu].op \in {"restart", "swap"}

\* Once the user's Stop has returned, only a Start brings sing-box up again:
\* not a restore attempt or a monitor tick that was under way, not a restart
\* for a config change, also not after the application was restarted.  (A
\* restart may revive a process that the Stop has failed to kill.)
StopWins == [][UserAskedAgain]_vars
=============================================================================
