--------------------------- MODULE ProcessManager ---------------------------
(***************************************************************************)
(* The process manager (infrastructure/process/manager.go) with the        *)
(* process table it looks at (windows.go): Start and its grace, the Wait   *)
(* goroutine of every started process, Stop, IsRunning, and the helper     *)
(* runs of the same sing-box.exe that must not be taken for the VPN.       *)
(*                                                                         *)
(* The VPN service calls Start and Stop one at a time (lifeMu); the status *)
(* is asked and processes die at any moment.  Processes are told apart by  *)
(* identity: a PID the system gives out again is another process.          *)
(***************************************************************************)
EXTENDS Naturals, FiniteSets

CONSTANTS
    Own,          \* the sing-box processes this manager may start
    Earlier,      \* elevated ones that outlived the previous instance of the app
    Elevated,     \* elevated ones another program may start
    Unelevated,   \* non-elevated ones another program may start
    Helpers,      \* short-lived runs of the same exe: `sing-box check`, `version`
    none,         \* no process
    CheckFails,   \* the process snapshot can fail
    KillFails     \* a terminated process can refuse to go

Vpns == Own \cup Earlier \cup Elevated   \* what counts as the VPN when alive
Processes == Vpns \cup Unelevated \cup Helpers

ASSUME KindsAssumption ==
    /\ none \notin Processes
    /\ Own \cap (Earlier \cup Elevated \cup Unelevated \cup Helpers) = {}
    /\ Earlier \cap (Elevated \cup Unelevated \cup Helpers) = {}
    /\ Elevated \cap (Unelevated \cup Helpers) = {}
    /\ Unelevated \cap Helpers = {}
ASSUME FailuresAssumption == CheckFails \in BOOLEAN /\ KillFails \in BOOLEAN

VARIABLES
    \* the machine
    alive,        \* the processes that run
    begun,        \* the processes that have been started
    \* Manager
    mu,           \* m.mu is held across steps (by Stop)
    cmd,          \* m.cmd: the owned process, or none
    proc,         \* m.proc: the last one started, or none
    running,      \* m.running
    lastExit,     \* m.lastExit: the process whose death it tells, or none
    done,         \* processes whose done channel is closed
    waited,       \* processes whose Wait goroutine has returned
    stopping,     \* processes a Stop has marked
    \* the caller of Start and Stop
    pc, result,
    found, todo, stopErr, \* Stop's snapshot, what is left of it to terminate, firstErr
    \* helpers
    helperMu,     \* its holder between start and registration, or none
    helperPIDs,   \* the registered helpers
    \* history
    disturbed     \* a snapshot has failed, or another program started an elevated one

machine == <<alive, begun>>
manager == <<mu, cmd, proc, running, lastExit, done, waited, stopping>>
locals == <<pc, result, found, todo, stopErr>>
helping == <<helperMu, helperPIDs>>
vars == <<machine, manager, locals, helping, disturbed>>

-----------------------------------------------------------------------------
(* The process table *)

SnapshotAtAnyTime == TRUE \* mutant: the snapshot does not take helperMu
\* findProcesses: the instances of our exe, without the registered helpers
SnapshotFree == helperMu = none
Found == alive \ helperPIDs

\* ... of which a helper that is not registered would pass for the VPN: it is
\* as elevated as the app
FoundElevated == Found \ Unelevated

\* IsRunning's look at the system (m.isRunning): on a failed check the last
\* known state
Look(answer) ==
    \/ SnapshotFree /\ answer = (FoundElevated # {}) /\ UNCHANGED disturbed
    \/ CheckFails /\ answer = running /\ disturbed' = TRUE

\* What IsRunning tells, when its check does not fail
Tells == IF cmd # none THEN running ELSE alive \cap Vpns # {}

\* terminateAll, best effort: any of them may stay
EndSome(S) == \E gone \in SUBSET (S \cap alive) :
    /\ KillFails \/ gone = S \cap alive
    /\ alive' = alive \ gone

\* a process starts, outside or by this manager
Begin(p) == p \notin begun /\ begun' = begun \cup {p}

Return(r) == pc' = "idle" /\ result' = r

-----------------------------------------------------------------------------
(* Start *)

Request ==
    /\ pc = "idle"
    /\ pc' \in {"startLock", "stopLock"}
    /\ result' = "none"
    /\ UNCHANGED <<machine, manager, found, todo, stopErr, helping, disturbed>>

\* sing-box.exe or config.json is missing
StartMissing ==
    /\ pc = "startLock" /\ mu = "free"
    /\ lastExit' = none
    /\ Return("failed")
    /\ UNCHANGED <<machine, mu, cmd, proc, running, done, waited, stopping, found, todo,
                   stopErr, helping, disturbed>>

\* one is running already
StartAdopt ==
    /\ pc = "startLock" /\ mu = "free"
    /\ Look(TRUE)
    /\ running' = TRUE
    /\ lastExit' = none
    /\ Return("ok")
    /\ UNCHANGED <<machine, mu, cmd, proc, done, waited, stopping, found, todo, stopErr, helping>>

\* running is set when the grace is over
RunningOnStart == TRUE \* mutant: it is set as soon as the process is started
RunningAtLaunch == FALSE

\* none is: end the non-elevated ones, start a process, or fail to
StartLaunch ==
    /\ pc = "startLock" /\ mu = "free"
    /\ Look(FALSE)
    /\ lastExit' = none
    /\ \/ /\ \E p \in Own :
                /\ Begin(p)
                /\ \E gone \in SUBSET (Found \cap Unelevated) : alive' = (alive \ gone) \cup {p}
                /\ cmd' = p /\ proc' = p
          /\ running' = RunningAtLaunch
          /\ pc' = "grace"
          /\ UNCHANGED result
       \/ /\ EndSome(Found \cap Unelevated)
          /\ Return("failed")
          /\ UNCHANGED <<begun, cmd, proc, running>>
    /\ UNCHANGED <<mu, done, waited, stopping, found, todo, stopErr, helping>>

\* the grace: proc.done is closed first
GraceDied ==
    /\ pc = "grace" /\ mu = "free"
    /\ proc \in done
    /\ cmd' = IF cmd = proc THEN none ELSE cmd
    /\ running' = (running /\ cmd # proc)
    /\ Return("failed")
    /\ UNCHANGED <<machine, mu, proc, lastExit, done, waited, stopping, found, todo, stopErr,
                   helping, disturbed>>

\* the grace: the time is over first (select takes either when both are due)
GraceOver ==
    /\ pc = "grace" /\ mu = "free"
    /\ running' = (running \/ cmd = proc)
    /\ Return("ok")
    /\ UNCHANGED <<machine, mu, cmd, proc, lastExit, done, waited, stopping, found, todo,
                   stopErr, helping, disturbed>>

-----------------------------------------------------------------------------
(* The Wait goroutine of a started process *)

Exited(p) == p \in Own \cap begun /\ p \notin alive

ClosableLocked(p) == mu = "free" /\ Exited(p) /\ p \notin done \* mutant: closed under the mutex
Closable(p) == Exited(p) /\ p \notin done

CloseDone(p) ==
    /\ Closable(p)
    /\ done' = done \cup {p}
    /\ UNCHANGED <<machine, mu, cmd, proc, running, lastExit, waited, stopping, locals, helping,
                   disturbed>>

AnyonesState(p) == TRUE \* mutant: clears whatever process is owned by now
\* state is only cleared if it still belongs to this process
Mine(p) == cmd = p

\* a Stop has marked it: its death is no news
NeverExpected(p) == FALSE \* mutant: the mark is not looked at
Expected(p) == p \in stopping

CollectsFirst(p) == Exited(p) /\ p \notin waited \* mutant: before done is closed
Collectable(p) == p \in done \ waited

Collect(p) ==
    /\ Collectable(p)
    /\ mu = "free"
    /\ waited' = waited \cup {p}
    /\ IF Mine(p)
       THEN /\ cmd' = none
            /\ running' = FALSE
            /\ lastExit' = IF Expected(p) THEN lastExit ELSE p
       ELSE UNCHANGED <<cmd, running, lastExit>>
    /\ UNCHANGED <<machine, mu, proc, done, stopping, locals, helping, disturbed>>

-----------------------------------------------------------------------------
(* Stop *)

\* the snapshot, or its failure; the owned process is marked
StopBegin ==
    /\ pc = "stopLock" /\ mu = "free"
    /\ \/ /\ CheckFails
          /\ disturbed' = TRUE
          /\ Return("failed")
          /\ UNCHANGED <<mu, stopping, found, todo, stopErr>>
       \/ /\ SnapshotFree
          /\ mu' = "stop"
          /\ found' = Found
          /\ todo' = FoundElevated
          /\ stopErr' = FALSE
          /\ stopping' = stopping \cup ({cmd} \ {none})
          /\ pc' = "terminate"
          /\ UNCHANGED <<result, disturbed>>
    /\ UNCHANGED <<machine, cmd, proc, running, lastExit, done, waited, helping>>

\* terminateProcess: gone, or still there after StopWaitTimeout
Terminate(p) ==
    /\ pc = "terminate" /\ p \in todo
    /\ todo' = todo \ {p}
    /\ \/ alive' = alive \ {p} /\ UNCHANGED stopErr
       \/ /\ KillFails /\ p \in alive
          /\ stopErr' = TRUE
          /\ UNCHANGED alive
    /\ UNCHANGED <<begun, manager, pc, result, found, helping, disturbed>>

\* all of them dealt with; an owned process that was not among them (it has
\* just exited) is killed through its handle, which may fail, and waited for
Terminated ==
    /\ pc = "terminate" /\ todo = {}
    /\ IF cmd # none /\ cmd \notin found
       THEN pc' = "waitOwn" /\ EndSome({cmd})
       ELSE pc' = "finish" /\ UNCHANGED alive
    /\ UNCHANGED <<begun, manager, result, found, todo, stopErr, helping, disturbed>>

\* StopWaitTimeout is long: who can close the channel has done it by then
TimedOut(p) == p \notin done /\ ~Closable(p)

\* the select: the channel is closed, or the time is over
WaitOwn ==
    /\ pc = "waitOwn"
    /\ cmd \in done \/ TimedOut(cmd)
    /\ stopErr' = (stopErr \/ cmd \notin done)
    /\ pc' = "finish"
    /\ UNCHANGED <<machine, manager, result, found, todo, helping, disturbed>>

StoppedAnyhow == TRUE \* mutant: firstErr is not looked at
Stopped == ~stopErr

\* the non-elevated ones, best effort; then the result
Finish ==
    /\ pc = "finish"
    /\ EndSome(found \cap Unelevated)
    /\ mu' = "free"
    /\ IF Stopped THEN Return("ok") /\ cmd' = none /\ running' = FALSE /\ lastExit' = none
       ELSE Return("failed") /\ UNCHANGED <<cmd, running, lastExit>>
    /\ UNCHANGED <<begun, proc, done, waited, stopping, found, todo, stopErr, helping,
                   disturbed>>

-----------------------------------------------------------------------------
(* IsRunning, helpers, and the world *)

\* IsRunning, asked by anyone: without an owned process it takes over what
\* the system says
Ask ==
    /\ mu = "free" /\ cmd = none
    /\ \E answer \in BOOLEAN : Look(answer) /\ running' = answer
    /\ UNCHANGED <<machine, mu, cmd, proc, lastExit, done, waited, stopping, locals, helping>>

\* HelperOutput: cmd.Start and the registration under helperMu
HelperStart(h) ==
    /\ helperMu = none
    /\ Begin(h)
    /\ alive' = alive \cup {h}
    /\ helperMu' = h
    /\ UNCHANGED <<manager, locals, helperPIDs, disturbed>>

HelperRegister(h) ==
    /\ helperMu = h
    /\ helperPIDs' = helperPIDs \cup {h}
    /\ helperMu' = none
    /\ UNCHANGED <<machine, manager, locals, disturbed>>

\* a helper ends on its own; once it has, it is no longer registered
HelperExit(h) ==
    /\ h \in alive
    /\ alive' = alive \ {h}
    /\ UNCHANGED <<begun, manager, locals, helping, disturbed>>

HelperUnregister(h) ==
    /\ h \in helperPIDs \ alive
    /\ helperMu = none
    /\ helperPIDs' = helperPIDs \ {h}
    /\ UNCHANGED <<machine, manager, locals, helperMu, disturbed>>

\* sing-box dies on its own, or another program ends it
Die(p) ==
    /\ p \in alive \ Helpers
    /\ alive' = alive \ {p}
    /\ UNCHANGED <<begun, manager, locals, helping, disturbed>>

\* another program starts the same sing-box.exe
StartOutside(p) ==
    /\ Begin(p)
    /\ alive' = alive \cup {p}
    /\ disturbed' = (disturbed \/ p \in Elevated)
    /\ UNCHANGED <<manager, locals, helping>>

Init ==
    /\ alive \in SUBSET Earlier
    /\ begun = Earlier
    /\ mu = "free"
    /\ cmd = none /\ proc = none
    /\ running = FALSE
    /\ lastExit = none
    /\ done = {} /\ waited = {} /\ stopping = {}
    /\ pc = "idle" /\ result = "none"
    /\ found = {} /\ todo = {} /\ stopErr = FALSE
    /\ helperMu = none /\ helperPIDs = {}
    /\ disturbed = FALSE

StartStep == StartMissing \/ StartAdopt \/ StartLaunch \/ GraceDied \/ GraceOver
StopStep == StopBegin \/ (\E p \in Processes : Terminate(p)) \/ Terminated \/ WaitOwn \/ Finish
WaitStep(p) == CloseDone(p) \/ Collect(p)
HelperStep(h) == HelperRegister(h) \/ HelperExit(h) \/ HelperUnregister(h)

Next ==
    \/ Request \/ StartStep \/ StopStep \/ Ask
    \/ \E p \in Own : WaitStep(p)
    \/ \E h \in Helpers : HelperStart(h) \/ HelperStep(h)
    \/ \E p \in Processes : Die(p)
    \/ \E p \in Elevated \cup Unelevated : StartOutside(p)

Spec == Init /\ [][Next]_vars

-----------------------------------------------------------------------------
(* Properties *)

\* Every variable has its type.
TypeOK ==
    /\ alive \subseteq begun /\ begun \subseteq Processes
    /\ mu \in {"free", "stop"}
    /\ cmd \in Own \cup {none} /\ proc \in Own \cup {none} /\ lastExit \in Own \cup {none}
    /\ running \in BOOLEAN
    /\ waited \subseteq done /\ done \subseteq Own /\ stopping \subseteq Own
    /\ pc \in {"idle", "startLock", "grace", "stopLock", "terminate", "waitOwn", "finish"}
    /\ result \in {"none", "ok", "failed"}
    /\ found \subseteq Processes /\ todo \subseteq found /\ stopErr \in BOOLEAN
    /\ helperMu \in Helpers \cup {none} /\ helperPIDs \subseteq Helpers
    /\ disturbed \in BOOLEAN

\* A sing-box of this manager is owned for as long as it lives: no goroutine
\* of an earlier process, no failed start or stop makes the manager lose it
\* (manager.go: state is only cleared if it still belongs to this process).
OwnedWhileAlive == \A p \in Own \cap alive : cmd = p

\* Until a snapshot fails or another program starts a VPN, no second one is
\* started beside one that runs (startLocked's isRunning).
NoSecondVpn == ~disturbed => \A p \in Own \cap alive : Earlier \cap alive = {}

\* LastExit tells of the last process started, which nobody asked to stop.
LastExitIsNews ==
    lastExit # none =>
        lastExit = proc /\ lastExit \notin alive \cup stopping /\ cmd = none

\* "Running" is claimed for a process that has survived its start grace or
\* has been found in the system, never for one that may still be a failed
\* start (manager.go Start: it would flash "running" in the UI first).
RunningIsEarned ==
    [][(~running /\ running') =>
          \/ pc = "grace" /\ result' = "ok" /\ cmd = proc
          \/ \E p \in alive \cap Vpns : pc = "grace" => p # proc]_vars

\* A helper run of sing-box.exe is not taken for the VPN: no Stop or Start
\* kills it, and no Start reports success because of it (windows.go
\* helperPIDs: a config check or an update during either).
HelpersSpared ==
    [][\A h \in Helpers \cap alive : h \in alive' \/ UNCHANGED <<manager, locals>>]_vars
HelpersNotAdopted ==
    [][(~disturbed' /\ pc = "startLock" /\ result' = "ok") => alive \cap Vpns # {}]_vars

\* A Stop fails over a process only when that process is still there: it does
\* not wait out its time for one that is gone, whose goroutine needs the mutex
\* Stop holds (manager.go: done is closed before the lock).
StopFailsForCause ==
    [][(~stopErr /\ stopErr') => \E p \in (found \cap Vpns) \cup {cmd} : p \in alive']_vars

\* The contract VPNLifecycle is built on holds until a snapshot fails or
\* another program starts an elevated sing-box: IsRunning becomes true by a
\* successful Start only, and a Stop that succeeds leaves it false.
Op == CASE pc = "idle" -> "idle"
        [] pc \in {"startLock", "grace"} -> "starting"
        [] OTHER -> "stopping"
Contract == INSTANCE ProcessContract WITH up <- Tells, op <- Op
ImplementsContract ==
    Contract!Init /\ [][~disturbed' => Contract!Next]_<<Tells, Op, result>>
=============================================================================
