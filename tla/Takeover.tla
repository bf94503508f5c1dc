------------------------------- MODULE Takeover -------------------------------
(* The takeover of a portable installation by an installed copy (migrate.go,   *)
(* main.go) and the autostart task both fight for (scheduler.go). Starters of  *)
(* the installed copy, the app itself and the installer's --migrate, may run   *)
(* side by side: the takeover comes before the single-instance mutex. Each may *)
(* fail in every step, die and be started again.                               *)
EXTENDS Integers, FiniteSets

CONSTANTS
    Carriers, Installers, \* starters: the app (carry), `--migrate`
    Bins,               \* sing-box.exe and the DLLs beside it
    DataFiles,          \* optional files, those config.json names included
    Entries,            \* files of the history directory
    Config,             \* config.json
    MaxDeaths, MaxTaskOps   \* bounds: deaths of starters; changes of the task from outside

Starters == Carriers \cup Installers
Files == Bins \cup DataFiles \cup {Config}

ASSUME FileAssumption ==
    /\ Bins \cap DataFiles = {} /\ Config \notin Bins \cup DataFiles \cup Entries
    /\ Entries \cap (Bins \cup DataFiles) = {}
ASSUME StarterAssumption == Carriers \cap Installers = {}
ASSUME BoundAssumption == MaxDeaths \in Nat /\ MaxTaskOps \in Nat

VARIABLES
    from,       \* what the old copy's folder holds
    dst, dir,   \* files of the new copy; its history directory is there
    task,       \* the autostart task: what it launches, or NoTask
    old,        \* the old copy: "runs", "ended", "deleted" (its folder)
    stored,     \* the stored VPN intent exists
    run,        \* each starter's local state
    deaths, taskOps,
    refused, cut \* history: copies that failed; a starter died filling the directory,
                \* after config.json, or could not change the task

takeVars == <<from, dst, dir, task, old, stored, run, deaths, taskOps, refused, cut>>
outside == <<stored, deaths, taskOps>>

NoTask == [exe |-> "none", enabled |-> FALSE, current |-> FALSE]
Unreadable == [exe |-> "unreadable", enabled |-> FALSE, current |-> FALSE]
Tasks == [exe : {"old", "new"}, enabled : BOOLEAN, current : BOOLEAN] \cup {NoTask}

Idle == [at |-> "idle", todo |-> {}, enabled |-> FALSE]
StarterGoes(s, at) == run' = [run EXCEPT ![s].at = at]

-----------------------------------------------------------------------------
(* The task: schtasks may refuse; an unreadable definition is possible *)

RegisteredTask == {task} \cup (IF task = NoTask THEN {} ELSE {Unreadable})
OwnsTask(seen) == IF seen = Unreadable THEN task # NoTask ELSE seen.exe = "new"
IsEnabled(seen) == IF seen = Unreadable THEN task # NoTask ELSE seen.enabled /\ seen.exe = "new"
RegisteredExe(seen) == IF seen = Unreadable THEN "none" ELSE seen.exe

Enable == task' = [exe |-> "new", enabled |-> TRUE, current |-> TRUE]
Disable == task # NoTask /\ task' = NoTask

NeedsRefresh(seen) ==
    /\ seen.enabled
    /\ \/ seen.exe = "new" /\ ~seen.current
       \/ seen.exe = "old" /\ old = "deleted"

-----------------------------------------------------------------------------
(* A takeover *)

Needed(s) ==
    /\ run[s].at = "idle"
    /\ StarterGoes(s, IF Config \in dst THEN "over" ELSE "asking")
    /\ UNCHANGED <<from, dst, dir, task, old, outside, refused, cut>>

\* The task launches another copy that has a config
Source(s) ==
    /\ run[s].at = "asking"
    /\ \E seen \in RegisteredTask :
        IF RegisteredExe(seen) = "old" /\ Config \in from
        THEN run' = [run EXCEPT ![s] = [at |-> "stopping", todo |-> {}, enabled |-> seen.enabled]]
        ELSE StarterGoes(s, "over")
    /\ UNCHANGED <<from, dst, dir, task, old, outside, refused, cut>>

\* EndInstallation; its failure is logged only
StopOld(s) ==
    /\ run[s].at = "stopping"
    /\ old' \in IF old = "runs" THEN {"runs", "ended"} ELSE {old}
    /\ run' = [run EXCEPT ![s].at = "bins", ![s].todo = Bins]
    /\ UNCHANGED <<from, dst, dir, task, outside, refused, cut>>

\* mutant: config.json is one of the data files
WithConfig == DataFiles \cup {Config}
WithoutConfig == DataFiles

Taken(f) == dst' = IF f \in from THEN dst \cup {f} ELSE dst

\* copyIfMissing: what is there is kept, a copy is whole or not there at all
CopyBinary(s) ==
    /\ run[s].at = "bins"
    /\ \/ \E f \in run[s].todo :
            \/ Taken(f) /\ run' = [run EXCEPT ![s].todo = @ \ {f}] /\ UNCHANGED refused
            \/ /\ f \in from \ dst
               /\ StarterGoes(s, "over") /\ refused' = refused \cup {f} /\ UNCHANGED dst
       \/ /\ run[s].todo = {}
          /\ run' = [run EXCEPT ![s].at = "data", ![s].todo = WithoutConfig]
          /\ UNCHANGED <<dst, refused>>
    /\ UNCHANGED <<from, dir, task, old, outside, cut>>

CopyData(s) ==
    /\ run[s].at = "data"
    /\ \/ \E f \in run[s].todo :
            /\ run' = [run EXCEPT ![s].todo = @ \ {f}]
            /\ \/ Taken(f) /\ UNCHANGED refused
               \/ f \in from \ dst /\ refused' = refused \cup {f} /\ UNCHANGED dst
       \/ run[s].todo = {} /\ StarterGoes(s, IF dir THEN "config" ELSE "entering") /\ UNCHANGED <<dst, refused>>
    /\ UNCHANGED <<from, dir, task, old, outside, cut>>

\* The directory is there before its files are
EnterDir(s) ==
    /\ run[s].at = "entering"
    /\ dir' = TRUE
    /\ run' = [run EXCEPT ![s].at = "filling", ![s].todo = Entries]
    /\ UNCHANGED <<from, dst, task, old, outside, refused, cut>>

CopyEntry(s) ==
    /\ run[s].at = "filling"
    /\ \/ \E f \in run[s].todo :
            \/ Taken(f) /\ run' = [run EXCEPT ![s].todo = @ \ {f}] /\ UNCHANGED refused
            \/ /\ f \in from \ dst
               /\ StarterGoes(s, "config") /\ refused' = refused \cup run[s].todo /\ UNCHANGED dst
       \/ run[s].todo = {} /\ StarterGoes(s, "config") /\ UNCHANGED <<dst, refused>>
    /\ UNCHANGED <<from, dir, task, old, outside, cut>>

CopyConfig(s) ==
    /\ run[s].at = "config"
    /\ \/ Taken(Config) /\ StarterGoes(s, "task")
       \/ Config \notin dst /\ StarterGoes(s, "over") /\ UNCHANGED dst
    /\ UNCHANGED <<from, dir, task, old, outside, refused, cut>>

\* mutant: a task the user had disabled is left as it is
OnlyIfEnabled(s) == IF s \in Carriers THEN (IF run[s].enabled THEN Enable ELSE UNCHANGED task) ELSE Disable
Reregistered(s) == IF s \in Carriers /\ run[s].enabled THEN Enable ELSE Disable

MoveTask(s) ==
    /\ run[s].at = "task"
    /\ run' = [run EXCEPT ![s] = [Idle EXCEPT !.at = "over"]]
    /\ \/ Reregistered(s) /\ UNCHANGED cut
       \/ cut' = cut \cup {"task"} /\ UNCHANGED task
    /\ UNCHANGED <<from, dst, dir, old, outside, refused>>

StarterDies(s) ==
    /\ run[s].at \notin {"idle", "over"} /\ deaths < MaxDeaths
    /\ deaths' = deaths + 1
    /\ StarterGoes(s, "over")
    /\ cut' = cut \cup ({run[s].at} \cap {"filling", "task"})
    /\ UNCHANGED <<from, dst, dir, task, old, stored, taskOps, refused>>

\* The next start of the app, or of the installer
Again(s) ==
    /\ run[s].at = "over"
    /\ run' = [run EXCEPT ![s] = Idle]
    /\ UNCHANGED <<from, dst, dir, task, old, outside, refused, cut>>

-----------------------------------------------------------------------------
(* The task at other times *)

TaskOp ==
    /\ taskOps < MaxTaskOps /\ taskOps' = taskOps + 1
    /\ UNCHANGED <<from, dst, dir, run, deaths, refused, cut>>

\* The running app heals its task at start (RefreshIfOutdated)
Refresh ==
    /\ \E s \in Carriers : run[s].at = "over"
    /\ \E seen \in RegisteredTask : NeedsRefresh(seen)
    /\ Enable
    /\ TaskOp /\ UNCHANGED <<old, stored>>

\* The checkbox of the running app: idempotent
Toggle(want) ==
    /\ \E s \in Carriers : run[s].at = "over"
    /\ \E seen \in RegisteredTask : IsEnabled(seen) # want
    /\ IF want THEN Enable ELSE Disable
    /\ TaskOp /\ UNCHANGED <<old, stored>>

\* --uninstall-cleanup: the intent goes unless autostart is another copy's
Cleanup ==
    /\ \A s \in Starters : run[s].at = "over"
    /\ \E seen \in RegisteredTask :
        IF OwnsTask(seen)
        THEN stored' = FALSE /\ (Disable \/ UNCHANGED task)
        ELSE UNCHANGED task /\ stored' = (stored /\ RegisteredExe(seen) # "none")
    /\ TaskOp /\ UNCHANGED old

\* Logon; the user deletes the old folder
Logon ==
    /\ task.exe = "old" /\ task.enabled /\ old = "ended" /\ old' = "runs"
    /\ TaskOp /\ UNCHANGED <<task, stored>>

DeleteOld ==
    /\ Config \in dst /\ old = "ended" /\ old' = "deleted"
    /\ \A s \in Starters : run[s].at \in {"idle", "over"}
    /\ from' = {}
    /\ taskOps < MaxTaskOps /\ taskOps' = taskOps + 1
    /\ UNCHANGED <<dst, dir, task, stored, run, deaths, refused, cut>>

-----------------------------------------------------------------------------
TakeInit ==
    /\ from \in {(Files \cup Entries) \ missing : missing \in SUBSET DataFiles}
    /\ dst = {} /\ dir = FALSE
    /\ task \in {[exe |-> "old", enabled |-> e, current |-> TRUE] : e \in BOOLEAN}
    /\ old \in {"runs", "ended"} /\ stored = TRUE
    /\ run = [s \in Starters |-> Idle] /\ deaths = 0 /\ taskOps = 0
    /\ refused = {} /\ cut = {}

Step(s) ==
    \/ Needed(s) \/ Source(s) \/ StopOld(s) \/ CopyBinary(s) \/ CopyData(s) \/ EnterDir(s)
    \/ CopyEntry(s) \/ CopyConfig(s) \/ MoveTask(s) \/ StarterDies(s) \/ Again(s)

TakeNext ==
    \/ \E s \in Starters : Step(s)
    \/ \E want \in BOOLEAN : Toggle(want)
    \/ Refresh \/ Cleanup \/ Logon \/ DeleteOld

TakeSpec == TakeInit /\ [][TakeNext]_takeVars

-----------------------------------------------------------------------------
Phases == {"idle", "asking", "stopping", "bins", "data", "entering", "filling", "config", "task", "over"}

TakeTypeOK ==
    /\ from \subseteq Files \cup Entries /\ dst \subseteq Files \cup Entries /\ dir \in BOOLEAN
    /\ task \in Tasks /\ old \in {"runs", "ended", "deleted"} /\ stored \in BOOLEAN
    /\ run \in [Starters -> [at : Phases, todo : SUBSET (Files \cup Entries), enabled : BOOLEAN]]
    /\ deaths \in 0..MaxDeaths /\ taskOps \in 0..MaxTaskOps
    /\ refused \subseteq Files \cup Entries /\ cut \subseteq {"filling", "task"}

\* config.json, which ends the takeover for good, is the last to come: with it
\* every binary is there, and every data file whose copy did not fail, however
\* many starters copy at once and wherever one of them died. The history is
\* whole too, or a starter is filling it or died doing so.
TakenWhole ==
    Config \in dst /\ old # "deleted" =>
        /\ from \cap Bins \subseteq dst
        /\ from \cap DataFiles \subseteq dst \cup refused
        /\ \/ Entries \subseteq dst \cup refused
           \/ "filling" \in cut \/ \E s \in Starters : run[s].at = "filling"

\* After the takeover no logon starts the old copy again: its task is gone or
\* repointed, unless a starter is about to do that, could not, or died before
\* it could (MoveTask after CopyConfig).
TaskFollows ==
    Config \in dst /\ task.exe = "old" =>
        "task" \in cut \/ \E s \in Starters : run[s].at = "task"
=============================================================================
