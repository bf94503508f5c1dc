----------------------------- MODULE UpdateSwap -----------------------------
(***************************************************************************)
(* The sing-box update: UpdateService.Update with the file operations of   *)
(* the updater (Install, Rollback, installDLLs, restoreDLLs) and what      *)
(* WithStoppedOrUndo makes of them: stop, swap, start, and the undo when   *)
(* the new version does not start.                                         *)
(*                                                                         *)
(* Updates run one at a time (opMu).  The VPN is started and stopped by    *)
(* the user and the monitor whenever lifeMu is free.  File operations may  *)
(* fail, and the application may die between any two of them.              *)
(***************************************************************************)
EXTENDS Naturals, FiniteSets

CONSTANTS
    Versions,       \* the releases, by number; a later one is greater
    Libs,           \* the names of libraries
    Carries,        \* release -> the libraries it brings along
    absent, partial, \* what a file is when it is not there, or half copied
    MaxFailures,    \* bound: file operations that fail
    MaxBadStarts,   \* bound: starts of a swap that fail although the version runs
    MaxCrashes      \* bound: deaths of the application

ASSUME VersionsAssumption ==
    /\ Versions \subseteq Nat
    /\ Carries \in [Versions -> SUBSET Libs]
    /\ absent \notin Versions /\ partial \notin Versions /\ absent # partial
ASSUME BoundsAssumption ==
    MaxFailures \in Nat /\ MaxBadStarts \in Nat /\ MaxCrashes \in Nat

Contents == Versions \cup {absent, partial}
NotUp == 0  \* no process; no release has this number

VARIABLES
    \* the Bin directory
    exe, exeOld,    \* sing-box.exe, sing-box.exe.old
    lib, libOld,    \* each library, and its .old
    \* the VPN
    up,             \* the version of the running process, or NotUp
    intent,         \* the user wants it running
    accepts,        \* the versions `sing-box check` accepts the config with
    works,          \* the versions that start on this machine
    \* Update
    pc, staged,     \* its next statement, the version it installs
    previousRuns,   \* the installed version accepts the config
    wasUp,          \* WithStoppedOrUndo's wasRunning
    record, todo,   \* what Install has replaced and added, libraries left
    cur,            \* the library being copied, or absent
    attempt,        \* of startToKeep
    result, before, \* how the last one ended; Bin before it
    \* bounds, and whether one of the failures was of a file put back
    failures, badStarts, crashes, restoreFailed

files == <<exe, exeOld, lib, libOld>>
vpn == <<up, intent, accepts, works>>
update == <<pc, staged, previousRuns, wasUp, record, todo, cur, attempt, result, before>>
counters == <<failures, badStarts, crashes, restoreFailed>>
vars == <<files, vpn, update, counters>>

NoRecord == [had |-> FALSE, replaced |-> {}, added |-> {}]

CanRun(v) == v \in accepts \cap works
Unlocked == pc \in {"idle", "check", "lock"}  \* lifeMu is free

\* A file operation goes wrong; one that restores, where those may.
FailsOnce == failures < MaxFailures /\ failures' = failures + 1
Fails == FailsOnce /\ UNCHANGED restoreFailed
RestoreFails == FailsOnce /\ restoreFailed' = TRUE
Goes == UNCHANGED <<failures, restoreFailed>>

-----------------------------------------------------------------------------
(* Update: download and checks *)

NewLocals ==
    /\ previousRuns' = FALSE /\ wasUp' = FALSE
    /\ record' = NoRecord /\ todo' = {} /\ cur' = absent /\ attempt' = 0
    /\ result' = "none"

\* The release is newer, or the installed version is unknown: its file is missing,
\* or it does not answer and the same release is installed again. Download has
\* staged and verified it
Begin(v) ==
    /\ pc = "idle"
    /\ exe \in Versions => v >= exe
    /\ pc' = "check"
    /\ staged' = v
    /\ before' = [exe |-> exe, lib |-> lib]
    /\ NewLocals
    /\ UNCHANGED <<files, vpn, counters>>

NeverPutBack(new, old) == FALSE \* mutant: no rollback is handed over
PreviousRuns(new, old) == old

\* checkConfig: with the staged binary, then with the installed one
Check ==
    /\ pc = "check"
    /\ LET new == staged \in accepts
           old == exe \in accepts
       IN IF new \/ (~old /\ up = NotUp)
          THEN /\ pc' = "lock"
               /\ previousRuns' = PreviousRuns(new, old)
               /\ UNCHANGED result
          ELSE /\ pc' = "idle"
               /\ result' = "rejected"
               /\ UNCHANGED previousRuns
    /\ UNCHANGED <<files, vpn, staged, wasUp, record, todo, cur, attempt, before, counters>>

-----------------------------------------------------------------------------
(* WithStoppedOrUndo: the stop, then Install *)

Stop ==
    /\ pc = "lock"
    /\ wasUp' = (up # NotUp)
    /\ \/ up' = NotUp /\ pc' = "backup" /\ UNCHANGED result
       \/ up # NotUp /\ pc' = "idle" /\ result' = "failed" /\ UNCHANGED up
    /\ UNCHANGED <<files, intent, accepts, works, staged, previousRuns, record, todo, cur,
                   attempt, before, counters>>

\* fn has returned: startToKeep when the change can be taken back, Start
\* otherwise; nothing when nothing ran before
AfterFn(ok) ==
    /\ attempt' = 0
    /\ IF wasUp THEN /\ pc' = IF ok /\ previousRuns THEN "keep" ELSE "start"
                ELSE pc' = "idle"
    /\ result' = IF ok THEN "updated" ELSE "failed"

\* the current binary becomes .old
Backup ==
    /\ pc = "backup"
    /\ record' = [had |-> exe # absent, replaced |-> {}, added |-> {}]
    /\ todo' = Carries[staged]
    /\ \/ /\ exe = absent /\ Goes
          /\ pc' = "libs"
          /\ UNCHANGED <<exe, exeOld, attempt, result>>
       \/ /\ exe # absent /\ Goes
          /\ exeOld' = exe /\ exe' = absent
          /\ pc' = "libs"
          /\ UNCHANGED <<attempt, result>>
       \/ /\ exe # absent /\ Fails
          /\ exeOld' = absent
          /\ AfterFn(FALSE)
          /\ UNCHANGED exe
    /\ UNCHANGED <<lib, libOld, vpn, staged, previousRuns, wasUp, cur, before, badStarts, crashes>>

\* installDLLs, for one library: the old one becomes .old ...
LibBackup(l) ==
    /\ pc = "libs" /\ l \in todo
    /\ cur' = l /\ todo' = todo \ {l}
    /\ \/ /\ lib[l] = absent /\ Goes
          /\ record' = [record EXCEPT !.added = @ \cup {l}]
          /\ pc' = "copyLib"
          /\ UNCHANGED <<lib, libOld>>
       \/ /\ lib[l] # absent /\ Goes
          /\ libOld' = [libOld EXCEPT ![l] = lib[l]]
          /\ lib' = [lib EXCEPT ![l] = absent]
          /\ record' = [record EXCEPT !.replaced = @ \cup {l}]
          /\ pc' = "copyLib"
       \/ /\ lib[l] # absent /\ Fails
          /\ libOld' = [libOld EXCEPT ![l] = absent]
          /\ pc' = "undoLibs"
          /\ UNCHANGED <<lib, record>>
    /\ UNCHANGED <<exe, exeOld, vpn, staged, previousRuns, wasUp, attempt, result, before,
                   badStarts, crashes>>

\* ... and the new one is copied
LibCopy ==
    /\ pc = "copyLib"
    /\ cur' = absent
    /\ \/ Goes /\ lib' = [lib EXCEPT ![cur] = staged] /\ pc' = "libs"
       \/ /\ Fails
          /\ \E half \in {absent, partial} : lib' = [lib EXCEPT ![cur] = half]
          /\ pc' = "undoLibs"
    /\ UNCHANGED <<exe, exeOld, libOld, vpn, staged, previousRuns, wasUp, record, todo,
                   attempt, result, before, badStarts, crashes>>

LibsAnyTime == TRUE \* mutant: the binary does not wait for the libraries
LibsDone == todo = {}

\* the binary comes last
ExeCopy ==
    /\ pc = "libs" /\ LibsDone
    /\ \/ Goes /\ exe' = staged /\ AfterFn(TRUE)
       \/ /\ Fails
          /\ exe' \in {absent, partial}
          /\ pc' = "undoLibs"
          /\ UNCHANGED <<attempt, result>>
    /\ UNCHANGED <<exeOld, lib, libOld, vpn, staged, previousRuns, wasUp, record, todo, cur,
                   before, badStarts, crashes>>

-----------------------------------------------------------------------------
(* Taking it back: restoreDLLs and the binary, by Install or by Rollback *)

KeepAdded(l) == lib \* mutant: what the release added stays
RemoveAdded(l) == [lib EXCEPT ![l] = absent]

\* one library of the record is dealt with; Install ignores a failure here,
\* Rollback reports it
UndoLib(l) ==
    /\ pc \in {"undoLibs", "rollLibs"}
    /\ l \in record.replaced \cup record.added
    /\ record' = [record EXCEPT !.replaced = @ \ {l}, !.added = @ \ {l}]
    /\ \/ Goes /\ l \in record.replaced
          /\ lib' = [lib EXCEPT ![l] = libOld[l]]
          /\ libOld' = [libOld EXCEPT ![l] = absent]
          /\ UNCHANGED result
       \/ Goes /\ l \in record.added
          /\ lib' = RemoveAdded(l)
          /\ UNCHANGED <<libOld, result>>
       \/ /\ RestoreFails
          /\ result' = IF pc = "rollLibs" THEN "undoFailed" ELSE result
          /\ UNCHANGED <<lib, libOld>>
    /\ UNCHANGED <<exe, exeOld, vpn, pc, staged, previousRuns, wasUp, todo, cur, attempt,
                   before, badStarts, crashes>>

LibsUndone == record.replaced \cup record.added = {}

\* Install puts the previous binary back, when there was one
UndoExe ==
    /\ pc = "undoLibs" /\ LibsUndone
    /\ AfterFn(FALSE) /\ todo' = {}
    /\ \/ ~record.had /\ Goes /\ UNCHANGED <<exe, exeOld>>
       \/ record.had /\ Goes /\ exe' = exeOld /\ exeOld' = absent
       \/ record.had /\ RestoreFails /\ exe' = absent /\ UNCHANGED exeOld
    /\ UNCHANGED <<lib, libOld, vpn, staged, previousRuns, wasUp, record, cur, before,
                   badStarts, crashes>>

\* Rollback: the binary first
Rollback ==
    /\ pc = "rollback" /\ record.had
    /\ \/ Goes /\ exe' = exeOld /\ exeOld' = absent /\ result' = "rolledBack"
       \/ RestoreFails /\ result' = "undoFailed" /\ UNCHANGED <<exe, exeOld>>
    /\ pc' = "rollLibs"
    /\ UNCHANGED <<lib, libOld, vpn, staged, previousRuns, wasUp, record, todo, cur, attempt,
                   before, badStarts, crashes>>

\* undoAndStart: a half-restored state is left to the monitor
RolledBack ==
    /\ pc = "rollLibs" /\ LibsUndone
    /\ pc' = IF result = "undoFailed" THEN "idle" ELSE "restart"
    /\ UNCHANGED <<files, vpn, staged, previousRuns, wasUp, record, todo, cur, attempt, result,
                   before, counters>>

-----------------------------------------------------------------------------
(* WithStoppedOrUndo: the start *)

\* Start, and the survival of the first seconds where it is watched
Starts == CanRun(exe) /\ up' = exe /\ UNCHANGED badStarts
DoesNotStart ==
    /\ UNCHANGED up
    /\ \/ ~CanRun(exe) /\ UNCHANGED badStarts
       \/ badStarts < MaxBadStarts /\ badStarts' = badStarts + 1

KeepAttemptThrice == attempt = 2 \* mutant: one attempt too many
LastAttempt == attempt = 1

\* startToKeep: two attempts, then the change is taken back
StartToKeep ==
    /\ pc = "keep"
    /\ attempt' = attempt + 1
    /\ \/ Starts /\ pc' = "idle"
       \/ DoesNotStart /\ pc' = IF LastAttempt THEN "rollback" ELSE "keep"
    /\ UNCHANGED <<files, intent, accepts, works, staged, previousRuns, wasUp, record, todo, cur,
                   result, before, failures, crashes, restoreFailed>>

\* the one start after a failed swap, one that is not taken back, or an undo
StartOnce ==
    /\ pc \in {"start", "restart"}
    /\ pc' = "idle"
    /\ Starts \/ DoesNotStart
    /\ UNCHANGED <<files, intent, accepts, works, staged, previousRuns, wasUp, record, todo, cur,
                   attempt, result, before, failures, crashes, restoreFailed>>

-----------------------------------------------------------------------------
(* The user, the monitor, and the world *)

\* the user's start, which records the intent when it succeeds, and the
\* monitor's, which wants it recorded
Start ==
    /\ Unlocked /\ up = NotUp
    /\ intent' = (intent \/ CanRun(exe))
    /\ up' = IF CanRun(exe) THEN exe ELSE NotUp
    /\ UNCHANGED <<files, accepts, works, update, counters>>

UserStop ==
    /\ Unlocked
    /\ intent' = FALSE
    /\ up' \in {up, NotUp}
    /\ UNCHANGED <<files, accepts, works, update, counters>>

Die ==
    /\ Unlocked /\ up # NotUp
    /\ up' = NotUp
    /\ UNCHANGED <<files, intent, accepts, works, update, counters>>

\* config edits take opMu; a running VPN goes on with the config it has read
EditConfig ==
    /\ pc = "idle"
    /\ accepts' \in SUBSET Versions
    /\ UNCHANGED <<files, up, intent, works, update, counters>>

\* the application dies, alone or with the machine; what it kept in memory is
\* gone, Bin is as it is
Crash ==
    /\ pc # "idle" /\ crashes < MaxCrashes
    /\ crashes' = crashes + 1
    /\ pc' = "idle"
    /\ NewLocals
    /\ up' \in {up, NotUp}
    /\ UNCHANGED <<files, intent, accepts, works, staged, before, failures, badStarts,
                   restoreFailed>>

\* a fresh installation, or a release with its libraries
Init ==
    /\ exe \in Versions \cup {absent}
    /\ lib = [l \in Libs |-> IF exe \in Versions /\ l \in Carries[exe] THEN exe ELSE absent]
    /\ exeOld = absent /\ libOld = [l \in Libs |-> absent]
    /\ accepts \in SUBSET Versions /\ works \in SUBSET Versions
    /\ up = NotUp /\ intent = FALSE
    /\ pc = "idle" /\ staged = NotUp
    /\ previousRuns = FALSE /\ wasUp = FALSE
    /\ record = NoRecord /\ todo = {} /\ cur = absent /\ attempt = 0
    /\ result = "none" /\ before = [exe |-> exe, lib |-> lib]
    /\ failures = 0 /\ badStarts = 0 /\ crashes = 0 /\ restoreFailed = FALSE

InstallStep == Backup \/ (\E l \in Libs : LibBackup(l)) \/ LibCopy \/ ExeCopy
UndoStep == (\E l \in Libs : UndoLib(l)) \/ UndoExe \/ Rollback \/ RolledBack

Next ==
    \/ \E v \in Versions : Begin(v)
    \/ Check \/ Stop \/ InstallStep \/ UndoStep \/ StartToKeep \/ StartOnce
    \/ Start \/ UserStop \/ Die \/ EditConfig \/ Crash

Spec == Init /\ [][Next]_vars

-----------------------------------------------------------------------------
(* Properties *)

\* Every variable has its type; startToKeep makes at most two attempts.
TypeOK ==
    /\ exe \in Contents /\ exeOld \in Contents
    /\ lib \in [Libs -> Contents] /\ libOld \in [Libs -> Contents]
    /\ up \in Versions \cup {NotUp} /\ intent \in BOOLEAN
    /\ accepts \subseteq Versions /\ works \subseteq Versions
    /\ pc \in {"idle", "check", "lock", "backup", "libs", "copyLib", "undoLibs", "rollback",
               "rollLibs", "keep", "start", "restart"}
    /\ staged \in Versions \cup {NotUp}
    /\ previousRuns \in BOOLEAN /\ wasUp \in BOOLEAN
    /\ record \in [had : BOOLEAN, replaced : SUBSET Libs, added : SUBSET Libs]
    /\ todo \subseteq Libs /\ cur \in Libs \cup {absent} /\ attempt \in 0 .. 2
    /\ result \in {"none", "rejected", "failed", "updated", "rolledBack", "undoFailed"}
    /\ before \in [exe : Contents, lib : [Libs -> Contents]]
    /\ failures \in 0 .. MaxFailures /\ badStarts \in 0 .. MaxBadStarts
    /\ crashes \in 0 .. MaxCrashes /\ restoreFailed \in BOOLEAN

Returns(r) == pc # "idle" /\ pc' = "idle" /\ result' = r

\* A binary is never started with libraries older than its own, or half
\* copied ones, whatever fails or dies in the middle of a swap, unless putting
\* a file back is what failed (updater.go Install: a new binary must not start
\* with the old libraries).
NewBinaryNewLibs ==
    [][(up' # up /\ up' # NotUp /\ ~restoreFailed) =>
          \A l \in Carries[up'] : lib[l] \in Versions /\ lib[l] >= up']_vars

\* All or nothing: an update that reports success has installed all of the
\* release, whatever earlier ones have left behind; one that failed or was
\* rolled back has left Bin exactly as it was (a fresh installation may keep a
\* half-copied binary).
UpdateIsExact ==
    [][/\ Returns("updated") => exe' = staged /\ \A l \in Carries[staged] : lib'[l] = staged
       /\ (Returns("failed") \/ Returns("rolledBack") \/ Returns("rejected")) /\ ~restoreFailed' =>
             /\ lib' = before.lib
             /\ exe' = before.exe \/ (before.exe = absent /\ exe' = partial)]_vars

\* An update that has stopped the VPN never leaves it with a binary that does
\* not run where the old one does (update_service.go Update), nor gives up one
\* that runs for a passing failure of its first start (vpn_service.go
\* startToKeep).
OldRunsNewRuns ==
    [][/\ (~Unlocked /\ pc' = "idle" /\ result' # "none" /\ wasUp /\ CanRun(before.exe)
             /\ ~restoreFailed') => exe' \in accepts \cap works
       /\ (pc # "idle" /\ result' = "rolledBack") => ~CanRun(staged)]_vars

\* "an update never leaves the VPN down where the old version runs": also
\* when the VPN is to run and happens to be down when the swap begins.
NeverLeavesDown ==
    [][(Returns("updated") /\ intent /\ CanRun(before.exe)) => exe' \in accepts \cap works]_vars
=============================================================================
