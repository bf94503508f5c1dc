------------------------------ MODULE SelfUpdate ------------------------------
(* The app's update of itself (app_update_service.go, selfupdate/updater.go):  *)
(* the running exe is renamed aside, the verified download renamed into its    *)
(* place, and the new version runs from the relaunch, or the next start, on.   *)
(* Every file step may fail and the process may die between any two.           *)
EXTENDS Integers

CONSTANTS MaxVersion, MaxEnds     \* releases; bound: deaths in the middle

ASSUME VersionAssumption == MaxVersion \in Nat \ {0} /\ MaxEnds \in Nat

VARIABLES
    appExe, backup, appStaged,    \* the file, its .old and its .new: a version, None, or Part
    version,                \* the running one, None: no process
    installed,              \* AppUpdateService.installed
    at,                     \* the step of Update
    latest,                 \* the latest release
    ends, torn              \* history: deaths; died, or could not restore, between the renames

appFiles == <<appExe, backup, appStaged>>
appVars == <<appFiles, version, installed, at, latest, ends, torn>>

None == 0
Part == -1
Releases == 1..MaxVersion

Release ==
    /\ latest < MaxVersion /\ latest' = latest + 1
    /\ UNCHANGED <<appFiles, version, installed, at, ends, torn>>

\* mutant: a second update before the relaunch
Always == TRUE
NotInstalled == ~installed

CheckUpdate ==
    /\ at = "idle" /\ version # None /\ NotInstalled /\ latest > version
    /\ at' = "downloading"
    /\ UNCHANGED <<appFiles, version, installed, latest, ends, torn>>

\* The latest version's signed exe, or an error: from the removal of the old
\* download on it leaves no file, before that whatever was there
Download ==
    /\ at = "downloading"
    /\ \/ appStaged' = latest /\ at' = "clearing"
       \/ appStaged' \in {appStaged, None} /\ at' = "idle"
    /\ UNCHANGED <<appExe, backup, version, installed, latest, ends, torn>>

\* The errors of this remove are ignored: the rename replaces the file. Windows
\* does not remove the file of a running process
ClearBackup ==
    /\ at = "clearing" /\ at' = "aside"
    /\ backup' \in {backup} \cup (IF backup = version THEN {} ELSE {None})
    /\ UNCHANGED <<appExe, appStaged, version, installed, latest, ends, torn>>

MoveAside ==
    /\ at = "aside"
    /\ \/ appExe # None /\ backup' = appExe /\ appExe' = None /\ at' = "placing"
       \/ UNCHANGED <<appExe, backup>> /\ at' = "idle"
    /\ UNCHANGED <<appStaged, version, installed, latest, ends, torn>>

\* mutant: the error alone is returned
JustFails == at' = "idle" /\ UNCHANGED <<appExe, backup, torn>>
Restores == at' = "idle" /\ appExe' = backup /\ backup' = None /\ UNCHANGED torn

PutInPlace ==
    /\ at = "placing"
    /\ \/ appExe' = appStaged /\ appStaged' = None /\ installed' = TRUE /\ at' = "idle" /\ UNCHANGED <<backup, torn>>
       \/ Restores /\ UNCHANGED <<appStaged, installed>>
       \/ at' = "idle" /\ torn' = TRUE /\ UNCHANGED <<appExe, backup, appStaged, installed>>
    /\ UNCHANGED <<version, latest, ends>>

\* The relaunch, a quit or a death; a download dies half-way
End ==
    /\ version # None
    /\ at # "idle" => ends < MaxEnds
    /\ ends' = IF at = "idle" THEN ends ELSE ends + 1
    /\ version' = None /\ installed' = FALSE /\ at' = "idle"
    /\ torn' = (torn \/ at = "placing")
    /\ appStaged' \in {appStaged} \cup (IF at = "downloading" THEN {Part} ELSE {})
    /\ UNCHANGED <<appExe, backup, latest>>

StartVersion ==
    /\ version = None /\ appExe # None
    /\ version' = appExe
    /\ UNCHANGED <<appFiles, installed, at, latest, ends, torn>>

\* Without an exe the user puts the backup back by hand, or installs anew
Repair ==
    /\ version = None /\ appExe = None
    /\ appExe' = (IF backup # None THEN backup ELSE latest) /\ backup' = None /\ torn' = FALSE
    /\ UNCHANGED <<appStaged, version, installed, at, latest, ends>>

AppInit ==
    /\ appExe = 1 /\ backup = None /\ appStaged = None /\ version = 1 /\ installed = FALSE
    /\ at = "idle" /\ latest = 1 /\ ends = 0 /\ torn = FALSE

AppNext ==
    \/ Release \/ CheckUpdate \/ Download \/ ClearBackup \/ MoveAside \/ PutInPlace
    \/ End \/ StartVersion \/ Repair

AppSpec == AppInit /\ [][AppNext]_appVars

-----------------------------------------------------------------------------
AppTypeOK ==
    /\ appExe \in Releases \cup {None} /\ backup \in Releases \cup {None}
    /\ appStaged \in Releases \cup {None, Part} /\ version \in Releases \cup {None}
    /\ installed \in BOOLEAN /\ latest \in Releases /\ ends \in 0..MaxEnds /\ torn \in BOOLEAN
    /\ at \in {"idle", "downloading", "clearing", "aside", "placing"}

\* The exe is missing only between the two renames, after a death there or a
\* failed restore; the version that runs stays on disk, as the exe or as its
\* backup, until another one has started, and without an exe there is always a
\* backup to go back to: Install keeps one generation, Update does not install a
\* second time before the relaunch.
ExeSurvives ==
    /\ appExe = None => backup # None /\ (at = "placing" \/ torn)
    /\ version # None => version \in {appExe, backup}
=============================================================================
