-------------------------- MODULE Installation_proofs --------------------------
(* Proofs about what keeps the installation whole: Takeover, for any files and *)
(* starters, and SelfUpdate, for any number of releases and deaths.            *)
EXTENDS Takeover, SelfUpdate, UpdateSwap, TLAPS

Moving == {"asking", "stopping", "bins", "data", "entering", "filling", "config", "task"}
AfterBins == {"data", "entering", "filling", "config", "task"}
AfterData == {"entering", "filling", "config", "task"}

\* What a starter has left to copy belongs to its phase, config.json never
Todo(s) ==
    /\ run[s].at = "bins" => run[s].todo \subseteq Bins
    /\ run[s].at = "data" => run[s].todo \subseteq DataFiles
    /\ run[s].at = "filling" => run[s].todo \subseteq Entries

\* What it has passed is copied, or has failed
BinsDone(s) ==
    /\ run[s].at = "bins" => from \cap Bins \subseteq dst \cup run[s].todo
    /\ run[s].at \in AfterBins => from \cap Bins \subseteq dst

DataDone(s) ==
    /\ run[s].at = "data" => from \cap DataFiles \subseteq dst \cup refused \cup run[s].todo
    /\ run[s].at \in AfterData => from \cap DataFiles \subseteq dst \cup refused

HistoryDone ==
    \/ Entries \subseteq dst \cup refused
    \/ "filling" \in cut
    \/ \E s \in Starters : run[s].at = "filling"

EntriesDone(s) ==
    /\ run[s].at = "filling" => Entries \subseteq dst \cup refused \cup run[s].todo
    /\ run[s].at \in {"config", "task"} => HistoryDone

Passed == \A s \in Starters : Todo(s) /\ BinsDone(s) /\ DataDone(s) /\ EntriesDone(s)

\* The history is somebody's business from the moment its directory is there
DirFilled == dir => HistoryDone

\* The old folder goes only after the takeover, with no starter under way
OldThere ==
    /\ old # "deleted" => Entries \subseteq from
    /\ old = "deleted" => Config \in dst /\ \A s \in Starters : run[s].at \notin Moving

Copied ==
    Config \in dst /\ old # "deleted" =>
        from \cap Bins \subseteq dst /\ from \cap DataFiles \subseteq dst \cup refused /\ HistoryDone

Inv == TakeTypeOK /\ Passed /\ DirFilled /\ OldThere /\ Copied /\ TaskFollows

-----------------------------------------------------------------------------
(* Types *)

FilesOK ==
    /\ from \subseteq Files \cup Entries /\ dst \subseteq Files \cup Entries
    /\ old \in {"runs", "ended", "deleted"}
    /\ refused \subseteq Files \cup Entries /\ cut \subseteq {"filling", "task"}
    /\ deaths \in 0..MaxDeaths /\ taskOps \in 0..MaxTaskOps

RunOK == run \in [Starters -> [at : Phases, todo : SUBSET (Files \cup Entries), enabled : BOOLEAN]]

SwitchesOK == dir \in BOOLEAN /\ stored \in BOOLEAN

TaskOK == task \in Tasks

LEMMA TypeParts == TakeTypeOK <=> FilesOK /\ RunOK /\ SwitchesOK /\ TaskOK
BY DEF TakeTypeOK, FilesOK, RunOK, SwitchesOK, TaskOK

LEMMA InitInv == TakeInit => Inv
<1>. SUFFICES ASSUME TakeInit PROVE Inv
  OBVIOUS
<1>. USE FileAssumption DEF TakeInit, Idle
<1>1. FilesOK /\ RunOK
  BY BoundAssumption DEF FilesOK, RunOK, Files, Phases
<1>2. SwitchesOK
  BY DEF SwitchesOK
<1>3. TaskOK
  <2>1. PICK e \in BOOLEAN : task = [exe |-> "old", enabled |-> e, current |-> TRUE]
    OBVIOUS
  <2>. QED  BY <2>1 DEF TaskOK, Tasks
<1>4. Passed
  BY DEF Passed, Todo, BinsDone, DataDone, EntriesDone, AfterBins, AfterData
<1>5. DirFilled /\ OldThere /\ Copied /\ TaskFollows
  BY DEF DirFilled, OldThere, Copied, TaskFollows, Files
<1>. QED  BY <1>1, <1>2, <1>3, <1>4, <1>5, TypeParts DEF Inv

LEMMA StepFiles ==
    ASSUME FilesOK, RunOK, [TakeNext]_takeVars PROVE FilesOK'
<1>. USE DEF FilesOK, RunOK
<1>1. ASSUME NEW s \in Starters, Needed(s) \/ Source(s) \/ StopOld(s) \/ Again(s) \/ MoveTask(s) \/ EnterDir(s)
      PROVE FilesOK'
  BY <1>1 DEF Needed, Source, StopOld, Again, MoveTask, EnterDir, outside
<1>2. ASSUME NEW s \in Starters, CopyBinary(s) \/ CopyData(s) PROVE FilesOK'
  BY <1>2 DEF CopyBinary, CopyData, Taken, outside
<1>3. ASSUME NEW s \in Starters, CopyEntry(s) \/ CopyConfig(s) PROVE FilesOK'
  BY <1>3 DEF CopyEntry, CopyConfig, Taken, Files, outside
<1>4. ASSUME NEW s \in Starters, StarterDies(s) PROVE FilesOK'
  BY <1>4, BoundAssumption DEF StarterDies
<1>5. ASSUME NEW want \in BOOLEAN, Toggle(want) PROVE FilesOK'
  BY <1>5, BoundAssumption DEF Toggle, TaskOp
<1>6. ASSUME TaskOp, old' \in {old, "runs"} PROVE FilesOK'
  BY <1>6, BoundAssumption DEF TaskOp
<1>7. CASE Refresh
  BY <1>6, <1>7 DEF Refresh
<1>8. CASE Cleanup
  <2>1. TaskOp /\ old' = old
    BY <1>8, Zenon DEF Cleanup
  <2>. QED  BY <1>6, <2>1
<1>9. CASE Logon
  BY <1>6, <1>9 DEF Logon
<1>10. CASE DeleteOld
  BY <1>10, BoundAssumption DEF DeleteOld
<1>11. CASE UNCHANGED takeVars
  BY <1>11 DEF takeVars
<1>. QED
  BY <1>1, <1>2, <1>3, <1>4, <1>5, <1>7, <1>8, <1>9, <1>10, <1>11 DEF TakeNext, Step

LEMMA StepTask ==
    ASSUME TaskOK, [TakeNext]_takeVars PROVE TaskOK'
<1>1. Enable => TaskOK'
  BY DEF TaskOK, Tasks, Enable
<1>2. Disable => TaskOK'
  BY DEF TaskOK, Tasks, Disable
<1>3. UNCHANGED task => TaskOK'
  BY DEF TaskOK
<1>4. Enable \/ Disable \/ UNCHANGED task
  <2>1. ASSUME NEW s \in Starters, Step(s) PROVE Enable \/ Disable \/ UNCHANGED task
    BY <2>1 DEF Step, Needed, Source, StopOld, CopyBinary, CopyData, EnterDir, CopyEntry,
       CopyConfig,
                MoveTask, Reregistered, StarterDies, Again
  <2>2. ASSUME NEW want \in BOOLEAN, Toggle(want) PROVE Enable \/ Disable \/ UNCHANGED task
    BY <2>2 DEF Toggle
  <2>3. CASE Refresh \/ Cleanup \/ Logon \/ DeleteOld
    BY <2>3 DEF Refresh, Cleanup, Logon, DeleteOld
  <2>4. CASE UNCHANGED takeVars
    BY <2>4 DEF takeVars
  <2>. QED  BY <2>1, <2>2, <2>3, <2>4 DEF TakeNext
<1>. QED  BY <1>1, <1>2, <1>3, <1>4

LEMMA StepSwitches ==
    ASSUME SwitchesOK, [TakeNext]_takeVars PROVE SwitchesOK'
<1>. USE DEF SwitchesOK
<1>1. ASSUME NEW s \in Starters, Step(s) PROVE SwitchesOK'
  BY <1>1, Zenon DEF Step, Needed, Source, StopOld, CopyBinary, CopyData, EnterDir, CopyEntry,
     CopyConfig,
              MoveTask, StarterDies, Again, outside
<1>2. ASSUME NEW want \in BOOLEAN, Toggle(want) PROVE SwitchesOK'
  BY <1>2, Zenon DEF Toggle, TaskOp
<1>3. CASE Refresh \/ Logon \/ DeleteOld
  BY <1>3, Zenon DEF Refresh, Logon, DeleteOld, TaskOp
<1>4. CASE Cleanup
  <2>1. dir' = dir
    BY <1>4, Zenon DEF Cleanup, TaskOp
  <2>2. stored' \in BOOLEAN
    BY <1>4, Zenon DEF Cleanup
  <2>. QED  BY <2>1, <2>2
<1>5. CASE UNCHANGED takeVars
  BY <1>5 DEF takeVars
<1>. QED  BY <1>1, <1>2, <1>3, <1>4, <1>5 DEF TakeNext

LEMMA StepRun ==
    ASSUME RunOK, TaskOK, [TakeNext]_takeVars PROVE RunOK'
<1>. USE DEF RunOK
<1>0. ASSUME NEW s \in Starters, Needed(s) PROVE RunOK'
  BY <1>0 DEF Needed, StarterGoes, Phases
<1>1. ASSUME NEW s \in Starters, StopOld(s) PROVE RunOK'
  <2>1. "bins" \in Phases /\ Bins \subseteq Files \cup Entries
    BY DEF Phases, Files
  <2>. QED  BY <1>1, <2>1 DEF StopOld
<1>7. ASSUME NEW s \in Starters, Again(s) PROVE RunOK'
  <2>1. Idle \in [at : Phases, todo : SUBSET (Files \cup Entries), enabled : BOOLEAN]
    BY DEF Idle, Phases
  <2>. QED  BY <1>7, <2>1 DEF Again
<1>2. ASSUME NEW s \in Starters, Source(s) PROVE RunOK'
  <2>1. PICK seen \in RegisteredTask :
            \/ run' = [run EXCEPT ![s] = [at |-> "stopping", todo |-> {}, enabled |-> seen.enabled]]
            \/ StarterGoes(s, "over")
    BY <1>2 DEF Source
  <2>2. seen.enabled \in BOOLEAN
    <3>1. CASE seen = Unreadable
      BY <3>1, Zenon DEF Unreadable
    <3>2. CASE seen = task
      <4>1. CASE task = NoTask
        BY <3>2, <4>1 DEF NoTask
      <4>2. CASE task \in [exe : {"old", "new"}, enabled : BOOLEAN, current : BOOLEAN]
        BY <3>2, <4>2
      <4>. QED  BY <4>1, <4>2 DEF TaskOK, Tasks
    <3>. QED  BY <2>1, <3>1, <3>2, Zenon DEF RegisteredTask
  <2>. QED  BY <2>1, <2>2 DEF StarterGoes, Phases
<1>3. ASSUME NEW s \in Starters, CopyBinary(s) \/ CopyData(s) PROVE RunOK'
  BY <1>3 DEF CopyBinary, CopyData, WithoutConfig, StarterGoes, Phases, Files
<1>4. ASSUME NEW s \in Starters, EnterDir(s) \/ CopyEntry(s) \/ CopyConfig(s) PROVE RunOK'
  BY <1>4 DEF EnterDir, CopyEntry, CopyConfig, StarterGoes, Phases, Files
<1>5. ASSUME NEW s \in Starters, MoveTask(s) \/ StarterDies(s) PROVE RunOK'
  <2>1. CASE MoveTask(s)
    <3>1. run' = [run EXCEPT ![s] = [Idle EXCEPT !.at = "over"]]
      BY <2>1, Zenon DEF MoveTask
    <3>2. [Idle EXCEPT !.at = "over"] \in [at : Phases, todo : SUBSET (Files \cup Entries), enabled : BOOLEAN]
      BY DEF Idle, Phases
    <3>. QED  BY <3>1, <3>2
  <2>2. CASE StarterDies(s)
    BY <2>2 DEF StarterDies, StarterGoes, Phases
  <2>. QED  BY <1>5, <2>1, <2>2
<1>6. CASE UNCHANGED run
  BY <1>6
<1>8. ASSUME NEW s \in Starters, Step(s) PROVE RunOK'
  BY <1>0, <1>1, <1>2, <1>3, <1>4, <1>5, <1>7, <1>8, Zenon DEF Step
<1>9. CASE \E want \in BOOLEAN : Toggle(want)
  BY <1>6, <1>9 DEF Toggle, TaskOp
<1>10. CASE Refresh \/ Cleanup \/ Logon \/ DeleteOld
  BY <1>6, <1>10, Zenon DEF Refresh, Cleanup, Logon, DeleteOld, TaskOp
<1>11. CASE UNCHANGED takeVars
  BY <1>6, <1>11 DEF takeVars
<1>. QED  BY <1>8, <1>9, <1>10, <1>11, Zenon DEF TakeNext

LEMMA StepTypes ==
    ASSUME TakeTypeOK, [TakeNext]_takeVars PROVE TakeTypeOK'
<1>1. FilesOK' /\ RunOK' /\ SwitchesOK' /\ TaskOK'
  BY TypeParts, StepFiles, StepRun, StepSwitches, StepTask
<1>. QED  BY <1>1 DEF TakeTypeOK, FilesOK, RunOK, SwitchesOK, TaskOK

-----------------------------------------------------------------------------
(* A starter's step *)

\* It takes nothing away from the new copy, and config.json comes in one way
LEMMA Grows ==
    ASSUME TakeTypeOK, Passed, NEW s \in Starters, Step(s)
    PROVE  /\ from' = from /\ dst \subseteq dst' /\ refused \subseteq refused' /\ cut \subseteq cut'
           /\ \A t \in Starters \ {s} : run'[t] = run[t]
           /\ old' \in {old, "ended"} /\ (old = "deleted" => old' = old)
           /\ Config \in dst' => Config \in dst \/ (run[s].at = "config" /\ run'[s].at = "task")
<1>. USE DEF TakeTypeOK, Passed, Todo
<1>1. CASE Needed(s) \/ Source(s) \/ Again(s)
  BY <1>1 DEF Needed, Source, Again, StarterGoes
<1>2. CASE StopOld(s) \/ EnterDir(s) \/ MoveTask(s) \/ StarterDies(s)
  BY <1>2 DEF StopOld, EnterDir, MoveTask, StarterDies, StarterGoes
<1>3. CASE CopyBinary(s)
  BY <1>3, FileAssumption DEF CopyBinary, Taken, StarterGoes
<1>4. CASE CopyData(s)
  BY <1>4, FileAssumption DEF CopyData, Taken, StarterGoes
<1>5. CASE CopyEntry(s)
  BY <1>5, FileAssumption DEF CopyEntry, Taken, StarterGoes
<1>6. CASE CopyConfig(s)
  BY <1>6 DEF CopyConfig, Taken, StarterGoes, outside
<1>. QED  BY <1>1, <1>2, <1>3, <1>4, <1>5, <1>6, Zenon DEF Step

\* Leaving the history it leaves it whole, or marked
LEMMA HistoryKept ==
    ASSUME TakeTypeOK, Passed, NEW s \in Starters, Step(s), HistoryDone PROVE HistoryDone'
<1>. USE Grows DEF TakeTypeOK, Passed
<1>1. CASE run[s].at # "filling"
  BY <1>1 DEF HistoryDone
<1>2. CASE CopyEntry(s)
  BY <1>2 DEF CopyEntry, StarterGoes, Taken, HistoryDone, EntriesDone
<1>3. CASE StarterDies(s)
  BY <1>3 DEF StarterDies, StarterGoes, HistoryDone
<1>. QED
  BY <1>1, <1>2, <1>3 DEF Step, Needed, Source, StopOld, CopyBinary, CopyData, EnterDir,
     CopyConfig, MoveTask, Again

LEMMA PassedKept ==
    ASSUME Inv, NEW s \in Starters, Step(s) PROVE Passed'
<1>. USE DEF Inv
<1>1. ASSUME NEW t \in Starters \ {s} PROVE (Todo(t) /\ BinsDone(t) /\ DataDone(t) /\ EntriesDone(t))'
  <2>1. run'[t] = run[t] /\ from' = from /\ dst \subseteq dst' /\ refused \subseteq refused'
    BY Grows
  <2>2. Todo(t)' /\ BinsDone(t)' /\ DataDone(t)'
    BY <2>1 DEF Passed, Todo, BinsDone, DataDone
  <2>3. EntriesDone(t)'
    BY <2>1, HistoryKept DEF Passed, EntriesDone
  <2>. QED  BY <2>2, <2>3
<1>2. (Todo(s) /\ BinsDone(s) /\ DataDone(s) /\ EntriesDone(s))'
  <2>. USE DEF TakeTypeOK, Passed, AfterBins, AfterData, Todo, BinsDone, DataDone
  <2>1. CASE Needed(s) \/ Source(s) \/ Again(s) \/ MoveTask(s)
    BY <2>1 DEF Needed, Source, Again, MoveTask, Idle, StarterGoes, EntriesDone
  <2>2. CASE StopOld(s)
    BY <2>2 DEF StopOld, EntriesDone
  <2>3. CASE StarterDies(s)
    BY <2>3 DEF StarterDies, StarterGoes, EntriesDone
  <2>4. CASE CopyBinary(s)
    BY <2>4 DEF CopyBinary, Taken, WithoutConfig, StarterGoes, EntriesDone
  <2>5. CASE CopyData(s)
    <3>1. EntriesDone(s)'
      BY <2>5, HistoryKept DEF CopyData, StarterGoes, EntriesDone, DirFilled, Step
    <3>. QED  BY <2>5, <3>1 DEF CopyData, Taken, StarterGoes
  <2>6. CASE EnterDir(s)
    BY <2>6 DEF EnterDir, EntriesDone
  <2>7. CASE CopyEntry(s)
    <3>1. EntriesDone(s)'
      <4>1. Entries \subseteq from
        BY <2>7 DEF OldThere, Moving, CopyEntry
      <4>. QED  BY <2>7, <4>1 DEF CopyEntry, Taken, StarterGoes, EntriesDone, HistoryDone
    <3>. QED  BY <2>7, <3>1 DEF CopyEntry, Taken, StarterGoes
  <2>8. CASE CopyConfig(s)
    <3>1. EntriesDone(s)'
      BY <2>8, HistoryKept DEF CopyConfig, StarterGoes, EntriesDone, Step
    <3>. QED  BY <2>8, <3>1 DEF CopyConfig, Taken, StarterGoes, outside
  <2>. QED  BY <2>1, <2>2, <2>3, <2>4, <2>5, <2>6, <2>7, <2>8, Zenon DEF Step
<1>. QED  BY <1>1, <1>2 DEF Passed

LEMMA StarterKeeps ==
    ASSUME Inv, NEW s \in Starters, Step(s) PROVE (DirFilled /\ OldThere /\ Copied /\ TaskFollows)'
<1>. USE DEF Inv
<1>1. DirFilled'
  <2>1. CASE EnterDir(s)
    BY <2>1 DEF EnterDir, DirFilled, HistoryDone, TakeTypeOK
  <2>2. CASE dir' = dir
    BY <2>2, HistoryKept DEF DirFilled
  <2>. QED  BY <2>1, <2>2 DEF Step, Needed, Source, StopOld, CopyBinary, CopyData, CopyEntry,
     CopyConfig, MoveTask, StarterDies, Again
<1>2. OldThere'
  <2>1. run[s].at \notin Moving /\ Config \in dst => run'[s].at \notin Moving
    BY DEF Moving, TakeTypeOK, StarterGoes, Idle, Step, Needed, Source, StopOld, CopyBinary,
       CopyData, EnterDir, CopyEntry,
           CopyConfig, MoveTask, StarterDies, Again
  <2>. QED  BY <2>1, Grows DEF OldThere
<1>3. Copied'
  <2>1. CASE Config \in dst
    BY <2>1, Grows, HistoryKept DEF Copied
  <2>2. CASE Config \in dst' /\ Config \notin dst
    BY <2>2, Grows, HistoryKept DEF Copied, Passed, BinsDone, DataDone, EntriesDone, AfterBins,
       AfterData
  <2>. QED  BY <2>1, <2>2 DEF Copied
<1>4. TaskFollows'
  <2>1. CASE MoveTask(s)
    <3>1. CASE task' = task /\ "task" \in cut'
      BY <3>1 DEF TaskFollows
    <3>2. CASE Enable \/ Disable
      BY <3>2 DEF TaskFollows, Enable, Disable, NoTask
    <3>. QED  BY <2>1, <3>1, <3>2 DEF MoveTask, Reregistered, TakeTypeOK
  <2>2. CASE StarterDies(s)
    BY <2>2, Grows DEF StarterDies, StarterGoes, TaskFollows, TakeTypeOK
  <2>3. CASE task' = task /\ (run[s].at = "task" => run'[s].at = "task")
    BY <2>3, Grows DEF TaskFollows
  <2>. QED
    BY <2>1, <2>2, <2>3 DEF Step, Needed, Source, StopOld, CopyBinary, CopyData, EnterDir,
       CopyEntry, CopyConfig, Again
<1>. QED  BY <1>1, <1>2, <1>3, <1>4

-----------------------------------------------------------------------------
(* The other steps *)

LEMMA OthersKeep ==
    ASSUME Inv, TaskOp, old' \in {old, "runs"}, old' = "deleted" <=> old = "deleted",
           task'.exe = "old" => task.exe = "old"
    PROVE  (Passed /\ DirFilled /\ OldThere /\ Copied /\ TaskFollows)'
BY DEF Inv, TaskOp, Passed, Todo, BinsDone, DataDone, EntriesDone, HistoryDone, DirFilled,
   OldThere, Copied, TaskFollows

LEMMA StepInv ==
    ASSUME Inv, [TakeNext]_takeVars PROVE Inv'
<1>1. (Passed /\ DirFilled /\ OldThere /\ Copied /\ TaskFollows)'
  <2>1. CASE \E s \in Starters : Step(s)
    BY <2>1, PassedKept, StarterKeeps
  <2>2. CASE \E want \in BOOLEAN : Toggle(want)
    <3>1. TaskOp /\ old' = old /\ (Enable \/ Disable)
      BY <2>2, Zenon DEF Toggle
    <3>. QED  BY <3>1, OthersKeep DEF Enable, Disable, NoTask
  <2>3. CASE Refresh
    BY <2>3, OthersKeep DEF Refresh, Enable
  <2>4. CASE Cleanup
    <3>1. TaskOp /\ old' = old /\ (Disable \/ UNCHANGED task)
      BY <2>4, Zenon DEF Cleanup
    <3>. QED  BY <3>1, OthersKeep DEF Disable, NoTask
  <2>5. CASE Logon
    BY <2>5, OthersKeep DEF Logon
  <2>6. CASE DeleteOld
    BY <2>6 DEF DeleteOld, Inv, Passed, Todo, BinsDone, DataDone, EntriesDone, HistoryDone,
       DirFilled, OldThere,
                Copied, TaskFollows, AfterBins, AfterData, Moving
  <2>7. CASE UNCHANGED takeVars
    BY <2>7 DEF takeVars, Inv, Passed, Todo, BinsDone, DataDone, EntriesDone, HistoryDone,
       DirFilled, OldThere, Copied,
                TaskFollows
  <2>. QED  BY <2>1, <2>2, <2>3, <2>4, <2>5, <2>6, <2>7, Zenon DEF TakeNext
<1>. QED  BY <1>1, StepTypes DEF Inv

-----------------------------------------------------------------------------
\* The inductive invariant: types, what each starter has passed, and the two
\* properties.
THEOREM Invariance == TakeSpec => []Inv
BY InitInv, StepInv, PTL DEF TakeSpec

\* A takeover ends whole: with config.json the new copy has every binary, data
\* file and history entry whose copy did not fail, for any number of starters
\* side by side and deaths at any step (migratePortable, migrate.go).
THEOREM WholeTakeover == TakeSpec => []TakenWhole
<1>1. Inv => TakenWhole
  BY DEF Inv, Copied, HistoryDone, TakenWhole
<1>. QED  BY <1>1, Invariance, PTL

\* The old copy's autostart task does not survive the takeover unseen: a
\* starter is about to change it, could not, or died before (moveTask).
THEOREM TaskMoves == TakeSpec => []TaskFollows
<1>1. Inv => TaskFollows
  BY DEF Inv
<1>. QED  BY <1>1, Invariance, PTL

-----------------------------------------------------------------------------
(* SelfUpdate: no step, and no death between two, leaves the user without a     *)
(* version to start                                                            *)
\* Before the renames the running version is the exe; between them, or when it
\* could not be restored, the backup; after them the backup, until it has ended.
Running ==
    /\ version # None =>
        IF installed THEN appExe # None /\ backup = version /\ at = "idle"
        ELSE appExe = version \/ (appExe = None /\ backup = version)
    /\ installed => version # None

\* An update is carried out by a process that has not installed one yet
Updating ==
    /\ at # "idle" => version # None /\ ~installed
    /\ at \in {"clearing", "aside", "placing"} => appStaged \in Releases
    /\ at = "placing" => appExe = None

Numbers ==
    /\ appExe \in Releases \cup {None} /\ backup \in Releases \cup {None}
    /\ appStaged \in Releases \cup {None, Part} /\ version \in Releases \cup {None}
    /\ latest \in Releases /\ ends \in 0..MaxEnds
    /\ at \in {"idle", "downloading", "clearing", "aside", "placing"}
Switches == installed \in BOOLEAN /\ torn \in BOOLEAN

Parts == Numbers /\ Running /\ Updating /\ ExeSurvives
AppInv == Parts /\ Switches

LEMMA AppInitInv == AppInit => AppInv
<1>1. AppInit => Parts
  BY VersionAssumption DEF AppInit, Parts, Numbers, Running, Updating, ExeSurvives, Releases,
     None, Part
<1>2. AppInit => Switches
  BY Zenon DEF AppInit, Switches
<1>. QED  BY <1>1, <1>2 DEF AppInv

LEMMA AppStepSwitches == ASSUME Switches, [AppNext]_appVars PROVE Switches'
BY Zenon DEF Switches, AppNext, appVars, Release, CheckUpdate, Download, ClearBackup, MoveAside,
   PutInPlace, Restores, End, StartVersion, Repair

LEMMA AppStepParts == ASSUME AppInv, [AppNext]_appVars PROVE Parts'
<1>. USE VersionAssumption DEF AppInv, Parts, Numbers, Running, Updating, ExeSurvives, Releases,
   None, Part, appFiles
<1>1. CASE Release
  BY <1>1 DEF Release
<1>2. CASE CheckUpdate
  BY <1>2 DEF CheckUpdate, NotInstalled
<1>3. CASE Download
  BY <1>3 DEF Download
<1>4. CASE ClearBackup
  BY <1>4 DEF ClearBackup
<1>5. CASE MoveAside
  BY <1>5 DEF MoveAside
<1>6. CASE PutInPlace
  BY <1>6 DEF PutInPlace, Restores
<1>7. CASE End
  <2>1. /\ UNCHANGED <<appExe, backup, latest>> /\ version' = None /\ ~installed' /\ at' = "idle"
        /\ ends' \in {ends, ends + 1} /\ (ends' = ends \/ ends < MaxEnds) /\ appStaged' \in {appStaged, Part}
    BY <1>7 DEF End
  <2>2. torn \/ at = "placing" => torn'
    BY <1>7, Zenon DEF End
  <2>. QED  BY <2>1, <2>2
<1>8. CASE StartVersion
  BY <1>8 DEF StartVersion
<1>9. CASE Repair
  BY <1>9 DEF Repair
<1>10. CASE UNCHANGED appVars
  BY <1>10 DEF appVars
<1>. QED  BY <1>1, <1>2, <1>3, <1>4, <1>5, <1>6, <1>7, <1>8, <1>9, <1>10, Zenon DEF AppNext

LEMMA AppStepInv == ASSUME AppInv, [AppNext]_appVars PROVE AppInv'
BY AppStepParts, AppStepSwitches DEF AppInv

-----------------------------------------------------------------------------
\* Types, where the running version's file is, and the property
THEOREM AppInvariance == AppSpec => []AppInv
BY AppInitInv, AppStepInv, PTL DEF AppSpec

\* The variables of the application's self-update keep their types (selfupdate)
THEOREM AppTypeCorrect == AppSpec => []AppTypeOK
<1>1. AppInv => AppTypeOK
  BY Zenon DEF AppInv, Parts, Numbers, Switches, AppTypeOK
<1>. QED  BY <1>1, AppInvariance, PTL

\* The running version is on disk until another one runs, and a missing exe has
\* its backup, after any series of updates, failures and deaths (selfupdate.Install).
THEOREM ExeKept == AppSpec => []ExeSurvives
<1>1. AppInv => ExeSurvives
  BY DEF AppInv, Parts
<1>. QED  BY <1>1, AppInvariance, PTL
-----------------------------------------------------------------------------
(* The swap of sing-box: what it leaves behind when it succeeds, fails or is   *)
(* cut short, and that the VPN is not lost with it                             *)

Moved == record.replaced \cup record.added    \* the libraries a swap has dealt with
Good(v) == \A l \in Carries[v] : lib[l] \in Versions /\ lib[l] >= v
AsBefore == lib = before.lib /\ (exe = before.exe \/ (before.exe = absent /\ exe = partial))
Complete == \A l \in Carries[staged] : lib[l] = staged

\* What runs or may be started has its libraries, between any two steps
Fit == ~restoreFailed /\ exe \in Versions => Good(exe)

\* The version an update begins with, whatever becomes of the files
Basis ==
    /\ pc # "idle" => staged \in Versions
    /\ pc # "idle" /\ before.exe \in Versions => staged >= before.exe
    /\ pc # "idle" /\ ~restoreFailed /\ before.exe \in Versions =>
          \A l \in Carries[before.exe] : before.lib[l] \in Versions /\ before.lib[l] >= before.exe
    /\ pc \in {"check", "lock", "backup"} => exe = before.exe /\ lib = before.lib
    /\ pc \notin {"idle", "check"} => (previousRuns <=> before.exe \in accepts)

\* How far the copies have come
Copying ==
    /\ pc \in {"libs", "copyLib", "undoLibs"} => exe \in {absent, partial}
    /\ pc \in {"libs", "copyLib"} => exe = absent
    /\ pc \in {"libs", "copyLib"} =>
          \A l \in Carries[staged] \ todo : lib[l] = staged \/ (pc = "copyLib" /\ l = cur)
    /\ pc = "copyLib" => cur \in Moved
    /\ pc \in {"libs", "copyLib", "undoLibs", "keep", "rollback"} => Moved \subseteq Carries[staged]
    /\ pc \in {"libs", "copyLib"} => todo \subseteq Carries[staged] /\ todo \cap Moved = {}
    /\ (pc \in {"keep", "rollback"} \/ (pc = "start" /\ result = "updated")) => exe = staged /\ Complete
    /\ pc = "rollLibs" => \A l \in Moved : lib[l] = staged

\* What was there can be put back, as long as nothing that was put back failed
Kept ==
    pc \in {"libs", "copyLib", "undoLibs", "keep", "rollback", "rollLibs"} =>
        /\ record.had <=> before.exe # absent
        /\ ~restoreFailed => \A l \in Libs :
              /\ l \in record.replaced => libOld[l] = before.lib[l]
              /\ l \in record.added => before.lib[l] = absent
              /\ l \notin Moved => lib[l] = before.lib[l]
OldKept ==
    /\ pc \in {"libs", "copyLib", "undoLibs", "keep", "rollback"} /\ record.had => exeOld = before.exe
    /\ pc = "rollLibs" /\ ~restoreFailed => exe = before.exe

\* What a swap reports, and with what it reports it
Reports ==
    /\ pc \in {"check", "lock", "backup", "libs", "copyLib", "undoLibs"} => result = "none"
    /\ pc \in {"keep", "rollback"} => result = "updated"
    /\ pc \in {"keep", "start", "rollback", "rollLibs", "restart"} => wasUp
    /\ pc = "start" => result \in {"updated", "failed"}
    /\ pc = "start" /\ result = "updated" => ~previousRuns
    /\ pc = "rollLibs" => result \in {"rolledBack", "undoFailed"}
    /\ pc = "rollLibs" /\ result = "undoFailed" => restoreFailed
    /\ pc = "restart" => result = "rolledBack"
    /\ pc \in {"keep", "rollback"} => previousRuns
    /\ pc = "start" /\ result = "failed" /\ ~restoreFailed => AsBefore
    /\ pc = "restart" /\ ~restoreFailed => lib = before.lib /\ exe = before.exe

\* Startable versions are given up only when at most one start fails in passing
GivenUp ==
    /\ pc = "keep" => attempt \in {0, 1}
    /\ pc = "keep" /\ attempt = 1 /\ CanRun(staged) => badStarts >= 1
    /\ pc \in {"rollback", "rollLibs", "restart"} /\ CanRun(staged) => badStarts >= 2

Rest == Fit /\ Basis /\ Copying /\ Kept /\ OldKept /\ Reports /\ GivenUp
SwapInv == TypeOK /\ Rest

-----------------------------------------------------------------------------
(* Types *)

SwapFiles == /\ exe \in Contents /\ exeOld \in Contents
         /\ lib \in [Libs -> Contents] /\ libOld \in [Libs -> Contents]
Vpn == /\ up \in Versions \cup {NotUp} /\ accepts \subseteq Versions /\ works \subseteq Versions
Flags == /\ intent \in BOOLEAN /\ previousRuns \in BOOLEAN /\ wasUp \in BOOLEAN
         /\ restoreFailed \in BOOLEAN
Locals ==
    /\ pc \in {"idle", "check", "lock", "backup", "libs", "copyLib", "undoLibs", "rollback",
               "rollLibs", "keep", "start", "restart"}
    /\ staged \in Versions \cup {NotUp}
    /\ todo \subseteq Libs /\ cur \in Libs \cup {absent} /\ attempt \in 0 .. 2
    /\ result \in {"none", "rejected", "failed", "updated", "rolledBack", "undoFailed"}
Recorded == record \in [had : BOOLEAN, replaced : SUBSET Libs, added : SUBSET Libs]
Snapshot == before \in [exe : Contents, lib : [Libs -> Contents]]
Counts == /\ failures \in 0 .. MaxFailures /\ badStarts \in 0 .. MaxBadStarts
          /\ crashes \in 0 .. MaxCrashes

Values == SwapFiles /\ Vpn /\ Locals /\ Recorded /\ Snapshot /\ Counts

\* The type invariant in parts the provers take one at a time: SMT the values,
\* Zenon the Boolean flags
LEMMA SwapTypeParts == TypeOK <=> Values /\ Flags
BY Zenon DEF TypeOK, Values, SwapFiles, Vpn, Flags, Locals, Recorded, Snapshot, Counts

LEMMA SwapInitInv == Init => SwapInv
<1>. SUFFICES ASSUME Init PROVE SwapInv
  OBVIOUS
<1>. USE VersionsAssumption, BoundsAssumption
<1>1. SwapFiles
  BY DEF Init, SwapFiles, Contents
<1>2. Vpn /\ Counts
  BY DEF Init, Vpn, Counts
<1>7. Locals
  BY DEF Init, Locals
<1>8. Flags
  BY Zenon DEF Init, Flags
<1>3. Recorded
  BY DEF Init, Recorded, NoRecord
<1>4. Snapshot
  BY <1>1 DEF Init, SwapFiles, Snapshot
<1>5. Fit
  BY DEF Init, Fit, Good
<1>6. Basis /\ Copying /\ Kept /\ OldKept /\ Reports /\ GivenUp
  BY DEF Init, Basis, Copying, Kept, OldKept, Reports, GivenUp, Unlocked
<1>. QED  BY <1>1, <1>2, <1>3, <1>4, <1>5, <1>6, <1>7, <1>8, SwapTypeParts DEF SwapInv, Rest, Values

\* Every step keeps the types of the flags
LEMMA StepFlags == ASSUME TypeOK, [Next]_vars PROVE Flags'
<1>. Flags
  BY SwapTypeParts
<1>. USE DEF Flags, files, vpn, update, counters
<1>1. CASE \E v \in Versions : Begin(v)
  BY <1>1, Zenon DEF Begin, NewLocals
<1>2. CASE Check
  <2>1. UNCHANGED <<intent, wasUp, restoreFailed>> /\ (previousRuns' = previousRuns \/ previousRuns' = (exe \in accepts))
    BY <1>2, Zenon DEF Check, PreviousRuns
  <2>2. (exe \in accepts) \in BOOLEAN
    OBVIOUS
  <2>3. previousRuns' \in BOOLEAN
    BY <2>1, <2>2, Zenon
  <2>. QED  BY <2>1, <2>3, Zenon
<1>3. CASE Stop
  BY <1>3, Zenon DEF Stop
<1>4. CASE Backup
  BY <1>4, Zenon DEF Backup, AfterFn, Fails, FailsOnce, Goes
<1>5. CASE \E l \in Libs : LibBackup(l)
  BY <1>5, Zenon DEF LibBackup, Fails, FailsOnce, Goes
<1>6. CASE LibCopy
  BY <1>6, Zenon DEF LibCopy, Fails, FailsOnce, Goes
<1>7. CASE ExeCopy
  BY <1>7, Zenon DEF ExeCopy, AfterFn, Fails, FailsOnce, Goes
<1>8. CASE \E l \in Libs : UndoLib(l)
  BY <1>8, Zenon DEF UndoLib, RemoveAdded, RestoreFails, FailsOnce, Goes
<1>9. CASE UndoExe
  BY <1>9, Zenon DEF UndoExe, AfterFn, RestoreFails, FailsOnce, Goes
<1>10. CASE Rollback
  BY <1>10, Zenon DEF Rollback, RestoreFails, FailsOnce, Goes
<1>11. CASE RolledBack
  BY <1>11, Zenon DEF RolledBack
<1>12. CASE StartToKeep
  BY <1>12, Zenon DEF StartToKeep, Starts, DoesNotStart, CanRun, LastAttempt
<1>13. CASE StartOnce
  BY <1>13, Zenon DEF StartOnce, Starts, DoesNotStart, CanRun
<1>14. CASE Start
  BY <1>14, Zenon DEF Start, CanRun
<1>15. CASE UserStop
  BY <1>15, Zenon DEF UserStop
<1>16. CASE Die
  BY <1>16, Zenon DEF Die
<1>17. CASE EditConfig
  BY <1>17, Zenon DEF EditConfig
<1>18. CASE Crash
  BY <1>18, Zenon DEF Crash, NewLocals
<1>19. CASE UNCHANGED vars
  BY <1>19, Zenon DEF vars
<1>. QED  BY <1>1, <1>2, <1>3, <1>4, <1>5, <1>6, <1>7, <1>8, <1>9, <1>10, <1>11, <1>12, <1>13,
   <1>14, <1>15, <1>16, <1>17, <1>18, <1>19, Zenon DEF Next, InstallStep, UndoStep

\* Every step keeps the types of the rest
LEMMA StepValues == ASSUME SwapInv, [Next]_vars PROVE Values'
<1>. /\ Values /\ (pc = "keep" => attempt \in {0, 1})
     /\ pc # "idle" => staged \in Versions
  BY SwapTypeParts DEF SwapInv, Rest, Basis, GivenUp
<1>. USE VersionsAssumption, BoundsAssumption DEF Values, SwapFiles, Vpn, Locals, Recorded,
   Snapshot, Counts, Contents, files, vpn, update, counters
<1>1. CASE \E v \in Versions : Begin(v)
  BY <1>1 DEF Begin, NewLocals, NoRecord
<1>2. CASE Check
  BY <1>2 DEF Check, PreviousRuns
<1>3. CASE Stop
  BY <1>3 DEF Stop
<1>4. CASE Backup
  <2>1. SwapFiles' /\ Vpn' /\ Locals' /\ Snapshot' /\ Counts'
    BY <1>4 DEF Backup, AfterFn, Fails, FailsOnce, Goes
  <2>2. Recorded'
    BY <1>4 DEF Backup
  <2>. QED  BY <2>1, <2>2
<1>5. CASE \E l \in Libs : LibBackup(l)
  BY <1>5 DEF LibBackup, Fails, FailsOnce, Goes
<1>6. CASE LibCopy
  BY <1>6 DEF LibCopy, Fails, FailsOnce, Goes
<1>7. CASE ExeCopy
  BY <1>7 DEF ExeCopy, AfterFn, Fails, FailsOnce, Goes
<1>8. CASE \E l \in Libs : UndoLib(l)
  <2>. PICK l \in Libs : UndoLib(l)
    BY <1>8
  <2>1. SwapFiles'
    BY DEF UndoLib, RemoveAdded
  <2>2. Vpn' /\ Locals' /\ Snapshot' /\ Counts'
    BY DEF UndoLib, RestoreFails, FailsOnce, Goes
  <2>3. Recorded'
    BY DEF UndoLib
  <2>. QED  BY <2>1, <2>2, <2>3
<1>9. CASE UndoExe
  BY <1>9 DEF UndoExe, AfterFn, RestoreFails, FailsOnce, Goes
<1>10. CASE Rollback
  BY <1>10 DEF Rollback, RestoreFails, FailsOnce, Goes
<1>11. CASE RolledBack
  BY <1>11 DEF RolledBack
<1>12. CASE StartToKeep
  BY <1>12 DEF StartToKeep, Starts, DoesNotStart, CanRun, LastAttempt
<1>13. CASE StartOnce
  BY <1>13 DEF StartOnce, Starts, DoesNotStart, CanRun
<1>14. CASE Start
  BY <1>14 DEF Start, CanRun
<1>15. CASE UserStop
  BY <1>15 DEF UserStop
<1>16. CASE Die
  BY <1>16 DEF Die
<1>17. CASE EditConfig
  BY <1>17 DEF EditConfig
<1>18. CASE Crash
  BY <1>18 DEF Crash, NewLocals, NoRecord
<1>19. CASE UNCHANGED vars
  BY <1>19 DEF vars
<1>. QED  BY <1>1, <1>2, <1>3, <1>4, <1>5, <1>6, <1>7, <1>8, <1>9, <1>10, <1>11, <1>12, <1>13,
   <1>14, <1>15, <1>16, <1>17, <1>18, <1>19, Zenon DEF Next, InstallStep, UndoStep

\* Every step of an update leaves the files as its next step needs them
LEMMA StepRest == ASSUME SwapInv, [Next]_vars PROVE Rest'
<1>. Rest /\ Values
  BY SwapTypeParts DEF SwapInv
<1>. USE VersionsAssumption, BoundsAssumption DEF Rest, Fit, Basis, Copying, Kept, OldKept,
   Reports, GivenUp, Good, Complete, Moved, AsBefore, Unlocked, CanRun, Values, SwapFiles, Vpn,
   Locals, Recorded, Snapshot, Counts, Contents, files, vpn, update, counters
<1>1. CASE \E v \in Versions : Begin(v)
  BY <1>1 DEF Begin, NewLocals, NoRecord
<1>2. CASE Check
  BY <1>2 DEF Check, PreviousRuns
<1>3. CASE Stop
  <2>1. Fit'
    BY <1>3 DEF Stop
  <2>2. Basis'
    BY <1>3 DEF Stop
  <2>3. Copying'
    BY <1>3 DEF Stop
  <2>4. Kept'
    BY <1>3 DEF Stop
  <2>5. OldKept'
    BY <1>3 DEF Stop
  <2>6. Reports'
    BY <1>3 DEF Stop
  <2>7. GivenUp'
    BY <1>3 DEF Stop
  <2>. QED  BY <2>1, <2>2, <2>3, <2>4, <2>5, <2>6, <2>7
<1>4. CASE Backup
  <2>1. Fit'
    BY <1>4 DEF Backup, AfterFn, Fails, FailsOnce, Goes
  <2>2. Basis'
    BY <1>4 DEF Backup, AfterFn, Fails, FailsOnce, Goes
  <2>3. Copying'
    BY <1>4 DEF Backup, AfterFn, Fails, FailsOnce, Goes
  <2>4. Kept'
    BY <1>4 DEF Backup, AfterFn, Fails, FailsOnce, Goes
  <2>5. OldKept'
    BY <1>4 DEF Backup, AfterFn, Fails, FailsOnce, Goes
  <2>6. Reports'
    BY <1>4 DEF Backup, AfterFn, Fails, FailsOnce, Goes
  <2>7. GivenUp'
    BY <1>4 DEF Backup, AfterFn, Fails, FailsOnce, Goes
  <2>. QED  BY <2>1, <2>2, <2>3, <2>4, <2>5, <2>6, <2>7
<1>5. CASE \E l \in Libs : LibBackup(l)
  <2>. PICK l \in Libs : LibBackup(l)
    BY <1>5
  <2>1. Fit'
    BY DEF LibBackup, Fails, FailsOnce, Goes
  <2>2. Basis'
    BY DEF LibBackup, Fails, FailsOnce, Goes
  <2>3. Copying'
    BY DEF LibBackup, Fails, FailsOnce, Goes
  <2>4. Kept'
    BY DEF LibBackup, Fails, FailsOnce, Goes
  <2>5. OldKept'
    BY DEF LibBackup, Fails, FailsOnce, Goes
  <2>6. Reports'
    BY DEF LibBackup, Fails, FailsOnce, Goes
  <2>7. GivenUp'
    BY DEF LibBackup, Fails, FailsOnce, Goes
  <2>. QED  BY <2>1, <2>2, <2>3, <2>4, <2>5, <2>6, <2>7
<1>6. CASE LibCopy
  BY <1>6 DEF LibCopy, Fails, FailsOnce, Goes
<1>7. CASE ExeCopy
  BY <1>7 DEF ExeCopy, LibsDone, AfterFn, Fails, FailsOnce, Goes
<1>8. CASE \E l \in Libs : UndoLib(l)
  BY <1>8 DEF UndoLib, RemoveAdded, RestoreFails, FailsOnce, Goes
<1>9. CASE UndoExe
  BY <1>9 DEF UndoExe, LibsUndone, AfterFn, RestoreFails, FailsOnce, Goes
<1>10. CASE Rollback
  <2>1. Fit'
    BY <1>10 DEF Rollback, RestoreFails, FailsOnce, Goes
  <2>2. Basis'
    BY <1>10 DEF Rollback, RestoreFails, FailsOnce, Goes
  <2>3. Copying'
    BY <1>10 DEF Rollback, RestoreFails, FailsOnce, Goes
  <2>4. Kept'
    BY <1>10 DEF Rollback, RestoreFails, FailsOnce, Goes
  <2>5. OldKept'
    BY <1>10 DEF Rollback, RestoreFails, FailsOnce, Goes
  <2>6. Reports'
    BY <1>10 DEF Rollback, RestoreFails, FailsOnce, Goes
  <2>7. GivenUp'
    BY <1>10 DEF Rollback, RestoreFails, FailsOnce, Goes
  <2>. QED  BY <2>1, <2>2, <2>3, <2>4, <2>5, <2>6, <2>7
<1>11. CASE RolledBack
  BY <1>11 DEF RolledBack, LibsUndone
<1>12. CASE StartToKeep
  BY <1>12 DEF StartToKeep, Starts, DoesNotStart, LastAttempt
<1>13. CASE StartOnce
  BY <1>13 DEF StartOnce, Starts, DoesNotStart
<1>14. CASE Start
  BY <1>14 DEF Start
<1>15. CASE UserStop
  BY <1>15 DEF UserStop
<1>16. CASE Die
  BY <1>16 DEF Die
<1>17. CASE EditConfig
  BY <1>17 DEF EditConfig
<1>18. CASE Crash
  BY <1>18 DEF Crash, NewLocals, NoRecord
<1>19. CASE UNCHANGED vars
  BY <1>19 DEF vars
<1>. QED  BY <1>1, <1>2, <1>3, <1>4, <1>5, <1>6, <1>7, <1>8, <1>9, <1>10, <1>11, <1>12, <1>13,
   <1>14, <1>15, <1>16, <1>17, <1>18, <1>19, Zenon DEF Next, InstallStep, UndoStep

LEMMA SwapStepInv == ASSUME SwapInv, [Next]_vars PROVE SwapInv'
<1>1. TypeOK'
  <2>1. Values' /\ Flags'
    BY StepValues, StepFlags DEF SwapInv
  <2>. QED  BY <2>1, Zenon DEF TypeOK, Values, SwapFiles, Vpn, Flags, Locals, Recorded, Snapshot,
     Counts
<1>. QED  BY <1>1, StepRest DEF SwapInv

-----------------------------------------------------------------------------
(* Steps *)

Libraries == (up' # up /\ up' # NotUp /\ ~restoreFailed) =>
                 \A l \in Carries[up'] : lib[l] \in Versions /\ lib[l] >= up'
Succeeds == Returns("updated") => exe' = staged /\ \A l \in Carries[staged] : lib'[l] = staged
FailsClean ==
    (Returns("failed") \/ Returns("rolledBack") \/ Returns("rejected")) /\ ~restoreFailed' =>
        /\ lib' = before.lib
        /\ exe' = before.exe \/ (before.exe = absent /\ exe' = partial)
StillRuns ==
    (~Unlocked /\ pc' = "idle" /\ result' # "none" /\ wasUp /\ CanRun(before.exe) /\ ~restoreFailed')
        => exe' \in accepts \cap works
NotGivenUp == (pc # "idle" /\ result' = "rolledBack") => ~CanRun(staged)

\* What an update starts, and what it has left behind when it answers
LEMMA StepAnswers == ASSUME SwapInv, [Next]_vars PROVE Libraries /\ Succeeds /\ FailsClean /\ StillRuns
<1>. Rest /\ Values
  BY SwapTypeParts DEF SwapInv
<1>. USE VersionsAssumption, BoundsAssumption DEF Libraries, Succeeds, FailsClean, StillRuns,
   Rest, Fit, Basis, Copying, Kept, OldKept, Reports, GivenUp, Good, Complete, Moved, AsBefore,
   Unlocked, CanRun, Returns, Values, SwapFiles, Vpn, Locals, Recorded, Snapshot, Counts, Contents,
   files, vpn, update, counters
<1>1. CASE \E v \in Versions : Begin(v)
  BY <1>1 DEF Begin, NewLocals, NoRecord
<1>2. CASE Check
  BY <1>2 DEF Check, PreviousRuns
<1>3. CASE Stop
  BY <1>3 DEF Stop
<1>4. CASE Backup
  BY <1>4 DEF Backup, AfterFn, Fails, FailsOnce, Goes
<1>5. CASE \E l \in Libs : LibBackup(l)
  BY <1>5 DEF LibBackup, Fails, FailsOnce, Goes
<1>6. CASE LibCopy
  BY <1>6 DEF LibCopy, Fails, FailsOnce, Goes
<1>7. CASE ExeCopy
  BY <1>7 DEF ExeCopy, LibsDone, AfterFn, Fails, FailsOnce, Goes
<1>8. CASE \E l \in Libs : UndoLib(l)
  BY <1>8 DEF UndoLib, RemoveAdded, RestoreFails, FailsOnce, Goes
<1>9. CASE UndoExe
  BY <1>9 DEF UndoExe, LibsUndone, AfterFn, RestoreFails, FailsOnce, Goes
<1>10. CASE Rollback
  BY <1>10 DEF Rollback, RestoreFails, FailsOnce, Goes
<1>11. CASE RolledBack
  BY <1>11 DEF RolledBack, LibsUndone
<1>12. CASE StartToKeep
  BY <1>12 DEF StartToKeep, Starts, DoesNotStart, LastAttempt
<1>13. CASE StartOnce
  <2>1. Libraries
    BY <1>13 DEF StartOnce, Starts, DoesNotStart
  <2>2. Succeeds
    BY <1>13 DEF StartOnce, Starts, DoesNotStart
  <2>3. FailsClean
    BY <1>13 DEF StartOnce, Starts, DoesNotStart
  <2>4. StillRuns
    <3>1. pc \in {"start", "restart"} /\ UNCHANGED <<files, accepts, works, wasUp, result, before, restoreFailed>>
      BY <1>13 DEF StartOnce
    <3>2. CanRun(before.exe) /\ ~restoreFailed => exe = before.exe
      <4>1. CASE pc = "start"
        <5>1. result = "updated" => ~CanRun(before.exe)
          BY <4>1
        <5>2. result = "failed" /\ ~restoreFailed => exe = before.exe \/ before.exe = absent
          BY <4>1
        <5>3. absent \notin accepts /\ result \in {"updated", "failed"}
          BY <4>1
        <5> QED  BY <5>1, <5>2, <5>3
      <4>2. CASE pc = "restart"
        BY <4>2
      <4> QED  BY <3>1, <4>1, <4>2
    <3> QED  BY <3>1, <3>2
  <2>. QED  BY <2>1, <2>2, <2>3, <2>4
<1>14. CASE Start
  BY <1>14 DEF Start
<1>15. CASE UserStop
  BY <1>15 DEF UserStop
<1>16. CASE Die
  BY <1>16 DEF Die
<1>17. CASE EditConfig
  BY <1>17 DEF EditConfig
<1>18. CASE Crash
  BY <1>18 DEF Crash, NewLocals, NoRecord
<1>19. CASE UNCHANGED vars
  BY <1>19 DEF vars
<1>. QED  BY <1>1, <1>2, <1>3, <1>4, <1>5, <1>6, <1>7, <1>8, <1>9, <1>10, <1>11, <1>12, <1>13,
   <1>14, <1>15, <1>16, <1>17, <1>18, <1>19, Zenon DEF Next, InstallStep, UndoStep

\* With one chance failure the second attempt decides
LEMMA StepGivenUp == ASSUME SwapInv, MaxBadStarts <= 1, [Next]_vars PROVE NotGivenUp
<1>. Rest /\ Values
  BY SwapTypeParts DEF SwapInv
<1>. SUFFICES ASSUME pc # "idle", result' = "rolledBack", CanRun(staged) PROVE FALSE
  BY DEF NotGivenUp
<1>. USE BoundsAssumption DEF Rest, Reports, GivenUp, Values, Locals, Counts, files, vpn,
   update, counters
<1>1. pc \in {"rollback", "rollLibs", "restart"}
  BY DEF Next, Begin, NewLocals, Check, Stop, InstallStep, Backup, AfterFn, LibBackup, LibCopy,
     ExeCopy, UndoStep, UndoLib, UndoExe, Rollback, RolledBack, StartToKeep, StartOnce, Start,
     UserStop, Die, EditConfig, Crash, vars
<1>. QED  BY <1>1

-----------------------------------------------------------------------------
\* Types, how far a swap has come, and what of the old release can be had back
THEOREM SwapInvariance == Spec => []SwapInv
BY SwapInitInv, SwapStepInv, PTL DEF Spec

\* The variables of the sing-box swap keep their types (singbox/update.go)
THEOREM SwapTypeCorrect == Spec => []TypeOK
<1>1. SwapInv => TypeOK
  BY DEF SwapInv
<1>. QED  BY <1>1, SwapInvariance, PTL

\* A binary never starts with older or half-copied libraries, wherever the
\* application died or a copy failed (updater.go Install, installDLLs).
THEOREM FitTogether == Spec => NewBinaryNewLibs
<1>1. SwapInv /\ [Next]_vars => [Libraries]_vars
  BY StepAnswers
<1>. QED  BY <1>1, SwapInvariance, PTL DEF Spec, NewBinaryNewLibs, Libraries

\* Success means the whole release, failure leaves Bin as it was (Install,
\* Rollback, restoreDLLs).
THEOREM Exact == Spec => UpdateIsExact
<1>1. SwapInv /\ [Next]_vars => [Succeeds /\ FailsClean]_vars
  BY StepAnswers
<1>. QED  BY <1>1, SwapInvariance, PTL DEF Spec, UpdateIsExact, Succeeds, FailsClean

\* No update trades a binary that runs for one that does not; and none gives up
\* one that runs, where a start may fail once without a reason of the version's
\* (startToKeep tries twice).
THEOREM NotTradedAway == ASSUME MaxBadStarts <= 1 PROVE Spec => OldRunsNewRuns
<1>1. SwapInv /\ [Next]_vars => [StillRuns /\ NotGivenUp]_vars
  BY StepAnswers, StepGivenUp
<1>. QED  BY <1>1, SwapInvariance, PTL DEF Spec, OldRunsNewRuns, StillRuns, NotGivenUp
=============================================================================
