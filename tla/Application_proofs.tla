-------------------------- MODULE Application_proofs --------------------------
(* Proofs about Application, for any sets of operations, quits, relaunches    *)
(* and any number of clicks: the types and the holder of opMu, and with them  *)
(* that nothing is cut short, that one new instance is started, and that the  *)
(* event loop never waits to hand over a request.                             *)
EXTENDS Application, Instances, TLAPS

\* The Boolean variables, apart: the SMT solver does not see their type
BooleansOK == ready \in BOOLEAN /\ installed \in BOOLEAN /\ exited \in BOOLEAN

TogglesOK ==
    /\ loop \in Wants \cup {"absent", "select", "returned"}
    /\ click \in Wants \cup {none} /\ slot \in Wants \cup {none} /\ worker \in Wants \cup {none}
    /\ asked \in Wants \cup {none} /\ applied \in Wants \cup {none}
    /\ toggles \in 0..MaxToggles

\* opMu has exactly the holder that believes to have it
HolderOK ==
    /\ opMu \in Jobs \cup Quits \cup Relaunches \cup {Nobody}
    /\ job \in [Jobs -> {"idle", "waiting", "working", "popup"}]
    /\ quit \in [Quits -> {"no", "asked", "leaving"}]
    /\ relaunch \in [Relaunches -> {"no", "asked", "starting", "leaving"}]
    /\ \A j \in Jobs : opMu = j <=> job[j] = "working"
    /\ \A q \in Quits : opMu = q <=> quit[q] = "leaving"
    /\ \A r \in Relaunches : opMu = r <=> relaunch[r] \in {"starting", "leaving"}

EndOK ==
    /\ systray \in {"absent", "running", "quit", "deaf"}
    /\ successors \in Nat

LEMMA TypeParts == TypeOK <=> BooleansOK /\ TogglesOK /\ HolderOK /\ EndOK
BY DEF TypeOK, BooleansOK, TogglesOK, HolderOK, EndOK

\* Somebody has taken opMu to keep it to the end of the process
Leaving ==
    \/ \E q \in Quits : quit[q] = "leaving"
    \/ \E r \in Relaunches : relaunch[r] = "leaving"

\* The process ends only behind such a holder, and the one new instance was
\* started by one
EndInv ==
    /\ systray = "quit" \/ exited => Leaving
    /\ successors = 0 \/ (successors = 1 /\ \E r \in Relaunches : relaunch[r] = "leaving")

Inv == TypeOK /\ LoopNeverBlocks /\ EndInv

-----------------------------------------------------------------------------
(* One lemma per part: what it depends on, and that every step keeps it *)

LEMMA InitInv == Init => Inv
<1>. SUFFICES ASSUME Init PROVE Inv
  OBVIOUS
<1>1. BooleansOK
  BY DEF Init, BooleansOK
<1>2. TogglesOK /\ LoopNeverBlocks
  BY ActorAssumption DEF Init, TogglesOK, LoopNeverBlocks, Wants
<1>3. HolderOK /\ EndOK
  BY ActorAssumption DEF Init, HolderOK, EndOK, Jobs
<1>4. EndInv
  BY DEF Init, EndInv
<1>. QED
  BY <1>1, <1>2, <1>3, <1>4, TypeParts DEF Inv

LEMMA BooleansStep == BooleansOK /\ [Next]_vars => BooleansOK'
<1>. SUFFICES ASSUME BooleansOK, [Next]_vars PROVE BooleansOK'
  OBVIOUS
<1>. USE DEF BooleansOK
<1>1. CASE UNCHANGED vars
  BY <1>1 DEF vars, leaving
<1>2. CASE OnReady \/ Exit
  BY <1>2 DEF OnReady, Exit, leaving
<1>3. CASE TogglePath \/ \E want \in Wants : Toggle(want)
  BY <1>3 DEF TogglePath, ReceiveToggle, SendToggle, TakeToggle, ApplyToggle, Toggle, leaving
<1>4. CASE \E j \in Jobs : Begin(j) \/ Lock(j) \/ Finish(j) \/ Dismiss(j)
  BY <1>4 DEF Begin, Lock, Finish, Dismiss, leaving
<1>5. CASE \E q \in Quits : RequestQuit(q)
  BY <1>5 DEF RequestQuit
<1>6. CASE \E q \in Quits : Quit(q)
  <2>. PICK q \in Quits : Quit(q)
    BY <1>6
  <2>. QED
    BY DEF Quit, LeaveMain
<1>7. CASE \E r \in Relaunches : \/ AskRelaunch(r) \/ LockForRelaunch(r)
                                 \/ Relaunched(r) \/ RelaunchLeaves(r) \/ RelaunchFails(r)
  BY <1>7 DEF AskRelaunch, LockForRelaunch, Relaunched, RelaunchLeaves, RelaunchFails, leaving
<1>. QED
  BY <1>1, <1>2, <1>3, <1>4, <1>5, <1>6, <1>7 DEF Next

\* The slot is emptied before the loop sends, and only the loop fills it
LEMMA TogglesStep ==
    TogglesOK /\ LoopNeverBlocks /\ [Next]_vars => TogglesOK' /\ LoopNeverBlocks'
<1>. SUFFICES ASSUME TogglesOK, LoopNeverBlocks, [Next]_vars
              PROVE  TogglesOK' /\ LoopNeverBlocks'
  OBVIOUS
<1>. USE ActorAssumption DEF TogglesOK, LoopNeverBlocks, Wants
<1>1. CASE UNCHANGED vars
  BY <1>1 DEF vars, toggling
<1>2. CASE OnReady \/ Exit
  BY <1>2 DEF OnReady, Exit, toggling
<1>3. CASE \E want \in Wants : Toggle(want)
  BY <1>3 DEF Toggle
<1>4. CASE TogglePath
  <2>1. CASE ReceiveToggle
    BY <2>1 DEF ReceiveToggle, Drained
  <2>2. CASE SendToggle
    BY <2>2 DEF SendToggle, HandedOver
  <2>3. CASE TakeToggle \/ ApplyToggle
    BY <2>3 DEF TakeToggle, ApplyToggle
  <2>. QED
    BY <1>4, <2>1, <2>2, <2>3 DEF TogglePath
<1>5. CASE \E j \in Jobs : Begin(j) \/ Lock(j) \/ Finish(j) \/ Dismiss(j)
  BY <1>5 DEF Begin, Lock, Finish, Dismiss, toggling
<1>6. CASE \E q \in Quits : RequestQuit(q) \/ Quit(q)
  BY <1>6 DEF RequestQuit, Quit, toggling
<1>7. CASE \E r \in Relaunches : \/ AskRelaunch(r) \/ LockForRelaunch(r)
                                 \/ Relaunched(r) \/ RelaunchLeaves(r) \/ RelaunchFails(r)
  BY <1>7 DEF AskRelaunch, LockForRelaunch, Relaunched, RelaunchLeaves, RelaunchFails, toggling
<1>. QED
  BY <1>1, <1>2, <1>3, <1>4, <1>5, <1>6, <1>7 DEF Next

LEMMA HolderStep == HolderOK /\ [Next]_vars => HolderOK'
<1>. SUFFICES ASSUME HolderOK, [Next]_vars PROVE HolderOK'
  OBVIOUS
<1>. USE ActorAssumption DEF HolderOK, Jobs
<1>1. CASE UNCHANGED vars
  BY <1>1 DEF vars, leaving
<1>2. CASE OnReady \/ Exit \/ TogglePath \/ \E want \in Wants : Toggle(want)
  BY <1>2 DEF OnReady, Exit, TogglePath, ReceiveToggle, SendToggle, TakeToggle, ApplyToggle,
              Toggle, leaving
<1>3. CASE \E j \in Jobs : Begin(j) \/ Lock(j) \/ Finish(j) \/ Dismiss(j)
  <2>. PICK j \in Jobs : Begin(j) \/ Lock(j) \/ Finish(j) \/ Dismiss(j)
    BY <1>3
  <2>1. CASE Begin(j) \/ Dismiss(j)
    BY <2>1 DEF Begin, Dismiss, leaving
  <2>2. CASE Lock(j)
    BY <2>2 DEF Lock, leaving
  <2>3. CASE Finish(j)
    BY <2>3 DEF Finish, Unlocked
  <2>. QED
    BY <2>1, <2>2, <2>3
<1>4. CASE \E q \in Quits : RequestQuit(q) \/ Quit(q)
  <2>. PICK q \in Quits : RequestQuit(q) \/ Quit(q)
    BY <1>4
  <2>1. CASE RequestQuit(q)
    BY <2>1 DEF RequestQuit
  <2>2. CASE Quit(q)
    BY <2>2 DEF Quit, OpsEnded
  <2>. QED
    BY <2>1, <2>2
<1>5. CASE \E r \in Relaunches : \/ AskRelaunch(r) \/ LockForRelaunch(r)
                                 \/ Relaunched(r) \/ RelaunchLeaves(r) \/ RelaunchFails(r)
  <2>. PICK r \in Relaunches : \/ AskRelaunch(r) \/ LockForRelaunch(r)
                               \/ Relaunched(r) \/ RelaunchLeaves(r) \/ RelaunchFails(r)
    BY <1>5
  <2>1. CASE AskRelaunch(r) \/ RelaunchLeaves(r)
    BY <2>1 DEF AskRelaunch, RelaunchLeaves, leaving
  <2>2. CASE LockForRelaunch(r)
    BY <2>2 DEF LockForRelaunch
  <2>3. CASE Relaunched(r)
    BY <2>3 DEF Relaunched, KeptToTheEnd
  <2>4. CASE RelaunchFails(r)
    BY <2>4 DEF RelaunchFails, ReleasedOnError
  <2>. QED
    BY <2>1, <2>2, <2>3, <2>4
<1>. QED
  BY <1>1, <1>2, <1>3, <1>4, <1>5 DEF Next

\* Who keeps opMu keeps it, and a second relaunch does not get it
LEMMA EndStep == HolderOK /\ EndOK /\ EndInv /\ [Next]_vars => EndOK' /\ EndInv'
<1>. SUFFICES ASSUME HolderOK, EndOK, EndInv, [Next]_vars PROVE EndOK' /\ EndInv'
  OBVIOUS
<1>. USE ActorAssumption DEF EndOK, EndInv, Leaving
<1>1. CASE UNCHANGED vars
  BY <1>1 DEF vars, leaving
<1>2. CASE OnReady
  BY <1>2 DEF OnReady, leaving
<1>3. CASE Exit
  BY <1>3 DEF Exit, leaving
<1>4. CASE TogglePath \/ \E want \in Wants : Toggle(want)
  BY <1>4 DEF TogglePath, ReceiveToggle, SendToggle, TakeToggle, ApplyToggle, Toggle, leaving
<1>5. CASE \E j \in Jobs : Begin(j) \/ Lock(j) \/ Finish(j) \/ Dismiss(j)
  <2>1. UNCHANGED <<quit, relaunch, successors, systray, exited>>
    BY <1>5 DEF Begin, Lock, Finish, Dismiss, leaving
  <2>. QED
    BY <2>1
<1>6. CASE \E q \in Quits : RequestQuit(q) \/ Quit(q)
  <2>. PICK q \in Quits : RequestQuit(q) \/ Quit(q)
    BY <1>6
  <2>1. CASE RequestQuit(q)
    BY <2>1 DEF RequestQuit, HolderOK
  <2>2. CASE Quit(q)
    <3>1. quit'[q] = "leaving" /\ UNCHANGED <<relaunch, successors>>
      BY <2>2 DEF Quit, HolderOK
    <3>2. systray' \in {"absent", "running", "quit", "deaf"}
      BY <2>2 DEF Quit, LeaveMain, SystrayQuit
    <3>. QED
      BY <3>1, <3>2
  <2>. QED
    BY <2>1, <2>2
<1>7. CASE \E r \in Relaunches : \/ AskRelaunch(r) \/ LockForRelaunch(r)
                                 \/ Relaunched(r) \/ RelaunchLeaves(r) \/ RelaunchFails(r)
  <2>. PICK r \in Relaunches : \/ AskRelaunch(r) \/ LockForRelaunch(r)
                               \/ Relaunched(r) \/ RelaunchLeaves(r) \/ RelaunchFails(r)
    BY <1>7
  <2>1. CASE AskRelaunch(r)
    BY <2>1 DEF AskRelaunch, HolderOK
  <2>2. CASE LockForRelaunch(r)
    BY <2>2 DEF LockForRelaunch, HolderOK
  <2>3. CASE Relaunched(r)
    <3>1. opMu = r /\ relaunch'[r] = "leaving" /\ successors' = successors + 1
      BY <2>3 DEF Relaunched, HolderOK
    <3>2. \A s \in Relaunches : relaunch[s] # "leaving"
      BY <2>3, <3>1 DEF Relaunched, HolderOK
    <3>3. successors = 0
      BY <3>2
    <3>. QED
      BY <2>3, <3>1, <3>3 DEF Relaunched
  <2>4. CASE RelaunchLeaves(r)
    BY <2>4 DEF RelaunchLeaves, SystrayQuit, leaving
  <2>5. CASE RelaunchFails(r)
    BY <2>5 DEF RelaunchFails, HolderOK
  <2>. QED
    BY <2>1, <2>2, <2>3, <2>4, <2>5
<1>. QED
  BY <1>1, <1>2, <1>3, <1>4, <1>5, <1>6, <1>7 DEF Next

-----------------------------------------------------------------------------
(* The theorems *)

\* Types, the holder of opMu and what the end rests on hold in every state.
THEOREM Invariance == Spec => []Inv
<1>1. Init => Inv
  BY InitInv
<1>2. Inv /\ [Next]_vars => Inv'
  <2>. SUFFICES ASSUME Inv, [Next]_vars PROVE Inv'
    OBVIOUS
  <2>1. BooleansOK /\ TogglesOK /\ HolderOK /\ EndOK /\ LoopNeverBlocks /\ EndInv
    BY TypeParts DEF Inv
  <2>2. BooleansOK'
    BY <2>1, BooleansStep
  <2>3. TogglesOK' /\ LoopNeverBlocks'
    BY <2>1, TogglesStep
  <2>4. HolderOK' /\ EndOK' /\ EndInv'
    BY <2>1, HolderStep, EndStep
  <2>5. TypeOK'
    BY <2>2, <2>3, <2>4 DEF TypeOK, BooleansOK, TogglesOK, HolderOK, EndOK
  <2>. QED
    BY <2>3, <2>4, <2>5 DEF Inv
<1>. QED
  BY <1>1, <1>2, PTL DEF Spec

\* Every variable keeps its type, and opMu has exactly the holder that believes
\* to have it.
THEOREM TypeCorrect == Spec => []TypeOK
<1>1. Inv => TypeOK
  BY DEF Inv
<1>. QED
  BY <1>1, Invariance, PTL

\* The event loop never waits to hand over a start/stop request.
THEOREM LoopIsFree == Spec => []LoopNeverBlocks
<1>1. Inv => LoopNeverBlocks
  BY DEF Inv
<1>. QED
  BY <1>1, Invariance, PTL

\* The process does not end with an operation under way: who ends it holds the
\* lock the operation would hold.
THEOREM OperationsComplete == Spec => []NothingCutShort
<1>1. Inv => NothingCutShort
  <2>. SUFFICES ASSUME Inv, exited, NEW j \in Jobs, job[j] = "working" PROVE FALSE
    BY DEF NothingCutShort
  <2>1. HolderOK /\ Leaving
    BY TypeParts DEF Inv, EndInv
  <2>2. opMu = j
    BY <2>1 DEF HolderOK
  <2>3. opMu \in Quits \cup Relaunches
    BY <2>1 DEF HolderOK, Leaving
  <2>. QED
    BY <2>2, <2>3, ActorAssumption
<1>. QED
  BY <1>1, Invariance, PTL

\* At most one new instance is started, however many relaunches are asked for.
THEOREM NoSecondSuccessor == Spec => []OneSuccessor
<1>1. Inv => OneSuccessor
  BY DEF Inv, EndInv, OneSuccessor
<1>. QED
  BY <1>1, Invariance, PTL

-----------------------------------------------------------------------------
(* Instances: one at a time, and what a --quit that succeeded may rely on, for *)
(* any processes, helpers and numbers of starts                               *)
Points == {"off", "won", "marked", "listening", "deaf", "leaving", "waiting", "opening", "losing"}
AppsOK == app \in [Apps -> [at : Points, for : Apps \cup {NoProcess}]]
HelpersOK ==
    /\ DOMAIN helper = Helpers /\ helper = [h \in Helpers |-> helper[h]]
    /\ reached \in [Helpers -> SUBSET Apps]

\* The mutex is what makes an instance: it lives as long as its handle
Holds == \A a \in Apps : app[a].at \in Alone => a \in mutex

\* Whoever a helper has asked and who has not gone is an instance still
AskedLive == \A h \in Helpers : \A a \in reached[h] : app[a].at \in Alone

InstInv == AppsOK /\ HelpersOK /\ Holds /\ OneInstance /\ AskedLive /\ QuitMeansGone

LEMMA InstInitInv == InstInit => InstInv
BY DEF InstInit, InstInv, AppsOK, Points, Off, HelpersOK, Holds, OneInstance, AskedLive,
   QuitMeansGone, Alone

-----------------------------------------------------------------------------
LEMMA AppKeeps ==
    ASSUME InstInv, NEW a \in Apps, AppStep(a) PROVE InstInv'
<1>. USE DEF InstInv, AppsOK, HelpersOK, Holds, OneInstance, AskedLive, QuitMeansGone, Alone, Points, AppGoes
<1>1. CASE Start(a) \/ MarkInstallation(a) \/ WaitOver(a)
  BY <1>1 DEF Start, MarkInstallation, WaitOver, objects
<1>2. CASE Open(a)
  BY <1>2 DEF Open, Wins
<1>3. CASE Lose(a)
  BY <1>3 DEF Lose, Off
<1>4. CASE Listen(a) \/ Hear(a) \/ UserQuits(a)
  BY <1>4 DEF Listen, Hear, UserQuits, objects
<1>5. ASSUME NEW b \in Apps, Relaunch(a, b) PROVE InstInv'
  BY <1>5 DEF Relaunch, objects
<1>6. CASE ProcessEnds(a)
  BY <1>6 DEF ProcessEnds, Off
<1>. QED  BY <1>1, <1>2, <1>3, <1>4, <1>5, <1>6 DEF AppStep

LEMMA HelperKeeps ==
    ASSUME InstInv, NEW h \in Helpers, Run(h) \/ HelperStep(h) \/ Deadline(h) PROVE InstInv'
<1>. USE ProcessAssumption DEF InstInv, AppsOK, HelpersOK, Holds, OneInstance, AskedLive, QuitMeansGone, HelperGoes, objects,
         Helpers
<1>1. CASE Run(h)
  BY <1>1 DEF Run
<1>2. ASSUME UNCHANGED <<mutex, app, reached>>, NEW at, at # "done", HelperGoes(h, at) PROVE InstInv'
  BY <1>2
<1>3. CASE InstallationRunning(h) \/ OpenEvent(h) \/ CloseEvent(h)
  <2>1. /\ UNCHANGED <<mutex, app, reached>>
        /\ \E at \in {"asking", "none", "probing", "opened", "waiting", "failed"} : HelperGoes(h, at)
    BY <1>3 DEF InstallationRunning, OpenEvent, CloseEvent
  <2>. QED  BY <1>2, <2>1
<1>7. CASE SetEvent(h)
  BY <1>7 DEF SetEvent
<1>8. CASE Deadline(h)
  BY <1>8 DEF Deadline
<1>4. CASE Probe(h)
  BY <1>4 DEF Probe, Peek
<1>5. CASE WaitForExit(h)
  <2>1. CASE mutex = {} /\ HelperGoes(h, "done") /\ UNCHANGED <<mutex, app, reached>>
    <3>1. reached[h] = {}
      BY <2>1
    <3>. QED  BY <2>1, <3>1
  <2>2. CASE Peek(h, "peeked") /\ UNCHANGED <<app, reached>>
    BY <2>2 DEF Peek
  <2>. QED  BY <1>5, <2>1, <2>2 DEF WaitForExit, NobodyHolds
<1>6. CASE Again(h)
  BY <1>6 DEF Again
<1>. QED  BY <1>1, <1>3, <1>4, <1>5, <1>6, <1>7, <1>8 DEF HelperStep

LEMMA InstStepInv == ASSUME InstInv, [InstNext]_instVars PROVE InstInv'
<1>1. CASE UNCHANGED instVars
  BY <1>1 DEF instVars, InstInv, AppsOK, HelpersOK, Holds, OneInstance, AskedLive, QuitMeansGone
<1>. QED  BY <1>1, AppKeeps, HelperKeeps DEF InstNext

-----------------------------------------------------------------------------
\* Every instance holds the mutex, and the two properties
THEOREM InstInvariance == InstSpec => []InstInv
BY InstInitInv, InstStepInv, PTL DEF InstSpec

\* Never two instances, however starts, relaunches, exits and helpers that look
\* at the mutex interleave (AcquireSingleInstance).
THEOREM Exclusion == InstSpec => []OneInstance
<1>1. InstInv => OneInstance
  BY DEF InstInv
<1>. QED  BY <1>1, InstInvariance, PTL

\* A --quit that reports success has outlived every instance it asked
\* (waitForExit, control_windows.go).
THEOREM QuitIsGone == InstSpec => []QuitMeansGone
<1>1. InstInv => QuitMeansGone
  BY DEF InstInv
<1>. QED  BY <1>1, InstInvariance, PTL
=============================================================================
