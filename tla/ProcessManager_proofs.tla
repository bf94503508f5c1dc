----------------------- MODULE ProcessManager_proofs -----------------------
(***************************************************************************)
(* Proofs about ProcessManager, for any finite or infinite sets of         *)
(* processes: its safety invariants by one inductive invariant, and that   *)
(* it implements ProcessContract until a snapshot fails or another program *)
(* starts an elevated sing-box.                                            *)
(***************************************************************************)
EXTENDS ProcessManager, TLAPS

Stopping == {"terminate", "waitOwn", "finish"}

\* Who holds the mutex, and what a call under way has returned.
ControlInv ==
    /\ mu = "stop" <=> pc \in Stopping
    /\ pc # "idle" => result = "none"

\* A helper is registered before anyone may look.
HelperInv ==
    /\ \A h \in Helpers \cap alive : h \in helperPIDs \/ h = helperMu
    /\ found \cap Helpers = {}

\* The owned process is the last one started; one whose done is closed is
\* dead; a live one is owned, and the cached state says so but in its grace
\* (which is what a Start whose snapshot failed relies on).
OwnInv ==
    /\ done \subseteq begun /\ done \cap alive = {}
    /\ cmd # none => cmd = proc /\ cmd \in begun
    /\ pc = "grace" => proc # none
    /\ \A p \in Own \cap alive : cmd = p /\ (running \/ pc = "grace")

\* Stop's snapshot holds every live process it has not ended yet, its list no
\* plain user's; and what it waits for is owned.
StopInv ==
    /\ todo \cap Unelevated = {}
    /\ pc = "waitOwn" => cmd # none
    /\ pc = "terminate" => stopErr \/ Own \cap alive \subseteq todo
    /\ pc \in {"waitOwn", "finish"} => stopErr \/ Own \cap alive = {}

Inv == TypeOK /\ ControlInv /\ HelperInv /\ OwnInv /\ StopInv /\ LastExitIsNews

\* The actions, to be named once.
USE DEF Stopping, vars, machine, manager, locals, helping

\* The initial state satisfies the invariant.
LEMMA InitInv == Init => Inv
  BY KindsAssumption DEF Init, Inv, TypeOK, ControlInv, HelperInv, OwnInv, StopInv,
     LastExitIsNews, Processes, Vpns

\* Every action keeps the types.
LEMMA TypeStep == ASSUME TypeOK, [Next]_vars PROVE TypeOK'
<1> USE DEF TypeOK
<1>1. CASE Request  BY <1>1 DEF Request
<1>2. CASE StartMissing  BY <1>2 DEF StartMissing, Return
<1>3. CASE StartAdopt
  <2>1. (disturbed \in BOOLEAN)'  BY <1>3, Zenon DEF StartAdopt, Look
  <2>2. QED  BY <1>3, <2>1 DEF StartAdopt, Return
<1>4. CASE StartLaunch
  <2>1. (running \in BOOLEAN)' /\ (disturbed \in BOOLEAN)'
    BY <1>4, Zenon DEF StartLaunch, RunningAtLaunch, Look
  <2>2. ASSUME NEW p \in Own, Begin(p), cmd' = p, proc' = p,
               NEW gone \in SUBSET (Found \cap Unelevated), alive' = (alive \ gone) \cup {p}
        PROVE  (alive \subseteq begun /\ begun \subseteq Processes /\ cmd \in Own \cup {none}
                  /\ proc \in Own \cup {none})'
    BY <2>2 DEF Begin, Processes, Vpns
  <2>3. (alive \subseteq begun /\ begun \subseteq Processes /\ cmd \in Own \cup {none}
                  /\ proc \in Own \cup {none})'
    BY <1>4, <2>2 DEF StartLaunch, EndSome
  <2>4. QED  BY <1>4, <2>1, <2>3 DEF StartLaunch, Return
<1>5. CASE GraceDied
  <2>1. (running \in BOOLEAN)'  BY <1>5, Zenon DEF GraceDied
  <2>2. QED  BY <1>5, <2>1 DEF GraceDied, Return
<1>6. CASE GraceOver
  <2>1. (running \in BOOLEAN)'  BY <1>6, Zenon DEF GraceOver
  <2>2. QED  BY <1>6, <2>1 DEF GraceOver, Return
<1>7. CASE StopBegin
  <2>1. (stopErr \in BOOLEAN)' /\ (disturbed \in BOOLEAN)'  BY <1>7, Zenon DEF StopBegin
  <2>2. (found \subseteq Processes /\ todo \subseteq found)'
    BY <1>7 DEF StopBegin, Found, FoundElevated
  <2>3. QED  BY <1>7, <2>1, <2>2 DEF StopBegin, Return
<1>8. ASSUME NEW p \in Processes, Terminate(p) PROVE TypeOK'
  <2>1. (stopErr \in BOOLEAN)'  BY <1>8, Zenon DEF Terminate
  <2>2. QED  BY <1>8, <2>1 DEF Terminate
<1>9. CASE Terminated  BY <1>9 DEF Terminated, EndSome
<1>10. CASE WaitOwn
  <2>1. (stopErr \in BOOLEAN)'  BY <1>10, Zenon DEF WaitOwn
  <2>2. QED  BY <1>10, <2>1 DEF WaitOwn
<1>11. CASE Finish
  <2>1. (running \in BOOLEAN)'  BY <1>11, Zenon DEF Finish
  <2>2. QED  BY <1>11, <2>1 DEF Finish, EndSome, Return
<1>12. CASE Ask
  <2>1. (disturbed \in BOOLEAN)'  BY <1>12, Zenon DEF Ask, Look
  <2>2. QED  BY <1>12, <2>1 DEF Ask
<1>13. ASSUME NEW p \in Own, WaitStep(p) PROVE TypeOK'
  <2>1. CASE CloseDone(p)  BY <1>13, <2>1 DEF CloseDone, Closable
  <2>2. CASE Collect(p)
    <3>1. (running \in BOOLEAN)'  BY <2>2, Zenon DEF Collect
    <3>2. QED  BY <2>2, <3>1 DEF Collect, Collectable
  <2>3. QED  BY <1>13, <2>1, <2>2 DEF WaitStep
<1>14. ASSUME NEW h \in Helpers, HelperStart(h) \/ HelperStep(h) PROVE TypeOK'
  BY <1>14 DEF HelperStart, HelperStep, HelperRegister, HelperExit, HelperUnregister, Begin,
     Processes
<1>15. ASSUME NEW p \in Processes, Die(p) PROVE TypeOK'  BY <1>15 DEF Die
<1>16. ASSUME NEW p \in Elevated \cup Unelevated, StartOutside(p) PROVE TypeOK'
  <2>1. (disturbed \in BOOLEAN)'  BY <1>16, Zenon DEF StartOutside
  <2>2. QED  BY <1>16, <2>1 DEF StartOutside, Begin, Processes, Vpns
<1>17. CASE UNCHANGED vars  BY <1>17
<1>18. QED
  BY <1>1, <1>2, <1>3, <1>4, <1>5, <1>6, <1>7, <1>8, <1>9, <1>10, <1>11, <1>12, <1>13, <1>14,
     <1>15, <1>16, <1>17 DEF Next, StartStep, StopStep

\* The mutex is held from Stop's snapshot to its result.
LEMMA ControlStep == ASSUME TypeOK, ControlInv, [Next]_vars PROVE ControlInv'
<1> USE DEF ControlInv, TypeOK
<1>1. CASE Request
  BY <1>1 DEF Request
<1>2. CASE StartMissing
  BY <1>2 DEF StartMissing, Return
<1>3. CASE StartAdopt
  BY <1>3 DEF StartAdopt, Return
<1>4. CASE StartLaunch
  BY <1>4 DEF StartLaunch, RunningAtLaunch, Return, EndSome, Begin
<1>5. CASE GraceDied
  BY <1>5 DEF GraceDied, Return
<1>6. CASE GraceOver
  BY <1>6 DEF GraceOver, Return
<1>7. CASE StopBegin
  BY <1>7 DEF StopBegin, Return, Found, FoundElevated
<1>8. ASSUME NEW p \in Processes, Terminate(p) PROVE ControlInv'
  BY <1>8 DEF Terminate
<1>9. CASE Terminated
  BY <1>9 DEF Terminated, EndSome
<1>10. CASE WaitOwn
  BY <1>10 DEF WaitOwn
<1>11. CASE Finish
  BY <1>11 DEF Finish, EndSome, Return, Stopped
<1>12. CASE Ask
  BY <1>12 DEF Ask
<1>13. ASSUME NEW p \in Own, WaitStep(p) PROVE ControlInv'
  BY <1>13 DEF WaitStep, CloseDone, Closable, Collect, Collectable, Exited, Mine, Expected
<1>14. ASSUME NEW h \in Helpers, HelperStart(h) \/ HelperStep(h) PROVE ControlInv'
  BY <1>14 DEF HelperStart, HelperStep, HelperRegister, HelperExit, HelperUnregister, Begin
<1>15. ASSUME NEW p \in Processes, Die(p) PROVE ControlInv'
  BY <1>15 DEF Die
<1>16. ASSUME NEW p \in Elevated \cup Unelevated, StartOutside(p) PROVE ControlInv'
  BY <1>16 DEF StartOutside, Begin
<1>17. CASE UNCHANGED vars
  BY <1>17
<1>18. QED
  BY <1>1, <1>2, <1>3, <1>4, <1>5, <1>6, <1>7, <1>8, <1>9, <1>10, <1>11, <1>12, <1>13, <1>14,
     <1>15, <1>16, <1>17
     DEF Next, StartStep, StopStep

\* A snapshot finds no live helper unregistered, so Stop's holds none.
LEMMA HelperStepInv == ASSUME TypeOK, HelperInv, [Next]_vars PROVE HelperInv'
<1> USE DEF HelperInv, TypeOK, Processes, Vpns
<1>1. CASE Request
  BY <1>1 DEF Request
<1>2. CASE StartMissing
  BY <1>2 DEF StartMissing, Return
<1>3. CASE StartAdopt
  BY <1>3 DEF StartAdopt, Return
<1>4. CASE StartLaunch
  BY <1>4, KindsAssumption DEF StartLaunch, RunningAtLaunch, Return, EndSome, Begin
<1>5. CASE GraceDied
  BY <1>5 DEF GraceDied, Return
<1>6. CASE GraceOver
  BY <1>6 DEF GraceOver, Return
<1>7. CASE StopBegin
  BY <1>7, KindsAssumption DEF StopBegin, Return, Found, FoundElevated, SnapshotFree
<1>8. ASSUME NEW p \in Processes, Terminate(p) PROVE HelperInv'
  BY <1>8 DEF Terminate
<1>9. CASE Terminated
  BY <1>9 DEF Terminated, EndSome
<1>10. CASE WaitOwn
  BY <1>10 DEF WaitOwn
<1>11. CASE Finish
  BY <1>11 DEF Finish, EndSome, Return, Stopped
<1>12. CASE Ask
  BY <1>12 DEF Ask
<1>13. ASSUME NEW p \in Own, WaitStep(p) PROVE HelperInv'
  BY <1>13 DEF WaitStep, CloseDone, Closable, Collect, Collectable, Exited, Mine, Expected
<1>14. ASSUME NEW h \in Helpers, HelperStart(h) \/ HelperStep(h) PROVE HelperInv'
  BY <1>14, KindsAssumption DEF HelperStart, HelperStep, HelperRegister, HelperExit,
     HelperUnregister, Begin
<1>15. ASSUME NEW p \in Processes, Die(p) PROVE HelperInv'
  BY <1>15 DEF Die
<1>16. ASSUME NEW p \in Elevated \cup Unelevated, StartOutside(p) PROVE HelperInv'
  BY <1>16, KindsAssumption DEF StartOutside, Begin
<1>17. CASE UNCHANGED vars
  BY <1>17
<1>18. QED
  BY <1>1, <1>2, <1>3, <1>4, <1>5, <1>6, <1>7, <1>8, <1>9, <1>10, <1>11, <1>12, <1>13, <1>14,
     <1>15, <1>16, <1>17
     DEF Next, StartStep, StopStep

\* No process is lost: each step that gives up m.cmd has seen it dead.
LEMMA OwnStep == ASSUME Inv, [Next]_vars PROVE OwnInv'
<1> USE DEF Inv, TypeOK, ControlInv, HelperInv, OwnInv, StopInv, Processes, Vpns
<1>1. CASE Request
  BY <1>1 DEF Request
<1>2. CASE StartMissing
  BY <1>2 DEF StartMissing, Return
<1>3. CASE StartAdopt
  BY <1>3 DEF StartAdopt, Return
<1>4. CASE StartLaunch
  <2>1. Own \cap alive = {}
    <3>1. CASE SnapshotFree /\ FoundElevated = {}
      BY <3>1, KindsAssumption DEF FoundElevated, Found
    <3>2. CASE running = FALSE
      BY <1>4, <3>2, Zenon DEF StartLaunch
    <3>3. QED  BY <1>4, <3>1, <3>2 DEF StartLaunch, Look
  <2>2. ASSUME NEW p \in Own, Begin(p), cmd' = p, proc' = p,
               NEW gone \in SUBSET (Found \cap Unelevated), alive' = (alive \ gone) \cup {p},
               pc' = "grace", done' = done
        PROVE  OwnInv'
    BY <2>1, <2>2, KindsAssumption DEF Begin
  <2>3. CASE UNCHANGED <<begun, cmd, proc, running>> /\ EndSome(Found \cap Unelevated)
                /\ Return("failed") /\ done' = done
    BY <2>1, <2>3 DEF EndSome, Return
  <2>4. QED  BY <1>4, <2>2, <2>3 DEF StartLaunch
<1>5. CASE GraceDied
  BY <1>5, KindsAssumption DEF GraceDied, Return
<1>6. CASE GraceOver
  BY <1>6, KindsAssumption DEF GraceOver, Return
<1>7. CASE StopBegin
  BY <1>7 DEF StopBegin, Return, Found, FoundElevated
<1>8. ASSUME NEW p \in Processes, Terminate(p) PROVE OwnInv'
  BY <1>8 DEF Terminate
<1>9. CASE Terminated
  BY <1>9 DEF Terminated, EndSome
<1>10. CASE WaitOwn
  BY <1>10 DEF WaitOwn
<1>11. CASE Finish
  BY <1>11 DEF Finish, EndSome, Return, Stopped
<1>12. CASE Ask
  BY <1>12, KindsAssumption DEF Ask
<1>13. ASSUME NEW p \in Own, WaitStep(p) PROVE OwnInv'
  BY <1>13 DEF WaitStep, CloseDone, Closable, Collect, Collectable, Exited, Mine, Expected
<1>14. ASSUME NEW h \in Helpers, HelperStart(h) \/ HelperStep(h) PROVE OwnInv'
  BY <1>14, KindsAssumption DEF HelperStart, HelperStep, HelperRegister, HelperExit,
     HelperUnregister, Begin
<1>15. ASSUME NEW p \in Processes, Die(p) PROVE OwnInv'
  BY <1>15 DEF Die
<1>16. ASSUME NEW p \in Elevated \cup Unelevated, StartOutside(p) PROVE OwnInv'
  BY <1>16, KindsAssumption DEF StartOutside, Begin
<1>17. CASE UNCHANGED vars
  BY <1>17
<1>18. QED
  BY <1>1, <1>2, <1>3, <1>4, <1>5, <1>6, <1>7, <1>8, <1>9, <1>10, <1>11, <1>12, <1>13, <1>14,
     <1>15, <1>16, <1>17
     DEF Next, StartStep, StopStep

\* Every live process Stop has not dealt with is left in its list.
LEMMA StopStepInv == ASSUME Inv, [Next]_vars PROVE StopInv'
<1> USE DEF Inv, TypeOK, ControlInv, HelperInv, OwnInv, StopInv, Processes, Vpns
<1>1. CASE Request
  BY <1>1 DEF Request
<1>2. CASE StartMissing
  BY <1>2 DEF StartMissing, Return
<1>3. CASE StartAdopt
  BY <1>3 DEF StartAdopt, Return
<1>4. CASE StartLaunch
  BY <1>4 DEF StartLaunch, RunningAtLaunch, Return, EndSome, Begin
<1>5. CASE GraceDied
  BY <1>5 DEF GraceDied, Return
<1>6. CASE GraceOver
  BY <1>6 DEF GraceOver, Return
<1>7. CASE StopBegin
  BY <1>7, KindsAssumption DEF StopBegin, Return, Found, FoundElevated
<1>8. ASSUME NEW p \in Processes, Terminate(p) PROVE StopInv'
  BY <1>8 DEF Terminate
<1>9. CASE Terminated
  BY <1>9 DEF Terminated, EndSome
<1>10. CASE WaitOwn
  BY <1>10 DEF WaitOwn
<1>11. CASE Finish
  BY <1>11 DEF Finish, EndSome, Return, Stopped
<1>12. CASE Ask
  BY <1>12 DEF Ask
<1>13. ASSUME NEW p \in Own, WaitStep(p) PROVE StopInv'
  BY <1>13 DEF WaitStep, CloseDone, Closable, Collect, Collectable, Exited, Mine, Expected
<1>14. ASSUME NEW h \in Helpers, HelperStart(h) \/ HelperStep(h) PROVE StopInv'
  BY <1>14, KindsAssumption DEF HelperStart, HelperStep, HelperRegister, HelperExit,
     HelperUnregister, Begin
<1>15. ASSUME NEW p \in Processes, Die(p) PROVE StopInv'
  BY <1>15 DEF Die
<1>16. ASSUME NEW p \in Elevated \cup Unelevated, StartOutside(p) PROVE StopInv'
  BY <1>16, KindsAssumption DEF StartOutside, Begin
<1>17. CASE UNCHANGED vars
  BY <1>17
<1>18. QED
  BY <1>1, <1>2, <1>3, <1>4, <1>5, <1>6, <1>7, <1>8, <1>9, <1>10, <1>11, <1>12, <1>13, <1>14,
     <1>15, <1>16, <1>17
     DEF Next, StartStep, StopStep

\* Only the last process started, dead and unexpectedly so, is ever told of.
LEMMA ExitStep == ASSUME Inv, [Next]_vars PROVE LastExitIsNews'
<1> USE DEF Inv, TypeOK, ControlInv, HelperInv, OwnInv, LastExitIsNews, Processes, Vpns
<1>1. CASE Request
  BY <1>1 DEF Request
<1>2. CASE StartMissing
  BY <1>2 DEF StartMissing, Return
<1>3. CASE StartAdopt
  BY <1>3 DEF StartAdopt, Return
<1>4. CASE StartLaunch
  BY <1>4 DEF StartLaunch, RunningAtLaunch, Return, EndSome, Begin
<1>5. CASE GraceDied
  BY <1>5 DEF GraceDied, Return
<1>6. CASE GraceOver
  BY <1>6 DEF GraceOver, Return
<1>7. CASE StopBegin
  BY <1>7 DEF StopBegin, Return, Found, FoundElevated
<1>8. ASSUME NEW p \in Processes, Terminate(p) PROVE LastExitIsNews'
  BY <1>8 DEF Terminate
<1>9. CASE Terminated
  BY <1>9 DEF Terminated, EndSome
<1>10. CASE WaitOwn
  BY <1>10 DEF WaitOwn
<1>11. CASE Finish
  BY <1>11 DEF Finish, EndSome, Return, Stopped
<1>12. CASE Ask
  BY <1>12 DEF Ask
<1>13. ASSUME NEW p \in Own, WaitStep(p) PROVE LastExitIsNews'
  BY <1>13 DEF WaitStep, CloseDone, Closable, Collect, Collectable, Exited, Mine, Expected
<1>14. ASSUME NEW h \in Helpers, HelperStart(h) \/ HelperStep(h) PROVE LastExitIsNews'
  BY <1>14, KindsAssumption DEF HelperStart, HelperStep, HelperRegister, HelperExit,
     HelperUnregister, Begin
<1>15. ASSUME NEW p \in Processes, Die(p) PROVE LastExitIsNews'
  BY <1>15 DEF Die
<1>16. ASSUME NEW p \in Elevated \cup Unelevated, StartOutside(p) PROVE LastExitIsNews'
  BY <1>16, KindsAssumption DEF StartOutside, Begin
<1>17. CASE UNCHANGED vars
  BY <1>17
<1>18. QED
  BY <1>1, <1>2, <1>3, <1>4, <1>5, <1>6, <1>7, <1>8, <1>9, <1>10, <1>11, <1>12, <1>13, <1>14,
     <1>15, <1>16, <1>17
     DEF Next, StartStep, StopStep

-----------------------------------------------------------------------------
(* The theorems *)

\* The inductive invariant holds in every reachable state.
THEOREM Invariance == Spec => []Inv
<1>1. Inv /\ [Next]_vars => Inv'
  BY TypeStep, ControlStep, HelperStepInv, OwnStep, StopStepInv, ExitStep DEF Inv
<1>2. QED  BY InitInv, <1>1, PTL DEF Spec

\* Every variable of the process manager keeps its type.
THEOREM TypeCorrect == Spec => []TypeOK
  BY Invariance, PTL DEF Inv

\* A sing-box this manager has started is owned for as long as it lives,
\* however starts, stops, deaths and Wait goroutines interleave.
THEOREM NoProcessLost == Spec => []OwnedWhileAlive
<1>1. Inv => OwnedWhileAlive  BY DEF Inv, OwnInv, OwnedWhileAlive
<1>2. QED  BY Invariance, <1>1, PTL

\* LastExit only ever tells of the last process started, dead and unasked.
THEOREM ExitIsNews == Spec => []LastExitIsNews
  BY Invariance, PTL DEF Inv

\* A look that finds something has found a VPN: no helper, no plain user's.
LEMMA LookFindsVpn ==
    ASSUME Inv, SnapshotFree, FoundElevated # {} PROVE \E p \in alive \cap Vpns : TRUE
  BY KindsAssumption DEF Inv, TypeOK, HelperInv, SnapshotFree, FoundElevated, Found, Processes,
     Vpns

\* The manager never claims to run a process that has not been seen alive
\* after its grace, whatever snapshots fail.
THEOREM Earned == Spec => RunningIsEarned
<1>1. ASSUME Inv, [Next]_vars, ~running, running'
      PROVE  \/ pc = "grace" /\ result' = "ok" /\ cmd = proc
             \/ \E p \in alive \cap Vpns : pc = "grace" => p # proc
  <2> USE <1>1
  <2>1. CASE StartAdopt
    <3>1. pc = "startLock" /\ SnapshotFree /\ FoundElevated # {}
      BY <2>1, Zenon DEF StartAdopt, Look
    <3>2. QED  BY <3>1, LookFindsVpn
  <2>2. CASE Ask
    <3>1. SnapshotFree /\ FoundElevated # {}
      BY <2>2, Zenon DEF Ask, Look
    <3>2. PICK p \in alive \cap Vpns : TRUE
      BY <3>1, LookFindsVpn
    <3>3. pc = "grace" => p # proc
      BY <2>2, <3>2, KindsAssumption DEF Ask, Inv, OwnInv, TypeOK
    <3>4. QED  BY <3>2, <3>3
  <2>3. CASE GraceOver
    BY <2>3, Zenon DEF GraceOver, Return
  <2>4. CASE StartLaunch
    BY <2>4, Zenon DEF StartLaunch, RunningAtLaunch
  <2>5. CASE GraceDied
    BY <2>5, Zenon DEF GraceDied
  <2>6. CASE Finish
    BY <2>6, Zenon DEF Finish
  <2>7. CASE \E p \in Own : WaitStep(p)
    BY <2>7, Zenon DEF WaitStep, CloseDone, Closable, Collect
  <2>8. QED
    BY <2>1, <2>2, <2>3, <2>4, <2>5, <2>6, <2>7 DEF Next, StartStep, StopStep, Request,
       StartMissing, StopBegin, Terminate, Terminated, WaitOwn, HelperStart, HelperStep,
       HelperRegister, HelperExit, HelperUnregister, Die, StartOutside
<1>2. QED  BY Invariance, <1>1, PTL DEF Spec, RunningIsEarned

\* No Start, Stop or goroutine of the manager ends a helper run.
THEOREM HelpersLive == Spec => HelpersSpared
<1>1. ASSUME Inv, [Next]_vars, NEW h \in Helpers \cap alive, h \notin alive'
      PROVE  UNCHANGED <<manager, locals>>
  <2> USE <1>1, KindsAssumption DEF Inv, TypeOK, HelperInv, Processes, Vpns
  <2>1. CASE StartLaunch  BY <2>1 DEF StartLaunch, EndSome
  <2>2. ASSUME NEW p \in Processes, Terminate(p) PROVE FALSE  BY <2>2 DEF Terminate
  <2>3. CASE Terminated  BY <2>3 DEF Terminated, EndSome
  <2>4. CASE Finish  BY <2>4 DEF Finish, EndSome
  <2>5. CASE \E g \in Helpers : HelperStart(g) \/ HelperStep(g)
    BY <2>5 DEF HelperStart, HelperStep, HelperRegister, HelperExit, HelperUnregister
  <2>6. CASE \E p \in Processes : Die(p)  BY <2>6 DEF Die
  <2>7. CASE \E p \in Elevated \cup Unelevated : StartOutside(p)  BY <2>7 DEF StartOutside
  <2>8. QED
    BY <2>1, <2>2, <2>3, <2>4, <2>5, <2>6, <2>7 DEF Next, StartStep, StopStep, Request,
       StartMissing, StartAdopt, GraceDied, GraceOver, StopBegin, WaitOwn, Ask, WaitStep,
       CloseDone, Collect
<1>2. Inv /\ [Next]_vars =>
        [\A h \in Helpers \cap alive : h \in alive' \/ UNCHANGED <<manager, locals>>]_vars
  BY <1>1
<1>3. QED  BY Invariance, <1>2, PTL DEF Spec, HelpersSpared

-----------------------------------------------------------------------------
(* A Stop fails for a process that is still there                            *)

\* StopErr is set by a process that has survived its end, or by a wait for a
\* channel that nobody can close: its process lives.
THEOREM StopFails == Spec => StopFailsForCause
<1>1. ASSUME Inv, [Next]_vars, ~stopErr, stopErr'
      PROVE  \E p \in (found \cap Vpns) \cup {cmd} : p \in alive'
  <2> USE <1>1
  <2>1. ASSUME NEW p \in Processes, Terminate(p)
        PROVE  \E q \in (found \cap Vpns) \cup {cmd} : q \in alive'
    <3>1. p \in todo /\ p \in alive /\ alive' = alive
      BY <2>1, Zenon DEF Terminate
    <3>2. p \in found \cap Vpns
      BY <3>1 DEF Inv, TypeOK, HelperInv, StopInv, Processes
    <3>3. QED  BY <3>1, <3>2, Zenon
  <2>2. CASE WaitOwn
    <3>1. cmd \notin done /\ ~Exited(cmd) /\ pc = "waitOwn" /\ alive' = alive
      BY <2>2, Zenon DEF WaitOwn, TimedOut, Closable, machine
    <3>2. cmd \in Own \cap begun
      BY <3>1 DEF Inv, OwnInv, StopInv, TypeOK
    <3>3. cmd \in alive'
      BY <3>1, <3>2 DEF Exited
    <3>4. QED  BY <3>3, Zenon
  <2>3. CASE StopBegin  BY <2>3, Zenon DEF StopBegin
  <2>4. QED
    BY <2>1, <2>2, <2>3, Zenon DEF Next, StartStep, StopStep, Request, StartMissing, StartAdopt,
       StartLaunch, GraceDied, GraceOver, Terminated, Finish, Ask, WaitStep, CloseDone, Collect,
       HelperStart, HelperStep, HelperRegister, HelperExit, HelperUnregister, Die, StartOutside
<1>2. QED  BY Invariance, <1>1, PTL DEF Spec, StopFailsForCause

-----------------------------------------------------------------------------
(* The contract, until a snapshot fails or another program starts an         *)
(* elevated sing-box                                                         *)

\* Nothing else than this manager has made a VPN.  A leftover of the previous
\* instance excludes a process of this one, owned or alive; and Stop's list
\* holds every live VPN, the leftovers too.
Solo ==
    /\ Elevated \cap begun = {}
    /\ cmd # none => Earlier \cap alive = {}
    /\ pc = "terminate" => stopErr \/ Vpns \cap alive \subseteq todo
    /\ pc \in {"waitOwn", "finish"} => stopErr \/ Vpns \cap alive = {}
    /\ Earlier \subseteq begun
SoloInv == ~disturbed => Solo

\* What is disturbed stays so.
LEMMA StaysDisturbed == ASSUME [Next]_vars, ~disturbed' PROVE ~disturbed
  BY Zenon DEF Next, StartStep, StopStep, Request, StartMissing, StartAdopt, StartLaunch, Look,
     GraceDied, GraceOver, StopBegin, Terminate, Terminated, WaitOwn, Finish, Ask, WaitStep,
     CloseDone, Collect, HelperStart, HelperStep, HelperRegister, HelperExit, HelperUnregister,
     Die, StartOutside

\* An undisturbed look tells of the system, an undisturbed start is ours.
LEMMA LookIsTrue ==
    ASSUME NEW answer \in BOOLEAN, Look(answer), ~disturbed'
    PROVE  SnapshotFree /\ answer = (FoundElevated # {})
  BY Zenon DEF Look

\* Solo is kept by every action that does not disturb.
LEMMA SoloStep == ASSUME Inv, Solo, [Next]_vars, ~disturbed' PROVE Solo'
<1> USE KindsAssumption DEF Inv, TypeOK, ControlInv, HelperInv, OwnInv, Solo, Processes, Vpns
<1>1. CASE Request  BY <1>1 DEF Request
<1>2. CASE StartMissing \/ StartAdopt
  BY <1>2 DEF StartMissing, StartAdopt, Return
<1>3. CASE StartLaunch
  <2>1. Vpns \cap alive = {}
    <3>1. FoundElevated = {}  BY <1>3, LookIsTrue, Zenon DEF StartLaunch
    <3>2. QED  BY <3>1 DEF FoundElevated, Found
  <2>2. QED  BY <1>3, <2>1 DEF StartLaunch, EndSome, Begin, Return
<1>4. CASE GraceDied \/ GraceOver  BY <1>4 DEF GraceDied, GraceOver, Return
<1>5. CASE StopBegin  BY <1>5 DEF StopBegin, Found, FoundElevated, SnapshotFree, Return
<1>6. ASSUME NEW p \in Processes, Terminate(p) PROVE Solo'  BY <1>6 DEF Terminate
<1>7. CASE Terminated  BY <1>7 DEF Terminated, EndSome
<1>8. CASE WaitOwn  BY <1>8 DEF WaitOwn
<1>9. CASE Finish  BY <1>9 DEF Finish, EndSome, Return
<1>10. CASE Ask  BY <1>10 DEF Ask
<1>11. ASSUME NEW p \in Own, WaitStep(p) PROVE Solo'
  BY <1>11 DEF WaitStep, CloseDone, Closable, Collect
<1>12. ASSUME NEW h \in Helpers, HelperStart(h) \/ HelperStep(h) PROVE Solo'
  BY <1>12 DEF HelperStart, HelperStep, HelperRegister, HelperExit, HelperUnregister, Begin
<1>13. ASSUME NEW p \in Processes, Die(p) PROVE Solo'  BY <1>13 DEF Die
<1>14. ASSUME NEW p \in Elevated \cup Unelevated, StartOutside(p) PROVE Solo'
  <2>1. p \notin Elevated  BY <1>14, Zenon DEF StartOutside
  <2>2. QED  BY <1>14, <2>1 DEF StartOutside, Begin
<1>15. CASE UNCHANGED vars  BY <1>15
<1>16. QED
  BY <1>1, <1>2, <1>3, <1>4, <1>5, <1>6, <1>7, <1>8, <1>9, <1>10, <1>11, <1>12, <1>13, <1>14,
     <1>15 DEF Next, StartStep, StopStep

LEMMA SoloInvariance == Spec => [](Inv /\ SoloInv)
<1>1. Init => SoloInv
  BY KindsAssumption DEF Init, SoloInv, Solo
<1>2. SoloInv /\ Inv /\ [Next]_vars => SoloInv'
  <2>1. SUFFICES ASSUME SoloInv, Inv, [Next]_vars, ~disturbed' PROVE Solo'
    BY DEF SoloInv
  <2>2. ~disturbed  BY <2>1, StaysDisturbed
  <2>3. QED  BY <2>1, <2>2, SoloStep DEF SoloInv
<1>3. QED  BY <1>1, <1>2, Invariance, PTL DEF Spec

\* No process is started beside one that outlived the previous instance of
\* the application.
THEOREM OneVpn == Spec => []NoSecondVpn
<1>1. Inv /\ SoloInv => NoSecondVpn
  BY KindsAssumption DEF Inv, OwnInv, SoloInv, Solo, TypeOK, NoSecondVpn
<1>2. QED  BY SoloInvariance, <1>1, PTL

\* A Start reports success because of a VPN, never because of a helper run.
THEOREM NoHelperAdopted == Spec => HelpersNotAdopted
<1>1. ASSUME Inv, [Next]_vars, ~disturbed', pc = "startLock", result' = "ok"
      PROVE  alive \cap Vpns # {}
  <2> USE <1>1
  <2>1. CASE StartAdopt
    <3>1. SnapshotFree /\ FoundElevated # {}
      BY <2>1, LookIsTrue, Zenon DEF StartAdopt
    <3>2. QED  BY <3>1, LookFindsVpn
  <2>2. result = "none"
    BY DEF Inv, ControlInv
  <2>3. QED
    BY <2>1, <2>2 DEF Next, StartStep, StopStep, Request, StartMissing, StartLaunch, GraceDied,
       GraceOver, StopBegin, Terminate, Terminated, WaitOwn, Finish, Ask, WaitStep, CloseDone,
       Collect, HelperStart, HelperStep, HelperRegister, HelperExit, HelperUnregister, Die,
       StartOutside, Return
<1>2. QED  BY Invariance, <1>1, PTL DEF Spec, HelpersNotAdopted

\* What the refinement rests on: an owned process excludes every other VPN.
LEMMA Alone ==
    ASSUME Inv, Solo, cmd # none
    PROVE  alive \cap Vpns \subseteq {cmd}
  BY KindsAssumption DEF Inv, OwnInv, Solo, Vpns, TypeOK

\* A process Collect or a failed Start gives up was the only VPN: nothing is
\* left that IsRunning could find.
LEMMA GivenUp ==
    ASSUME Inv, Solo, cmd \in done PROVE alive \cap Vpns = {}
  BY Alone, KindsAssumption DEF Inv, OwnInv, TypeOK

THEOREM Implements == Spec => ImplementsContract
<1>1. ASSUME Init PROVE Contract!Init
  <2>1. Op = "idle" /\ result = "none"  BY <1>1 DEF Init, Op
  <2>2. Tells \in BOOLEAN  BY <1>1 DEF Init, Tells
  <2>3. QED  BY <2>1, <2>2 DEF Contract!Init
<1>2. ASSUME Inv, Solo, [Next]_vars, ~disturbed'
      PROVE  [Contract!Next]_(Contract!vars)
  <2> USE <1>2, KindsAssumption
  <2> USE DEF Contract!Next, Contract!vars
  <2>1. Tells \in BOOLEAN /\ Tells' \in BOOLEAN
    <3>1. TypeOK /\ TypeOK'  BY TypeStep DEF Inv
    <3>2. QED  BY <3>1, Zenon DEF Tells, TypeOK
  <2>2. CASE Request
    <3>1. Tells' = Tells  BY <2>2 DEF Request, Tells, machine, manager
    <3>2. Op = "idle" /\ Op' \in {"starting", "stopping"} /\ result' = "none"
      BY <2>2 DEF Request, Op
    <3>3. QED  BY <3>1, <3>2 DEF Contract!Begin
  <2>3. CASE StartMissing
    <3>1. Tells' = Tells  BY <2>3 DEF StartMissing, Tells
    <3>2. Op = "starting" /\ Op' = "idle" /\ result' = "failed"
      BY <2>3 DEF StartMissing, Op, Return
    <3>3. QED  BY <3>1, <3>2, <2>1 DEF Contract!EndStart
  <2>4. CASE StartAdopt
    <3>1. Op = "starting" /\ Op' = "idle" /\ result' = "ok"
      BY <2>4 DEF StartAdopt, Op, Return
    <3>2. QED  BY <3>1, <2>1 DEF Contract!EndStart
  <2>5. CASE StartLaunch
    <3>1. pc = "startLock" /\ Op = "starting" /\ result = "none"
      BY <2>5 DEF StartLaunch, Op, Inv, ControlInv
    <3>2. Vpns \cap alive = {}
      <4>1. FoundElevated = {}  BY <2>5, LookIsTrue, Zenon DEF StartLaunch
      <4>2. QED  BY <4>1 DEF FoundElevated, Found, Inv, TypeOK, HelperInv, Vpns
    <3>3. CASE cmd' \in Own /\ pc' = "grace" /\ result' = result /\ running' = FALSE
      <4> cmd' # none  BY <3>3 DEF Processes, Vpns
      <4>1. Tells' = FALSE  BY <3>3, Zenon DEF Tells
      <4>2. Op' = "starting"  BY <3>3 DEF Op
      <4>3. QED  BY <4>1, <4>2, <3>1, <3>3, <2>1 DEF Contract!Down
    <3>4. CASE UNCHANGED <<cmd, running>> /\ Return("failed") /\ EndSome(Found \cap Unelevated)
      <4>1. alive' \cap Vpns = {}  BY <3>2, <3>4 DEF EndSome
      <4>2. Tells' = Tells  BY <3>2, <3>4, <4>1 DEF Tells
      <4>3. Op' = "idle" /\ result' = "failed"  BY <3>4 DEF Op, Return
      <4>4. QED  BY <4>2, <4>3, <3>1, <2>1 DEF Contract!EndStart
    <3>5. QED  BY <2>5, <3>3, <3>4, Zenon DEF StartLaunch, RunningAtLaunch
  <2>6. CASE GraceDied
    <3>1. Op = "starting" /\ Op' = "idle" /\ result' = "failed"
      BY <2>6 DEF GraceDied, Op, Return
    <3>2. CASE cmd = proc
      <4>1. alive \cap Vpns = {}  BY <2>6, <3>2, GivenUp DEF GraceDied
      <4>2. cmd' = none /\ alive' = alive  BY <2>6, <3>2 DEF GraceDied, machine
      <4>3. Tells' = FALSE  BY <4>1, <4>2 DEF Tells
      <4>4. QED  BY <3>1, <4>3 DEF Contract!EndStart
    <3>3. CASE cmd # proc
      <4>1. cmd = none /\ cmd' = none /\ alive' = alive
        BY <2>6, <3>3 DEF GraceDied, Inv, OwnInv, machine
      <4>2. Tells' = Tells  BY <4>1 DEF Tells
      <4>3. QED  BY <3>1, <4>2, <2>1 DEF Contract!EndStart
    <3>4. QED  BY <3>2, <3>3
  <2>7. CASE GraceOver
    <3>1. Op = "starting" /\ Op' = "idle" /\ result' = "ok"
      BY <2>7 DEF GraceOver, Op, Return
    <3>2. QED  BY <3>1, <2>1 DEF Contract!EndStart
  <2>8. CASE StopBegin
    <3>1. Op = "stopping" /\ Op' = "stopping" /\ UNCHANGED <<cmd, running, alive, result>>
      BY <2>8 DEF StopBegin, Op, machine
    <3>2. QED  BY <3>1 DEF Tells
  <2>9. ASSUME NEW p \in Processes, Terminate(p) PROVE [Contract!Next]_(Contract!vars)
    <3>1. Op' = Op /\ UNCHANGED <<cmd, running, result>> /\ alive' \subseteq alive
      BY <2>9 DEF Terminate, Op, manager
    <3>2. Tells' => Tells  BY <3>1 DEF Tells
    <3>3. QED  BY <3>1, <3>2, <2>1 DEF Contract!Down
  <2>10. CASE Terminated
    <3>1. Op = "stopping" /\ Op' = "stopping" /\ UNCHANGED <<cmd, running, result>>
             /\ alive' \subseteq alive
      BY <2>10 DEF Terminated, EndSome, Op, manager, Inv, ControlInv
    <3>2. Tells' => Tells  BY <3>1 DEF Tells
    <3>3. QED  BY <3>1, <3>2, <2>1 DEF Contract!Down
  <2>11. CASE WaitOwn
    BY <2>11 DEF WaitOwn, Op, Tells, machine, manager
  <2>12. CASE Finish
    <3>1. Op = "stopping" /\ Op' = "idle"
      BY <2>12 DEF Finish, Op, Return
    <3>2. alive' \cap Vpns = alive \cap Vpns
      BY <2>12 DEF Finish, EndSome, Vpns, Inv, TypeOK
    <3>3. CASE Stopped
      <4>1. alive \cap Vpns = {}
        BY <2>12, <3>3 DEF Finish, Stopped, Solo
      <4>2. cmd' = none /\ result' = "ok"  BY <2>12, <3>3 DEF Finish, Return
      <4>3. Tells' = FALSE  BY <3>2, <4>1, <4>2 DEF Tells
      <4>4. QED  BY <3>1, <4>2, <4>3 DEF Contract!EndStop
    <3>4. CASE ~Stopped
      <4>1. UNCHANGED <<cmd, running>> /\ result' = "failed"
        BY <2>12, <3>4 DEF Finish, Return
      <4>2. Tells' = Tells  BY <3>2, <4>1 DEF Tells
      <4>3. QED  BY <3>1, <4>1, <4>2, <2>1 DEF Contract!EndStop
    <3>5. QED  BY <3>3, <3>4
  <2>13. CASE Ask
    <3>1. cmd = none /\ cmd' = none /\ alive' = alive /\ UNCHANGED <<pc, result>>
      BY <2>13 DEF Ask, machine, locals
    <3>2. QED  BY <3>1 DEF Tells, Op
  <2>14. ASSUME NEW p \in Own, WaitStep(p) PROVE [Contract!Next]_(Contract!vars)
    <3>1. alive' = alive /\ UNCHANGED <<pc, result>>
      BY <2>14 DEF WaitStep, CloseDone, Closable, Collect, machine, locals
    <3>2. CASE UNCHANGED <<cmd, running>>
      BY <3>1, <3>2 DEF Tells, Op
    <3>3. CASE p \in done /\ cmd = p /\ cmd' = none
      <4>1. alive \cap Vpns = {}  BY <3>3, GivenUp
      <4>2. Tells' = FALSE  BY <3>1, <3>3, <4>1 DEF Tells
      <4>3. Op' = Op  BY <3>1 DEF Op
      <4>4. QED  BY <3>1, <4>2, <4>3, <2>1 DEF Contract!Down
    <3>4. QED  BY <2>14, <3>2, <3>3 DEF WaitStep, CloseDone, Closable, Collect, Collectable, Mine
  <2>15. ASSUME NEW h \in Helpers, HelperStart(h) \/ HelperStep(h)
         PROVE  [Contract!Next]_(Contract!vars)
    <3>1. UNCHANGED <<cmd, running, pc, result>> /\ alive' \cap Vpns = alive \cap Vpns
      BY <2>15 DEF HelperStart, HelperStep, HelperRegister, HelperExit, HelperUnregister,
         machine, manager, locals, Vpns
    <3>2. QED  BY <3>1 DEF Tells, Op
  <2>16. ASSUME NEW p \in Processes, Die(p) PROVE [Contract!Next]_(Contract!vars)
    <3>1. UNCHANGED <<cmd, running, pc, result>> /\ alive' \subseteq alive
      BY <2>16 DEF Die, manager, locals
    <3>2. (Tells' => Tells) /\ Op' = Op  BY <3>1 DEF Tells, Op
    <3>3. QED  BY <3>1, <3>2, <2>1 DEF Contract!Down
  <2>17. ASSUME NEW p \in Elevated \cup Unelevated, StartOutside(p)
         PROVE  [Contract!Next]_(Contract!vars)
    <3>1. p \notin Elevated  BY <2>17, Zenon DEF StartOutside
    <3>2. UNCHANGED <<cmd, running, pc, result>> /\ alive' \cap Vpns = alive \cap Vpns
      BY <2>17, <3>1 DEF StartOutside, manager, locals, Vpns
    <3>3. QED  BY <3>2 DEF Tells, Op
  <2>18. CASE UNCHANGED vars
    BY <2>18 DEF Tells, Op
  <2>19. QED
    BY <2>2, <2>3, <2>4, <2>5, <2>6, <2>7, <2>8, <2>9, <2>10, <2>11, <2>12, <2>13, <2>14, <2>15,
       <2>16, <2>17, <2>18 DEF Next, StartStep, StopStep
<1>3. Inv /\ SoloInv /\ [Next]_vars => [~disturbed' => Contract!Next]_<<Tells, Op, result>>
  <2>1. SUFFICES ASSUME Inv, SoloInv, [Next]_vars, ~disturbed'
                 PROVE  Contract!Next \/ UNCHANGED <<Tells, Op, result>>
    OBVIOUS
  <2>2. Solo  BY <2>1, StaysDisturbed DEF SoloInv
  <2>3. QED  BY <1>2, <2>1, <2>2 DEF Contract!vars
<1>4. QED
  BY <1>1, <1>3, SoloInvariance, PTL DEF Spec, ImplementsContract
=============================================================================
