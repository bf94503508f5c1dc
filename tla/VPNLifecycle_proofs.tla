------------------------ MODULE VPNLifecycle_proofs ------------------------
(***************************************************************************)
(* Proofs about VPNLifecycle, for any set of callers and any limits.       *)
(***************************************************************************)
EXTENDS VPNLifecycle, TLAPS

Notifying(t) == pc[t] \in NotifyLabels

SwapLabels == {"swapCheck", "swapStop", "swapFn", "swapStart", "swapKeep", "swapUndo", "swapAgain"}

\* Control: which labels belong to whom, and to which operation.
ControlInv ==
    /\ pc[bg] \in BgLabels \cup NotifyLabels
    /\ Notifying(bg) => notice[bg].then \in {"bgUnlock", "decide"}
    /\ \A c \in Callers :
          /\ pc[c] \in CallerLabels \cup NotifyLabels
          /\ pc[c] # "idle" => call[c].op # "none"
          /\ Notifying(c) => notice[c].then \in {"unlock", "swapFn"}
          /\ pc[c] \in {"startProc", "startSave"} => call[c].op = "start"
          /\ pc[c] \in {"askStatus", "stopSave", "stopProc"} => IsStop(c)
          /\ pc[c] \in {"restartCheck", "restartStop", "restartStart"} => call[c].op = "restart"
          /\ pc[c] \in SwapLabels => call[c].op = "swap"
          /\ Notifying(c) /\ notice[c].then = "swapFn" => call[c].op = "swap"

\* Who is between Lock and Unlock of lifeMu.
Holds(t) == IF t = bg
            THEN \/ pc[bg] \in {"restoreStart", "autoCheck", "autoStart", "bgUnlock"}
                 \/ Notifying(bg) /\ notice[bg].then = "bgUnlock"
            ELSE pc[t] \notin {"idle", "askStatus", "lock"}

LockInv == \A t \in Threads : Holds(t) => lifeMu = t

\* From the stop of a swap to the start after it the process is down.
SwapInv == \A c \in Callers :
    \/ pc[c] \in {"swapFn", "swapStart", "swapUndo", "swapAgain"}
    \/ Notifying(c) /\ notice[c].then = "swapFn"
    => ~Running

\* A maintenance operation that is going to start the process again.
Revives(c) ==
    \/ pc[c] \in {"restartStop", "restartStart", "swapStop", "swapStart", "swapKeep",
                  "swapUndo", "swapAgain"}
    \/ call[c].wasRunning /\ pc[c] = "swapFn"
    \/ call[c].wasRunning /\ Notifying(c) /\ notice[c].then = "swapFn"

\* A Stop that has recorded its intent, up to its return.
StopRecorded(c) == IsStop(c) /\ pc[c] \in {"reset", "stopProc", "unlock"} \cup NotifyLabels

\* What a Stop that has returned leaves behind, and what keeps it that way.
IntentInv ==
    /\ userOff => ~intent
    /\ pc[bg] \in {"restoreStart", "autoStart"} => intent
    /\ \A c \in Callers : pc[c] = "startSave" => ~userOff
    /\ \A c \in Callers : StopRecorded(c) => ~intent

DownInv ==
    /\ userOff => ~Running
    /\ \A c \in Callers : IsStop(c) /\ (pc[c] = "unlock" \/ Notifying(c)) => ~Running
    /\ \A c \in Callers : Revives(c) => ~userOff

Inv == TypeOK /\ ControlInv /\ LockInv /\ SwapInv
OffInv == IntentInv /\ (~StopFails => DownInv)

-----------------------------------------------------------------------------

\* A fresh service on any machine satisfies the invariants.
LEMMA InitInv == Init => Inv /\ OffInv
<1> SUFFICES ASSUME Init PROVE Inv /\ OffInv
  OBVIOUS
<1> USE ThreadsAssumption, AttemptsAssumption DEF Init, Fresh, NewCall, NoCall, NoNotice,
   Threads
<1>1. /\ sessionEnding \in BOOLEAN /\ gaveUp \in BOOLEAN /\ backoff \in BOOLEAN
      /\ pending \in BOOLEAN /\ notifyDropped \in BOOLEAN /\ popup \in BOOLEAN
      /\ userOff \in BOOLEAN
  BY Zenon
<1>2. NoCall \in Calls /\ NoNotice \in Notices
  BY DEF Calls, Notices, AllOps, Statuses
<1>3. TypeOK
  BY <1>1, <1>2 DEF TypeOK, Statuses, CallerLabels, BgLabels
<1>4. ControlInv
  BY DEF ControlInv, Notifying, CallerLabels, BgLabels, NotifyLabels, SwapLabels
<1>5. LockInv /\ SwapInv
  BY DEF LockInv, Holds, SwapInv, Notifying, NotifyLabels
<1>6. OffInv
  BY DEF OffInv, IntentInv, DownInv, StopRecorded, Revives, Notifying, NotifyLabels, IsStop
<1>7. QED
  BY <1>3, <1>4, <1>5, <1>6 DEF Inv

\* Every step keeps the types, and every goroutine at the labels of its operation.
LEMMA TypeStep == TypeOK /\ ControlInv /\ [Next]_vars => TypeOK' /\ ControlInv'
<1> SUFFICES ASSUME TypeOK, ControlInv, [Next]_vars PROVE TypeOK' /\ ControlInv'
  OBVIOUS
<1> USE ThreadsAssumption, OpsAssumption, AttemptsAssumption
    DEF TypeOK, ControlInv, Notifying, IsStop, SwapLabels, Calls, Notices, Statuses, AllOps,
        CallerLabels, BgLabels, NotifyLabels, Threads, Goto, vars, machine, budget, channel,
        bgLocal, history
<1>1. CASE \E c \in Callers : Request(c)
  <2>1. popup' \in BOOLEAN
    BY <1>1, Zenon DEF Request
  <2>2. PICK c \in Callers : Request(c)
    BY <1>1
  <2>3. PICK o \in Ops, u \in BOOLEAN :
          /\ call' = [call EXCEPT ![c] = NewCall(o, u)]
          /\ pc' = [pc EXCEPT ![c] = IF o = "turnOff" THEN "askStatus" ELSE "lock"]
    BY ONLY <2>2 DEF Request, Goto
  <2>4. NewCall(o, u) \in Calls /\ NewCall(o, u).op = o
    BY DEF NewCall
  <2>5. TypeOK'
    BY <2>1, <2>2, <2>3, <2>4 DEF Request
  <2>6. ControlInv'
    BY <2>2, <2>3, <2>4 DEF Request
  <2>7. QED
    BY <2>5, <2>6
<1>2. CASE \E c \in Callers : AskStatus(c)
  BY <1>2 DEF AskStatus, NewCall, NoCall, Running
<1>3. CASE \E c \in Callers : Lock(c)
  BY <1>3 DEF Lock, IsStop
<1>4. CASE \E c \in Callers : Unlock(c)
  BY <1>4 DEF Unlock, NewCall, NoCall
<1>5. CASE \E c \in Callers : Reset(c)
  <2>1. gaveUp' \in BOOLEAN /\ backoff' \in BOOLEAN
    BY <1>5, Zenon DEF Reset, ResetBudget
  <2>2. autoRestarts' \in 0..AutoRestartMaxAttempts
    BY <1>5 DEF Reset, ResetBudget
  <2>3. PICK c \in Callers : Reset(c)
    BY <1>5
  <2>4. notice' \in [Threads -> Notices]
    BY <2>3 DEF Reset, Notify
  <2>5. TypeOK'
    BY <2>1, <2>2, <2>3, <2>4 DEF Reset, Notify
  <2>6. ControlInv'
    BY <2>3 DEF Reset, Notify
  <2>7. QED
    BY <2>5, <2>6
<1>6. CASE \E c \in Callers : StartProc(c)
  BY <1>6 DEF StartProc, StartProcess
<1>7. CASE \E c \in Callers : StartSave(c)
  BY <1>7 DEF StartSave
<1>8. CASE \E c \in Callers : StopSave(c)
  BY <1>8 DEF StopSave
<1>9. CASE \E c \in Callers : StopProc(c)
  <2>1. PICK c \in Callers : StopProc(c)
    BY <1>9
  <2>2. notice' \in [Threads -> Notices]
    BY <2>1 DEF StopProc, StopProcess, Notify
  <2>3. call' \in [Callers -> Calls]
    BY <2>1 DEF StopProc, StopProcess, Notify
  <2>4. TypeOK'
    BY <2>1, <2>2, <2>3 DEF StopProc, StopProcess, Notify
  <2>5. ControlInv'
    BY <2>1 DEF StopProc, StopProcess, Notify
  <2>6. QED
    BY <2>4, <2>5
<1>10. CASE \E c \in Callers : RestartCheck(c)
  BY <1>10 DEF RestartCheck, Running
<1>11. CASE \E c \in Callers : RestartStop(c)
  BY <1>11 DEF RestartStop, StopProcess
<1>12. CASE \E c \in Callers : RestartStart(c)
  BY <1>12 DEF RestartStart, StartProcess, Notify
<1>13. CASE \E c \in Callers : SwapCheck(c)
  <2>1. Running \in BOOLEAN
    BY Zenon DEF Running
  <2>2. PICK c \in Callers : SwapCheck(c)
    BY <1>13
  <2>3. call' \in [Callers -> Calls]
    BY <2>1, <2>2 DEF SwapCheck
  <2>4. QED
    BY <2>2, <2>3 DEF SwapCheck
<1>14. CASE \E c \in Callers : SwapStop(c)
  <2>1. PICK c \in Callers : SwapStop(c)
    BY <1>14
  <2>2. notice' \in [Threads -> Notices]
    BY <2>1 DEF SwapStop, StopProcess, Notify
  <2>3. call' \in [Callers -> Calls]
    BY <2>1 DEF SwapStop, StopProcess, Notify
  <2>4. TypeOK'
    <3>1. pc' \in [Threads -> CallerLabels \cup BgLabels \cup NotifyLabels]
      BY <2>1 DEF SwapStop, StopProcess, Notify
    <3>2. proc' \in {"up", "down", "ended"}
      BY <2>1 DEF SwapStop, StopProcess
    <3> QED
      BY <2>1, <2>2, <2>3, <3>1, <3>2 DEF SwapStop
  <2>5. ControlInv'
    <3>1. \A t \in Threads \ {c} : pc'[t] = pc[t] /\ notice'[t] = notice[t]
      BY <2>1 DEF SwapStop, StopProcess, Notify
    <3>2. \A d \in Callers : call'[d].op = call[d].op
      BY <2>1 DEF SwapStop
    <3>3. \/ pc'[c] = "send" /\ notice'[c].then = "swapFn"
          \/ pc'[c] = "unlock"
      BY <2>1 DEF SwapStop, StopProcess, Notify
    <3> QED
      BY <2>1, <3>1, <3>2, <3>3 DEF SwapStop
  <2>6. QED
    BY <2>4, <2>5
<1>15. CASE \E c \in Callers : SwapFn(c)
  <2>1. PICK c \in Callers : SwapFn(c)
    BY <1>15
  <2>2. call' \in [Callers -> Calls]
    BY <2>1 DEF SwapFn
  <2>3. TypeOK'
    BY <2>1, <2>2 DEF SwapFn
  <2>4. ControlInv'
    <3>1. \A t \in Threads \ {c} : pc'[t] = pc[t] /\ notice'[t] = notice[t]
      BY <2>1 DEF SwapFn
    <3>2. \A d \in Callers : call'[d].op = call[d].op
      BY <2>1 DEF SwapFn
    <3>3. pc'[c] \in {"swapStart", "reset", "unlock"}
      BY <2>1 DEF SwapFn
    <3> QED
      BY <2>1, <3>1, <3>2, <3>3 DEF SwapFn
  <2>5. QED
    BY <2>3, <2>4
<1>16. CASE \E c \in Callers : SwapStart(c)
  <2>1. PICK c \in Callers : SwapStart(c)
    BY <1>16
  <2>2. call' \in [Callers -> Calls]
    BY <2>1 DEF SwapStart, NextTry
  <2>3. notice' \in [Threads -> Notices]
    BY <2>1 DEF SwapStart, Notify
  <2>4. TypeOK'
    BY <2>1, <2>2, <2>3 DEF SwapStart, StartProcess, Notify, NextTry
  <2>5. ControlInv'
    <3>1. \A t \in Threads \ {c} : pc'[t] = pc[t] /\ notice'[t] = notice[t]
      BY <2>1 DEF SwapStart, Notify, NextTry
    <3>2. \A d \in Callers : call'[d].op = call[d].op
      BY <2>1 DEF SwapStart, Notify, NextTry
    <3>3. \/ pc'[c] = "send" /\ notice'[c].then = "unlock"
          \/ pc'[c] \in {"swapKeep", "swapStart", "swapUndo", "unlock"}
      BY <2>1 DEF SwapStart, StartProcess, Notify, NextTry
    <3> QED
      BY <2>1, <3>1, <3>2, <3>3 DEF SwapStart
  <2>6. QED
    BY <2>4, <2>5
<1>17. CASE \E c \in Callers : SwapKeep(c)
  <2>1. PICK c \in Callers : SwapKeep(c)
    BY <1>17
  <2>2. notice' \in [Threads -> Notices]
    BY <2>1 DEF SwapKeep, Notify, NextTry, Running
  <2>3. call' \in [Callers -> Calls]
    BY <2>1 DEF SwapKeep, Notify, NextTry, Running
  <2>4. TypeOK'
    <3>1. pc' \in [Threads -> CallerLabels \cup BgLabels \cup NotifyLabels]
      BY <2>1 DEF SwapKeep, Notify, NextTry
    <3> QED
      BY <2>1, <2>2, <2>3, <3>1 DEF SwapKeep
  <2>5. ControlInv'
    <3>1. \A t \in Threads \ {c} : pc'[t] = pc[t] /\ notice'[t] = notice[t]
      BY <2>1 DEF SwapKeep, Notify, NextTry
    <3>2. \A d \in Callers : call'[d].op = call[d].op
      BY <2>1 DEF SwapKeep, NextTry
    <3>3. \/ pc'[c] = "send" /\ notice'[c].then = "unlock"
          \/ pc'[c] \in {"swapStart", "swapUndo"}
      BY <2>1 DEF SwapKeep, Notify, NextTry
    <3> QED
      BY <2>1, <3>1, <3>2, <3>3 DEF SwapKeep
  <2>6. QED
    BY <2>4, <2>5
<1>18. CASE \E c \in Callers : SwapUndo(c)
  BY <1>18 DEF SwapUndo
<1>19. CASE \E c \in Callers : SwapAgain(c)
  <2>1. PICK c \in Callers : SwapAgain(c)
    BY <1>19
  <2>2. notice' \in [Threads -> Notices]
    BY <2>1 DEF SwapAgain, StartProcess, Notify
  <2>3. call' \in [Callers -> Calls]
    BY <2>1 DEF SwapAgain, StartProcess, Notify
  <2>4. TypeOK'
    BY <2>1, <2>2, <2>3 DEF SwapAgain, StartProcess, Notify
  <2>5. ControlInv'
    BY <2>1 DEF SwapAgain, StartProcess, Notify
  <2>6. QED
    BY <2>4, <2>5
<1>20. CASE Load
  BY <1>20 DEF Load
<1>21. CASE RestoreLock
  BY <1>21 DEF RestoreLock, IntentRunning
<1>22. CASE RestoreStart
  BY <1>22 DEF RestoreStart, StartProcess, Notify, NextRestore, CountRestore
<1>23. CASE RestoreVerify
  BY <1>23 DEF RestoreVerify, NextRestore, CountRestore, Running
<1>24. CASE BgUnlock
  BY <1>24 DEF BgUnlock
<1>25. CASE ReadProc
  BY <1>25 DEF ReadProc, Running
<1>26. CASE ReadIntent
  BY <1>26 DEF ReadIntent
<1>27. CASE Observe
  BY <1>27 DEF Observe
<1>28. CASE Compare
  BY <1>28 DEF Compare, Notify
<1>29. CASE Decide
  <2>1. gaveUp' \in BOOLEAN /\ backoff' \in BOOLEAN
    BY <1>29, Zenon DEF Decide, ResetBudget
  <2>2. QED
    BY <1>29, <2>1 DEF Decide, ResetBudget
<1>30. CASE TryLock
  BY <1>30 DEF TryLock, Busy
<1>31. CASE AutoCheck
  <2>1. gaveUp' \in BOOLEAN /\ backoff' \in BOOLEAN
    BY <1>31, Zenon DEF AutoCheck, Crashed, AttemptsLeft, GiveUp
  <2>2. autoRestarts' \in 0..AutoRestartMaxAttempts
    BY <1>31 DEF AutoCheck, Crashed, AttemptsLeft, GiveUp
  <2>3. QED
    BY <1>31, <2>1, <2>2 DEF AutoCheck, Crashed, AttemptsLeft, GiveUp
<1>32. CASE AutoStart
  BY <1>32 DEF AutoStart, StartProcess, Notify
<1>33. CASE Report
  BY <1>33 DEF Report
<1>34. CASE \E t \in Threads : Send(t)
  BY <1>34 DEF Send
<1>35. CASE \E t \in Threads : Record(t)
  <2>1. published' \in Statuses /\ notifyDropped' \in BOOLEAN
    <3>1. notifyDropped' \in BOOLEAN
      BY <1>35, Zenon DEF Record
    <3>2. QED
      BY <1>35, <3>1 DEF Record
  <2>2. PICK t \in Threads : Record(t)
    BY <1>35
  <2>3. notice' \in [Threads -> Notices]
    BY <2>2 DEF Record, NoNotice
  <2>4. pc[t] \in NotifyLabels /\ pc' = [pc EXCEPT ![t] = notice[t].then]
    BY <2>2 DEF Record
  <2>5. notice[t].then \in CallerLabels \cup BgLabels
    BY <2>4
  <2>6. TypeOK'
    BY <2>1, <2>2, <2>3, <2>4, <2>5 DEF Record
  <2>7. ControlInv'
    <3>1. CASE t = bg
      BY <2>2, <2>4, <3>1 DEF Record
    <3>2. CASE t \in Callers
      BY <2>2, <2>4, <3>2 DEF Record
    <3>3. QED
      BY <3>1, <3>2
  <2>8. QED
    BY <2>6, <2>7
<1>36. CASE Die
  BY <1>36 DEF Die
<1>37. CASE EndSession
  BY <1>37 DEF EndSession
<1>38. CASE Receive
  <2>1. pending' \in BOOLEAN
    BY <1>38, Zenon DEF Receive
  <2>2. QED
    BY <1>38, <2>1 DEF Receive
<1>39. CASE BackoffPasses
  <2>1. backoff' \in BOOLEAN
    BY <1>39, Zenon DEF BackoffPasses
  <2>2. QED
    BY <1>39, <2>1 DEF BackoffPasses
<1>40. CASE UpForLong
  BY <1>40 DEF UpForLong
<1>41. CASE Dismiss
  <2>1. popup' \in BOOLEAN
    BY <1>41, Zenon DEF Dismiss
  <2>2. QED
    BY <1>41, <2>1 DEF Dismiss
<1>42. CASE AppRestart
  <2>1. /\ sessionEnding' \in BOOLEAN /\ gaveUp' \in BOOLEAN /\ backoff' \in BOOLEAN
        /\ pending' \in BOOLEAN /\ notifyDropped' \in BOOLEAN /\ popup' \in BOOLEAN
    BY <1>42, Zenon DEF AppRestart, ResetBudget
  <2>2. QED
    BY <1>42, <2>1 DEF AppRestart, NewCall, NoCall, NoNotice, ResetBudget, Running
<1>43. CASE UNCHANGED vars
  BY <1>43
<1>44. QED
  BY <1>1, <1>2, <1>3, <1>4, <1>5, <1>6, <1>7, <1>8, <1>9, <1>10, <1>11, <1>12, <1>13, <1>14,
     <1>15, <1>16, <1>17, <1>18, <1>19, <1>20, <1>21, <1>22, <1>23, <1>24, <1>25, <1>26, <1>27,
     <1>28, <1>29, <1>30, <1>31, <1>32, <1>33, <1>34, <1>35, <1>36, <1>37, <1>38, <1>39, <1>40,
     <1>41, <1>42, <1>43 DEF Next, CallerStep, BgStep

\* lifeMu has one holder: between Lock and Unlock of one goroutine there is no
\* step of another.
LEMMA LockStep == Inv /\ [Next]_vars => LockInv'
<1> SUFFICES ASSUME Inv, [Next]_vars PROVE LockInv'
  OBVIOUS
<1>1. /\ DOMAIN pc = Threads /\ DOMAIN notice = Threads
      /\ lifeMu \in Threads \cup {free}
      /\ resume \in {"restoreLock", "restoreVerify", "readProc", "report"}
      /\ pc \in [Threads -> CallerLabels \cup BgLabels \cup NotifyLabels]
      /\ notice \in [Threads -> Notices]
  BY DEF Inv, TypeOK
<1>2. ControlInv /\ LockInv
  BY DEF Inv
<1> USE <1>1, <1>2, ThreadsAssumption
    DEF ControlInv, LockInv, Holds, Notifying, IsStop, SwapLabels, CallerLabels, BgLabels,
        NotifyLabels, Threads, Goto, vars, machine, budget, channel, bgLocal, history
<1>3. CASE \E c \in Callers : Request(c)
  BY <1>3 DEF Request, NoCall
<1>4. CASE \E c \in Callers : AskStatus(c)
  BY <1>4 DEF AskStatus, NoCall, Running
<1>5. CASE \E c \in Callers : Lock(c)
  BY <1>5 DEF Lock, IsStop
<1>6. CASE \E c \in Callers : Unlock(c)
  BY <1>6 DEF Unlock, NoCall
<1>7. CASE \E c \in Callers : Reset(c)
  BY <1>7 DEF Reset, ResetBudget, Notify, IsStop
<1>8. CASE \E c \in Callers : StartProc(c)
  BY <1>8 DEF StartProc, StartProcess
<1>9. CASE \E c \in Callers : StartSave(c)
  BY <1>9 DEF StartSave
<1>10. CASE \E c \in Callers : StopSave(c)
  BY <1>10 DEF StopSave
<1>11. CASE \E c \in Callers : StopProc(c)
  BY <1>11 DEF StopProc, StopProcess, Notify
<1>12. CASE \E c \in Callers : RestartCheck(c)
  BY <1>12 DEF RestartCheck, Running
<1>13. CASE \E c \in Callers : RestartStop(c)
  BY <1>13 DEF RestartStop, StopProcess
<1>14. CASE \E c \in Callers : RestartStart(c)
  BY <1>14 DEF RestartStart, StartProcess, Notify
<1>15. CASE \E c \in Callers : SwapCheck(c)
  BY <1>15 DEF SwapCheck, Running
<1>16. CASE \E c \in Callers : SwapStop(c)
  BY <1>16 DEF SwapStop, StopProcess, Notify
<1>17. CASE \E c \in Callers : SwapFn(c)
  BY <1>17 DEF SwapFn
<1>18. CASE \E c \in Callers : SwapStart(c)
  BY <1>18 DEF SwapStart, StartProcess, Notify, NextTry, Keeping
<1>19. CASE \E c \in Callers : SwapKeep(c)
  BY <1>19 DEF SwapKeep, Notify, NextTry, Running
<1>20. CASE \E c \in Callers : SwapUndo(c)
  BY <1>20 DEF SwapUndo
<1>21. CASE \E c \in Callers : SwapAgain(c)
  BY <1>21 DEF SwapAgain, StartProcess, Notify
<1>22. CASE Load
  BY <1>22 DEF Load
<1>23. CASE RestoreLock
  BY <1>23 DEF RestoreLock, IntentRunning
<1>24. CASE RestoreStart
  BY <1>24 DEF RestoreStart, StartProcess, Notify, NextRestore, CountRestore
<1>25. CASE RestoreVerify
  BY <1>25 DEF RestoreVerify, NextRestore, CountRestore, Running
<1>26. CASE BgUnlock
  BY <1>26 DEF BgUnlock
<1>27. CASE ReadProc
  BY <1>27 DEF ReadProc, Running
<1>28. CASE ReadIntent
  BY <1>28 DEF ReadIntent
<1>29. CASE Observe
  BY <1>29 DEF Observe
<1>30. CASE Compare
  BY <1>30 DEF Compare, Notify
<1>31. CASE Decide
  BY <1>31 DEF Decide, ResetBudget
<1>32. CASE TryLock
  BY <1>32 DEF TryLock, Busy
<1>33. CASE AutoCheck
  BY <1>33 DEF AutoCheck, Crashed, AttemptsLeft, GiveUp, Running
<1>34. CASE AutoStart
  BY <1>34 DEF AutoStart, StartProcess, Notify
<1>35. CASE Report
  BY <1>35 DEF Report
<1>36. CASE \E t \in Threads : Send(t)
  BY <1>36 DEF Send
<1>37. CASE \E t \in Threads : Record(t)
  BY <1>37 DEF Record, NoNotice
<1>38. CASE Die
  BY <1>38 DEF Die
<1>39. CASE EndSession
  BY <1>39 DEF EndSession
<1>40. CASE Receive
  BY <1>40 DEF Receive
<1>41. CASE BackoffPasses
  BY <1>41 DEF BackoffPasses
<1>42. CASE UpForLong
  BY <1>42 DEF UpForLong
<1>43. CASE Dismiss
  BY <1>43 DEF Dismiss
<1>44. CASE AppRestart
  BY <1>44 DEF AppRestart, NoCall, NoNotice, ResetBudget, Running
<1>45. CASE UNCHANGED vars
  BY <1>45
<1>46. QED
  BY <1>3, <1>4, <1>5, <1>6, <1>7, <1>8, <1>9, <1>10, <1>11, <1>12, <1>13, <1>14, <1>15, <1>16,
     <1>17, <1>18, <1>19, <1>20, <1>21, <1>22, <1>23, <1>24, <1>25, <1>26, <1>27, <1>28, <1>29,
     <1>30, <1>31, <1>32, <1>33, <1>34, <1>35, <1>36, <1>37, <1>38, <1>39, <1>40, <1>41, <1>42,
     <1>43, <1>44, <1>45 DEF Next, CallerStep, BgStep

\* The process stays down from the stop of a swap to the start after it.
LEMMA SwapStep == Inv /\ [Next]_vars => SwapInv'
<1> SUFFICES ASSUME Inv, [Next]_vars PROVE SwapInv'
  OBVIOUS
<1>1. /\ pc \in [Threads -> CallerLabels \cup BgLabels \cup NotifyLabels]
      /\ notice \in [Threads -> Notices]
      /\ call \in [Callers -> Calls]
  BY DEF Inv, TypeOK
<1>2. ControlInv /\ LockInv /\ SwapInv
  BY DEF Inv
<1> USE <1>1, <1>2, ThreadsAssumption
    DEF ControlInv, LockInv, SwapInv, Holds, Notifying, IsStop, SwapLabels, CallerLabels, BgLabels,
        NotifyLabels, Threads, Goto, Running, vars, machine, budget, channel, bgLocal, history
<1>3. CASE \E c \in Callers : Request(c)
  BY <1>3 DEF Request, NoCall
<1>4. CASE \E c \in Callers : AskStatus(c)
  BY <1>4 DEF AskStatus, NoCall, Running
<1>5. CASE \E c \in Callers : Lock(c)
  BY <1>5 DEF Lock, Calls, AllOps
<1>6. CASE \E c \in Callers : Unlock(c)
  BY <1>6 DEF Unlock, NoCall
<1>7. CASE \E c \in Callers : Reset(c)
  BY <1>7 DEF Reset, ResetBudget, Notify, IsStop
<1>8. CASE \E c \in Callers : StartProc(c)
  BY <1>8 DEF StartProc, StartProcess
<1>9. CASE \E c \in Callers : StartSave(c)
  BY <1>9 DEF StartSave
<1>10. CASE \E c \in Callers : StopSave(c)
  BY <1>10 DEF StopSave
<1>11. CASE \E c \in Callers : StopProc(c)
  BY <1>11 DEF StopProc, StopProcess, Notify
<1>12. CASE \E c \in Callers : RestartCheck(c)
  BY <1>12 DEF RestartCheck, Running
<1>13. CASE \E c \in Callers : RestartStop(c)
  BY <1>13 DEF RestartStop, StopProcess
<1>14. CASE \E c \in Callers : RestartStart(c)
  BY <1>14 DEF RestartStart, StartProcess, Notify
<1>15. CASE \E c \in Callers : SwapCheck(c)
  BY <1>15 DEF SwapCheck, Running
<1>16. CASE \E c \in Callers : SwapStop(c)
  BY <1>16 DEF SwapStop, StopProcess, Notify
<1>17. CASE \E c \in Callers : SwapFn(c)
  BY <1>17 DEF SwapFn
<1>18. CASE \E c \in Callers : SwapStart(c)
  BY <1>18 DEF SwapStart, StartProcess, Notify, NextTry, Keeping
<1>19. CASE \E c \in Callers : SwapKeep(c)
  BY <1>19 DEF SwapKeep, Notify, NextTry, Running
<1>20. CASE \E c \in Callers : SwapUndo(c)
  BY <1>20 DEF SwapUndo
<1>21. CASE \E c \in Callers : SwapAgain(c)
  BY <1>21 DEF SwapAgain, StartProcess, Notify
<1>22. CASE Load
  BY <1>22 DEF Load
<1>23. CASE RestoreLock
  BY <1>23 DEF RestoreLock, IntentRunning
<1>24. CASE RestoreStart
  BY <1>24 DEF RestoreStart, StartProcess, Notify, NextRestore, CountRestore
<1>25. CASE RestoreVerify
  BY <1>25 DEF RestoreVerify, NextRestore, CountRestore, Running
<1>26. CASE BgUnlock
  BY <1>26 DEF BgUnlock
<1>27. CASE ReadProc
  BY <1>27 DEF ReadProc, Running
<1>28. CASE ReadIntent
  BY <1>28 DEF ReadIntent
<1>29. CASE Observe
  BY <1>29 DEF Observe
<1>30. CASE Compare
  BY <1>30 DEF Compare, Notify
<1>31. CASE Decide
  BY <1>31 DEF Decide, ResetBudget
<1>32. CASE TryLock
  BY <1>32 DEF TryLock, Busy
<1>33. CASE AutoCheck
  BY <1>33 DEF AutoCheck, Crashed, AttemptsLeft, GiveUp, Running
<1>34. CASE AutoStart
  BY <1>34 DEF AutoStart, StartProcess, Notify
<1>35. CASE Report
  BY <1>35 DEF Report
<1>36. CASE \E t \in Threads : Send(t)
  BY <1>36 DEF Send
<1>37. CASE \E t \in Threads : Record(t)
  BY <1>37 DEF Record, NoNotice
<1>38. CASE Die
  BY <1>38 DEF Die
<1>39. CASE EndSession
  BY <1>39 DEF EndSession
<1>40. CASE Receive
  BY <1>40 DEF Receive
<1>41. CASE BackoffPasses
  BY <1>41 DEF BackoffPasses
<1>42. CASE UpForLong
  BY <1>42 DEF UpForLong
<1>43. CASE Dismiss
  BY <1>43 DEF Dismiss
<1>44. CASE AppRestart
  BY <1>44 DEF AppRestart, NoCall, NoNotice, ResetBudget, Running
<1>45. CASE UNCHANGED vars
  BY <1>45
<1>46. QED
  BY <1>3, <1>4, <1>5, <1>6, <1>7, <1>8, <1>9, <1>10, <1>11, <1>12, <1>13, <1>14, <1>15, <1>16,
     <1>17, <1>18, <1>19, <1>20, <1>21, <1>22, <1>23, <1>24, <1>25, <1>26, <1>27, <1>28, <1>29,
     <1>30, <1>31, <1>32, <1>33, <1>34, <1>35, <1>36, <1>37, <1>38, <1>39, <1>40, <1>41, <1>42,
     <1>43, <1>44, <1>45 DEF Next, CallerStep, BgStep

\* What a returned Stop leaves behind, when the registry takes its word.
LEMMA OffStep == ~SaveFails /\ Inv /\ OffInv /\ [Next]_vars => OffInv'
<1> SUFFICES ASSUME ~SaveFails, Inv, OffInv, [Next]_vars PROVE OffInv'
  OBVIOUS
<1>1. /\ pc \in [Threads -> CallerLabels \cup BgLabels \cup NotifyLabels]
      /\ notice \in [Threads -> Notices]
      /\ call \in [Callers -> Calls]
      /\ resume \in {"restoreLock", "restoreVerify", "readProc", "report"}
  BY DEF Inv, TypeOK
<1>2. ControlInv /\ LockInv /\ SwapInv
  BY DEF Inv
<1> USE <1>1, <1>2, ThreadsAssumption, FailuresAssumption
    DEF ControlInv, LockInv, SwapInv, OffInv, IntentInv, DownInv, StopRecorded, Revives, Holds,
        Notifying, IsStop, SwapLabels, CallerLabels, BgLabels, NotifyLabels, Threads, Goto, Running,
        Calls, vars, machine, budget, channel, bgLocal, history
<1>3. CASE \E c \in Callers : Request(c)
  BY <1>3 DEF Request, NoCall
<1>4. CASE \E c \in Callers : AskStatus(c)
  <2>1. PICK c \in Callers : AskStatus(c)
    BY <1>4
  <2>2. IntentInv'
    <3>1. UNCHANGED <<intent, userOff>> /\ pc'[bg] = pc[bg]
      BY <2>1 DEF AskStatus
    <3>2. pc'[c] \in {"idle", "lock"} /\ \A d \in Callers \ {c} : pc'[d] = pc[d] /\ call'[d] = call[d]
      BY <2>1 DEF AskStatus
    <3> QED
      BY <3>1, <3>2
  <2>3. ~StopFails => DownInv'
    <3>1. UNCHANGED <<proc, notice, userOff>>
      BY <2>1 DEF AskStatus
    <3>2. pc'[c] \in {"idle", "lock"} /\ \A d \in Callers \ {c} : pc'[d] = pc[d] /\ call'[d] = call[d]
      BY <2>1 DEF AskStatus
    <3>3. \A d \in Callers : Revives(d)' => Revives(d)
      BY <3>1, <3>2
    <3>4. \A d \in Callers : (IsStop(d) /\ (pc[d] = "unlock" \/ Notifying(d)))'
                              => IsStop(d) /\ (pc[d] = "unlock" \/ Notifying(d))
      BY <3>1, <3>2
    <3> QED
      BY <3>1, <3>3, <3>4
  <2>4. QED
    BY <2>2, <2>3
<1>5. CASE \E c \in Callers : Lock(c)
  <2>1. PICK c \in Callers : Lock(c)
    BY <1>5
  <2>2. IntentInv'
    BY <2>1 DEF Lock, IsStop, AllOps
  <2>3. ~StopFails => DownInv'
    BY <2>1, SMTT(60) DEF Lock, IsStop, AllOps
  <2>4. QED
    BY <2>2, <2>3
<1>6. CASE \E c \in Callers : Unlock(c)
  <2>1. PICK c \in Callers : Unlock(c)
    BY <1>6
  <2>2. \A d \in Callers : pc'[d] \in {"idle", "askStatus", "lock"}
    BY <2>1 DEF Unlock
  <2>3. userOff' => userOff \/ IsStop(c)
    BY <2>1 DEF Unlock
  <2>4. UNCHANGED <<proc, intent>> /\ pc'[bg] = pc[bg] /\ pc[c] = "unlock"
    BY <2>1 DEF Unlock
  <2>5. IntentInv'
    BY <2>2, <2>3, <2>4
  <2>6. ~StopFails => DownInv'
    BY <2>2, <2>3, <2>4
  <2>7. QED
    BY <2>5, <2>6
<1>7. CASE \E c \in Callers : Reset(c)
  BY <1>7 DEF Reset, ResetBudget, Notify, IsStop
<1>8. CASE \E c \in Callers : StartProc(c)
  BY <1>8 DEF StartProc, StartProcess
<1>9. CASE \E c \in Callers : StartSave(c)
  BY <1>9 DEF StartSave
<1>10. CASE \E c \in Callers : StopSave(c)
  <2>1. PICK c \in Callers : StopSave(c)
    BY <1>10
  <2>2. IntentInv'
    <3>1. (intent' => intent) /\ UNCHANGED <<call, notice, userOff>>
      BY <2>1 DEF StopSave
    <3>2. ~intent'
      BY <2>1 DEF StopSave
    <3>3. pc'[c] = "reset" /\ \A t \in Threads \ {c} : pc'[t] = pc[t]
      BY <2>1 DEF StopSave
    <3>4. pc[bg] \notin {"restoreStart", "autoStart"}
      BY <2>1 DEF StopSave
    <3> QED
      BY <2>1, <3>1, <3>2, <3>3, <3>4
  <2>3. ~StopFails => DownInv'
    <3>1. UNCHANGED <<proc, call, notice, userOff>>
      BY <2>1 DEF StopSave
    <3>2. pc'[c] = "reset" /\ \A d \in Callers \ {c} : pc'[d] = pc[d]
      BY <2>1 DEF StopSave
    <3>3. \A d \in Callers : Revives(d)' => Revives(d)
      BY <3>1, <3>2
    <3> QED
      BY <3>1, <3>2, <3>3
  <2>4. QED
    BY <2>2, <2>3
<1>11. CASE \E c \in Callers : StopProc(c)
  BY <1>11 DEF StopProc, StopProcess, Notify
<1>12. CASE \E c \in Callers : RestartCheck(c)
  BY <1>12 DEF RestartCheck, Running
<1>13. CASE \E c \in Callers : RestartStop(c)
  BY <1>13 DEF RestartStop, StopProcess
<1>14. CASE \E c \in Callers : RestartStart(c)
  BY <1>14 DEF RestartStart, StartProcess, Notify
<1>15. CASE \E c \in Callers : SwapCheck(c)
  BY <1>15 DEF SwapCheck, Running
<1>16. CASE \E c \in Callers : SwapStop(c)
  BY <1>16 DEF SwapStop, StopProcess, Notify
<1>17. CASE \E c \in Callers : SwapFn(c)
  BY <1>17 DEF SwapFn
<1>18. CASE \E c \in Callers : SwapStart(c)
  BY <1>18 DEF SwapStart, StartProcess, Notify, NextTry, Keeping
<1>19. CASE \E c \in Callers : SwapKeep(c)
  BY <1>19 DEF SwapKeep, Notify, NextTry, Running
<1>20. CASE \E c \in Callers : SwapUndo(c)
  BY <1>20 DEF SwapUndo
<1>21. CASE \E c \in Callers : SwapAgain(c)
  BY <1>21 DEF SwapAgain, StartProcess, Notify
<1>22. CASE Load
  BY <1>22 DEF Load
<1>23. CASE RestoreLock
  BY <1>23 DEF RestoreLock, IntentRunning
<1>24. CASE RestoreStart
  BY <1>24 DEF RestoreStart, StartProcess, Notify, NextRestore, CountRestore
<1>25. CASE RestoreVerify
  BY <1>25 DEF RestoreVerify, NextRestore, CountRestore, Running
<1>26. CASE BgUnlock
  BY <1>26 DEF BgUnlock
<1>27. CASE ReadProc
  BY <1>27 DEF ReadProc, Running
<1>28. CASE ReadIntent
  BY <1>28 DEF ReadIntent
<1>29. CASE Observe
  BY <1>29 DEF Observe
<1>30. CASE Compare
  BY <1>30 DEF Compare, Notify
<1>31. CASE Decide
  BY <1>31 DEF Decide, ResetBudget
<1>32. CASE TryLock
  BY <1>32 DEF TryLock, Busy
<1>33. CASE AutoCheck
  BY <1>33 DEF AutoCheck, Crashed, AttemptsLeft, GiveUp, Running
<1>34. CASE AutoStart
  BY <1>34 DEF AutoStart, StartProcess, Notify
<1>35. CASE Report
  BY <1>35 DEF Report
<1>36. CASE \E t \in Threads : Send(t)
  BY <1>36 DEF Send
<1>37. CASE \E t \in Threads : Record(t)
  BY <1>37 DEF Record, NoNotice
<1>38. CASE Die
  BY <1>38 DEF Die
<1>39. CASE EndSession
  BY <1>39 DEF EndSession
<1>40. CASE Receive
  BY <1>40 DEF Receive
<1>41. CASE BackoffPasses
  BY <1>41 DEF BackoffPasses
<1>42. CASE UpForLong
  BY <1>42 DEF UpForLong
<1>43. CASE Dismiss
  BY <1>43 DEF Dismiss
<1>44. CASE AppRestart
  BY <1>44 DEF AppRestart, NoCall, NoNotice, ResetBudget, Running
<1>45. CASE UNCHANGED vars
  BY <1>45
<1>46. QED
  BY <1>3, <1>4, <1>5, <1>6, <1>7, <1>8, <1>9, <1>10, <1>11, <1>12, <1>13, <1>14, <1>15, <1>16,
     <1>17, <1>18, <1>19, <1>20, <1>21, <1>22, <1>23, <1>24, <1>25, <1>26, <1>27, <1>28, <1>29,
     <1>30, <1>31, <1>32, <1>33, <1>34, <1>35, <1>36, <1>37, <1>38, <1>39, <1>40, <1>41, <1>42,
     <1>43, <1>44, <1>45 DEF Next, CallerStep, BgStep

\* The strengthened invariant holds in every reachable state.
THEOREM Invariance == Spec => []Inv
<1>1. Init => Inv
  BY InitInv
<1>2. Inv /\ [Next]_vars => Inv'
  <2>1. Inv /\ [Next]_vars => TypeOK' /\ ControlInv'
    BY TypeStep DEF Inv
  <2>2. QED
    BY <2>1, LockStep, SwapStep DEF Inv
<1>3. QED
  BY <1>1, <1>2, PTL DEF Spec

\* Every variable has its type, whatever the callers do.
THEOREM TypeCorrect == Spec => []TypeOK
BY Invariance, PTL DEF Inv

\* fn and undo of WithStoppedOrUndo never run beside a live sing-box, for any
\* number of callers, with failing starts, stops and saves, and across
\* restarts of the application.
THEOREM SwapSafe == Spec => []DownWhileSwapped
<1>1. Inv => DownWhileSwapped
  BY DEF Inv, SwapInv, DownWhileSwapped
<1>2. QED
  BY <1>1, Invariance, PTL

\* Which step can bring the process up, and under whose lock.
LEMMA WhoStarts ==
    ASSUME Inv, [Next]_vars, ~Running, Running'
    PROVE  \/ pc[bg] \in {"restoreStart", "autoStart"}
           \/ \E c \in Callers : lifeMu = c /\ (call[c].op = "start" \/ Revives(c))
<1>1. ControlInv /\ LockInv
  BY DEF Inv
<1>2. CASE \E c \in Callers : StartProc(c) \/ RestartStart(c) \/ SwapStart(c) \/ SwapAgain(c)
  <2>1. PICK c \in Callers : StartProc(c) \/ RestartStart(c) \/ SwapStart(c) \/ SwapAgain(c)
    BY <1>2
  <2>2. pc[c] \in {"startProc", "restartStart", "swapStart", "swapAgain"}
    BY <2>1 DEF StartProc, RestartStart, SwapStart, SwapAgain
  <2>3. lifeMu = c
    BY <1>1, <2>2, ThreadsAssumption DEF LockInv, Holds, Threads
  <2>4. call[c].op = "start" \/ Revives(c)
    BY <1>1, <2>2 DEF ControlInv, Revives
  <2>5. QED
    BY <2>3, <2>4
<1>3. CASE RestoreStart \/ AutoStart
  BY <1>3 DEF RestoreStart, AutoStart
<1>4. CASE \E c \in Callers : StopProc(c) \/ RestartStop(c) \/ SwapStop(c)
  BY <1>4 DEF StopProc, RestartStop, SwapStop, StopProcess, Running
<1>5. CASE Die \/ AppRestart
  BY <1>5 DEF Die, AppRestart, Running
<1>6. CASE UNCHANGED proc
  BY <1>6 DEF Running
<1>7. QED
  BY <1>2, <1>3, <1>4, <1>5, <1>6
     DEF Next, CallerStep, BgStep, vars, machine, Request, AskStatus, Lock, Unlock, Reset,
         StartSave, StopSave, RestartCheck, SwapCheck, SwapFn, SwapKeep, SwapUndo, Load,
         RestoreLock, RestoreVerify, BgUnlock, ReadProc, ReadIntent, Observe, Compare, Decide,
         TryLock, AutoCheck, Report, Send, Record, EndSession, Receive, BackoffPasses,
         UpForLong, Dismiss

\* The user's Stop wins over the restore and the monitor whenever the registry
\* takes the recorded intent.
THEOREM StopIsFinal == ASSUME ~SaveFails PROVE Spec => StopWins
<1>1. Init => Inv /\ OffInv
  BY InitInv
<1>2. Inv /\ OffInv /\ [Next]_vars => OffInv'
  BY OffStep
<1>3. Inv /\ OffInv /\ [Next]_vars => [UserAskedAgain]_vars
  <2>1. SUFFICES ASSUME Inv, OffInv, [Next]_vars, ~Running, Running', userOff
                 PROVE  /\ lifeMu \in Callers
                        /\ \/ call[lifeMu].op = "start"
                           \/ StopFails /\ call[lifeMu].op \in {"restart", "swap"}
    BY DEF UserAskedAgain
  <2>2. pc[bg] \notin {"restoreStart", "autoStart"}
    BY <2>1 DEF OffInv, IntentInv
  <2>3. PICK c \in Callers : lifeMu = c /\ (call[c].op = "start" \/ Revives(c))
    BY <2>1, <2>2, WhoStarts
  <2>4. Revives(c) => StopFails /\ call[c].op \in {"restart", "swap"}
    BY <2>1 DEF OffInv, DownInv, Inv, ControlInv, Revives, SwapLabels
  <2>5. QED
    BY <2>3, <2>4
<1>4. QED
  BY <1>1, <1>2, <1>3, Invariance, PTL DEF Spec, StopWins
=============================================================================
