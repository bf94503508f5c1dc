------------------------ MODULE LatencyService_proofs ------------------------
(* Proofs about LatencyService: its type invariant, its three action           *)
(* properties, and that ChooseFastest finds a server that answered first. Then *)
(* about ProbePlan, for any config, rules and broken outbounds: the test       *)
(* instance starts, what is healthy is measured, and as the VPN dials it.      *)
EXTENDS LatencyService, ProbePlan, ListsAndGraphs_proofs

-----------------------------------------------------------------------------
(* The inductive invariant *)

\* The flight lock is held by the one check under way, and from its second step
\* on that check is the one Cancel ends
OneFlight ==
    \A c \in Callers :
        /\ run[c].at # "idle" <=> flight = c
        /\ run[c].at \notin {"idle", "flying"} => cancel = c

\* Who decides or switches holds opMu, and no other operation does
OpMu ==
    /\ other <=> opLock = "other"
    /\ \A c \in Callers : run[c].at \in {"locked", "switching"} => opLock = c

\* A caller decides on the report that is kept, which no failed switch has spoilt;
\* a switch that comes too late spoils it
Fresh ==
    /\ \A c \in Callers : run[c].at \in {"deciding", "locked", "switching"} =>
                              ~stale /\ run[c].report = last
    /\ gone # 0 => stale
    /\ gone \in {0, 1}

\* Between the decision and the switch the routing stays the one that was seen
Chosen ==
    /\ routing.kind # "node" => routing.tag = NoTag
    /\ \A c \in Callers : run[c].at = "switching" =>
          /\ Switches(run[c].report, routing, run[c].asks = "confirm")
          /\ run[c].target = Best(run[c].report)

\* A check that was under way at the quit has lost its context
Called == \A c \in underway : run[c].over /\ run[c].at # "idle"
\* The history variable is the age the code keeps
Rested == rested = ended

Held == OneFlight /\ OpMu /\ Called /\ Rested
Rest == Held /\ Fresh /\ Chosen
Inv == TypeOK /\ Rest

-----------------------------------------------------------------------------
(* The decision *)

\* The assumption on the delays without its operator, which SMT cannot take
LEMMA Numbers ==
    /\ Delays \cup {NoAnswer} \subseteq Nat
    /\ Tags \subseteq Nat /\ NoTag \notin Tags /\ Eligible \subseteq Tags
  BY DelayAssumption DEF NoTag, NoAnswer

\* What a check reports is a report, the one on no server at all included
LEMMA ReportParts ==
    /\ Missing \in Reports
    /\ <<>> \in Reports
    /\ \A s \in SUBSET Tags : [s -> Delays \cup {NoAnswer}] \subseteq Reports
<1>1. Missing \in Reports
  BY DEF Reports
<1>2. \A s \in SUBSET Tags : [s -> Delays \cup {NoAnswer}] \subseteq Reports
  BY DEF Reports
<1>3. <<>> \in Reports
  <2>1. <<>> \in [{} -> Delays \cup {NoAnswer}]
    OBVIOUS
  <2> QED  BY <1>2, <2>1
<1> QED  BY <1>1, <1>2, <1>3

\* Reports answer for servers, with a delay or with none
LEMMA Answers ==
    /\ \A r \in Reports : \A t \in DOMAIN r : r[t] \in Delays \cup {NoAnswer}
    /\ \A r \in Reports : DOMAIN r \ {NoTag} \subseteq Tags
<1>1. \A r \in Reports : \A t \in DOMAIN r : r[t] \in Delays \cup {NoAnswer}
  <2> SUFFICES ASSUME NEW r \in Reports, NEW t \in DOMAIN r
               PROVE  r[t] \in Delays \cup {NoAnswer}
    OBVIOUS
  <2>1. CASE r = Missing
    BY <2>1 DEF Missing
  <2>2. ASSUME NEW s \in SUBSET Tags, r \in [s -> Delays \cup {NoAnswer}]
        PROVE  r[t] \in Delays \cup {NoAnswer}
    BY <2>2
  <2> QED  BY <2>1, <2>2 DEF Reports
<1>2. \A r \in Reports : DOMAIN r \ {NoTag} \subseteq Tags
  BY DEF Reports, Missing
<1> QED  BY <1>1, <1>2

\* ChooseFastest has a best candidate whenever there is a candidate: a fastest
\* one, the first in the config among equals
LEMMA BestIsLeast ==
    ASSUME NEW r \in Reports, Candidates(r) # {}
    PROVE  Best(r) \in Candidates(r) /\ \A u \in Candidates(r) : r[Best(r)] <= r[u]
<1> DEFINE C == Candidates(r)
           Values == {r[t] : t \in C}
           Beats(t) == \A u \in C \ {t} : r[t] < r[u] \/ (r[t] = r[u] /\ t < u)
<1>1. C \subseteq Nat /\ \A t \in C : r[t] \in Nat
  BY Answers, Numbers DEF Candidates, Answered
<1>2. Values \subseteq Nat /\ Values # {}
  BY <1>1
<1> HIDE DEF C
<1>3. PICK v \in Values : \A w \in Values : v <= w
  BY <1>2, Least
<1> DEFINE Fastest == {t \in C : r[t] = v}
<1>4. Fastest \subseteq Nat /\ Fastest # {}
  BY <1>1, <1>3
<1>5. PICK t \in Fastest : \A u \in Fastest : t <= u
  BY <1>4, Least
<1>6. Beats(t)
  BY <1>1, <1>3, <1>5
<1>7. Best(r) \in C /\ Beats(Best(r))
  BY <1>5, <1>6 DEF Best, C
<1> QED
  BY <1>1, <1>7 DEF C

-----------------------------------------------------------------------------
(* Types *)

\* A caller stays typed when its page goes and when it is given a report
LEMMA RunParts ==
    ASSUME NEW x \in Runs
    PROVE  /\ [x EXCEPT !.over = TRUE] \in Runs
           /\ \A at \in {"leaving", "deciding"}, r \in Reports :
                 [x EXCEPT !.at = at, !.report = r] \in Runs
  BY DEF Runs

USE ReportParts, Numbers, TimeAssumption, CallerAssumption, RoutingAssumption
    DEF Idle, NoTag, NoAnswer, Callers, Routing, Lesser

\* TypeOK in three parts: SMT takes no Boolean from a variable, and the local
\* states of the callers are a proof of their own
Flags == other \in BOOLEAN /\ lastEnded \in BOOLEAN /\ stale \in BOOLEAN
RunsTyped == run \in [Callers -> Runs]
Values ==
    /\ servers \in SUBSET Tags /\ routing \in Routing
    /\ opLock \in Callers \cup {Nobody, "other", "quit"}
    /\ flight \in Callers \cup {Nobody} /\ cancel \in {Nobody, flight}
    /\ last \in Reports
    /\ ended \in 0..Interval /\ rested \in 0..Interval /\ tested \in 0..(Reuse + 1)
    /\ quit \in {"no", "asked", "held"}
    /\ gone \in 0..2 /\ underway \in SUBSET Callers

\* They are TypeOK
LEMMA TypeParts == TypeOK <=> Flags /\ RunsTyped /\ Values
  BY Zenon DEF TypeOK, Flags, Values, RunsTyped

\* The invariant holds at first
LEMMA InitInv == Init => Inv
<1> SUFFICES ASSUME Init PROVE Inv
  OBVIOUS
<1>1. Flags
  BY Zenon DEF Init, Flags
<1>3. RunsTyped /\ Values
  BY DEF Init, Values, RunsTyped, Runs
<1>2. Rest
  BY DEF Init, Rest, Held, OneFlight, OpMu, Fresh, Chosen, Called, Rested
<1> QED  BY <1>1, <1>2, <1>3, TypeParts DEF Inv

\* Every step keeps the Booleans
LEMMA StepFlags == TypeOK /\ [Next]_vars => Flags'
<1> SUFFICES ASSUME TypeOK /\ [Next]_vars PROVE Flags'
  OBVIOUS
<1> USE DEF config, report_, locks, history, Goes, Keep, Reported, Measures, InstanceEnds,
   Flags, TypeOK
<1>1. CASE UNCHANGED vars
  BY Zenon, <1>1 DEF vars
<1>2. ASSUME NEW c \in Callers, CheckStep(c) PROVE Flags'
  <2>1. ASSUME NEW asks \in {"test", "fastest", "confirm"}, Ask(c, asks) PROVE Flags'
    BY Zenon, <2>1 DEF Ask
  <2>2. CASE Cancellable(c)
    BY Zenon, <2>2 DEF Cancellable, Registered
  <2>3. CASE UseRecent(c)
    BY Zenon, <2>3 DEF UseRecent
  <2>4. CASE CheckRefused(c)
    BY Zenon, <2>4 DEF CheckRefused
  <2>5. CASE NothingToMeasure(c)
    BY Zenon, <2>5 DEF NothingToMeasure
  <2>6. CASE StartInstance(c)
    BY Zenon, <2>6 DEF StartInstance
  <2>7. CASE CheckFails(c)
    BY Zenon, <2>7 DEF CheckFails, EndedAt
  <2>8. CASE Measured(c)
    BY Zenon, <2>8 DEF Measured, EndedAt
  <2>9. CASE LockForSwitch(c)
    BY Zenon, <2>9 DEF LockForSwitch, OpFree
  <2>10. CASE NoSwitch(c)
    BY Zenon, <2>10 DEF NoSwitch
  <2>11. CASE Decide(c)
    BY Zenon, <2>11 DEF Decide, Chosen, Switches
  <2>12. CASE Use(c)
    BY Zenon, <2>12 DEF Use, Node
  <2>13. CASE TargetGone(c)
    BY Zenon, <2>13 DEF TargetGone, Spoilt
  <2>14. CASE Leave(c)
    BY Zenon, <2>14 DEF Leave, Uncancelled
  <2> QED
    BY ZenonT(40), <1>2, <2>1, <2>2, <2>3, <2>4, <2>5, <2>6, <2>7, <2>8, <2>9, <2>10, <2>11, <2>12,
       <2>13, <2>14 DEF CheckStep
<1>3. ASSUME NEW c \in Callers, PageGoes(c) PROVE Flags'
  BY Zenon, <1>3 DEF PageGoes
<1>4. CASE OtherBegins
  BY Zenon, <1>4 DEF OtherBegins
<1>5. CASE RequestQuit
  BY Zenon, <1>5 DEF RequestQuit
<1>6. CASE QuitLocks
  BY Zenon, <1>6 DEF QuitLocks
<1>7. CASE Tick
  BY Zenon, <1>7 DEF Tick
<1>8. ASSUME NEW s \in SUBSET Tags, NEW rt \in Routings, OtherEnds(s, rt) PROVE Flags'
  BY Zenon, <1>8 DEF OtherEnds
<1> QED
  BY Zenon, <1>1, <1>2, <1>3, <1>4, <1>5, <1>6, <1>7, <1>8 DEF Next, vars

\* Every step keeps the callers' local states typed
LEMMA StepRuns == TypeOK /\ [Next]_vars => RunsTyped'
<1> SUFFICES ASSUME TypeOK /\ [Next]_vars PROVE RunsTyped'
  OBVIOUS
<1> USE DEF config, report_, locks, history, Goes, Keep, Reported, Measures, InstanceEnds,
   RunsTyped, TypeOK
<1>1. CASE UNCHANGED vars
  BY <1>1 DEF vars
<1>2. ASSUME NEW c \in Callers, CheckStep(c) PROVE RunsTyped'
  <2>1. ASSUME NEW asks \in {"test", "fastest", "confirm"}, Ask(c, asks) PROVE RunsTyped'
    BY <2>1 DEF Ask, Runs
  <2>2. CASE Cancellable(c)
    BY <2>2 DEF Runs, Cancellable, Registered
  <2>3. CASE UseRecent(c)
    <3>1. run' = [run EXCEPT ![c] = [run[c] EXCEPT !.at = "deciding", !.report = last]]
      BY <2>3 DEF UseRecent
    <3> QED  BY <3>1, RunParts
  <2>4. CASE CheckRefused(c)
    <3>1. Goes(c, "leaving")
      BY Zenon, <2>4 DEF CheckRefused
    <3> QED  BY <3>1 DEF Runs
  <2>5. CASE NothingToMeasure(c)
    BY <2>5 DEF Runs, NothingToMeasure
  <2>6. CASE StartInstance(c)
    BY <2>6 DEF Runs, StartInstance
  <2>7. CASE CheckFails(c)
    BY <2>7 DEF Runs, CheckFails, EndedAt
  <2>8. CASE Measured(c)
    <3>1. PICK r \in [run[c].plan -> Delays \cup {NoAnswer}] : Reported(c, r)
      BY Zenon, <2>8 DEF Measured
    <3>2. r \in Reports
      BY DEF Runs
    <3>3. CASE run[c].asks = "test"
      <4>1. run' = [run EXCEPT ![c] = [run[c] EXCEPT !.at = "leaving", !.report = r]]
        BY <3>1, <3>3
      <4> QED  BY <3>2, <4>1, RunParts
    <3>4. CASE run[c].asks # "test"
      <4>1. run' = [run EXCEPT ![c] = [run[c] EXCEPT !.at = "deciding", !.report = r]]
        BY <3>1, <3>4
      <4> QED  BY <3>2, <4>1, RunParts
    <3> QED  BY <3>3, <3>4
  <2>9. CASE LockForSwitch(c)
    BY <2>9 DEF Runs, LockForSwitch, OpFree
  <2>10. CASE NoSwitch(c)
    <3>1. Goes(c, "leaving")
      BY Zenon, <2>10 DEF NoSwitch
    <3> QED  BY <3>1 DEF Runs
  <2>11. CASE Decide(c)
    BY <2>11 DEF Runs, Decide, Chosen, Switches
  <2>12. CASE Use(c)
    BY <2>12 DEF Runs, Use, Node
  <2>13. CASE TargetGone(c)
    BY <2>13 DEF Runs, TargetGone, Spoilt
  <2>14. CASE Leave(c)
    BY <2>14 DEF Runs, Leave, Uncancelled
  <2> QED
    BY ZenonT(40), <1>2, <2>1, <2>2, <2>3, <2>4, <2>5, <2>6, <2>7, <2>8, <2>9, <2>10, <2>11, <2>12,
       <2>13, <2>14 DEF CheckStep
<1>3. ASSUME NEW c \in Callers, PageGoes(c) PROVE RunsTyped'
  <2>1. run' = [run EXCEPT ![c] = [run[c] EXCEPT !.over = TRUE]]
    BY <1>3 DEF PageGoes
  <2> QED  BY <2>1, RunParts
<1>4. CASE OtherBegins
  BY <1>4 DEF OtherBegins
<1>5. CASE RequestQuit
  BY <1>5, RunParts DEF RequestQuit
<1>6. CASE QuitLocks
  BY <1>6 DEF QuitLocks
<1>7. CASE Tick
  BY <1>7 DEF Tick
<1>8. ASSUME NEW s \in SUBSET Tags, NEW rt \in Routings, OtherEnds(s, rt) PROVE RunsTyped'
  BY <1>8 DEF OtherEnds
<1> QED
  BY Zenon, <1>1, <1>2, <1>3, <1>4, <1>5, <1>6, <1>7, <1>8 DEF Next, vars

\* Every step keeps the other types; that Cancel ends the check under way or
\* none needs OneFlight
LEMMA StepValues == TypeOK /\ OneFlight /\ [Next]_vars => Values'
<1> SUFFICES ASSUME TypeOK /\ OneFlight /\ [Next]_vars PROVE Values'
  OBVIOUS
<1> USE DEF config, report_, locks, history, Goes, Keep, Reported, Measures, InstanceEnds,
   Values, TypeOK, OneFlight
<1>1. CASE UNCHANGED vars
  BY <1>1 DEF vars
<1>2. ASSUME NEW c \in Callers, CheckStep(c) PROVE Values'
  <2>1. ASSUME NEW asks \in {"test", "fastest", "confirm"}, Ask(c, asks) PROVE Values'
    BY <2>1 DEF Ask
  <2>2. CASE Cancellable(c)
    BY <2>2 DEF Cancellable, Registered
  <2>3. CASE UseRecent(c)
    BY <2>3 DEF UseRecent
  <2>4. CASE CheckRefused(c)
    BY <2>4 DEF CheckRefused
  <2>5. CASE NothingToMeasure(c)
    BY <2>5 DEF NothingToMeasure
  <2>6. CASE StartInstance(c)
    BY <2>6 DEF StartInstance
  <2>7. CASE CheckFails(c)
    BY <2>7 DEF CheckFails, EndedAt
  <2>8. CASE Measured(c)
    <3>1. PICK r \in [run[c].plan -> Delays \cup {NoAnswer}] : Keep(r, TRUE) /\ Reported(c, r)
      BY Zenon, <2>8 DEF Measured
    <3>2. r \in Reports
      BY DEF Runs
    <3> QED  BY <2>8, <3>1, <3>2 DEF Measured, EndedAt
  <2>9. CASE LockForSwitch(c)
    BY <2>9 DEF LockForSwitch, OpFree
  <2>10. CASE NoSwitch(c)
    BY <2>10 DEF NoSwitch
  <2>11. CASE Decide(c)
    BY <2>11 DEF Decide, Chosen, Switches
  <2>12. CASE Use(c)
    <3>1. routing' \in Routing
      <4>1. run[c].target \in Tags
        BY <2>12 DEF Use
      <4> QED  BY <2>12, <4>1 DEF Use, Node, Kinds
    <3> QED  BY <2>12, <3>1 DEF Use
  <2>13. CASE TargetGone(c)
    BY <2>13 DEF TargetGone, Spoilt
  <2>14. CASE Leave(c)
    BY <2>14 DEF Leave, Uncancelled
  <2> QED
    BY ZenonT(40), <1>2, <2>1, <2>2, <2>3, <2>4, <2>5, <2>6, <2>7, <2>8, <2>9, <2>10, <2>11, <2>12,
       <2>13, <2>14 DEF CheckStep
<1>3. ASSUME NEW c \in Callers, PageGoes(c) PROVE Values'
  BY <1>3 DEF PageGoes
<1>4. CASE OtherBegins
  BY <1>4 DEF OtherBegins
<1>5. CASE RequestQuit
  BY <1>5 DEF RequestQuit
<1>6. CASE QuitLocks
  BY <1>6 DEF QuitLocks
<1>7. CASE Tick
  BY <1>7 DEF Tick
<1>8. ASSUME NEW s \in SUBSET Tags, NEW rt \in Routings, OtherEnds(s, rt) PROVE Values'
  BY <1>8 DEF OtherEnds
<1> QED
  BY Zenon, <1>1, <1>2, <1>3, <1>4, <1>5, <1>6, <1>7, <1>8 DEF Next, vars

-----------------------------------------------------------------------------
(* The rest of the invariant *)

\* Every step keeps the locks, the contexts and the ages
LEMMA StepHeld == TypeOK /\ Rest /\ [Next]_vars => Held'
<1> SUFFICES ASSUME TypeOK /\ Rest /\ [Next]_vars PROVE Held'
  OBVIOUS
<1> USE DEF config, report_, locks, history, Goes, Keep, Reported, Measures, InstanceEnds,
   TypeOK, Rest, Held, OneFlight, OpMu, Called, Rested, Runs
<1>1. CASE UNCHANGED vars
  BY <1>1 DEF vars
<1>2. ASSUME NEW c \in Callers, CheckStep(c) PROVE Held'
  <2>1. ASSUME NEW asks \in {"test", "fastest", "confirm"}, Ask(c, asks) PROVE Held'
    BY <2>1 DEF Ask
  <2>2. CASE Cancellable(c)
    BY <2>2 DEF Cancellable, Registered
  <2>3. CASE UseRecent(c)
    BY <2>3 DEF UseRecent
  <2>4. CASE CheckRefused(c)
    BY <2>4 DEF CheckRefused
  <2>5. CASE NothingToMeasure(c)
    BY <2>5 DEF NothingToMeasure
  <2>6. CASE StartInstance(c)
    BY <2>6 DEF StartInstance
  <2>7. CASE CheckFails(c)
    BY <2>7 DEF CheckFails, EndedAt
  <2>8. CASE Measured(c)
    BY <2>8 DEF Measured, EndedAt
  <2>9. CASE LockForSwitch(c)
    BY <2>9 DEF LockForSwitch, OpFree
  <2>10. CASE NoSwitch(c)
    BY <2>10 DEF NoSwitch
  <2>11. CASE Decide(c)
    BY <2>11 DEF Decide
  <2>12. CASE Use(c)
    BY <2>12 DEF Use, Node
  <2>13. CASE TargetGone(c)
    BY <2>13 DEF TargetGone, Spoilt
  <2>14. CASE Leave(c)
    BY <2>14 DEF Leave, Uncancelled
  <2> QED
    BY ZenonT(40), <1>2, <2>1, <2>2, <2>3, <2>4, <2>5, <2>6, <2>7, <2>8, <2>9, <2>10, <2>11, <2>12,
       <2>13, <2>14 DEF CheckStep
<1>3. ASSUME NEW c \in Callers, PageGoes(c) PROVE Held'
  BY <1>3 DEF PageGoes
<1>4. CASE OtherBegins
  BY <1>4 DEF OtherBegins
<1>5. CASE RequestQuit
  BY <1>5 DEF RequestQuit
<1>6. CASE QuitLocks
  BY <1>6 DEF QuitLocks
<1>7. CASE Tick
  BY <1>7 DEF Tick
<1>8. ASSUME NEW s \in SUBSET Tags, NEW rt \in Routings, OtherEnds(s, rt) PROVE Held'
  BY <1>8 DEF OtherEnds
<1> QED
  BY Zenon, <1>1, <1>2, <1>3, <1>4, <1>5, <1>6, <1>7, <1>8 DEF Next, vars

\* Every step keeps the report of the one that decides
LEMMA StepFresh == TypeOK /\ Rest /\ [Next]_vars => Fresh'
<1> SUFFICES ASSUME TypeOK /\ Rest /\ [Next]_vars PROVE Fresh'
  OBVIOUS
<1> USE DEF config, report_, locks, history, Goes, Keep, Reported, Measures, InstanceEnds,
   TypeOK, Rest, Held, OneFlight, Fresh, Runs
<1>1. CASE UNCHANGED vars
  BY <1>1 DEF vars
<1>2. ASSUME NEW c \in Callers, CheckStep(c) PROVE Fresh'
  <2>1. ASSUME NEW asks \in {"test", "fastest", "confirm"}, Ask(c, asks) PROVE Fresh'
    BY <2>1 DEF Ask
  <2>2. CASE Cancellable(c)
    BY <2>2 DEF Cancellable, Registered
  <2>3. CASE UseRecent(c)
    <3>1. ~stale
      BY Zenon, <2>3 DEF UseRecent, Recent
    <3> QED  BY <2>3, <3>1 DEF UseRecent
  <2>4. CASE CheckRefused(c)
    BY <2>4 DEF CheckRefused
  <2>5. CASE NothingToMeasure(c)
    BY <2>5 DEF NothingToMeasure
  <2>6. CASE StartInstance(c)
    BY <2>6 DEF StartInstance
  <2>7. CASE CheckFails(c)
    BY <2>7 DEF CheckFails, EndedAt
  <2>8. CASE Measured(c)
    BY <2>8 DEF Measured, EndedAt
  <2>9. CASE LockForSwitch(c)
    BY <2>9 DEF LockForSwitch, OpFree
  <2>10. CASE NoSwitch(c)
    BY <2>10 DEF NoSwitch
  <2>11. CASE Decide(c)
    BY <2>11 DEF Decide
  <2>12. CASE Use(c)
    BY <2>12 DEF Use, Node
  <2>13. CASE TargetGone(c)
    <3>1. ~stale /\ gone = 0 /\ run[c].report = last
      BY <2>13 DEF TargetGone
    <3>2. stale'
      BY Zenon, <2>13, <3>1 DEF TargetGone, Spoilt
    <3>3. gone' = 1
      BY <2>13, <3>1 DEF TargetGone
    <3>4. \A d \in Callers : run'[d].at \notin {"deciding", "locked", "switching"}
      BY <2>13 DEF TargetGone
    <3> QED  BY <3>2, <3>3, <3>4
  <2>14. CASE Leave(c)
    BY <2>14 DEF Leave, Uncancelled
  <2> QED
    BY ZenonT(40), <1>2, <2>1, <2>2, <2>3, <2>4, <2>5, <2>6, <2>7, <2>8, <2>9, <2>10, <2>11, <2>12,
       <2>13, <2>14 DEF CheckStep
<1>3. ASSUME NEW c \in Callers, PageGoes(c) PROVE Fresh'
  BY <1>3 DEF PageGoes
<1>4. CASE OtherBegins
  BY <1>4 DEF OtherBegins
<1>5. CASE RequestQuit
  BY <1>5 DEF RequestQuit
<1>6. CASE QuitLocks
  BY <1>6 DEF QuitLocks
<1>7. CASE Tick
  BY <1>7 DEF Tick
<1>8. ASSUME NEW s \in SUBSET Tags, NEW rt \in Routings, OtherEnds(s, rt) PROVE Fresh'
  BY <1>8 DEF OtherEnds
<1> QED
  BY Zenon, <1>1, <1>2, <1>3, <1>4, <1>5, <1>6, <1>7, <1>8 DEF Next, vars

\* Every step keeps the routing of the one that switches
LEMMA StepChosen == TypeOK /\ Rest /\ [Next]_vars => Chosen'
<1> SUFFICES ASSUME TypeOK /\ Rest /\ [Next]_vars PROVE Chosen'
  OBVIOUS
<1> USE DEF config, report_, locks, history, Goes, Keep, Reported, Measures, InstanceEnds,
   TypeOK, Rest, Held, OneFlight, OpMu, Chosen, Runs
<1>1. CASE UNCHANGED vars
  BY <1>1 DEF vars
<1>2. ASSUME NEW c \in Callers, CheckStep(c) PROVE Chosen'
  <2>1. ASSUME NEW asks \in {"test", "fastest", "confirm"}, Ask(c, asks) PROVE Chosen'
    BY <2>1 DEF Ask
  <2>2. CASE Cancellable(c)
    BY <2>2 DEF Cancellable, Registered
  <2>3. CASE UseRecent(c)
    BY <2>3 DEF UseRecent
  <2>4. CASE CheckRefused(c)
    BY <2>4 DEF CheckRefused
  <2>5. CASE NothingToMeasure(c)
    BY <2>5 DEF NothingToMeasure
  <2>6. CASE StartInstance(c)
    BY <2>6 DEF StartInstance
  <2>7. CASE CheckFails(c)
    BY <2>7 DEF CheckFails, EndedAt
  <2>8. CASE Measured(c)
    BY <2>8 DEF Measured, EndedAt
  <2>9. CASE LockForSwitch(c)
    BY <2>9 DEF LockForSwitch, OpFree
  <2>10. CASE NoSwitch(c)
    BY <2>10 DEF NoSwitch
  <2>11. CASE Decide(c)
    BY <2>11 DEF Decide
  <2>12. CASE Use(c)
    BY <2>12 DEF Use, Node
  <2>13. CASE TargetGone(c)
    BY <2>13 DEF TargetGone, Spoilt
  <2>14. CASE Leave(c)
    BY <2>14 DEF Leave, Uncancelled
  <2> QED
    BY ZenonT(40), <1>2, <2>1, <2>2, <2>3, <2>4, <2>5, <2>6, <2>7, <2>8, <2>9, <2>10, <2>11, <2>12,
       <2>13, <2>14 DEF CheckStep
<1>3. ASSUME NEW c \in Callers, PageGoes(c) PROVE Chosen'
  BY <1>3 DEF PageGoes
<1>4. CASE OtherBegins
  BY <1>4 DEF OtherBegins
<1>5. CASE RequestQuit
  BY <1>5 DEF RequestQuit
<1>6. CASE QuitLocks
  BY <1>6 DEF QuitLocks
<1>7. CASE Tick
  BY <1>7 DEF Tick
<1>8. ASSUME NEW s \in SUBSET Tags, NEW rt \in Routings, OtherEnds(s, rt) PROVE Chosen'
  BY <1>8 DEF OtherEnds
<1> QED
  BY Zenon, <1>1, <1>2, <1>3, <1>4, <1>5, <1>6, <1>7, <1>8 DEF Next, vars

\* Every step keeps the invariant
LEMMA StepInv == Inv /\ [Next]_vars => Inv'
<1> SUFFICES ASSUME Inv, [Next]_vars PROVE Inv'
  OBVIOUS
<1>1. TypeOK /\ Rest /\ OneFlight
  BY DEF Inv, Rest, Held
<1>2. TypeOK'
  BY Zenon, <1>1, StepFlags, StepRuns, StepValues DEF TypeOK, Flags, RunsTyped, Values
<1>3. Rest'
  BY Zenon, <1>1, StepHeld, StepFresh, StepChosen DEF Rest, Held
<1> QED  BY <1>2, <1>3 DEF Inv

\* The inductive invariant holds of every behaviour of the latency service
THEOREM Invariance == Spec => []Inv
  BY InitInv, StepInv, PTL DEF Spec

\* Every variable keeps its type, and Cancel ends only the check under way
\* (Cancel, check)
THEOREM TypeCorrect == Spec => []TypeOK
<1>1. Inv => TypeOK
  BY DEF Inv
<1> QED  BY <1>1, Invariance, PTL

-----------------------------------------------------------------------------
(* What a step may do *)

\* InstancesApart of one step
Apart ==
    \A c \in Callers : ~Measuring(c) /\ Measuring(c)' =>
        rested = Interval /\ \A d \in Callers : ~Measuring(d)

\* A test instance starts only after the interval, and alone
LEMMA StepApart == TypeOK /\ Rest /\ [Next]_vars => Apart
<1> SUFFICES ASSUME TypeOK /\ Rest /\ [Next]_vars PROVE Apart
  OBVIOUS
<1> USE DEF config, report_, locks, history, Goes, Keep, Reported, Measures, InstanceEnds,
   TypeOK, Rest, Held, OneFlight, Rested, Runs, Apart, Measuring
<1>1. CASE UNCHANGED vars
  BY <1>1 DEF vars
<1>2. ASSUME NEW c \in Callers, CheckStep(c) PROVE Apart
  <2>1. ASSUME NEW asks \in {"test", "fastest", "confirm"}, Ask(c, asks) PROVE Apart
    BY <2>1 DEF Ask
  <2>2. CASE Cancellable(c)
    BY <2>2 DEF Cancellable, Registered
  <2>3. CASE UseRecent(c)
    BY <2>3 DEF UseRecent
  <2>4. CASE CheckRefused(c)
    BY <2>4 DEF CheckRefused
  <2>5. CASE NothingToMeasure(c)
    BY <2>5 DEF NothingToMeasure
  <2>6. CASE StartInstance(c)
    BY <2>6 DEF StartInstance
  <2>7. CASE CheckFails(c)
    BY <2>7 DEF CheckFails, EndedAt
  <2>8. CASE Measured(c)
    BY <2>8 DEF Measured, EndedAt
  <2>9. CASE LockForSwitch(c)
    BY <2>9 DEF LockForSwitch, OpFree
  <2>10. CASE NoSwitch(c)
    BY <2>10 DEF NoSwitch
  <2>11. CASE Decide(c)
    BY <2>11 DEF Decide
  <2>12. CASE Use(c)
    BY <2>12 DEF Use, Node
  <2>13. CASE TargetGone(c)
    BY <2>13 DEF TargetGone, Spoilt
  <2>14. CASE Leave(c)
    BY <2>14 DEF Leave, Uncancelled
  <2> QED
    BY ZenonT(40), <1>2, <2>1, <2>2, <2>3, <2>4, <2>5, <2>6, <2>7, <2>8, <2>9, <2>10, <2>11, <2>12,
       <2>13, <2>14 DEF CheckStep
<1>3. ASSUME NEW c \in Callers, PageGoes(c) PROVE Apart
  BY <1>3 DEF PageGoes
<1>4. CASE OtherBegins
  BY <1>4 DEF OtherBegins
<1>5. CASE RequestQuit
  BY <1>5 DEF RequestQuit
<1>6. CASE QuitLocks
  BY <1>6 DEF QuitLocks
<1>7. CASE Tick
  BY <1>7 DEF Tick
<1>8. ASSUME NEW s \in SUBSET Tags, NEW rt \in Routings, OtherEnds(s, rt) PROVE Apart
  BY <1>8 DEF OtherEnds
<1> QED
  BY Zenon, <1>1, <1>2, <1>3, <1>4, <1>5, <1>6, <1>7, <1>8 DEF Next, vars

\* Test instances are at least LatencyMinIntervalSeconds apart and never beside one
\* another, for any number of tray clicks and pages (Test, SelectFastest, check)
THEOREM TestsApart == Spec => InstancesApart
<1>1. Inv /\ [Next]_vars => Apart
  BY StepApart, Zenon DEF Inv
<1> QED  BY <1>1, Invariance, PTL DEF Spec, InstancesApart, Apart

\* QuitCallsOff of one step
CallsOff == \A c \in underway : run[c].at # "switching" => run'[c].at # "switching"

\* No check under way at the quit goes on to its switch
LEMMA StepCallsOff == TypeOK /\ Rest /\ [Next]_vars => CallsOff
<1> SUFFICES ASSUME TypeOK /\ Rest /\ [Next]_vars PROVE CallsOff
  OBVIOUS
<1> USE DEF config, report_, locks, history, Goes, Keep, Reported, Measures, InstanceEnds,
   TypeOK, Rest, Held, OneFlight, Called, Runs, CallsOff
<1>1. CASE UNCHANGED vars
  BY <1>1 DEF vars
<1>2. ASSUME NEW c \in Callers, CheckStep(c) PROVE CallsOff
  <2>1. ASSUME NEW asks \in {"test", "fastest", "confirm"}, Ask(c, asks) PROVE CallsOff
    BY <2>1 DEF Ask
  <2>2. CASE Cancellable(c)
    BY <2>2 DEF Cancellable, Registered
  <2>3. CASE UseRecent(c)
    BY <2>3 DEF UseRecent
  <2>4. CASE CheckRefused(c)
    BY <2>4 DEF CheckRefused
  <2>5. CASE NothingToMeasure(c)
    BY <2>5 DEF NothingToMeasure
  <2>6. CASE StartInstance(c)
    BY <2>6 DEF StartInstance
  <2>7. CASE CheckFails(c)
    BY <2>7 DEF CheckFails, EndedAt
  <2>8. CASE Measured(c)
    BY <2>8 DEF Measured, EndedAt
  <2>9. CASE LockForSwitch(c)
    BY <2>9 DEF LockForSwitch, OpFree
  <2>10. CASE NoSwitch(c)
    BY <2>10 DEF NoSwitch
  <2>11. CASE Decide(c)
    BY <2>11 DEF Decide
  <2>12. CASE Use(c)
    BY <2>12 DEF Use, Node
  <2>13. CASE TargetGone(c)
    BY <2>13 DEF TargetGone, Spoilt
  <2>14. CASE Leave(c)
    BY <2>14 DEF Leave, Uncancelled
  <2> QED
    BY ZenonT(40), <1>2, <2>1, <2>2, <2>3, <2>4, <2>5, <2>6, <2>7, <2>8, <2>9, <2>10, <2>11, <2>12,
       <2>13, <2>14 DEF CheckStep
<1>3. ASSUME NEW c \in Callers, PageGoes(c) PROVE CallsOff
  BY <1>3 DEF PageGoes
<1>4. CASE OtherBegins
  BY <1>4 DEF OtherBegins
<1>5. CASE RequestQuit
  BY <1>5 DEF RequestQuit
<1>6. CASE QuitLocks
  BY <1>6 DEF QuitLocks
<1>7. CASE Tick
  BY <1>7 DEF Tick
<1>8. ASSUME NEW s \in SUBSET Tags, NEW rt \in Routings, OtherEnds(s, rt) PROVE CallsOff
  BY <1>8 DEF OtherEnds
<1> QED
  BY Zenon, <1>1, <1>2, <1>3, <1>4, <1>5, <1>6, <1>7, <1>8 DEF Next, vars

\* The switch of one caller is the one its decision asked for
Sound(c) ==
    LET r == run[c].report  new == routing'.tag  old == routing.tag IN
    /\ new \in servers \cap Candidates(r) /\ \A t \in Candidates(r) : r[new] <= r[t]
    /\ routing.kind \in {"none", "node", "selector"}
    /\ routing.kind = "selector" => run[c].asks = "confirm"
    /\ old \in Candidates(r) => r[old] > r[new] + KeepMargin(r[new])

\* SwitchOutbound puts in the server that ChooseFastest chose, of the routing
\* it chose for
LEMMA UseIsSound ==
    ASSUME Inv, NEW c \in Callers, Use(c), routing' # routing
    PROVE  Sound(c)
<1> DEFINE r == run[c].report
<1>1. /\ run[c].at = "switching" /\ run[c].target \in servers
      /\ routing' = Node(run[c].target)
  BY DEF Use
<1>2. /\ run[c] \in Runs /\ routing \in Routing
      /\ routing.kind # "node" => routing.tag = NoTag
  BY DEF Inv, Rest, Held, Chosen, TypeOK
<1>3. Switches(r, routing, run[c].asks = "confirm") /\ run[c].target = Best(r)
  BY <1>1 DEF Inv, Rest, Held, Chosen
<1>4. /\ ~Refused(routing) /\ Candidates(r) # {} /\ ~Kept(r, routing)
      /\ routing.kind = "selector" => run[c].asks = "confirm"
  BY <1>3, Zenon DEF Switches
<1>5. r \in Reports
  BY <1>2 DEF Runs
<1> HIDE DEF r
<1>6. Best(r) \in Candidates(r) /\ \A u \in Candidates(r) : r[Best(r)] <= r[u]
  BY <1>4, <1>5, BestIsLeast
<1>7. routing'.tag = Best(r)
  BY <1>1, <1>3 DEF Node
<1>8. routing.kind \in {"none", "node", "selector"}
  BY <1>2, <1>4 DEF Refused, Kinds
<1>9. routing.kind = "selector" => run[c].asks = "confirm"
  BY <1>4
<1>10. ASSUME routing.tag \in Candidates(r)
      PROVE  r[routing.tag] > r[Best(r)] + KeepMargin(r[Best(r)])
  <2>1. routing.kind = "node"
    BY <1>2, <1>10, Numbers DEF Candidates, Answered, NoTag
  <2>2. ~(r[routing.tag] <= r[Best(r)] + KeepMargin(r[Best(r)]))
    BY <1>4, <1>10, <2>1 DEF Kept
  <2>3. r[routing.tag] \in Nat /\ r[Best(r)] \in Delays
    <3>1. \A t \in Candidates(r) : t \in DOMAIN r /\ r[t] # NoAnswer
      BY DEF Candidates, Answered
    <3>2. \A t \in DOMAIN r : r[t] \in Nat /\ r[t] \in Delays \cup {NoAnswer}
      BY <1>5, Answers, Numbers
    <3> QED  BY <1>6, <1>10, <3>1, <3>2
  <2>4. KeepMargin(r[Best(r)]) \in Nat
    BY <2>3, DelayAssumption
  <2> QED  BY <2>2, <2>3, <2>4
<1>11. Best(r) \in servers
  BY <1>1, <1>3
<1> QED
  BY Zenon, <1>6, <1>7, <1>8, <1>9, <1>10, <1>11 DEF Sound, r

\* SwitchIsSound of one step
Switched ==
    gone' < 2 /\ \A c \in Callers :
        run[c].at = "switching" /\ run'[c].at = "leaving" /\ routing' # routing => Sound(c)

\* Only a switch under opMu changes the routing while a caller switches
LEMMA StepSwitched == Inv /\ [Next]_vars => Switched
<1> SUFFICES ASSUME Inv, [Next]_vars PROVE Switched
  OBVIOUS
<1>1. gone' < 2
  <2>1. Fresh'
    BY StepInv DEF Inv, Rest, Held
  <2> QED  BY <2>1 DEF Fresh
<1>2. ASSUME NEW c \in Callers,
             run[c].at = "switching", run'[c].at = "leaving", routing' # routing
      PROVE  Sound(c)
  <2>1. PICK d \in Callers : Use(d)
    <3>1. \/ UNCHANGED routing
          \/ \E d \in Callers : Use(d)
          \/ other
      BY Zenon DEF Next, CheckStep, vars, config, InstanceEnds, Ask, Cancellable, UseRecent,
         CheckRefused, NothingToMeasure, StartInstance, CheckFails, Measured, LockForSwitch,
         NoSwitch, Decide, TargetGone, Leave,
        PageGoes, OtherBegins, OtherEnds, RequestQuit, QuitLocks, Tick
    <3>2. ~other
      BY <1>2 DEF Inv, Rest, Held, OpMu, TypeOK
    <3> QED  BY <1>2, <3>1, <3>2
  <2>2. d = c
    BY <1>2, <2>1 DEF Use, Inv, Rest, Held, OneFlight
  <2> QED  BY <1>2, <2>1, <2>2, UseIsSound
<1> QED  BY <1>1, <1>2 DEF Switched

\* The routing a switch replaces is the one its decision saw, the new server the
\* fastest of the report and better than the margin asks, and a server that had
\* gone costs one attempt (SelectFastest, ChooseFastest, SwitchOutbound)
THEOREM SoundSwitches == Spec => SwitchIsSound
<1>1. Inv /\ [Next]_vars => Switched
  BY StepSwitched
<1> QED  BY <1>1, Invariance, PTL DEF Spec, SwitchIsSound, Switched, Sound

\* No check under way when the user asks to quit goes on to a switch
\* (RequestQuit, cancellable)
THEOREM QuitEndsChecks == Spec => QuitCallsOff
<1>1. Inv /\ [Next]_vars => CallsOff
  BY StepCallsOff, Zenon DEF Inv
<1> QED  BY <1>1, Invariance, PTL DEF Spec, QuitCallsOff, CallsOff

-----------------------------------------------------------------------------
(* ProbePlan: the test instance starts and measures what the VPN dials *)

\* References: an outbound's is no DNS server's
LEMMA References ==
    /\ \A t : Out(t)[1] = "outbound" /\ Out(t)[2] = t /\ Dns(t)[1] = "dns" /\ Dns(t)[2] = t
    /\ \A T, t : (Out(t) \in Outs(T) <=> t \in T /\ t # None) /\ (Dns(t) \in Dnss(T) <=> t \in T /\ t # None)
    /\ \A T, t : Out(t) \notin Dnss(T) /\ Dns(t) \notin Outs(T)
    /\ \A T : \A r \in Outs(T) : r = Out(r[2])
    /\ \A T : \A r \in Dnss(T) : r = Dns(r[2])
<1>1. \A t : Out(t)[1] = "outbound" /\ Out(t)[2] = t /\ Dns(t)[1] = "dns" /\ Dns(t)[2] = t
  BY DEF Out, Dns
<1>2. \A t, u : Out(t) = Out(u) => t = u
  BY <1>1
<1>3. \A t, u : Dns(t) = Dns(u) => t = u
  BY <1>1
<1>4. \A t, u : Out(t) # Dns(u)
  BY <1>1
<1>5. \A T, t : (Out(t) \in Outs(T) <=> t \in T /\ t # None) /\ (Dns(t) \in Dnss(T) <=> t \in T /\ t # None)
  BY <1>2, <1>3 DEF Outs, Dnss
<1>6. \A T, t : Out(t) \notin Dnss(T) /\ Dns(t) \notin Outs(T)
  BY <1>4 DEF Outs, Dnss
<1>7. \A T : \A r \in Outs(T) : r = Out(r[2])
  BY <1>1 DEF Outs
<1>8. \A T : \A r \in Dnss(T) : r = Dns(r[2])
  BY <1>1 DEF Dnss
<1> QED  BY <1>1, <1>5, <1>6, <1>7, <1>8

\* A config has finitely many outbounds and DNS servers
LEMMA RefsFinite == ASSUME NEW c, IsConfig(c) PROVE IsFiniteSet(Refs(c))
<1>1. IsFiniteSet(DOMAIN c.nodes)
  BY DEF IsConfig
<1>2. ASSUME NEW T, IsFiniteSet(T) PROVE IsFiniteSet(Outs(T)) /\ IsFiniteSet(Dnss(T))
  <2>1. IsFiniteSet(T \ {None})
    BY <1>2, FS_Subset
  <2> DEFINE f == [t \in T \ {None} |-> Out(t)]
             g == [t \in T \ {None} |-> Dns(t)]
  <2>2. f \in Surjection(T \ {None}, Outs(T))
    BY DEF Surjection, Outs
  <2>3. g \in Surjection(T \ {None}, Dnss(T))
    BY DEF Surjection, Dnss
  <2> HIDE DEF f, g
  <2> QED  BY <2>1, <2>2, <2>3, FS_Surjection
<1>3. IsFiniteSet(ServerTags(c))
  <2> DEFINE f == [i \in 1 .. Len(c.servers) |-> c.servers[i].tag]
  <2>1. c.servers \in Seq(ToSet(c.servers))
    BY DEF IsConfig
  <2>2. f \in Surjection(1 .. Len(c.servers), ServerTags(c))
    <3>1. ServerTags(c) = {c.servers[i].tag : i \in 1 .. Len(c.servers)}
      BY <2>1 DEF ServerTags, ToSet
    <3>2. f \in [1 .. Len(c.servers) -> ServerTags(c)]
      BY <3>1
    <3>3. \A t \in ServerTags(c) : \E i \in 1 .. Len(c.servers) : f[i] = t
      BY <3>1
    <3> HIDE DEF f
    <3> QED  BY <3>2, <3>3 DEF Surjection
  <2>3. IsFiniteSet(1 .. Len(c.servers))
    BY <2>1, FS_Interval
  <2> HIDE DEF f
  <2> QED  BY <2>2, <2>3, FS_Surjection
<1>4. IsFiniteSet(Outs(DOMAIN c.nodes)) /\ IsFiniteSet(Dnss(ServerTags(c)))
  BY <1>1, <1>2, <1>3
<1> QED  BY <1>4, FS_Union DEF Refs

\* The config as a graph: its points, and the steps from each
LEMMA VisitsAre ==
    ASSUME NEW c, IsConfig(c), NEW left
    PROVE  LET visits == Visits(c, left)
           IN  /\ IsFiniteSet(DOMAIN visits)
               /\ \A r \in DOMAIN visits : /\ visits[r] = Next1(c, r) \cup Members(c, r)
                                           /\ (r = Out(r[2]) /\ r[2] \in DOMAIN c.nodes) \/ (r = Dns(r[2]) /\ r[2] \in ServerTags(c))
               /\ \A t : Out(t) \in DOMAIN visits <=> t \in DOMAIN c.nodes /\ ~OutProblem(c, left, t)
               /\ \A t : Dns(t) \in DOMAIN visits <=> t \in ServerTags(c) \ {None} /\ ~DnsProblem(c, t)
<1> DEFINE visits == Visits(c, left)
           D == {r \in Refs(c) : ~Problem(c, left, r)}
<1>1. DOMAIN visits = D /\ \A r \in D : visits[r] = Next1(c, r) \cup Members(c, r)
  BY DEF Visits
<1>2. IsFiniteSet(D)
  BY RefsFinite, FS_Subset
<1>3. \A r \in D : (r = Out(r[2]) /\ r[2] \in DOMAIN c.nodes) \/ (r = Dns(r[2]) /\ r[2] \in ServerTags(c))
  <2> SUFFICES ASSUME NEW r \in Refs(c)
               PROVE (r = Out(r[2]) /\ r[2] \in DOMAIN c.nodes) \/ (r = Dns(r[2]) /\ r[2] \in ServerTags(c))
    OBVIOUS
  <2>1. CASE r \in Outs(DOMAIN c.nodes)
    <3>1. r = Out(r[2])
      BY <2>1, References
    <3>2. Out(r[2]) \in Outs(DOMAIN c.nodes)
      BY <2>1, <3>1
    <3> QED  BY <3>1, <3>2, References
  <2>2. CASE r \in Dnss(ServerTags(c))
    <3>1. r = Dns(r[2])
      BY <2>2, References
    <3>2. Dns(r[2]) \in Dnss(ServerTags(c))
      BY <2>2, <3>1
    <3> QED  BY <3>1, <3>2, References
  <2> QED  BY <2>1, <2>2 DEF Refs
<1>4. ASSUME NEW t PROVE Out(t) \in D <=> t \in DOMAIN c.nodes /\ ~OutProblem(c, left, t)
  <2>1. Out(t) \in Refs(c) <=> t \in DOMAIN c.nodes
    BY References DEF Refs, IsConfig
  <2>2. Problem(c, left, Out(t)) <=> OutProblem(c, left, t)
    BY References DEF Problem
  <2> QED  BY <2>1, <2>2
<1>5. ASSUME NEW t PROVE Dns(t) \in D <=> t \in ServerTags(c) \ {None} /\ ~DnsProblem(c, t)
  <2>1. Dns(t) \in Refs(c) <=> t \in ServerTags(c) \ {None}
    BY References DEF Refs
  <2>2. Problem(c, left, Dns(t)) <=> DnsProblem(c, t)
    BY References DEF Problem
  <2> QED  BY <2>1, <2>2
<1> HIDE DEF D, visits
<1>6. /\ IsFiniteSet(DOMAIN visits)
      /\ \A r \in DOMAIN visits : /\ visits[r] = Next1(c, r) \cup Members(c, r)
                                  /\ (r = Out(r[2]) /\ r[2] \in DOMAIN c.nodes) \/ (r = Dns(r[2]) /\ r[2] \in ServerTags(c))
      /\ \A t : Out(t) \in DOMAIN visits <=> t \in DOMAIN c.nodes /\ ~OutProblem(c, left, t)
      /\ \A t : Dns(t) \in DOMAIN visits <=> t \in ServerTags(c) \ {None} /\ ~DnsProblem(c, t)
  BY <1>1, <1>2, <1>3, <1>4, <1>5
<1> QED  BY <1>6 DEF visits

\* What is reached from a set has the set and what all of it depends on, and nothing else
LEMMA ReachedIs ==
    ASSUME NEW graph, IsFiniteSet(DOMAIN graph), NEW start
    PROVE  /\ start \subseteq Reached(graph, start) /\ Keeps(graph, Reached(graph, start), Reached(graph, start))
           /\ \A S : start \subseteq S /\ Keeps(graph, S, S) => Reached(graph, start) \subseteq S
           /\ \A t : Reached(graph, {t}) = {t} \cup DependsOn(graph, t)
<1>1. \A r : r \in Reached(graph, start) <=> r \in start \/ \E t \in start : r \in DependsOn(graph, t)
  BY DEF Reached
<1>2. \A t : Keeps(graph, {t}, DependsOn(graph, t)) /\ Keeps(graph, DependsOn(graph, t), DependsOn(graph, t))
  BY DependsOnIs
<1>3. Keeps(graph, Reached(graph, start), Reached(graph, start))
  BY <1>1, <1>2 DEF Keeps
<1>4. ASSUME NEW S, start \subseteq S, Keeps(graph, S, S) PROVE Reached(graph, start) \subseteq S
  <2>1. ASSUME NEW t \in start PROVE DependsOn(graph, t) \subseteq S
    <3>1. Keeps(graph, {t}, S)
      BY <1>4 DEF Keeps
    <3> QED  BY <1>4, <3>1, DependsOnIs
  <2> QED  BY <1>1, <1>4, <2>1
<1>5. \A t : Reached(graph, {t}) = {t} \cup DependsOn(graph, t)
  BY DEF Reached
<1> QED  BY <1>1, <1>3, <1>4, <1>5

\* What is carried of a set supports itself
LEMMA CarriedIs ==
    ASSUME NEW c, NEW visits, NEW universe, IsFiniteSet(universe)
    PROVE  LET X == Carried(c, visits, universe)
           IN  X \subseteq universe \cap DOMAIN visits /\ \A r \in X : Supported(c, r, X)
<1> DEFINE N == Cardinality(universe)
           A == universe \cap DOMAIN visits
           X == SUBSET universe
           F == [s \in X |-> {r \in s : Supported(c, r, s)}]
           ok[n \in 0 .. N] ==
              IF n = 0 THEN universe \cap DOMAIN visits
              ELSE LET before == ok[n - 1] IN {r \in before : Supported(c, r, before)}
<1>1. N \in Nat
  BY FS_CardinalityType
<1>2. F \in [X -> X] /\ A \in X /\ \A s \in X : F[s] = {r \in s : Supported(c, r, s)}
  OBVIOUS
<1>3. PICK f : Iterates(X, F, A, N, f)
  <2> HIDE DEF F, N, X, A
  <2> QED  BY <1>1, <1>2, Iterated
<1>4. f \in [0 .. N -> X] /\ \A k \in 0 .. N : f[k] = IF k = 0 THEN A ELSE F[f[k - 1]]
  BY <1>3 DEF Iterates
<1>5. \A k \in 0 .. N : f[k] = IF k = 0 THEN universe \cap DOMAIN visits
                               ELSE LET before == f[k - 1] IN {r \in before : Supported(c, r, before)}
  <2> SUFFICES ASSUME NEW k \in 0 .. N
               PROVE f[k] = IF k = 0 THEN A ELSE {r \in f[k - 1] : Supported(c, r, f[k - 1])}
    OBVIOUS
  <2> HIDE DEF F, X, A
  <2>1. k # 0 => k - 1 \in 0 .. N
    BY <1>1
  <2> QED  BY <1>2, <1>4, <2>1
<1>6. f = [n \in 0 .. N |-> IF n = 0 THEN universe \cap DOMAIN visits
                            ELSE LET before == f[n - 1] IN {r \in before : Supported(c, r, before)}]
  <2> HIDE DEF F, X, N, A
  <2> QED  BY <1>4, <1>5
<1>7. ok = [n \in 0 .. N |-> IF n = 0 THEN universe \cap DOMAIN visits
                            ELSE LET before == ok[n - 1] IN {r \in before : Supported(c, r, before)}]
  <2> HIDE DEF F, X, N, A
  <2> DEFINE Series(g) == [n \in 0 .. N |-> IF n = 0 THEN universe \cap DOMAIN visits
                            ELSE LET before == g[n - 1] IN {r \in before : Supported(c, r, before)}]
  <2>1. f = Series(f)
    BY <1>6
  <2>2. \E g : g = Series(g)
    <3> HIDE DEF Series
    <3> QED  BY <2>1
  <2> QED  BY Zenon, <2>2
<1>8. Carried(c, visits, universe) = ok[N]
  BY DEF Carried
<1>9. \A n \in 0 .. N : ok[n] = IF n = 0 THEN A ELSE {r \in ok[n - 1] : Supported(c, r, ok[n - 1])}
  <2> HIDE DEF N, F, X
  <2>1. \A n \in 0 .. N : ok[n] = IF n = 0 THEN universe \cap DOMAIN visits
                            ELSE LET before == ok[n - 1] IN {r \in before : Supported(c, r, before)}
    BY <1>7
  <2> HIDE DEF ok
  <2> QED  BY <2>1
<1> HIDE DEF ok, N, F, X
<1>10. ok[0] = A /\ \A n \in 0 .. N : n < N => ok[n + 1] = {r \in ok[n] : Supported(c, r, ok[n])}
  <2> HIDE DEF A
  <2>1. 0 \in 0 .. N
    BY <1>1
  <2>2. ASSUME NEW n \in 0 .. N, n < N PROVE ok[n + 1] = {r \in ok[n] : Supported(c, r, ok[n])}
    <3>1. n + 1 \in 0 .. N /\ n + 1 # 0 /\ (n + 1) - 1 = n
      BY <1>1, <2>2
    <3>2. ok[n + 1] = IF n + 1 = 0 THEN A ELSE {r \in ok[(n + 1) - 1] : Supported(c, r, ok[(n + 1) - 1])}
      BY Zenon, <1>9, <3>1
    <3> QED  BY Zenon, <3>1, <3>2
  <2> QED  BY <1>9, <2>1, <2>2
<1>11. \A n \in 0 .. N : ok[n] \subseteq A
  <2> DEFINE T == {n \in 0 .. N : ok[n] \subseteq A}
  <2>1. 0 \in T
    BY <1>1, <1>10
  <2>2. ASSUME NEW n \in 0 .. N, n \in T, n < N PROVE n + 1 \in T
    <3> HIDE DEF A
    <3> QED  BY <1>1, <1>10, <2>2
  <2> HIDE DEF T
  <2>3. \A n \in 0 .. N : n \in T
    BY <1>1, <2>1, <2>2, UpTo
  <2> QED  BY <2>3 DEF T
<1>12. \A r \in ok[N] : Supported(c, r, ok[N])
  <2> DEFINE h == [n \in 0 .. N |-> universe \ ok[n]]
             Z == {n \in 0 .. N : \A r \in ok[n] : Supported(c, r, ok[n])}
  <2>1. ASSUME NEW n \in 0 .. N, n < N
        PROVE  IF n \in Z THEN n + 1 \in Z ELSE n + 1 \in Z \/ (h[n] \subseteq h[n + 1] /\ h[n] # h[n + 1])
    <3>1. n + 1 \in 0 .. N /\ ok[n + 1] = {r \in ok[n] : Supported(c, r, ok[n])}
      BY <1>1, <1>10, <2>1
    <3>2. n \in Z => ok[n + 1] = ok[n]
      BY <3>1
    <3>3. n \in Z => n + 1 \in Z
      BY <3>1, <3>2
    <3>4. n \notin Z => \E r \in ok[n] : r \notin ok[n + 1]
      BY <3>1
    <3>5. h[n] \subseteq h[n + 1] /\ h[n] = universe \ ok[n] /\ h[n + 1] = universe \ ok[n + 1]
      BY <3>1
    <3>6. ok[n] \subseteq universe
      BY <1>11
    <3> QED  BY <3>3, <3>4, <3>5, <3>6
  <2>2. h \in [0 .. N -> SUBSET universe]
    OBVIOUS
  <2>3. N \in Z \/ h[N] = universe
    <3> HIDE DEF h, Z
    <3> QED  BY <2>1, <2>2, Settles DEF N
  <2>4. N \in 0 .. N
    BY <1>1
  <2>5. h[N] = universe => ok[N] = {}
    <3>1. h[N] = universe \ ok[N] /\ ok[N] \subseteq universe
      BY <1>11, <2>4
    <3> QED  BY <3>1
  <2> HIDE DEF h
  <2> QED  BY <2>3, <2>4, <2>5
<1>13. N \in 0 .. N
  BY <1>1
<1> QED  BY <1>8, <1>11, <1>12, <1>13

\* Leaving outbounds out takes them from the graph and nothing else
LEMMA VisitsLeft ==
    ASSUME NEW c, IsConfig(c), NEW left
    PROVE  \A r \in DOMAIN Visits(c, {}) : r \notin Outs(left) =>
             r \in DOMAIN Visits(c, left) /\ Visits(c, left)[r] = Visits(c, {})[r]
<1> DEFINE V == Visits(c, left)
           W == Visits(c, {})
<1>1. /\ \A r \in DOMAIN V : V[r] = Next1(c, r) \cup Members(c, r)
      /\ \A t : Out(t) \in DOMAIN V <=> t \in DOMAIN c.nodes /\ ~OutProblem(c, left, t)
      /\ \A t : Dns(t) \in DOMAIN V <=> t \in ServerTags(c) \ {None} /\ ~DnsProblem(c, t)
  BY VisitsAre
<1>2. /\ \A r \in DOMAIN W : W[r] = Next1(c, r) \cup Members(c, r)
      /\ \A r \in DOMAIN W : (r = Out(r[2]) /\ r[2] \in DOMAIN c.nodes) \/ (r = Dns(r[2]) /\ r[2] \in ServerTags(c))
      /\ \A t : Out(t) \in DOMAIN W <=> t \in DOMAIN c.nodes /\ ~OutProblem(c, {}, t)
      /\ \A t : Dns(t) \in DOMAIN W <=> t \in ServerTags(c) \ {None} /\ ~DnsProblem(c, t)
  BY VisitsAre
<1>3. \A t : OutProblem(c, left, t) <=> OutProblem(c, {}, t) \/ t \in left
  BY DEF OutProblem
<1>4. None \notin DOMAIN c.nodes
  BY DEF IsConfig
<1> HIDE DEF V, W
<1> SUFFICES ASSUME NEW r \in DOMAIN W, r \notin Outs(left) PROVE r \in DOMAIN V /\ V[r] = W[r]
  BY DEF V, W
<1>5. r \in DOMAIN V
  <2>1. CASE r = Out(r[2]) /\ r[2] \in DOMAIN c.nodes
    <3>1. r[2] \notin left
      <4> HIDE DEF Out
      <4>1. Out(r[2]) \notin Outs(left)
        BY <2>1
      <4> QED  BY <1>4, <2>1, <4>1, References
    <3>2. ~OutProblem(c, left, r[2])
      BY <1>2, <1>3, <2>1, <3>1
    <3> QED  BY <1>1, <2>1, <3>2
  <2>2. CASE r = Dns(r[2]) /\ r[2] \in ServerTags(c)
    BY <1>1, <1>2, <2>2
  <2> QED  BY <1>2, <2>1, <2>2
<1> QED  BY <1>1, <1>2, <1>5

\* An outbound whose walk meets none of those left out is as carriable as before
LEMMA HealthyStay ==
    ASSUME NEW c, IsConfig(c), NEW bad \in SUBSET DOMAIN c.nodes, NEW left \in SUBSET bad,
           NEW t \in Measurable(c, {}, Visits(c, {})), Walk(Visits(c, {}), t) \cap Outs(bad) = {}
    PROVE  t \in Testable(c, left)
<1> DEFINE V == Visits(c, left)
           W == Visits(c, {})
<1>1. IsFiniteSet(DOMAIN V) /\ IsFiniteSet(DOMAIN W)
  BY VisitsAre
<1>2. \A r \in DOMAIN W : r \notin Outs(left) => r \in DOMAIN V /\ V[r] = W[r]
  BY VisitsLeft
<1>3. t \in DOMAIN c.nodes /\ c.nodes[t].type = "node" /\ Carriable(W, t) /\ t # None
  BY DEF Measurable, IsConfig
<1> HIDE DEF V, W
<1>4. Walk(V, t) = {Out(t)} \cup DependsOn(V, Out(t)) /\ Walk(W, t) = {Out(t)} \cup DependsOn(W, Out(t))
  BY <1>1, ReachedIs DEF Walk
<1>5. Outs(left) \subseteq Outs(bad)
  BY DEF Outs
<1>6. \A r \in Walk(W, t) : r \in DOMAIN W /\ r \notin Outs(left)
  BY <1>3, <1>5 DEF Carriable, W
<1>7. \A r \in Walk(W, t) : r \in DOMAIN V /\ V[r] = W[r]
  BY <1>2, <1>6
<1>8. \A r \in {Out(t)} \cup DependsOn(W, Out(t)) : OneStep(W, {r}) = OneStep(V, {r})
  <2> SUFFICES ASSUME NEW r \in Walk(W, t) PROVE OneStep(W, {r}) = OneStep(V, {r})
    BY <1>4
  <2>1. \A u : u \in OneStep(W, {r}) <=> r \in DOMAIN W /\ u \in W[r]
    BY OneStepIs
  <2>2. \A u : u \in OneStep(V, {r}) <=> r \in DOMAIN V /\ u \in V[r]
    BY OneStepIs
  <2> QED  BY <1>6, <1>7, <2>1, <2>2
<1>9. DependsOn(V, Out(t)) = DependsOn(W, Out(t))
  BY <1>1, <1>8, SameDependsOn
<1>10. Carriable(V, t)
  BY <1>4, <1>7, <1>9 DEF Carriable
<1>11. t \notin left
  <2>1. Out(t) \in Walk(W, t)
    BY <1>4
  <2> QED  BY <1>3, <1>6, <2>1, References
<1> QED  BY <1>3, <1>10, <1>11 DEF Testable, Measurable, V

\* Finitely many tags are finitely many references
LEMMA OutsFinite == ASSUME NEW T, IsFiniteSet(T) PROVE IsFiniteSet(Outs(T)) /\ IsFiniteSet(Dnss(T))
<1>1. IsFiniteSet(T \ {None})
  BY FS_Subset
<1> DEFINE f == [t \in T \ {None} |-> Out(t)]
           g == [t \in T \ {None} |-> Dns(t)]
<1>2. f \in Surjection(T \ {None}, Outs(T))
  BY DEF Surjection, Outs
<1>3. g \in Surjection(T \ {None}, Dnss(T))
  BY DEF Surjection, Dnss
<1> HIDE DEF f, g
<1> QED  BY <1>1, <1>2, <1>3, FS_Surjection

\* What the config's globals reach is finite
LEMMA GlobalsFinite == ASSUME NEW c, IsConfig(c), NEW left PROVE IsFiniteSet(Reached(Visits(c, left), Globals(c)))
<1> DEFINE V == Visits(c, left)
           F == [r \in DOMAIN V |-> V[r]]
           S == {V[r] : r \in DOMAIN V}
<1>1. /\ IsFiniteSet(DOMAIN V)
      /\ \A r \in DOMAIN V : /\ V[r] = Next1(c, r) \cup Members(c, r)
                             /\ (r = Out(r[2]) /\ r[2] \in DOMAIN c.nodes) \/ (r = Dns(r[2]) /\ r[2] \in ServerTags(c))
  BY VisitsAre
<1>2. \A a, b : IsFiniteSet({a, b}) /\ IsFiniteSet({a})
  <2> SUFFICES ASSUME NEW a, NEW b PROVE IsFiniteSet({a, b}) /\ IsFiniteSet({a})
    OBVIOUS
  <2>1. IsFiniteSet({a}) /\ IsFiniteSet({b})
    BY FS_Singleton
  <2>2. IsFiniteSet({a} \cup {b}) /\ {a, b} = {a} \cup {b}
    BY <2>1, FS_Union
  <2> QED  BY <2>1, <2>2
<1>3. IsFiniteSet(Globals(c))
  BY <1>2, OutsFinite DEF Globals
<1>4. ASSUME NEW r \in DOMAIN V PROVE IsFiniteSet(Next1(c, r))
  <2>1. ASSUME NEW a, NEW b, NEW d PROVE IsFiniteSet(Outs({a}) \cup Dnss({b})) /\ IsFiniteSet(Outs({a}) \cup Dnss({b, d}))
    BY <1>2, OutsFinite, FS_Union
  <2> QED  BY <2>1 DEF Next1, DialsThrough
<1>5. ASSUME NEW r \in DOMAIN V PROVE IsFiniteSet(Members(c, r))
  <2>1. CASE r[1] = "dns"
    BY <2>1, FS_EmptySet DEF Members
  <2>2. CASE r[1] # "dns"
    <3>1. r[2] \in DOMAIN c.nodes
      BY <1>1, <2>2, References
    <3>2. IsFiniteSet(c.nodes[r[2]].members)
      BY <3>1 DEF IsConfig, IsNode
    <3> QED  BY <2>2, <3>2, OutsFinite DEF Members
  <2> QED  BY <2>1, <2>2
<1> HIDE DEF V
<1>6. ASSUME NEW r \in DOMAIN V PROVE IsFiniteSet(V[r])
  <2>1. IsFiniteSet(Next1(c, r) \cup Members(c, r))
    BY <1>4, <1>5, FS_Union
  <2> QED  BY <1>1, <2>1
<1>7. F \in Surjection(DOMAIN V, S)
  BY DEF Surjection
<1>8. IsFiniteSet(S)
  <2> HIDE DEF F, S
  <2> QED  BY <1>1, <1>7, FS_Surjection
<1>9. IsFiniteSet(UNION S)
  BY <1>6, <1>8, FS_UNION
<1>10. Reached(V, Globals(c)) \subseteq Globals(c) \cup UNION S
  <2>1. Keeps(V, Globals(c) \cup UNION S, Globals(c) \cup UNION S)
    BY DEF Keeps
  <2> HIDE DEF S
  <2> QED  BY <1>1, <2>1, ReachedIs
<1> QED  BY <1>3, <1>9, <1>10, FS_Union, FS_Subset DEF V

\* The test instance carries what it needs whole: what each of it refers to,
\* and of every group a member at least
LEMMA NeededIs ==
    ASSUME NEW c, IsConfig(c), NEW left
    PROVE  LET visits == Visits(c, left)
               needed == NeededFor(c, visits, Measurable(c, left, visits))
           IN  needed \subseteq DOMAIN visits /\ \A r \in needed : Supported(c, r, needed)
<1> DEFINE V == Visits(c, left)
           probed == Measurable(c, left, V)
           X == Carried(c, V, Reached(V, Globals(c)))
           G == WithoutRest(c, X)
           glob == CarriedGlobals(c, V)
           needed == NeededFor(c, V, probed)
<1>1. /\ IsFiniteSet(DOMAIN V)
      /\ \A r \in DOMAIN V : V[r] = Next1(c, r) \cup Members(c, r)
  BY VisitsAre
<1>2. \A r \in DOMAIN V : IsGroup(c, r) => Members(c, r) # {}
  <2>1. \A r \in DOMAIN V : (r = Out(r[2]) /\ r[2] \in DOMAIN c.nodes) \/ (r = Dns(r[2]) /\ r[2] \in ServerTags(c))
    BY VisitsAre
  <2> SUFFICES ASSUME NEW r \in DOMAIN V, IsGroup(c, r) PROVE Members(c, r) # {}
    OBVIOUS
  <2>2. r[1] = "outbound" /\ c.nodes[r[2]].type = "selector"
    BY DEF IsGroup
  <2>3. r[2] \in DOMAIN c.nodes
    BY <2>1, <2>2, References
  <2>4. c.nodes[r[2]].members # {} /\ None \notin c.nodes[r[2]].members
    BY <2>2, <2>3 DEF IsConfig, IsNode
  <2>5. PICK m \in c.nodes[r[2]].members : m # None
    BY <2>4
  <2>6. Out(m) \in Outs(c.nodes[r[2]].members)
    BY <2>5, References
  <2> QED  BY <2>2, <2>6 DEF Members
<1> HIDE DEF V
<1>3. IsFiniteSet(Reached(V, Globals(c)))
  BY GlobalsFinite DEF V
<1>4. X \subseteq DOMAIN V /\ IsFiniteSet(X) /\ \A r \in X : Supported(c, r, X)
  BY <1>3, CarriedIs, FS_Subset
<1>5. glob = Reached(G, Globals(c) \cap X)
  BY DEF CarriedGlobals, CarriedOf
<1>6. DOMAIN G = X /\ \A r \in X : G[r] = Next1(c, r) \cup (Members(c, r) \cap X)
  BY DEF WithoutRest
<1> HIDE DEF G, X
<1>7. Keeps(G, glob, glob) /\ glob \subseteq X
  <2>1. Keeps(G, X, X)
    BY <1>4, <1>6 DEF Keeps, Supported
  <2> QED  BY <1>4, <1>5, <1>6, <2>1, ReachedIs
<1> HIDE DEF glob
<1>8. ASSUME NEW r \in glob PROVE Supported(c, r, glob)
  <2>1. r \in DOMAIN G /\ G[r] = Next1(c, r) \cup (Members(c, r) \cap X)
    BY <1>6, <1>7
  <2>2. Next1(c, r) \subseteq glob /\ Members(c, r) \cap X \subseteq glob
    BY <1>7, <2>1 DEF Keeps
  <2>3. IsGroup(c, r) => Members(c, r) \cap X # {}
    BY <1>4, <1>7 DEF Supported
  <2> QED  BY <2>2, <2>3 DEF Supported
<1>9. ASSUME NEW t \in probed
      PROVE  Walk(V, t) \subseteq DOMAIN V /\ \A r \in Walk(V, t) : Supported(c, r, Walk(V, t))
  <2>1. Walk(V, t) \subseteq DOMAIN V
    BY DEF Measurable, Carriable
  <2>2. Keeps(V, Walk(V, t), Walk(V, t))
    BY <1>1, ReachedIs DEF Walk
  <2>3. \A r \in Walk(V, t) : Next1(c, r) \cup Members(c, r) \subseteq Walk(V, t)
    BY <1>1, <2>1, <2>2 DEF Keeps
  <2> QED  BY <1>2, <2>1, <2>3 DEF Supported
<1> HIDE DEF probed
<1>10. \A r : r \in needed <=> probed # {} /\ (r \in glob \/ \E t \in probed : r \in Walk(V, t))
  BY DEF NeededFor, glob
<1> HIDE DEF needed
<1>11. needed \subseteq DOMAIN V
  BY <1>4, <1>7, <1>9, <1>10
<1>12. ASSUME NEW r, NEW A, NEW B, A \subseteq B, Supported(c, r, A) PROVE Supported(c, r, B)
  BY <1>12 DEF Supported
<1>13. ASSUME NEW r \in needed PROVE Supported(c, r, needed)
  <2>1. glob \subseteq needed /\ \A t \in probed : Walk(V, t) \subseteq needed
    BY <1>10
  <2>2. CASE r \in glob
    BY <1>8, <1>12, <2>1, <2>2
  <2>3. CASE \E t \in probed : r \in Walk(V, t)
    BY <1>9, <1>12, <2>1, <2>3
  <2> QED  BY <1>10, <2>2, <2>3
<1> QED  BY <1>11, <1>13 DEF needed, probed, V

\* The first of some places is one of them, and there is none before it
LEMMA MinIs ==
    ASSUME NEW n \in Nat, NEW I \in SUBSET (1 .. n), I # {}
    PROVE  Min(I) \in I /\ \A j \in I : Min(I) <= j
<1>1. I \subseteq Nat
  OBVIOUS
<1>2. PICK x \in I : \A y \in I : x <= y
  BY <1>1, Least
<1> QED  BY <1>2 DEF Min

\* The outbounds of the test instance are of the config, and none was left out
LEMMA PlannedOutbounds ==
    ASSUME NEW c, IsConfig(c), NEW left
    PROVE  Plan(c, left).order \in Seq(DOMAIN c.nodes \ left)
<1> DEFINE V == Visits(c, left)
           needed == NeededFor(c, V, Measurable(c, left, V))
           P == {i \in DOMAIN c.order : Out(c.order[i]) \in needed}
           o == Plan(c, left).order
           S == DOMAIN c.nodes \ left
<1>1. needed \subseteq DOMAIN V
  BY NeededIs
<1>2. \A t : Out(t) \in DOMAIN V => t \in S
  BY VisitsAre DEF OutProblem
<1>3. o = At(c.order, P)
  BY DEF Plan, PlanFor, PlanWith
<1>4. c.order \in Seq(ToSet(c.order)) /\ P \in SUBSET DOMAIN c.order
  BY DEF IsConfig
<1> HIDE DEF V, needed, o, S
<1>5. \A i \in P : c.order[i] \in S
  BY <1>1, <1>2
<1> HIDE DEF P
<1>6. o \in Seq(ToSet(c.order)) /\ Len(o) = Cardinality(P) /\ \E f : Lists(c.order, P, o, f)
  BY <1>3, <1>4, Sublist
<1>7. PICK f : Lists(c.order, P, o, f)
  BY <1>6
<1>8. DOMAIN o = 1 .. Len(o) /\ Len(o) \in Nat /\ o = [k \in 1 .. Len(o) |-> o[k]]
  BY <1>6
<1>9. \A k \in 1 .. Len(o) : o[k] \in S
  BY <1>5, <1>6, <1>7 DEF Lists
<1>10. [k \in 1 .. Len(o) |-> o[k]] \in Seq(S)
  BY <1>8, <1>9
<1> QED  BY <1>8, <1>10 DEF o, S

\* What a start has learnt: it leaves out only what sing-box cannot create, at
\* most so many of them, and gives up when there are more.
PlanInv ==
    /\ cfg \in Configs /\ broken \in SUBSET DOMAIN cfg.nodes /\ failed \in SUBSET broken
    /\ Cardinality(failed) <= Retries
    /\ phase = "toomany" => Cardinality(broken) > Retries

\* A round of the retry keeps the invariant: an outbound it leaves out was broken
LEMMA StepPlans == ASSUME PlanInv, [ProbeNext]_planVars PROVE PlanInv'
<1> USE DEF PlanInv
<1>1. Retries \in Nat /\ IsConfig(cfg) /\ IsFiniteSet(DOMAIN cfg.nodes)
  <2>1. \A c \in Configs : IsConfig(c)
    BY ConfigAssumption DEF ConfigAssumption
  <2>2. IsConfig(cfg) => IsFiniteSet(DOMAIN cfg.nodes)
    BY DEF IsConfig
  <2> QED  BY <2>1, <2>2, ConfigAssumption DEF ConfigAssumption
<1>2. IsFiniteSet(broken) /\ IsFiniteSet(failed) /\ Cardinality(broken) \in Nat /\ Cardinality(failed) \in Nat
  BY <1>1, FS_Subset, FS_CardinalityType
<1>3. CASE ExcludeOne
  <2> DEFINE plan == Plan(cfg, failed)
             I == {i \in 1 .. Len(plan.order) : plan.order[i] \in broken}
  <2>1. /\ I # {} /\ UNCHANGED <<cfg, broken, again>>
        /\ IF Cardinality(failed) < Retries
           THEN failed' = failed \cup {plan.order[Min(I)]} /\ phase' = phase
           ELSE failed' = failed /\ phase' = "toomany"
    <3>1. SelectInSeq(plan.order, LAMBDA t : t \in broken) = IF I # {} THEN Min(I) ELSE 0
      BY DEF SelectInSeq
    <3>2. /\ SelectInSeq(plan.order, LAMBDA t : t \in broken) # 0
          /\ IF Cardinality(failed) < Retries
             THEN failed' = failed \cup {plan.order[SelectInSeq(plan.order, LAMBDA t : t \in broken)]} /\ phase' = phase
             ELSE failed' = failed /\ phase' = "toomany"
          /\ UNCHANGED <<cfg, broken, again>>
      BY <1>3 DEF ExcludeOne
    <3> HIDE DEF plan, I
    <3> QED  BY <3>1, <3>2
  <2>3. plan.order \in Seq(DOMAIN cfg.nodes \ failed)
    BY <1>1, PlannedOutbounds
  <2>2. PICK i \in I : i = Min(I)
    <3>1. Len(plan.order) \in Nat
      BY <2>3
    <3>2. I \in SUBSET (1 .. Len(plan.order))
      OBVIOUS
    <3> HIDE DEF plan, I
    <3> QED  BY <2>1, <3>1, <3>2, MinIs
  <2>4. plan.order[i] \in broken /\ plan.order[i] \notin failed
    <3>1. i \in 1 .. Len(plan.order) /\ plan.order[i] \in broken
      OBVIOUS
    <3>2. plan.order[i] \in DOMAIN cfg.nodes \ failed
      BY <2>3, <3>1
    <3> QED  BY <3>1, <3>2
  <2> HIDE DEF plan, I
  <2>5. Cardinality(failed \cup {plan.order[i]}) = Cardinality(failed) + 1 /\ failed \cup {plan.order[i]} \in SUBSET broken
    BY <1>2, <2>4, FS_AddElement
  <2>6. CASE Cardinality(failed) < Retries
    <3>1. failed' = failed \cup {plan.order[i]} /\ phase' = phase /\ UNCHANGED <<cfg, broken, again>>
      BY <2>1, <2>2, <2>6
    <3>2. Cardinality(failed') <= Retries /\ failed' \in SUBSET broken
      BY <1>1, <1>2, <2>5, <2>6, <3>1
    <3> QED  BY <3>1, <3>2
  <2>7. CASE ~(Cardinality(failed) < Retries)
    <3>1. Cardinality(failed) + 1 <= Cardinality(broken)
      BY <1>2, <2>5, FS_Subset
    <3> QED  BY <1>1, <1>2, <2>1, <2>7, <3>1
  <2> QED  BY <2>6, <2>7
<1>4. CASE UNCHANGED <<cfg, broken, failed>> /\ phase' # "toomany"
  BY <1>4
<1>5. CASE UNCHANGED planVars
  BY <1>5 DEF planVars
<1>6. NothingLeft \/ (\E why \in {"port", "stdin"} : StartAgain(why)) \/ Up \/ GivenUp
        => UNCHANGED <<cfg, broken, failed>> /\ phase' # "toomany"
  BY DEF NothingLeft, StartAgain, Up, GivenUp, Launching
<1> QED  BY <1>3, <1>4, <1>5, <1>6 DEF ProbeNext

\* The first round has left out nothing
LEMMA StartPlans == ProbeInit => PlanInv
<1>1. Cardinality({}) = 0 /\ Retries \in Nat
  BY ConfigAssumption, FS_EmptySet DEF ConfigAssumption
<1> QED  BY <1>1 DEF ProbeInit, PlanInv

\* Within the retries, every outbound that needs nothing broken is measured
LEMMA HealthyMeasured == PlanInv => HealthyAreMeasured
<1> SUFFICES ASSUME PlanInv PROVE HealthyAreMeasured
  OBVIOUS
<1>1. IsConfig(cfg) /\ broken \in SUBSET DOMAIN cfg.nodes /\ failed \in SUBSET broken
  BY ConfigAssumption DEF PlanInv, ConfigAssumption
<1>2. ASSUME NEW t \in Healthy PROVE t \in Testable(cfg, failed)
  <2>1. t \in Measurable(cfg, {}, Visits(cfg, {})) /\ Walk(Visits(cfg, {}), t) \cap Outs(broken) = {}
    BY <1>2 DEF Healthy, Unbroken
  <2> QED  BY <1>1, <2>1, HealthyStay
<1>3. phase = "toomany" => Cardinality(broken) > Retries
  BY DEF PlanInv
<1> QED  BY <1>2, <1>3 DEF HealthyAreMeasured

\* For any config and any outbounds sing-box cannot create: what stands on none
\* of them is measured, and the test gives up only when they are more than it
\* may leave out (Measure, start and the plans of the restarts).
THEOREM HealthyMeasuredAlways == ProbeSpec => []HealthyAreMeasured
BY StartPlans, StepPlans, HealthyMeasured, PTL DEF ProbeSpec

\* The rule that decides for an outbound is the first that could, 0 for none
Deciding(c, tag, k) ==
    /\ ~PassedOver(c, c.rules[k], tag)
    /\ ~(ByOutboundOnly(c.rules[k]) /\ c.rules[k].action = "route-options")
DecidedAt(c, tag, i) ==
    /\ i \in 0 .. Len(c.rules) /\ RuleResolution(c, tag) = Decided(c, tag, i)
    /\ i # 0 => Deciding(c, tag, i)
    /\ \A k \in 1 .. Len(c.rules) : i = 0 \/ k < i => ~Deciding(c, tag, k)

\* There is such a first rule, or none decides
LEMMA RuleIs == ASSUME NEW c, IsConfig(c), NEW tag PROVE \E i : DecidedAt(c, tag, i)
<1> DEFINE I == {i \in 1 .. Len(c.rules) : Deciding(c, tag, i)}
           i == IF I # {} THEN Min(I) ELSE 0
<1>1. RuleResolution(c, tag) = Decided(c, tag, i)
  BY DEF RuleResolution, SelectInSeq, Deciding
<1>2. Len(c.rules) \in Nat
  BY DEF IsConfig
<1>3. I # {} => Min(I) \in I /\ \A k \in I : Min(I) <= k
  <2>1. I \in SUBSET (1 .. Len(c.rules))
    OBVIOUS
  <2> HIDE DEF I
  <2> QED  BY <1>2, <2>1, MinIs
<1>4. i \in 0 .. Len(c.rules) /\ (i # 0 => Deciding(c, tag, i))
  BY <1>2, <1>3
<1>5. ASSUME NEW k \in 1 .. Len(c.rules), i = 0 \/ k < i PROVE ~Deciding(c, tag, k)
  <2>1. i # 0 => I # {} /\ i = Min(I) /\ i \in Nat
    BY <1>2, <1>4
  <2>2. i = 0 => I = {}
    <3>1. I # {} => Min(I) \in 1 .. Len(c.rules)
      BY <1>3
    <3> HIDE DEF I
    <3> QED  BY <3>1
  <2>3. Deciding(c, tag, k) => k \in I
    OBVIOUS
  <2> HIDE DEF I, i
  <2> QED  BY <1>2, <1>3, <1>5, <2>1, <2>2, <2>3
<1> QED  BY <1>1, <1>4, <1>5 DEF DecidedAt

\* The elements of a list at some places
LEMMA AtElements ==
    ASSUME NEW s, s \in Seq(ToSet(s)), NEW P \in SUBSET DOMAIN s
    PROVE  /\ At(s, P) \in Seq(ToSet(s)) /\ Len(At(s, P)) = Cardinality(P)
           /\ \A k \in DOMAIN At(s, P) : \E i \in P : At(s, P)[k] = s[i]
           /\ \A i \in P : \E k \in DOMAIN At(s, P) : At(s, P)[k] = s[i]
           /\ ToSet(At(s, P)) = {s[i] : i \in P}
<1> DEFINE t == At(s, P)
<1>1. t \in Seq(ToSet(s)) /\ Len(t) = Cardinality(P) /\ \E f : Lists(s, P, t, f)
  BY Sublist
<1> HIDE DEF t
<1>2. PICK f : Lists(s, P, t, f)
  BY <1>1
<1>3. DOMAIN t = 1 .. Cardinality(P)
  BY <1>1
<1>4. \A k \in DOMAIN t : \E i \in P : t[k] = s[i]
  BY <1>2, <1>3 DEF Lists
<1>5. \A i \in P : \E k \in DOMAIN t : t[k] = s[i]
  BY <1>2, <1>3 DEF Lists
<1>6. ToSet(t) = {s[i] : i \in P}
  <2>1. ToSet(t) = {t[k] : k \in DOMAIN t}
    BY DEF ToSet
  <2> QED  BY <1>4, <1>5, <2>1
<1> QED  BY <1>1, <1>4, <1>5, <1>6 DEF t

\* A DNS server is found by its tag
LEMMA ServerIs ==
    ASSUME NEW c, IsConfig(c), NEW s \in ToSet(c.servers), s.tag # None
    PROVE  Server(c, s.tag) = s
<1>1. \A x : x \in ToSet(c.servers) <=> \E i \in DOMAIN c.servers : x = c.servers[i]
  BY DEF ToSet
<1>2. PICK i \in DOMAIN c.servers : s = c.servers[i]
  BY <1>1
<1>3. \A j \in DOMAIN c.servers : c.servers[i].tag = c.servers[j].tag => i = j
  BY <1>2 DEF IsConfig
<1>4. \A x \in ToSet(c.servers) : x.tag = s.tag => x = s
  BY <1>1, <1>2, <1>3
<1> HIDE DEF ToSet
<1>5. \E x \in ToSet(c.servers) : x.tag = s.tag
  OBVIOUS
<1> QED  BY <1>4, <1>5 DEF Server

\* What a rule that is copied sends a name to is among what is needed
CopiedFor(c, needed) ==
    {t \in {t \in DOMAIN c.nodes : Out(t) \in needed /\ RulesResolve(c, t)} : RuleResolution(c, t).ok}
\* The server of a rule that is copied is among what is needed
LEMMA CopiedRules ==
    ASSUME NEW c, IsConfig(c), NEW needed, \A r \in needed : Next1(c, r) \subseteq needed,
           \A t : Dns(t) \in needed => t # None,
           NEW k \in DOMAIN ProbeRules(c, needed), ProbeRules(c, needed)[k].action = "route"
    PROVE  Dns(ProbeRules(c, needed)[k].server) \in needed /\ ProbeRules(c, needed)[k].server # None
<1> DEFINE P == UNION {RuleResolution(c, t).copied : t \in CopiedFor(c, needed)}
           rules == ProbeRules(c, needed)
<1>1. rules = At(c.rules, P)
  BY DEF ProbeRules, CopiedFor
<1>2. c.rules \in Seq(ToSet(c.rules)) /\ DOMAIN c.rules = 1 .. Len(c.rules) /\ Len(c.rules) \in Nat
  BY DEF IsConfig
<1>3. ASSUME NEW t \in CopiedFor(c, needed), NEW i \in RuleResolution(c, t).copied
      PROVE  /\ i \in DOMAIN c.rules
             /\ c.rules[i].action = "route" => Dns(c.rules[i].server) \in needed /\ c.rules[i].server # None
  <2>1. PICK d : DecidedAt(c, t, d)
    BY RuleIs
  <2>2. RuleResolution(c, t) = Decided(c, t, d) /\ d \in 0 .. Len(c.rules)
    BY <2>1 DEF DecidedAt
  <2>3. i \in DOMAIN c.rules
    BY <1>2, <1>3, <2>2 DEF Decided
  <2>4. CASE i # d \/ d = 0
    <3>1. (d = 0 \/ i < d) /\ ~PassedOver(c, c.rules[i], t)
      BY <1>3, <2>2, <2>4 DEF Decided
    <3>2. ~Deciding(c, t, i)
      BY <1>2, <2>1, <2>3, <3>1 DEF DecidedAt
    <3>3. c.rules[i].action = "route-options"
      BY <3>1, <3>2 DEF Deciding
    <3> QED  BY <2>3, <3>3
  <2>5. CASE i = d /\ d # 0
    <3>1. t \in DOMAIN c.nodes /\ Out(t) \in needed /\ RulesResolve(c, t) /\ RuleResolution(c, t).ok
      BY DEF CopiedFor
    <3>2. NameResolution(c, t).server = c.rules[d].server /\ c.rules[d].server # None
      <4>1. Decided(c, t, d).server = c.rules[d].server
        BY <2>5 DEF Decided
      <4>2. Decided(c, t, d).ok <=> ByOutboundOnly(c.rules[d]) /\ c.rules[d].action = "route" /\ c.rules[d].server # None
        BY <2>5, Zenon DEF Decided
      <4> QED  BY <2>2, <3>1, <4>1, <4>2 DEF NameResolution
    <3>3. Dns(c.rules[d].server) \in Next1(c, Out(t))
      BY <3>2, References DEF Next1
    <3> QED  BY <2>3, <2>5, <3>1, <3>2, <3>3
  <2> QED  BY <2>4, <2>5
<1>4. P \in SUBSET DOMAIN c.rules
  BY <1>3
<1>5. \A i \in P : c.rules[i].action = "route" => Dns(c.rules[i].server) \in needed /\ c.rules[i].server # None
  BY <1>3
<1> HIDE DEF P, rules
<1>6. k \in DOMAIN rules
  BY DEF rules
<1>7. \E i \in P : rules[k] = c.rules[i]
  <2> DEFINE q == c.rules
  <2>1. q \in Seq(ToSet(q)) /\ P \in SUBSET DOMAIN q
    BY <1>2, <1>4
  <2> HIDE DEF q
  <2>2. \A j \in DOMAIN At(q, P) : \E i \in P : At(q, P)[j] = q[i]
    BY <2>1, AtElements
  <2> QED  BY <1>1, <1>6, <2>2 DEF q
<1>8. rules[k].action = "route"
  BY DEF rules
<1> QED  BY <1>5, <1>7, <1>8 DEF rules

\* The parts of the config with what is needed, each in its terms
LEMMA PlanParts ==
    ASSUME NEW c, IsConfig(c), NEW needed
    PROVE  LET p == PlanWith(c, needed)
           IN  /\ DOMAIN p.nodes = {t \in DOMAIN c.nodes : Out(t) \in needed}
               /\ \A t \in DOMAIN p.nodes :
                    /\ p.nodes[t].type = c.nodes[t].type /\ p.nodes[t].detour = c.nodes[t].detour
                    /\ p.nodes[t].resolver = c.nodes[t].resolver /\ p.nodes[t].byName = c.nodes[t].byName
                    /\ p.nodes[t].members = {m \in c.nodes[t].members : Out(m) \in needed}
                    /\ p.nodes[t].default = IF Out(c.nodes[t].default) \in needed THEN c.nodes[t].default ELSE None
               /\ ToSet(p.servers) = {s \in ToSet(c.servers) : Dns(s.tag) \in needed}
               /\ p.final = (IF Dns(DefaultServer(c)) \in needed THEN c.final ELSE None)
               /\ p.resolver = (IF Dns(c.resolver) \in needed THEN c.resolver ELSE None)
               /\ p.rules = ProbeRules(c, needed) /\ p.routeFinal = LegacyDefaultDetour(c, needed)
<1> DEFINE p == PlanWith(c, needed)
           P == {i \in DOMAIN c.servers : Dns(c.servers[i].tag) \in needed}
<1>1. /\ p.nodes = [t \in {t \in DOMAIN c.nodes : Out(t) \in needed} |-> ProbeOutbound(c.nodes[t], needed)]
      /\ p.servers = At(c.servers, P)
      /\ p.final = (IF Dns(DefaultServer(c)) \in needed THEN c.final ELSE None)
      /\ p.resolver = (IF Dns(c.resolver) \in needed THEN c.resolver ELSE None)
      /\ p.rules = ProbeRules(c, needed) /\ p.routeFinal = LegacyDefaultDetour(c, needed)
  BY DEF PlanWith
<1>2. ASSUME NEW o, IsNode(o)
      PROVE  /\ ProbeOutbound(o, needed).type = o.type /\ ProbeOutbound(o, needed).detour = o.detour
             /\ ProbeOutbound(o, needed).resolver = o.resolver /\ ProbeOutbound(o, needed).byName = o.byName
             /\ ProbeOutbound(o, needed).members = {m \in o.members : Out(m) \in needed}
             /\ ProbeOutbound(o, needed).default = IF Out(o.default) \in needed THEN o.default ELSE None
  <2>1. o = [type |-> o.type, detour |-> o.detour, members |-> o.members, default |-> o.default,
             resolver |-> o.resolver, byName |-> o.byName]
    BY <1>2 DEF IsNode
  <2> QED  BY <2>1 DEF ProbeOutbound
<1>3. \A t \in DOMAIN c.nodes : IsNode(c.nodes[t])
  BY DEF IsConfig
<1>4. ToSet(p.servers) = {s \in ToSet(c.servers) : Dns(s.tag) \in needed}
  <2>1. ToSet(p.servers) = {c.servers[i] : i \in P}
    <3>1. c.servers \in Seq(ToSet(c.servers)) /\ P \in SUBSET DOMAIN c.servers
      BY DEF IsConfig
    <3>2. p.servers = At(c.servers, P)
      BY <1>1
    <3> HIDE DEF p, P
    <3>3. ToSet(At(c.servers, P)) = {c.servers[i] : i \in P}
      BY <3>1, AtElements
    <3> QED  BY <3>2, <3>3
  <2>2. ToSet(c.servers) = {c.servers[i] : i \in DOMAIN c.servers}
    BY DEF ToSet
  <2> HIDE DEF p
  <2> QED  BY <2>1, <2>2
<1> HIDE DEF p, P
<1>5. DOMAIN p.nodes = {t \in DOMAIN c.nodes : Out(t) \in needed} /\ \A t \in DOMAIN p.nodes : p.nodes[t] = ProbeOutbound(c.nodes[t], needed)
  BY <1>1
<1>6. \A t \in DOMAIN p.nodes :
        /\ p.nodes[t].type = c.nodes[t].type /\ p.nodes[t].detour = c.nodes[t].detour
        /\ p.nodes[t].resolver = c.nodes[t].resolver /\ p.nodes[t].byName = c.nodes[t].byName
        /\ p.nodes[t].members = {m \in c.nodes[t].members : Out(m) \in needed}
        /\ p.nodes[t].default = IF Out(c.nodes[t].default) \in needed THEN c.nodes[t].default ELSE None
  BY <1>2, <1>3, <1>5
<1> QED  BY <1>1, <1>4, <1>5, <1>6 DEF p

\* Whatever was left out, the plan carries all it refers to
LEMMA PlanCloses ==
    ASSUME NEW c, IsConfig(c), NEW left
    PROVE  ClosedConfig(Plan(c, left))
<1> DEFINE V == Visits(c, left)
           needed == NeededFor(c, V, Measurable(c, left, V))
           p == PlanWith(c, needed)
           tags == DOMAIN p.nodes
           dns == ServerTags(p)
<1>1. Plan(c, left) = p
  BY DEF Plan, PlanFor
<1>2. needed \subseteq DOMAIN V /\ \A r \in needed : Supported(c, r, needed)
  BY NeededIs
<1>3. /\ \A t : Out(t) \in DOMAIN V => t \in DOMAIN c.nodes
      /\ \A t : Dns(t) \in DOMAIN V => t \in ServerTags(c) \ {None}
  BY VisitsAre
<1> HIDE DEF needed, V
<1>4. /\ DOMAIN p.nodes = {t \in DOMAIN c.nodes : Out(t) \in needed}
      /\ \A t \in DOMAIN p.nodes :
                    /\ p.nodes[t].type = c.nodes[t].type /\ p.nodes[t].detour = c.nodes[t].detour
                    /\ p.nodes[t].resolver = c.nodes[t].resolver /\ p.nodes[t].byName = c.nodes[t].byName
                    /\ p.nodes[t].members = {m \in c.nodes[t].members : Out(m) \in needed}
                    /\ p.nodes[t].default = IF Out(c.nodes[t].default) \in needed THEN c.nodes[t].default ELSE None
      /\ ToSet(p.servers) = {s \in ToSet(c.servers) : Dns(s.tag) \in needed}
      /\ p.final = (IF Dns(DefaultServer(c)) \in needed THEN c.final ELSE None)
      /\ p.resolver = (IF Dns(c.resolver) \in needed THEN c.resolver ELSE None)
      /\ p.rules = ProbeRules(c, needed) /\ p.routeFinal = LegacyDefaultDetour(c, needed)
  BY PlanParts
<1> HIDE DEF p
<1>5. \A t : Out(t) \in needed => t \in tags
  BY <1>2, <1>3, <1>4
<1>6. \A t : Dns(t) \in needed => t \in dns
  <2> SUFFICES ASSUME NEW t, Dns(t) \in needed PROVE t \in dns
    OBVIOUS
  <2>1. t \in ServerTags(c)
    BY <1>2, <1>3
  <2> QED  BY <1>4, <2>1 DEF ServerTags
<1> HIDE DEF tags, dns
<1>7. \A t : Outs({t}) \subseteq needed => t \in NoneOr(tags)
  <2> SUFFICES ASSUME NEW t, Outs({t}) \subseteq needed PROVE t = None \/ t \in tags
    BY DEF NoneOr
  <2>1. t # None => Out(t) \in Outs({t})
    BY References
  <2> QED  BY <1>5, <2>1
<1>8. \A t, T : t \in T /\ Dnss(T) \subseteq needed => t \in NoneOr(dns)
  <2> SUFFICES ASSUME NEW t, NEW T, t \in T, Dnss(T) \subseteq needed PROVE t = None \/ t \in dns
    BY DEF NoneOr
  <2>1. t # None => Dns(t) \in Dnss(T)
    BY References
  <2> QED  BY <1>6, <2>1
<1>9. \A r \in needed : Next1(c, r) \subseteq needed
  BY <1>2 DEF Supported
<1>10. ASSUME NEW t \in tags
       PROVE  LET o == p.nodes[t]
              IN  /\ o.detour \in NoneOr(tags) /\ o.resolver \in NoneOr(dns) /\ o.members \subseteq tags
                  /\ o.type = "selector" => o.members # {} /\ o.default \in NoneOr(o.members)
  <2> DEFINE old == c.nodes[t]
  <2>1. t \in DOMAIN c.nodes /\ Out(t) \in needed
    BY <1>4 DEF tags
  <2>2. Outs({old.detour}) \subseteq needed /\ Dnss({old.resolver, NameResolution(c, t).server}) \subseteq needed
    BY <1>9, <2>1, References DEF Next1
  <2>3. p.nodes[t].members \subseteq tags
    BY <1>4, <1>5 DEF tags
  <2>4. old.type = "selector" => p.nodes[t].members # {}
    <3> SUFFICES ASSUME old.type = "selector" PROVE p.nodes[t].members # {}
      OBVIOUS
    <3>1. IsGroup(c, Out(t)) /\ Members(c, Out(t)) = Outs(old.members)
      BY References DEF IsGroup, Members
    <3>2. PICK r \in Outs(old.members) : r \in needed
      BY <1>2, <2>1, <3>1 DEF Supported
    <3>3. PICK m \in old.members : r = Out(m)
      BY DEF Outs
    <3> QED  BY <1>4, <3>2, <3>3 DEF tags
  <2>5. p.nodes[t].default \in NoneOr(p.nodes[t].members)
    <3>1. old.default \in old.members \cup {None}
      BY <2>1 DEF IsConfig, IsNode
    <3> QED  BY <1>4, <3>1 DEF NoneOr, tags
  <2>6. /\ p.nodes[t].type = old.type /\ p.nodes[t].detour = old.detour /\ p.nodes[t].resolver = old.resolver
    BY <1>4 DEF tags
  <2>7. old.detour \in NoneOr(tags) /\ old.resolver \in NoneOr(dns)
    BY <1>7, <1>8, <2>2
  <2> QED  BY <2>3, <2>4, <2>5, <2>6, <2>7
<1>11. ASSUME NEW s \in ToSet(p.servers) PROVE s.detour \in NoneOr(tags) /\ s.resolver \in NoneOr(dns)
  <2>1. s \in ToSet(c.servers) /\ Dns(s.tag) \in needed
    BY <1>4
  <2>2. s.tag # None
    BY <1>2, <1>3, <2>1
  <2>3. Server(c, s.tag) = s
    BY <2>1, <2>2, ServerIs
  <2>4. Outs(DialsThrough(c, s)) \subseteq needed /\ Dnss({s.resolver}) \subseteq needed
    <3>1. Next1(c, Dns(s.tag)) \subseteq needed
      BY <1>9, <2>1
    <3>2. Next1(c, Dns(s.tag)) = Outs(DialsThrough(c, s)) \cup Dnss({s.resolver})
      BY <2>3, References DEF Next1
    <3> QED  BY <3>1, <3>2
  <2>5. LegacyDials(s) => s.detour \in NoneOr(tags)
    BY DEF LegacyDials, NoneOr
  <2>6. ~LegacyDials(s) => s.detour \in NoneOr(tags)
    BY <1>7, <2>4 DEF DialsThrough
  <2> QED  BY <1>8, <2>4, <2>5, <2>6
<1>12. p.final \in NoneOr(dns) /\ p.resolver \in NoneOr(dns) /\ p.routeFinal \in NoneOr(tags)
  <2>1. c.final # None => DefaultServer(c) = c.final
    BY DEF DefaultServer
  <2>2. LegacyDefaultDetour(c, needed) \in NoneOr(tags)
    BY <1>5 DEF LegacyDefaultDetour, NoneOr
  <2> QED  BY <1>4, <1>6, <2>1, <2>2 DEF NoneOr
<1>13. ASSUME NEW k \in DOMAIN p.rules, p.rules[k].action = "route" PROVE p.rules[k].server \in dns
  <2>1. \A t : Dns(t) \in needed => t # None
    BY <1>2, <1>3
  <2>2. Dns(p.rules[k].server) \in needed
    BY <1>4, <1>9, <1>13, <2>1, CopiedRules
  <2> QED  BY <1>6, <2>2
<1>14. ClosedConfig(p)
  BY <1>10, <1>11, <1>12, <1>13 DEF ClosedConfig, tags, dns
<1> QED  BY <1>1, <1>14

\* For any config and whatever was left out of it: the test instance's config
\* refers to nothing it does not carry (buildProbePlan).
THEOREM PlansAlwaysStart == ProbeSpec => []PlanStarts
<1>1. PlanInv => PlanStarts
  <2> SUFFICES ASSUME PlanInv PROVE PlanStarts
    OBVIOUS
  <2>1. IsConfig(cfg)
    BY ConfigAssumption DEF PlanInv, ConfigAssumption
  <2> QED  BY <2>1, PlanCloses DEF PlanStarts
<1> QED  BY <1>1, StartPlans, StepPlans, PTL DEF ProbeSpec

\* The DNS servers that are needed are the config's, each as it is
LEMMA PlanServers ==
    ASSUME NEW c, IsConfig(c), NEW needed, NEW t, t # None
    PROVE  LET p == PlanWith(c, needed)
           IN  /\ t \in ServerTags(p) <=> t \in ServerTags(c) /\ Dns(t) \in needed
               /\ t \in ServerTags(p) => Server(p, t) = Server(c, t)
<1> DEFINE p == PlanWith(c, needed)
<1>1. ToSet(p.servers) = {s \in ToSet(c.servers) : Dns(s.tag) \in needed}
  BY PlanParts
<1> HIDE DEF p
<1>2. t \in ServerTags(p) <=> \E s \in ToSet(c.servers) : s.tag = t /\ Dns(t) \in needed
  BY <1>1 DEF ServerTags
<1>3. t \in ServerTags(c) <=> \E s \in ToSet(c.servers) : s.tag = t
  BY DEF ServerTags
<1>4. ASSUME NEW s \in ToSet(c.servers), s.tag = t, Dns(t) \in needed PROVE Server(p, t) = s /\ Server(c, t) = s
  <2>1. \A x \in ToSet(c.servers) : x.tag = t => x = s
    <3>1. \A x \in ToSet(c.servers) : x.tag = t => Server(c, t) = x
      BY ServerIs
    <3> QED  BY <1>4, <3>1
  <2>2. s \in ToSet(p.servers)
    BY <1>1, <1>4
  <2>3. \A x \in ToSet(p.servers) : x.tag = t => x = s
    BY <1>1, <2>1
  <2> HIDE DEF ToSet
  <2> QED  BY <1>4, <2>1, <2>2, <2>3 DEF Server
<1>5. /\ t \in ServerTags(p) <=> t \in ServerTags(c) /\ Dns(t) \in needed
      /\ t \in ServerTags(p) => Server(p, t) = Server(c, t)
  BY <1>2, <1>3, <1>4
<1> QED  BY <1>5 DEF p

\* The list keeps its head when its place is kept, and none is empty
LEMMA AtHead ==
    ASSUME NEW s, s \in Seq(ToSet(s)), NEW P \in SUBSET DOMAIN s
    PROVE  /\ 1 \in P => At(s, P) # <<>> /\ Head(At(s, P)) = Head(s)
           /\ s = <<>> => At(s, P) = <<>>
           /\ Len(At(s, P)) \in Nat /\ Len(s) \in Nat /\ Len(At(s, P)) <= Len(s)
<1> DEFINE t == At(s, P)
<1>1. t \in Seq(ToSet(s)) /\ Len(t) = Cardinality(P) /\ Cardinality(P) \in Nat /\ \E f : Lists(s, P, t, f)
  BY Sublist
<1>2. DOMAIN s = 1 .. Len(s) /\ Len(s) \in Nat
  OBVIOUS
<1>3. Cardinality(P) <= Len(s)
  <2>1. IsFiniteSet(1 .. Len(s)) /\ Cardinality(1 .. Len(s)) = Len(s)
    <3> DEFINE n == Len(s)
    <3>1. n \in Nat /\ 1 \in Int /\ n \in Int
      BY <1>2
    <3> HIDE DEF n
    <3>2. IsFiniteSet(1 .. n) /\ Cardinality(1 .. n) = IF 1 > n THEN 0 ELSE n - 1 + 1
      BY <3>1, FS_Interval
    <3>3. (IF 1 > n THEN 0 ELSE n - 1 + 1) = n
      BY <3>1
    <3> QED  BY <3>2, <3>3 DEF n
  <2> QED  BY <1>2, <2>1, FS_Subset
<1> HIDE DEF t
<1>4. PICK f : Lists(s, P, t, f)
  BY <1>1
<1>5. ASSUME 1 \in P PROVE t # <<>> /\ Head(t) = Head(s)
  <2>1. PICK k \in 1 .. Cardinality(P) : f[k] = 1
    BY <1>4, <1>5 DEF Lists
  <2>2. 1 \in 1 .. Cardinality(P) /\ f[1] \in 1 .. Len(s)
    BY <1>1, <1>2, <1>4, <2>1 DEF Lists
  <2>3. k = 1
    <3>1. 1 < k => f[1] < f[k]
      BY <1>4, <2>1, <2>2 DEF Lists
    <3> QED  BY <1>1, <1>2, <2>1, <2>2, <3>1
  <2>4. t[1] = s[1]
    BY <1>4, <2>1, <2>2, <2>3 DEF Lists
  <2> QED  BY <1>1, <1>2, <1>5, <2>2, <2>4
<1>6. ASSUME s = <<>> PROVE t = <<>>
  BY <1>1, <1>2, <1>3, <1>6
<1> QED  BY <1>1, <1>2, <1>3, <1>5, <1>6 DEF t

\* A default server that is needed stays the default one, and where the config
\* has no server the test instance has none
LEMMA SameDefault ==
    ASSUME NEW c, IsConfig(c), NEW needed, \A t : Dns(t) \in needed => t # None
    PROVE  LET p == PlanWith(c, needed)
           IN  /\ Dns(DefaultServer(c)) \in needed => DefaultServer(p) = DefaultServer(c)
               /\ c.servers = <<>> /\ c.final = None => DefaultServer(p) = None
               /\ Len(p.servers) \in Nat /\ Len(c.servers) \in Nat /\ Len(p.servers) <= Len(c.servers)
<1> DEFINE p == PlanWith(c, needed)
           P == {i \in DOMAIN c.servers : Dns(c.servers[i].tag) \in needed}
<1>1. p.servers = At(c.servers, P) /\ p.final = (IF Dns(DefaultServer(c)) \in needed THEN c.final ELSE None)
  BY DEF PlanWith
<1>2. c.servers \in Seq(ToSet(c.servers)) /\ P \in SUBSET DOMAIN c.servers
  BY DEF IsConfig
<1>3. DOMAIN c.servers = 1 .. Len(c.servers) /\ Len(c.servers) \in Nat
  BY <1>2
<1>4. 1 \in P <=> c.servers # <<>> /\ Dns(Head(c.servers).tag) \in needed
  <2>1. 1 \in DOMAIN c.servers <=> c.servers # <<>>
    BY <1>2, <1>3
  <2>2. c.servers # <<>> => Head(c.servers) = c.servers[1]
    BY <1>2
  <2> QED  BY <2>1, <2>2
<1> HIDE DEF P, p
<1>5. /\ 1 \in P => p.servers # <<>> /\ Head(p.servers) = Head(c.servers)
      /\ c.servers = <<>> => p.servers = <<>>
      /\ Len(p.servers) \in Nat /\ Len(p.servers) <= Len(c.servers)
  BY <1>1, <1>2, AtHead
<1>6. ASSUME Dns(DefaultServer(c)) \in needed PROVE DefaultServer(p) = DefaultServer(c)
  <2>1. DefaultServer(c) # None /\ p.final = c.final
    BY <1>1, <1>6
  <2> QED  BY <1>4, <1>5, <1>6, <2>1 DEF DefaultServer
<1>7. ASSUME c.servers = <<>>, c.final = None PROVE DefaultServer(p) = None
  BY <1>1, <1>5, <1>7 DEF DefaultServer
<1> QED  BY <1>3, <1>5, <1>6, <1>7 DEF p

\* The rule sing-box goes by is the first that decides
DecidesIn(c, tag, world, rule) ==
    /\ Matches(rule, tag, world) /\ rule.action # "route-options"
    /\ ~(rule.action = "route" /\ SkippedServer(c, rule.server))
\* Where a rule decides and none before it does, sing-box goes by that rule; where
\* none does, by the default server
LEMMA FirstDecides ==
    ASSUME NEW c, c.rules \in Seq(ToSet(c.rules)), NEW tag, NEW world, RulesResolve(c, tag)
    PROVE  /\ (\A k \in DOMAIN c.rules : ~DecidesIn(c, tag, world, c.rules[k]))
                => ResolvedBy(c, tag, world) = DefaultServer(c)
           /\ \A i \in DOMAIN c.rules :
                /\ DecidesIn(c, tag, world, c.rules[i]) /\ c.rules[i].action = "route"
                /\ \A k \in DOMAIN c.rules : k < i => ~DecidesIn(c, tag, world, c.rules[k])
                => ResolvedBy(c, tag, world) = c.rules[i].server
<1> DEFINE I == {k \in 1 .. Len(c.rules) : DecidesIn(c, tag, world, c.rules[k])}
           first == IF I # {} THEN Min(I) ELSE 0
<1>1. ResolvedBy(c, tag, world) = IF first = 0 THEN DefaultServer(c)
                                  ELSE IF c.rules[first].action = "route" THEN c.rules[first].server ELSE "rejected"
  BY DEF ResolvedBy, SelectInSeq, DecidesIn
<1>2. DOMAIN c.rules = 1 .. Len(c.rules) /\ Len(c.rules) \in Nat
  OBVIOUS
<1>3. I # {} => Min(I) \in I /\ \A j \in I : Min(I) <= j
  <2>1. I \in SUBSET (1 .. Len(c.rules))
    OBVIOUS
  <2> HIDE DEF I
  <2> QED  BY <1>2, <2>1, MinIs
<1>4. (\A k \in DOMAIN c.rules : ~DecidesIn(c, tag, world, c.rules[k])) => first = 0
  BY <1>2
<1>5. ASSUME NEW i \in DOMAIN c.rules, DecidesIn(c, tag, world, c.rules[i]),
             \A k \in DOMAIN c.rules : k < i => ~DecidesIn(c, tag, world, c.rules[k])
      PROVE  first = i /\ i # 0
  <2>1. i \in I /\ I \subseteq Nat
    BY <1>2, <1>5
  <2>2. \A j \in I : j \in DOMAIN c.rules /\ DecidesIn(c, tag, world, c.rules[j])
    BY <1>2
  <2>3. 0 \notin I
    BY <1>2
  <2> HIDE DEF I
  <2>4. Min(I) \in I /\ Min(I) <= i /\ ~(Min(I) < i)
    BY <1>3, <1>5, <2>1, <2>2
  <2> QED  BY <2>1, <2>3, <2>4
<1> HIDE DEF first
<1> QED  BY <1>1, <1>4, <1>5

\* A rule decides in any world alike: the one that decides in the plan's reading
\* decides for sing-box, the ones before it do not
LEMMA AnyWorld ==
    ASSUME NEW c, IsConfig(c), NEW tag, NEW world, NEW d, DecidedAt(c, tag, d), RuleResolution(c, tag).ok,
           NEW p, \A u : u # None => (u \in ServerTags(p) => u \in ServerTags(c) /\ Server(p, u) = Server(c, u)),
           d # 0 => c.rules[d].server \in ServerTags(p)
    PROVE  /\ \A k \in DOMAIN c.rules : d = 0 \/ k < d => ~DecidesIn(p, tag, world, c.rules[k])
           /\ d # 0 => /\ d \in DOMAIN c.rules /\ c.rules[d].action = "route"
                       /\ DecidesIn(p, tag, world, c.rules[d])
<1>1. DOMAIN c.rules = 1 .. Len(c.rules) /\ Len(c.rules) \in Nat
  BY DEF IsConfig
<1>2. \A k \in DOMAIN c.rules : c.rules[k].inverted \in BOOLEAN
  BY DEF IsConfig, ToSet
<1>3. \A u : u # None /\ SkippedServer(c, u) => SkippedServer(p, u)
  BY DEF SkippedServer
<1>4. ASSUME NEW k \in DOMAIN c.rules, d = 0 \/ k < d PROVE ~DecidesIn(p, tag, world, c.rules[k])
  <2> DEFINE rule == c.rules[k]
  <2>1. ~Deciding(c, tag, k)
    BY <1>1, <1>4 DEF DecidedAt
  <2>2. CASE rule.action = "route" /\ rule.server # None /\ SkippedServer(c, rule.server)
    BY <1>3, <2>2 DEF DecidesIn
  <2>3. CASE rule.outbound # {} /\ ~Names(rule, tag) /\ ~rule.inverted
    <3>1. rule.inverted = FALSE
      BY <1>2, <2>3
    <3>2. ~((rule.outbound = {} \/ Names(rule, tag)) /\ (rule.other => rule \in world))
      BY <2>3
    <3> HIDE DEF rule
    <3>3. ~Matches(rule, tag, world)
      BY <3>1, <3>2 DEF Matches
    <3> QED  BY <3>3 DEF DecidesIn, rule
  <2>4. CASE rule.action = "route-options"
    BY <2>4 DEF DecidesIn
  <2> QED  BY <2>1, <2>2, <2>3, <2>4 DEF Deciding, PassedOver
<1>5. ASSUME d # 0
      PROVE  d \in DOMAIN c.rules /\ c.rules[d].action = "route" /\ DecidesIn(p, tag, world, c.rules[d])
  <2> DEFINE rule == c.rules[d]
  <2>1. d \in DOMAIN c.rules /\ Deciding(c, tag, d) /\ RuleResolution(c, tag) = Decided(c, tag, d)
    BY <1>1, <1>5 DEF DecidedAt
  <2>2. Decided(c, tag, d).ok <=> ByOutboundOnly(rule) /\ rule.action = "route" /\ rule.server # None
    BY <1>5, Zenon DEF Decided
  <2>3. ByOutboundOnly(rule) /\ rule.action = "route" /\ rule.server # None
    BY <2>1, <2>2
  <2>4. ~PassedOver(c, rule, tag)
    BY <2>1 DEF Deciding
  <2> HIDE DEF rule
  <2>5. Names(rule, tag) /\ rule.outbound # {} /\ ~rule.inverted /\ ~rule.other /\ ~SkippedServer(c, rule.server)
    BY <2>3, <2>4 DEF PassedOver, ByOutboundOnly
  <2>6. ~SkippedServer(p, rule.server)
    BY <1>5, <2>3, <2>5 DEF SkippedServer, rule
  <2>7. Matches(rule, tag, world)
    <3>1. rule.inverted = FALSE
      BY <1>2, <2>1, <2>5 DEF rule
    <3>2. ((rule.outbound = {} \/ Names(rule, tag)) /\ (rule.other => rule \in world))
      BY <2>5
    <3> QED  BY <3>1, <3>2 DEF Matches
  <2>8. DecidesIn(p, tag, world, rule)
    BY <2>3, <2>6, <2>7 DEF DecidesIn
  <2> QED  BY <2>1, <2>3, <2>8 DEF rule
<1> QED  BY <1>4, <1>5

\* A rule the plan does not copy, or copies in its place: sing-box goes by the
\* same server in the test instance
LEMMA SameRule ==
    ASSUME NEW c, IsConfig(c), NEW needed, NEW tag \in CopiedFor(c, needed), NEW world,
           \A t : Dns(t) \in needed => t # None, RulesResolve(PlanWith(c, needed), tag),
           NEW d, DecidedAt(c, tag, d), d # 0 => Dns(c.rules[d].server) \in needed /\ c.rules[d].server \in ServerTags(c)
    PROVE  ResolvedBy(PlanWith(c, needed), tag, world) =
             IF d = 0 THEN DefaultServer(PlanWith(c, needed)) ELSE c.rules[d].server
<1> DEFINE p == PlanWith(c, needed)
           P == UNION {RuleResolution(c, t).copied : t \in CopiedFor(c, needed)}
<1>1. p.rules = At(c.rules, P)
  BY PlanParts DEF ProbeRules, CopiedFor
<1>2. c.rules \in Seq(ToSet(c.rules)) /\ DOMAIN c.rules = 1 .. Len(c.rules) /\ Len(c.rules) \in Nat
  BY DEF IsConfig
<1>3. P \in SUBSET DOMAIN c.rules
  <2>1. ASSUME NEW t \in CopiedFor(c, needed), NEW i \in RuleResolution(c, t).copied PROVE i \in DOMAIN c.rules
    <3>1. PICK e : DecidedAt(c, t, e)
      BY RuleIs
    <3> QED  BY <1>2, <2>1, <3>1 DEF DecidedAt, Decided
  <2> QED  BY <2>1
<1>4. d # 0 => d \in P
  <2>1. RuleResolution(c, tag) = Decided(c, tag, d)
    BY DEF DecidedAt
  <2>2. d # 0 => d \in Decided(c, tag, d).copied
    BY DEF Decided
  <2> QED  BY <2>1, <2>2
<1>5. RuleResolution(c, tag).ok
  BY DEF CopiedFor
<1>6. \A u : u # None => (u \in ServerTags(p) => u \in ServerTags(c) /\ Server(p, u) = Server(c, u))
  BY PlanServers
<1>7. d # 0 => c.rules[d].server \in ServerTags(p)
  BY PlanServers
<1> HIDE DEF p, P
<1>8. /\ \A k \in DOMAIN c.rules : d = 0 \/ k < d => ~DecidesIn(p, tag, world, c.rules[k])
      /\ d # 0 => /\ d \in DOMAIN c.rules /\ c.rules[d].action = "route"
                  /\ DecidesIn(p, tag, world, c.rules[d])
  BY <1>5, <1>6, <1>7, AnyWorld
<1>9. p.rules \in Seq(ToSet(c.rules)) /\ Len(p.rules) = Cardinality(P) /\ \E f : Lists(c.rules, P, p.rules, f)
  BY <1>1, <1>2, <1>3, Sublist
<1>10. PICK f : Lists(c.rules, P, p.rules, f)
  BY <1>9
<1>11. DOMAIN p.rules = 1 .. Cardinality(P) /\ p.rules \in Seq(ToSet(p.rules))
  <2>1. DOMAIN p.rules = 1 .. Len(p.rules) /\ Len(p.rules) \in Nat /\ p.rules = [i \in 1 .. Len(p.rules) |-> p.rules[i]]
    BY <1>9
  <2>2. \A i \in 1 .. Len(p.rules) : p.rules[i] \in ToSet(p.rules)
    BY <2>1 DEF ToSet
  <2>3. [i \in 1 .. Len(p.rules) |-> p.rules[i]] \in Seq(ToSet(p.rules))
    BY <2>1, <2>2
  <2> QED  BY <1>9, <2>1, <2>3
<1>12. CASE d = 0
  <2>1. \A k \in DOMAIN p.rules : ~DecidesIn(p, tag, world, p.rules[k])
    BY <1>3, <1>8, <1>10, <1>11, <1>12 DEF Lists
  <2> QED  BY <1>11, <1>12, <2>1, FirstDecides DEF p
<1>13. CASE d # 0
  <2>1. PICK i \in DOMAIN p.rules : f[i] = d
    BY <1>4, <1>10, <1>11, <1>13 DEF Lists
  <2>2. p.rules[i] = c.rules[d]
    BY <1>10, <1>11, <2>1 DEF Lists
  <2>3. ASSUME NEW k \in DOMAIN p.rules, k < i PROVE ~DecidesIn(p, tag, world, p.rules[k])
    <3>1. f[k] < d /\ f[k] \in DOMAIN c.rules /\ p.rules[k] = c.rules[f[k]]
      BY <1>3, <1>10, <1>11, <2>1, <2>3 DEF Lists
    <3> QED  BY <1>8, <3>1
  <2>4. RulesResolve(p, tag)
    BY DEF p
  <2>5. /\ DecidesIn(p, tag, world, p.rules[i]) /\ p.rules[i].action = "route"
        /\ \A k \in DOMAIN p.rules : k < i => ~DecidesIn(p, tag, world, p.rules[k])
    BY <1>8, <1>13, <2>2, <2>3
  <2>6. ResolvedBy(p, tag, world) = p.rules[i].server
    BY <1>11, <2>1, <2>4, <2>5, FirstDecides
  <2> QED  BY <1>13, <2>2, <2>6 DEF p
<1> QED  BY <1>12, <1>13 DEF p

\* What is carried whole: every reference exists, and everything it refers to is carried
Stands(c, left, needed) ==
    /\ \A t : Out(t) \in needed => t \in DOMAIN c.nodes /\ ~OutProblem(c, left, t)
    /\ \A t : Dns(t) \in needed => t \in ServerTags(c) /\ t # None /\ ~DnsProblem(c, t)
    /\ \A r \in needed : Next1(c, r) \subseteq needed

\* With one DNS server left, it is the default one
LEMMA OneServer ==
    ASSUME NEW c, IsConfig(c), NEW left, NEW needed, Stands(c, left, needed),
           NEW u, Dns(u) \in needed, Len(PlanWith(c, needed).servers) < 2
    PROVE  DefaultServer(PlanWith(c, needed)) = u
<1> DEFINE p == PlanWith(c, needed)
           P == {i \in DOMAIN c.servers : Dns(c.servers[i].tag) \in needed}
<1>1. p.servers = At(c.servers, P) /\ p.final = (IF Dns(DefaultServer(c)) \in needed THEN c.final ELSE None)
  BY DEF PlanWith
<1>2. \A t : Dns(t) \in needed => t # None /\ t \in ServerTags(p)
  BY PlanServers DEF Stands
<1>3. c.servers \in Seq(ToSet(c.servers)) /\ P \in SUBSET DOMAIN c.servers
  BY DEF IsConfig
<1> HIDE DEF p, P
<1>4. p.servers \in Seq(ToSet(c.servers))
  BY <1>1, <1>3, AtElements
<1>5. \A t \in ServerTags(p) : \E i \in DOMAIN p.servers : p.servers[i].tag = t
  BY DEF ServerTags, ToSet
<1>6. DOMAIN p.servers = 1 .. Len(p.servers) /\ Len(p.servers) \in Nat /\ Len(p.servers) < 2
  BY <1>4 DEF p
<1>7. \A t \in ServerTags(p) : p.servers # <<>> /\ Head(p.servers).tag = t
  <2> SUFFICES ASSUME NEW t \in ServerTags(p) PROVE p.servers # <<>> /\ Head(p.servers).tag = t
    OBVIOUS
  <2>1. PICK i \in DOMAIN p.servers : p.servers[i].tag = t
    BY <1>5
  <2>2. i = 1 /\ Len(p.servers) = 1
    <3> DEFINE n == Len(p.servers)
    <3>1. i \in 1 .. n /\ n \in Nat /\ n < 2
      BY <1>6, <2>1
    <3> HIDE DEF n
    <3>2. i = 1 /\ n = 1
      BY <3>1
    <3> QED  BY <3>2 DEF n
  <2> QED  BY <1>4, <2>1, <2>2
<1>8. CASE p.final = None
  BY <1>2, <1>7, <1>8 DEF DefaultServer, p
<1>9. CASE p.final # None
  <2>1. Dns(DefaultServer(c)) \in needed /\ p.final = c.final /\ DefaultServer(c) = c.final
    BY <1>1, <1>9 DEF DefaultServer
  <2>2. p.final = u
    BY <1>2, <1>7, <2>1
  <2> QED  BY <1>9, <2>2 DEF DefaultServer, p
<1> QED  BY <1>8, <1>9

\* An outbound that is carried as it is resolves its server's name as it would
LEMMA SameResolution ==
    ASSUME NEW c, IsConfig(c), NEW left, NEW needed, Stands(c, left, needed), DefaultIsNamed(c),
           NEW tag, Out(tag) \in needed, PlanWith(c, needed).nodes[tag] = c.nodes[tag], NEW world
    PROVE  ResolvedBy(PlanWith(c, needed), tag, world) = ResolvedBy(c, tag, world)
<1> DEFINE p == PlanWith(c, needed)
<1>1. p.resolver = IF Dns(c.resolver) \in needed THEN c.resolver ELSE None
  BY PlanParts
<1>2. /\ Dns(DefaultServer(c)) \in needed => DefaultServer(p) = DefaultServer(c)
      /\ c.servers = <<>> /\ c.final = None => DefaultServer(p) = None
      /\ Len(p.servers) \in Nat /\ Len(c.servers) \in Nat /\ Len(p.servers) <= Len(c.servers)
  <2>1. \A t : Dns(t) \in needed => t # None
    BY DEF Stands
  <2> QED  BY <2>1, SameDefault
<1>3. ASSUME NEW server, server # None, server = NameResolution(c, tag).server PROVE Dns(server) \in needed
  <2>1. Dns(server) \in Next1(c, Out(tag))
    BY <1>3, References DEF Next1
  <2> QED  BY <2>1 DEF Stands
<1>4. DefaultServer(c) = NameResolution(c, tag).server => DefaultServer(p) = DefaultServer(c)
  <2>1. CASE DefaultServer(c) = None
    <3>1. c.servers = <<>> /\ c.final = None
      BY <2>1 DEF DefaultServer, DefaultIsNamed
    <3> QED  BY <1>2, <2>1, <3>1
  <2>2. CASE DefaultServer(c) # None
    BY <1>2, <1>3, <2>2
  <2> QED  BY <2>1, <2>2
<1>5. p.nodes[tag] = c.nodes[tag] /\ (ResolvesLocally(p, tag) <=> ResolvesLocally(c, tag))
  BY DEF ResolvesLocally
<1> HIDE DEF p
<1>6. CASE ~ResolvesLocally(c, tag)
  BY <1>5, <1>6 DEF ResolvedBy, RulesResolve, p
<1>7. CASE ResolvesLocally(c, tag) /\ c.resolver # None
  <2>1. NameResolution(c, tag).server = c.resolver
    BY <1>7 DEF NameResolution, RulesResolve
  <2>2. p.resolver = c.resolver
    BY <1>1, <1>3, <1>7, <2>1
  <2> QED  BY <1>5, <1>7, <2>2 DEF ResolvedBy, RulesResolve, p
<1>8. CASE ResolvesLocally(c, tag) /\ c.resolver = None /\ Len(c.servers) < 2
  <2>1. NameResolution(c, tag).server = DefaultServer(c)
    BY <1>2, <1>8 DEF NameResolution, RulesResolve
  <2>2. p.resolver = None /\ Len(p.servers) < 2
    BY <1>1, <1>2, <1>8
  <2>3. ~RulesResolve(p, tag) /\ ~RulesResolve(c, tag)
    BY <1>2, <1>8, <2>2 DEF RulesResolve
  <2> QED  BY <1>4, <1>5, <1>8, <2>1, <2>2, <2>3 DEF ResolvedBy, p
<1>9. CASE RulesResolve(c, tag)
  <2>1. PICK d : DecidedAt(c, tag, d)
    BY RuleIs
  <2>2. tag \in DOMAIN c.nodes /\ NameResolution(c, tag).ok
    BY DEF Stands, OutProblem
  <2>3. NameResolution(c, tag) = RuleResolution(c, tag)
    BY <1>9 DEF NameResolution
  <2>4. RuleResolution(c, tag) = Decided(c, tag, d)
    BY <2>1 DEF DecidedAt
  <2>5. Decided(c, tag, d).server = IF d = 0 THEN DefaultServer(c) ELSE c.rules[d].server
    BY DEF Decided
  <2>6. d # 0 => c.rules[d].server # None
    <3>1. Decided(c, tag, d).ok <=>
            d = 0 \/ (ByOutboundOnly(c.rules[d]) /\ c.rules[d].action = "route" /\ c.rules[d].server # None)
      BY Zenon DEF Decided
    <3> QED  BY <2>2, <2>3, <2>4, <3>1
  <2>7. d # 0 => Dns(c.rules[d].server) \in needed /\ c.rules[d].server \in ServerTags(c)
    BY <1>3, <2>3, <2>4, <2>5, <2>6 DEF Stands
  <2>8. c.rules \in Seq(ToSet(c.rules))
    BY DEF IsConfig
  <2>9. /\ \A k \in DOMAIN c.rules : d = 0 \/ k < d => ~DecidesIn(c, tag, world, c.rules[k])
        /\ d # 0 => /\ d \in DOMAIN c.rules /\ c.rules[d].action = "route"
                    /\ DecidesIn(c, tag, world, c.rules[d])
    <3>1. RuleResolution(c, tag).ok
      BY <2>2, <2>3
    <3>2. \A u : u # None => (u \in ServerTags(c) => u \in ServerTags(c) /\ Server(c, u) = Server(c, u))
      OBVIOUS
    <3>3. d # 0 => c.rules[d].server \in ServerTags(c)
      BY <2>7
    <3> QED  BY <2>1, <3>1, <3>2, <3>3, AnyWorld
  <2>10. ResolvedBy(c, tag, world) = IF d = 0 THEN DefaultServer(c) ELSE c.rules[d].server
    BY <1>9, <2>8, <2>9, FirstDecides
  <2>11. d = 0 => DefaultServer(p) = DefaultServer(c)
    BY <1>4, <2>3, <2>4, <2>5
  <2>12. tag \in CopiedFor(c, needed)
    BY <1>9, <2>2, <2>3 DEF CopiedFor
  <2>13. CASE RulesResolve(p, tag)
    <3>1. ResolvedBy(p, tag, world) = IF d = 0 THEN DefaultServer(p) ELSE c.rules[d].server
      <4>1. \A t : Dns(t) \in needed => t # None
        BY DEF Stands
      <4> QED  BY <2>1, <2>7, <2>12, <2>13, <4>1, SameRule DEF p
    <3> QED  BY <2>10, <2>11, <3>1 DEF p
  <2>14. CASE ~RulesResolve(p, tag)
    <3>1. c.resolver = None /\ ResolvesLocally(c, tag)
      BY <1>9 DEF RulesResolve
    <3>2. p.resolver = None /\ ResolvesLocally(p, tag)
      BY <1>1, <1>5, <3>1
    <3>3. Len(p.servers) < 2
      BY <1>2, <2>14, <3>2 DEF RulesResolve
    <3>4. ResolvedBy(p, tag, world) = DefaultServer(p)
      BY <2>14, <3>2 DEF ResolvedBy
    <3>5. d # 0 => DefaultServer(p) = c.rules[d].server
      BY <2>7, <3>3, OneServer DEF p
    <3> QED  BY <2>10, <2>11, <3>4, <3>5 DEF p
  <2> QED  BY <2>13, <2>14
<1>10. RulesResolve(c, tag) <=> ResolvesLocally(c, tag) /\ c.resolver = None /\ ~(Len(c.servers) < 2)
  BY <1>2 DEF RulesResolve
<1> QED  BY <1>6, <1>7, <1>8, <1>9, <1>10

\* An outbound of the walk is carried as it is: every member of a group is of the walk
LEMMA SameNode ==
    ASSUME NEW c, IsConfig(c), NEW needed, NEW t \in DOMAIN c.nodes, Out(t) \in needed,
           Outs(c.nodes[t].members) \subseteq needed
    PROVE  PlanWith(c, needed).nodes[t] = c.nodes[t]
<1> DEFINE o == c.nodes[t]
<1>1. o = [type |-> o.type, detour |-> o.detour, members |-> o.members, default |-> o.default,
           resolver |-> o.resolver, byName |-> o.byName]
  BY DEF IsConfig, IsNode
<1>2. None \notin o.members /\ o.default \in o.members \cup {None}
  BY DEF IsConfig, IsNode
<1>3. \A m \in o.members : Out(m) \in needed
  BY <1>2, References
<1>4. PlanWith(c, needed).nodes[t] = ProbeOutbound(o, needed)
  BY DEF PlanWith
<1> HIDE DEF o
<1>5. {m \in o.members : Out(m) \in needed} = o.members
  BY <1>3
<1>6. (IF Out(o.default) \in needed THEN o.default ELSE None) = o.default
  BY <1>2, <1>3
<1>7. ProbeOutbound(o, needed) = [o EXCEPT !.members = o.members, !.default = o.default]
  BY <1>1, <1>5, <1>6 DEF ProbeOutbound
<1>8. [o EXCEPT !.members = o.members, !.default = o.default] = o
  BY <1>1
<1> QED  BY <1>4, <1>7, <1>8 DEF o

\* A DNS server of the plan is dialled through the outbound it is dialled through
LEMMA SameThrough ==
    ASSUME NEW c, IsConfig(c), NEW left, NEW needed, Stands(c, left, needed), NEW tag, Dns(tag) \in needed
    PROVE  Through(PlanWith(c, needed), tag) = Through(c, tag)
<1> DEFINE p == PlanWith(c, needed)
           srv == Server(c, tag)
           P == {i \in DOMAIN c.order : Out(c.order[i]) \in needed}
<1>1. tag \in ServerTags(c) /\ tag # None /\ ~DnsProblem(c, tag) /\ Next1(c, Dns(tag)) \subseteq needed
  BY DEF Stands
<1>2. tag \in ServerTags(p) /\ Server(p, tag) = srv
  BY <1>1, PlanServers
<1>3. srv \in ToSet(c.servers) /\ srv.tag = tag
  <2> HIDE DEF ToSet
  <2>1. \E x \in ToSet(c.servers) : x.tag = tag
    BY <1>1 DEF ServerTags
  <2> QED  BY <2>1 DEF Server
<1>4. p.routeFinal = LegacyDefaultDetour(c, needed) /\ p.order = At(c.order, P)
  BY DEF PlanWith
<1>5. c.order \in Seq(ToSet(c.order)) /\ P \in SUBSET DOMAIN c.order
  BY DEF IsConfig
<1>6. Outs(DialsThrough(c, srv)) \subseteq needed
  BY <1>1, References DEF Next1
<1> HIDE DEF p, srv, P
<1>7. ASSUME LegacyDials(srv) PROVE DefaultOut(p) = DefaultOut(c)
  <2>1. CASE DefaultOut(c) # None
    <3>1. Out(DefaultOut(c)) \in Outs(DialsThrough(c, srv))
      BY <1>7, <2>1, References DEF DialsThrough
    <3>2. p.routeFinal = DefaultOut(c)
      BY <1>3, <1>4, <1>6, <1>7, <3>1 DEF LegacyDefaultDetour
    <3> QED  BY <2>1, <3>2 DEF DefaultOut
  <2>2. CASE DefaultOut(c) = None
    <3>1. c.order = <<>>
      BY <1>1, <1>7, <2>2 DEF DnsProblem, srv
    <3>2. p.order = <<>>
      BY <1>4, <1>5, <3>1, AtHead
    <3>3. p.routeFinal = None
      BY <1>4, <2>2 DEF LegacyDefaultDetour
    <3> QED  BY <2>2, <3>2, <3>3 DEF DefaultOut
  <2> QED  BY <2>1, <2>2
<1>8. Through(p, tag) = IF LegacyDials(srv) THEN DefaultOut(p) ELSE srv.detour
  BY <1>2 DEF Through
<1>9. Through(c, tag) = IF LegacyDials(srv) THEN DefaultOut(c) ELSE srv.detour
  BY DEF Through, srv
<1> QED  BY <1>7, <1>8, <1>9 DEF p

\* In the plan as in the config: each outbound on the way of a measured one, the
\* server that resolves its name, and the outbound that server is dialled through
LEMMA PlanMeasures ==
    ASSUME NEW c, IsConfig(c), DefaultIsNamed(c), NEW left, NEW t \in Testable(c, left),
           NEW r \in Walk(Visits(c, left), t), NEW world
    PROVE  IF r[1] = "outbound"
           THEN /\ Plan(c, left).nodes[r[2]] = c.nodes[r[2]]
                /\ ResolvedBy(Plan(c, left), r[2], world) = ResolvedBy(c, r[2], world)
           ELSE Through(Plan(c, left), r[2]) = Through(c, r[2])
<1> DEFINE V == Visits(c, left)
           probed == Measurable(c, left, V)
           needed == NeededFor(c, V, probed)
<1>1. Plan(c, left) = PlanWith(c, needed)
  BY DEF Plan, PlanFor
<1>2. needed \subseteq DOMAIN V /\ \A x \in needed : Supported(c, x, needed)
  BY NeededIs
<1>3. /\ IsFiniteSet(DOMAIN V)
      /\ \A x \in DOMAIN V : /\ V[x] = Next1(c, x) \cup Members(c, x)
                             /\ (x = Out(x[2]) /\ x[2] \in DOMAIN c.nodes) \/ (x = Dns(x[2]) /\ x[2] \in ServerTags(c))
      /\ \A u : Out(u) \in DOMAIN V <=> u \in DOMAIN c.nodes /\ ~OutProblem(c, left, u)
      /\ \A u : Dns(u) \in DOMAIN V <=> u \in ServerTags(c) \ {None} /\ ~DnsProblem(c, u)
  BY VisitsAre
<1>4. t \in probed
  BY DEF Testable
<1> HIDE DEF V
<1>5. Walk(V, t) \subseteq DOMAIN V /\ Keeps(V, Walk(V, t), Walk(V, t))
  <2>1. Walk(V, t) \subseteq DOMAIN V
    BY <1>4 DEF Measurable, Carriable
  <2> QED  BY <1>3, <2>1, ReachedIs DEF Walk
<1>6. Walk(V, t) \subseteq needed
  BY <1>4 DEF NeededFor
<1> HIDE DEF needed, probed
<1>7. Stands(c, left, needed)
  <2>1. \A x \in needed : Next1(c, x) \subseteq needed
    BY <1>2 DEF Supported
  <2> QED  BY <1>2, <1>3, <2>1 DEF Stands
<1>8. r \in Walk(V, t)
  BY DEF V
<1>9. V[r] \subseteq needed /\ r \in needed /\ r \in DOMAIN V
  BY <1>5, <1>6, <1>8 DEF Keeps
<1>10. CASE r[1] = "outbound"
  <2>1. r = Out(r[2]) /\ r[2] \in DOMAIN c.nodes
    BY <1>3, <1>9, <1>10, References
  <2>2. Members(c, r) = Outs(c.nodes[r[2]].members)
    BY <1>10 DEF Members
  <2>3. Outs(c.nodes[r[2]].members) \subseteq needed
    BY <1>3, <1>9, <2>2
  <2>4. Out(r[2]) \in needed
    BY <1>9, <2>1
  <2>5. PlanWith(c, needed).nodes[r[2]] = c.nodes[r[2]]
    BY <2>1, <2>3, <2>4, SameNode
  <2> QED  BY <1>1, <1>7, <1>10, <2>4, <2>5, SameResolution
<1>11. CASE r[1] # "outbound"
  <2>1. r = Dns(r[2])
    BY <1>3, <1>9, <1>11, References
  <2>2. Dns(r[2]) \in needed
    BY <1>9, <2>1
  <2> QED  BY <1>1, <1>7, <1>11, <2>2, SameThrough
<1> QED  BY <1>10, <1>11

\* For any config whose default DNS server has a name, and whatever was left out
\* of it: what is measured is dialled as the VPN dials it (buildProbePlan).
THEOREM MeasuredAsDialled == ProbeSpec => []MeasuredAsTheVPNDials
<1>1. PlanInv => MeasuredAsTheVPNDials
  <2> SUFFICES ASSUME PlanInv, DefaultIsNamed(cfg) PROVE MeasuredAsTheVPNDials
    BY DEF MeasuredAsTheVPNDials
  <2>1. IsConfig(cfg)
    BY ConfigAssumption DEF PlanInv, ConfigAssumption
  <2>2. ASSUME NEW t \in Testable(cfg, failed), NEW r \in Walk(Visits(cfg, failed), t)
        PROVE  IF r[1] = "outbound"
               THEN /\ Plan(cfg, failed).nodes[r[2]] = cfg.nodes[r[2]]
                    /\ \A world : ResolvedBy(Plan(cfg, failed), r[2], world) = ResolvedBy(cfg, r[2], world)
               ELSE Through(Plan(cfg, failed), r[2]) = Through(cfg, r[2])
    BY <2>1, <2>2, PlanMeasures
  <2> QED  BY <2>2 DEF MeasuredAsTheVPNDials, Plan, Testable
<1> QED  BY <1>1, StartPlans, StepPlans, PTL DEF ProbeSpec

==============================================================================
