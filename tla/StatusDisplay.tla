----------------------------- MODULE StatusDisplay ----------------------------
(* What the tray shows of the VPN (application.go, connectivity_service.go,    *)
(* ui/tray.go): the event loop and the workers read the status and show it in  *)
(* two steps, the connectivity loop probes without a lock and shows its        *)
(* verdict; a wake-up that finds the channel full is dropped.                  *)
EXTENDS Integers

CONSTANTS
    Workers,    \* toggleWorker and the operations that show the status at their end
    Threshold,  \* connectivityFailThreshold
    MaxChanges  \* bound: changes of the status

ThresholdAssumption == Threshold \in Nat \ {0} /\ MaxChanges \in Nat

VARIABLES
    status, changes,    \* VPNService.GetStatus
    wake,               \* a wake-up is in StatusChangeCh
    reader,             \* the loop's and each worker's local state: what it has read
    shown, connBad,     \* TrayUI.running, connBad
    check,              \* the connectivity loop's local state
    verdict, failures,  \* ConnectivityService.status, failures
    overtaken           \* history: the display is a reading older than the one it replaced

display == <<shown, connBad, overtaken>>
verdicts == <<verdict, failures>>
vars == <<status, changes, wake, reader, display, check, verdicts>>

Loop == "loop"
Readers == Workers \cup {Loop}
Nothing == "nothing"
Running == "running"
Statuses == {"stopped", Running}

-----------------------------------------------------------------------------
\* A start, a stop, a crash: the status is there before its wake-up
Change ==
    /\ changes < MaxChanges /\ changes' = changes + 1
    /\ status' \in Statuses \ {status}
    /\ wake' = TRUE
    /\ UNCHANGED <<reader, display, check, verdicts>>

\* The loop is woken; a worker reads at the end of its operation
Read(r) ==
    /\ reader[r].seen = Nothing
    /\ IF r = Loop THEN wake /\ wake' = FALSE ELSE UNCHANGED wake
    /\ reader' = [reader EXCEPT ![r] = [seen |-> status, at |-> changes]]
    /\ UNCHANGED <<status, changes, display, check, verdicts>>

Show(r) ==
    /\ reader[r].seen # Nothing
    /\ shown' = reader[r].seen
    /\ overtaken' = (r # Loop /\ reader[r].at < changes)
    /\ reader' = [reader EXCEPT ![r] = [seen |-> Nothing, at |-> 0]]
    /\ UNCHANGED <<status, changes, wake, connBad, check, verdicts>>

\* mutant: a stopped VPN leaves the verdict alone
Stands == verdict' = verdict /\ failures' = 0
Unchecked == verdict' = "none" /\ failures' = 0

CheckStarts ==
    /\ check = "idle"
    /\ IF status = Running THEN check' = "probing" /\ UNCHANGED verdicts
       ELSE check' = "checked" /\ Unchecked
    /\ UNCHANGED <<status, changes, wake, reader, display>>

\* The answer counts whatever has become of the VPN
ProbeAnswers ==
    /\ check = "probing" /\ check' = "checked"
    /\ \/ verdict' = "ok" /\ failures' = 0
       \/ /\ failures' = IF failures < Threshold THEN failures + 1 ELSE failures
          /\ verdict' = IF failures' = Threshold THEN "bad" ELSE verdict
    /\ UNCHANGED <<status, changes, wake, reader, display>>

ShowVerdict ==
    /\ check = "checked" /\ check' = "idle"
    /\ connBad' = (verdict = "bad")
    /\ UNCHANGED <<status, changes, wake, reader, shown, overtaken, verdicts>>

Init ==
    /\ status = "stopped" /\ changes = 0 /\ wake = FALSE
    /\ reader = [r \in Readers |-> [seen |-> Nothing, at |-> 0]]
    /\ shown = "stopped" /\ connBad = FALSE /\ overtaken = FALSE
    /\ check = "idle" /\ verdict = "none" /\ failures = 0

Next ==
    \/ Change \/ CheckStarts \/ ProbeAnswers \/ ShowVerdict
    \/ \E r \in Readers : Read(r) \/ Show(r)

\* The loops run, a probe has a timeout, a worker shows what it has read
Fairness ==
    /\ WF_vars(Read(Loop)) /\ \A r \in Readers : WF_vars(Show(r))
    /\ WF_vars(CheckStarts) /\ WF_vars(ProbeAnswers) /\ WF_vars(ShowVerdict)
Spec == Init /\ [][Next]_vars /\ Fairness

-----------------------------------------------------------------------------
TypeOK ==
    /\ status \in Statuses /\ changes \in 0..MaxChanges /\ wake \in BOOLEAN
    /\ reader \in [Readers -> [seen : Statuses \cup {Nothing}, at : 0..MaxChanges]]
    /\ shown \in Statuses /\ connBad \in BOOLEAN /\ overtaken \in BOOLEAN
    /\ check \in {"idle", "probing", "checked"}
    /\ verdict \in {"none", "ok", "bad"} /\ failures \in 0..Threshold

\* Once the VPN rests, the tray comes to show its status, however many wake-ups
\* were dropped (unless a worker's older reading was shown last), and a stopped
\* VPN keeps no "no connection", although a probe that began before the stop
\* stores its verdict after it.
DisplaySettles ==
    <>[]((shown = status \/ overtaken) /\ (status # Running => ~connBad /\ verdict # "bad"))
=============================================================================
