-------------------------- MODULE SubscriptionReports -------------------------
(* What the user hears of a subscription's troubles (subscription_service.go,  *)
(* application.go, ui/format.go): an unattended refresh shows a popup for a    *)
(* kind of problem not reported yet, and remembers the kinds it found. Times   *)
(* are ages that stop at the longest one the code compares with.               *)
EXTENDS Integers, SequencesExt, Sublists

CONSTANTS
    Reasons,    \* kinds of reason a node is left out for
    Limit,      \* reportedLimit
    StaleAfter, \* subscriptionStaleAfter
    Memory      \* problemMemory

ASSUME LimitAssumption ==
    /\ Limit \in Nat \ {0} /\ StaleAfter \in Nat /\ Memory \in Nat \ {0}
    /\ IsFiniteSet(Reasons)

VARIABLES
    reported, seenAge,  \* Subscription.Reported, ProblemSeen: saved with the subscription
    updatedAge,         \* since Updated; StaleAfter + 1 for longer, or never
    update,             \* the last refresh: its kinds, NewProblem, what the user was shown
    told,               \* history: kinds shown since they were last forgotten
    before              \* history: the kinds of the last problem noted, until forgotten

reportVars == <<reported, seenAge, updatedAge, update, told, before>>

Stages == {"download", "parse", "info", "config", "fit"}
Kinds == Stages \cup Reasons
Nothing == [kinds |-> {}, new |-> FALSE, known |-> {}]

\* How far a refresh comes, and the kinds it finds: the errors after the parse
\* list the nodes left out, the one of the config does not
Found(stage, skipped) ==
    CASE stage = "download" -> {stage}
      [] stage = "config"   -> {stage}
      [] stage = "saved"    -> skipped
      [] OTHER              -> {stage} \cup skipped

\* mutant: the nodes of a refresh that failed at the config are recorded unseen
Recorded(stage, skipped) == IF stage = "config" THEN {stage} \cup skipped ELSE Found(stage, skipped)
Noted(stage, skipped) == Found(stage, skipped)

\* A later stage forgets the failures of the earlier ones
Forgotten(stage) ==
    CASE stage = "download" -> {}
      [] stage = "saved"    -> Stages
      [] OTHER              -> {"download"}

Forget(kinds) == Only(reported, Kinds \ kinds)

\* Seen again: to the recent end; the trim takes the others first. A refresh
\* without a problem trims nothing
Remember(memory, kinds) ==
    LET all == Only(memory, Kinds \ kinds) \o SetToSeq(kinds)
        limit == IF Limit > Cardinality(kinds) THEN Limit ELSE Cardinality(kinds)
    IN  IF kinds # {} /\ Len(all) > limit THEN SubSeq(all, Len(all) - limit + 1, Len(all)) ELSE all

\* Info nodes alone are no reason, and no node fits only when some were left out
Possible(stage, skipped) == (stage = "info" => skipped = {}) /\ (stage = "fit" => skipped # {})

\* A failure counts only when nothing was saved for a day
Counts(stage) == stage = "saved" \/ updatedAge > StaleAfter

(* One refresh under the service's mutex. A list that cannot be saved leaves    *)
(* everything as it was: recorded is nothing, shown nothing but the error. The *)
(* cut of a message that lists very many nodes is left out.                    *)
Refreshed(stage, skipped, attended) ==
    LET memory == Forget(Forgotten(stage))
        kinds == IF Counts(stage) THEN Noted(stage, skipped) ELSE {}
        new == kinds \ ToSet(memory) # {}
        shown == IF attended \/ new THEN Found(stage, skipped) ELSE {}
        over == stage = "saved" /\ skipped = {} /\ seenAge >= Memory
    IN  /\ Possible(stage, skipped)
        /\ reported' = IF over THEN <<>> ELSE Remember(memory, kinds)
        /\ seenAge' = IF kinds # {} \/ over THEN 0 ELSE seenAge
        /\ updatedAge' = IF stage = "saved" THEN 0 ELSE updatedAge
        /\ update' = [kinds |-> kinds, new |-> new, known |-> before \ Forgotten(stage)]
        /\ told' = ((told \ Forgotten(stage)) \cup shown) \cap (ToSet(reported') \cup shown)
        /\ before' = IF over THEN {} ELSE IF kinds # {} THEN kinds ELSE before \ Forgotten(stage)

Older(n, limit) == IF n < limit THEN n + 1 ELSE limit

Tick ==
    /\ seenAge' = Older(seenAge, Memory)
    /\ updatedAge' = Older(updatedAge, StaleAfter + 1)
    /\ UNCHANGED <<reported, update, told, before>>

ReportInit ==
    /\ reported = <<>> /\ seenAge = 0 /\ updatedAge = StaleAfter + 1
    /\ update = Nothing /\ told = {} /\ before = {}

ReportNext ==
    \/ \E stage \in Stages \cup {"saved"}, skipped \in SUBSET Reasons, attended \in BOOLEAN :
            Refreshed(stage, skipped, attended)
    \/ Tick

ReportSpec == ReportInit /\ [][ReportNext]_reportVars

-----------------------------------------------------------------------------
ReportTypeOK ==
    /\ reported \in Seq(Kinds) /\ seenAge \in 0..Memory /\ updatedAge \in 0..StaleAfter + 1
    /\ update \in [kinds : SUBSET Kinds, new : BOOLEAN, known : SUBSET Kinds]
    /\ told \subseteq Kinds /\ before \subseteq Kinds

\* Nothing is missed and nothing nags: a kind recorded as reported was shown to
\* the user since it was last forgotten, and a refresh whose kinds are all those
\* of the last problem (the errors of stages that have worked since left out,
\* refreshes without a problem in between or not) is not news (noteProblem).
ToldOnce ==
    /\ ToSet(reported) \subseteq told
    /\ update.kinds # {} /\ update.kinds \subseteq update.known => ~update.new
=============================================================================
