------------------------ MODULE Configuration_proofs -------------------------
(* Proofs about config.json and who works on it. For any servers, documents,   *)
(* failures, crashes and edits by other programs (DPIBypass over ConfigStore): *)
(* config.json has the bypass outbound sing-box needs to start, the container  *)
(* is there for it, a half-written file has its backup, the newest versions    *)
(* are in the history.                                                         *)
(* WebServer: a login link opens one session, the newest links work, and opMu  *)
(* carries a lookup over to the operation that relies on it.                   *)
(*                                                                             *)
(* Then what decides whether a save is allowed, for configs of any size. What  *)
(* the check of dependencies lets through starts whatever is cached, and       *)
(* what it refuses would not start with none cached; a credential stays with   *)
(* its server and its way there; the search finds the rings of any graph; a    *)
(* merge leaves out none but the nodes to blame.                               *)
EXTENDS DPIBypass, WebServer, Dependencies, Secrets, RingSearch, Refusal, ListsAndGraphs_proofs

\* Nobody has written a dangling reference, so none is in the document
SoundDoc(d) == d \in Docs /\ ~astray => Dangling(d) = {}

Contents ==
    /\ conf \in File /\ from \in Docs \cup {Absent} /\ to \in Docs \cup {Absent}
    /\ \A s \in DOMAIN history : history[s] \in Docs \cup {Partial}

\* Every document that is, was or will be in the file
AllSound ==
    /\ SoundDoc(conf) /\ SoundDoc(from) /\ SoundDoc(to)
    /\ \A s \in DOMAIN history : SoundDoc(history[s])

Plans == {<<>>, <<"start", "ensure", "detour">>, <<"ensure", "detour">>, <<"detour">>,
          <<"start", "ensure">>, <<"ensure">>, <<"clear", "stop">>, <<"stop">>, <<"save">>}

\* Between edits no save is under way, during one there is an operation; and the
\* container runs from the first edit of its plan on
Progress ==
    /\ todo \in Plans
    /\ phase # "idle" => todo \in {<<"ensure", "detour">>, <<"detour">>, <<"ensure">>, <<"clear", "stop">>, <<"save">>}
    /\ todo \in {<<"ensure", "detour">>, <<"detour">>, <<"ensure">>} => container = "running"
    /\ todo \in {<<"start", "ensure", "detour">>, <<"ensure", "detour">>, <<"detour">>} => target \in Servers

\* What DisableChain has cleared stays clear, if nobody else edits the file
Cleared ==
    /\ ~meddled /\ phase = "done" => conf = to
    /\ todo = <<"clear", "stop">> /\ phase # "idle" => to.detour = {}
    /\ ~meddled /\ todo = <<"stop">> /\ conf \in Docs => conf.detour = {}

\* What a save has behind it when it writes
BackedUp ==
    /\ phase \in {"backup", "backing", "archive", "archiving", "prune", "write"} => conf # Partial
    /\ phase \in {"archive", "archiving", "prune", "write"} => bak = from
    /\ phase = "writing" => from = Absent \/ bak = from
    /\ phase = "writing" /\ before # Absent => bak = before /\ from # Absent
    /\ phase = "link" => from = Absent
    /\ before # Absent => conf = Partial
    /\ phase \in {"backup", "backing", "archive", "archiving", "prune", "write"} => from # Absent
    /\ HalfWrittenHasBackup

Inv == Contents /\ AllSound /\ Progress /\ Cleared /\ BackedUp

-----------------------------------------------------------------------------
(* Documents *)

LEMMA Kinds == Absent \notin Docs /\ Partial \notin Docs /\ Absent # Partial /\ Docs = Document
BY StoreAssumption, DocumentAssumption

LEMMA Tails ==
    /\ Tail(<<"start", "ensure", "detour">>) = <<"ensure", "detour">> /\ Tail(<<"ensure", "detour">>) = <<"detour">>
    /\ Tail(<<"start", "ensure">>) = <<"ensure">> /\ Tail(<<"clear", "stop">>) = <<"stop">>
    /\ Tail(<<"detour">>) = <<>> /\ Tail(<<"ensure">>) = <<>> /\ Tail(<<"stop">>) = <<>> /\ Tail(<<"save">>) = <<>>
OBVIOUS

\* What is left of a plan tells which one it was
LEMMA Leaves ==
    ASSUME NEW s \in {<<"ensure", "detour">>, <<"detour">>, <<"ensure">>, <<"clear", "stop">>, <<"save">>}
    PROVE  /\ Tail(s) \in {<<"detour">>, <<"stop">>, <<>>}
           /\ Tail(s) = <<"stop">> => s = <<"clear", "stop">>
           /\ Tail(s) = <<"detour">> => s = <<"ensure", "detour">>
<1>1. <<"detour">> # <<"stop">> /\ <<"detour">> # <<>> /\ <<"stop">> # <<>>
  OBVIOUS
<1>2. CASE s = <<"ensure", "detour">>
  BY <1>1, <1>2, Tails, Zenon
<1>3. CASE s = <<"clear", "stop">>
  BY <1>1, <1>3, Tails, Zenon
<1>4. CASE s \in {<<"detour">>, <<"ensure">>, <<"save">>}
  <2>1. Tail(s) = <<>>
    BY <1>4, Tails, Zenon
  <2>. QED  BY <1>1, <2>1, Zenon
<1>. QED  BY <1>2, <1>3, <1>4, Zenon

\* What is in a document without dangling references
LEMMA DanglingIs ==
    ASSUME NEW d
    PROVE  Dangling(d) = {} <=> d.bypass \/ (d.detour = {} /\ d.final # Bypass /\ ~d.other)
<1>1. CASE d.bypass
  BY <1>1 DEF Dangling
<1>2. CASE ~d.bypass
  <2> DEFINE D == {<<"detour", s>> : s \in d.detour}
             W == {v \in {"final", "other"} : IF v = "final" THEN d.final = Bypass ELSE d.other}
             O == {<<w, Bypass>> : w \in W}
  <2>1. Dangling(d) = D \cup O
    BY <1>2 DEF Dangling
  <2>2. D = {} <=> d.detour = {}
    OBVIOUS
  <2>3. O = {} <=> W = {}
    OBVIOUS
  <2>4. W = {} <=> d.final # Bypass /\ ~d.other
    OBVIOUS
  <2>5. Dangling(d) = {} <=> D = {} /\ O = {}
    <3> HIDE DEF D, O
    <3> QED  BY <2>1
  <2> HIDE DEF D, O, W
  <2> QED  BY <1>2, <2>2, <2>3, <2>4, <2>5
<1> QED  BY <1>1, <1>2

LEMMA EditedSound ==
    ASSUME NEW d \in Docs, SoundDoc(d), NEW step, NEW e \in Edited(step, d),
           step = "detour" => target \in Servers
    PROVE  e \in Docs /\ SoundDoc(e) /\ (step = "clear" => e.detour = {})
<1>. USE Kinds DEF Document, SoundDoc
<1>1. CASE step = "ensure"
  <2>1. e = [d EXCEPT !.bypass = TRUE]
    BY <1>1 DEF Edited
  <2>. QED  BY <1>1, <2>1, DanglingIs
<1>2. CASE step = "detour"
  <2>1. e = [d EXCEPT !.detour = @ \cup {target}] /\ d.bypass
    BY <1>2 DEF Edited, HasBypass
  <2>. QED  BY <1>2, <2>1, DanglingIs
<1>3. CASE step = "clear"
  <2>1. e = [d EXCEPT !.detour = {}]
    BY <1>3 DEF Edited
  <2>. QED  BY <1>3, <2>1, DanglingIs
<1>. QED  BY <1>1, <1>2, <1>3 DEF Edited

\* A save the check lets through adds no reference, so it leaves none
LEMMA CheckedSound ==
    ASSUME conf \in Docs, SoundDoc(conf), NEW d, Checked(d) PROVE SoundDoc(d)
BY DEF SoundDoc, Checked

LEMMA SwitchedDoc ==
    ASSUME NEW d \in Docs, NEW t \in Proxies(d) PROVE Switched(d, t) \in Docs
BY Kinds DEF Switched, Proxies, Document, Via

LEMMA InitInv == Init => Inv
<1> SUFFICES ASSUME Init PROVE Inv
  OBVIOUS
<1>1. ASSUME conf \in Docs PROVE Dangling(conf) = {}
  <2>1. conf \in [rule : Servers \cup {Direct}, final : Servers \cup {Direct},
                  detour : {{}}, other : {FALSE}, bypass : {FALSE}]
    BY <1>1, Kinds DEF Init
  <2>2. conf.detour = {} /\ conf.final # Bypass /\ conf.other = FALSE
    BY <2>1, DocumentAssumption
  <2>. QED  BY <2>2, DanglingIs, Zenon
<1>2. conf \in Docs \cup {Absent}
  BY DEF Init, StoreInit
<1> QED
  BY <1>1, <1>2, Kinds DEF Init, StoreInit, Inv, Contents, AllSound, SoundDoc, Progress, Plans,
     Cleared, BackedUp, HalfWrittenHasBackup, File

-----------------------------------------------------------------------------
(* A save: its file operations, its end, and the end of the application in it *)

\* What becomes of the documents
Moved ==
    /\ conf' \in {conf, to, Partial, Absent} /\ from' \in {from, Absent} /\ to' \in {to, Absent}
    /\ astray' = astray
    /\ \A s \in DOMAIN history' : history'[s] \in {from, Partial} \/ (s \in DOMAIN history /\ history'[s] = history[s])

LEMMA MovedSound ==
    ASSUME Contents, AllSound, Moved, \A s \in DOMAIN history' : history'[s] # Absent
    PROVE  Contents' /\ AllSound'
BY Kinds DEF Contents, AllSound, Moved, SoundDoc, File

LEMMA SaveKeeps ==
    ASSUME Inv, SaveStep PROVE Inv'
<1>. USE Kinds DEF Inv, SaveStep, Files
<1>1. Progress' /\ Cleared'
  <2>1. phase # "idle" /\ UNCHANGED <<container, todo, target, meddled, astray, from, to>>
    BY DEF FileStep, Backup, Archive, Prune, Write, Link, Fails, Fail
  <2>2. phase' = "done" => conf' = to
    BY <2>1 DEF FileStep, Backup, Archive, Prune, Write, Link, Fails, AfterFailure
  <2>. QED  BY <2>1, <2>2 DEF Progress, Cleared
<1>2. Moved /\ \A s \in DOMAIN history' : history'[s] # Absent
  <2>1. CASE Archive /\ UNCHANGED <<conf, bak, before, failures>>
    BY <2>1 DEF Moved, Archive, Put, Contents, BackedUp
  <2>2. CASE Prune /\ UNCHANGED <<conf, bak, name, newest, before, failures>>
    BY <2>2 DEF Moved, Prune, Contents
  <2>3. CASE history' = history /\ conf' \in {conf, to, Partial, Absent}
    BY <2>3 DEF Moved, Contents
  <2>. QED  BY <2>1, <2>2, <2>3 DEF FileStep, Backup, Write, Link, Fails
<1>3. BackedUp'
  <2>. USE DEF BackedUp, HalfWrittenHasBackup, Contents
  <2>1. CASE Backup /\ UNCHANGED <<conf, history, name, newest, before, failures>>
    BY <2>1 DEF Backup
  <2>2. CASE Archive /\ UNCHANGED <<conf, bak, before, failures>>
    BY <2>2 DEF Archive
  <2>3. CASE Prune /\ UNCHANGED <<conf, bak, name, newest, before, failures>>
    BY <2>3 DEF Prune
  <2>4. CASE Write /\ UNCHANGED <<bak, history, name, newest, failures>>
    BY <2>4 DEF Write
  <2>5. CASE Link /\ UNCHANGED <<bak, history, name, newest, failures>>
    BY <2>5 DEF Link, Vacant
  <2>6. CASE Fails
    BY <2>6 DEF Fails, AfterFailure
  <2>. QED  BY <2>1, <2>2, <2>3, <2>4, <2>5, <2>6 DEF FileStep
<1>. QED  BY <1>1, <1>2, <1>3, MovedSound

LEMMA EndKeeps ==
    ASSUME Inv, Returns \/ Dies PROVE Inv'
<1>. USE Kinds DEF Inv
<1>1. /\ phase' = "idle" /\ UNCHANGED <<files, before, container, target, meddled, astray>> /\ from' = Absent /\ to' = Absent
      /\ todo' \in {<<>>, Continue} /\ (todo' # <<>> => phase = "done")
  BY DEF Returns, Return, Dies, Crash, files, Continue
<1>2. Moved /\ Contents' /\ AllSound'
  BY <1>1, MovedSound DEF Moved, files, Contents
<1>3. Progress' /\ Cleared'
  <2>1. CASE todo' = <<>>
    BY <1>1, <2>1 DEF Progress, Cleared, Plans
  <2>2. CASE todo' = Tail(todo) /\ phase = "done"
    <3>1. /\ todo' \in {<<"detour">>, <<"stop">>, <<>>} /\ (todo' = <<"stop">> => todo = <<"clear", "stop">>)
          /\ todo' = <<"detour">> => todo = <<"ensure", "detour">>
      BY <2>2, Leaves, Zenon DEF Progress
    <3>2. Progress'
      BY <1>1, <3>1 DEF Progress, Plans
    <3>3. Cleared'
      BY <1>1, <2>2, <3>1 DEF Cleared, files
    <3>. QED  BY <3>2, <3>3
  <2>. QED  BY <1>1, <2>1, <2>2 DEF Continue
<1>4. BackedUp'
  BY <1>1 DEF BackedUp, HalfWrittenHasBackup, files
<1>. QED  BY <1>2, <1>3, <1>4

LEMMA OutsideKeeps ==
    ASSUME Inv, (\E d \in Foreigns : OtherProgram(d)) \/ ClockSetBack PROVE Inv'
<1>. USE Kinds DEF Inv
<1>1. ASSUME NEW d \in Foreigns, OtherProgram(d) PROVE Inv'
  <2>1. /\ conf' = d /\ before' = Absent /\ phase # "writing"
        /\ UNCHANGED <<bak, history, phase, from, to, container, todo, target>>
        /\ todo # <<>> => meddled'
        /\ d \in Docs \cup {Absent}
    BY <1>1, DocumentAssumption DEF OtherProgram, Foreign, save
  <2>2. ~astray' => ~astray /\ (d \in Docs => Dangling(d) = {})
    BY <1>1, Zenon DEF OtherProgram
  <2>3. Contents' /\ AllSound'
    BY <2>1, <2>2 DEF Contents, AllSound, File, SoundDoc
  <2>4. Progress' /\ Cleared'
    BY <2>1 DEF Progress, Cleared
  <2>5. BackedUp'
    BY <2>1 DEF BackedUp, HalfWrittenHasBackup
  <2>. QED  BY <2>3, <2>4, <2>5
<1>2. CASE ClockSetBack
  BY <1>2 DEF ClockSetBack, SetBack, files, save, Contents, AllSound, SoundDoc, Progress,
     Cleared,
     BackedUp, HalfWrittenHasBackup
<1>. QED  BY <1>1, <1>2

-----------------------------------------------------------------------------
(* The operations and their steps *)

\* The files are not touched where a save begins
LEMMA BeginKeeps ==
    ASSUME Inv, phase = "idle", NEW d \in Docs, Begin(d) \/ Create(d), SoundDoc(d), astray' = astray
    PROVE  Contents' /\ AllSound' /\ BackedUp'
BY Kinds DEF Inv, Begin, Create, files, Contents, AllSound, SoundDoc, File, BackedUp,
   HalfWrittenHasBackup

LEMMA OperationKeeps ==
    ASSUME Inv,
           \/ EnableChain \/ DisableChain \/ EnableDirect
           \/ \E t \in Servers \cup {Bypass} : SwitchOutbound(t)
           \/ \E s \in DOMAIN history : RestoreVersion(s)
           \/ \E d \in Foreigns \ {Absent} : SaveSection(d) \/ CreateConfig(d)
    PROVE  Inv'
<1>. USE Kinds DEF Inv, Operation
<1>1. CASE EnableChain \/ DisableChain \/ EnableDirect
  <2>1. UNCHANGED <<conf, bak, history, phase, from, to, before, container, astray>> /\ phase = "idle"
    BY <1>1 DEF EnableChain, DisableChain, EnableDirect, storeVars, files, save
  <2>2. Contents' /\ AllSound' /\ BackedUp'
    BY <2>1 DEF Contents, AllSound, SoundDoc, BackedUp, HalfWrittenHasBackup
  <2>3. Progress' /\ Cleared'
    BY <1>1, <2>1 DEF EnableChain, DisableChain, EnableDirect, Progress, Plans, Cleared
  <2>. QED  BY <2>2, <2>3
<1>2. ASSUME NEW d \in Docs, SoundDoc(d), Operation(<<"save">>), Begin(d) \/ Create(d), UNCHANGED target PROVE Inv'
  <2>1. Contents' /\ AllSound' /\ BackedUp'
    BY <1>2, BeginKeeps
  <2>2. Progress' /\ Cleared'
    BY <1>2 DEF Begin, Create, files, Progress, Plans, Cleared
  <2>. QED  BY <2>1, <2>2
<1>3. ASSUME NEW d \in Docs, conf \in Docs, Operation(<<"save">>), SaveChecked(d), UNCHANGED target PROVE Inv'
  BY <1>2, <1>3, CheckedSound DEF SaveChecked, AllSound
<1>4. ASSUME NEW t \in Servers \cup {Bypass}, SwitchOutbound(t) PROVE Inv'
  BY <1>3, <1>4, SwitchedDoc DEF SwitchOutbound
<1>5. ASSUME NEW s \in DOMAIN history, RestoreVersion(s) PROVE Inv'
  BY <1>3, <1>5 DEF RestoreVersion, Whole
<1>6. ASSUME NEW d \in Foreigns \ {Absent}, SaveSection(d) \/ CreateConfig(d) PROVE Inv'
  <2>1. d \in Docs
    BY DocumentAssumption
  <2>2. CASE SaveSection(d)
    <3>1. PICK other \in {conf.other, d.other} :
            \/ SaveChecked([conf EXCEPT !.detour = d.detour, !.bypass = d.bypass, !.other = other])
            \/ SaveChecked([conf EXCEPT !.rule = d.rule, !.final = d.final, !.other = other])
      BY <2>2, Zenon DEF SaveSection
    <3>2. conf \in Docs /\ Operation(<<"save">>) /\ UNCHANGED target
      BY <2>2, Zenon DEF SaveSection
    <3>3. /\ [conf EXCEPT !.detour = d.detour, !.bypass = d.bypass, !.other = other] \in Docs
          /\ [conf EXCEPT !.rule = d.rule, !.final = d.final, !.other = other] \in Docs
      BY <2>1, <3>2 DEF Document
    <3>4. PICK e \in Docs : SaveChecked(e)
      BY <3>1, <3>3, Zenon
    <3>. QED  BY <1>3, <3>2, <3>4
  <2>3. CASE CreateConfig(d)
    BY <1>2, <2>1, <2>3 DEF CreateConfig, SoundDoc
  <2>. QED  BY <1>6, <2>2, <2>3
<1>. QED  BY <1>1, <1>4, <1>5, <1>6

\* The operations of a single save begin it
LEMMA SavesBegin ==
    ASSUME \/ \E t \in Servers \cup {Bypass} : SwitchOutbound(t)
           \/ \E s \in DOMAIN history : RestoreVersion(s)
           \/ \E d \in Foreigns \ {Absent} : SaveSection(d) \/ CreateConfig(d)
    PROVE  UNCHANGED <<container, target>> /\ \E d : Begin(d) \/ Create(d)
<1>1. ASSUME NEW t \in Servers \cup {Bypass}, SwitchOutbound(t)
      PROVE UNCHANGED <<container, target>> /\ \E d : Begin(d)
  BY <1>1 DEF SwitchOutbound, Operation, SaveChecked
<1>2. ASSUME NEW s \in DOMAIN history, RestoreVersion(s)
      PROVE UNCHANGED <<container, target>> /\ \E d : Begin(d)
  BY <1>2 DEF RestoreVersion, Operation, SaveChecked
<1>3. ASSUME NEW d \in Foreigns \ {Absent}, SaveSection(d)
      PROVE UNCHANGED <<container, target>> /\ \E e : Begin(e)
  BY <1>3, Zenon DEF SaveSection, Operation, SaveChecked
<1>4. ASSUME NEW d \in Foreigns \ {Absent}, CreateConfig(d)
      PROVE UNCHANGED <<container, target>> /\ \E e : Create(e)
  BY <1>4 DEF CreateConfig, Operation
<1>. QED  BY <1>1, <1>2, <1>3, <1>4, Zenon

LEMMA StepKeeps ==
    ASSUME Inv, StartContainer \/ StopContainer \/ Edit \/ StepFails PROVE Inv'
<1>. USE Kinds DEF Inv
<1>1. CASE StartContainer \/ StopContainer \/ StepFails
  <2>1. UNCHANGED <<conf, bak, history, phase, from, to, before, target, meddled, astray>> /\ phase = "idle"
    BY <1>1 DEF StartContainer, StopContainer, StepFails, storeVars, files, save
  <2>2. Contents' /\ AllSound' /\ BackedUp'
    BY <2>1 DEF Contents, AllSound, SoundDoc, BackedUp, HalfWrittenHasBackup
  <2>3. Progress' /\ Cleared'
    <3>1. CASE StartContainer
      <4>1. \/ todo = <<"start", "ensure", "detour">> /\ todo' = <<"ensure", "detour">>
            \/ todo = <<"start", "ensure">> /\ todo' = <<"ensure">>
        <5>1. todo \in {<<"start", "ensure", "detour">>, <<"start", "ensure">>}
          BY <3>1 DEF StartContainer, Progress, Plans
        <5>2. todo' = Tail(todo)
          BY <3>1 DEF StartContainer
        <5>. QED  BY <5>1, <5>2, Tails, Zenon
      <4>2. container' = "running"
        BY <3>1 DEF StartContainer
      <4>3. Progress'
        BY <2>1, <4>1, <4>2 DEF Progress, Plans
      <4>4. Cleared'
        BY <2>1, <4>1 DEF Cleared
      <4>. QED  BY <4>3, <4>4
    <3>2. CASE StopContainer
      <4>1. todo = <<"stop">> /\ todo' = <<>>
        <5>1. todo = <<"stop">> /\ todo' = Tail(todo)
          BY <3>2 DEF StopContainer, Progress, Plans
        <5>. QED  BY <5>1, Tails, Zenon
      <4>. QED  BY <2>1, <4>1 DEF Progress, Plans, Cleared
    <3>3. CASE StepFails
      <4>1. todo' = <<>>
        BY <3>3 DEF StepFails
      <4>. QED  BY <2>1, <4>1 DEF Progress, Plans, Cleared
    <3>. QED  BY <1>1, <3>1, <3>2, <3>3
  <2>. QED  BY <2>2, <2>3
<1>2. CASE Edit
  <2>1. PICK d \in Edited(Head(todo), conf) :
            IF d = conf THEN todo' = Tail(todo) /\ UNCHANGED storeVars ELSE SaveChecked(d) /\ todo' = todo
    BY <1>2 DEF Edit
  <2>2. /\ phase = "idle" /\ conf \in Docs /\ UNCHANGED <<container, target, meddled, astray>>
        /\ todo \in {<<"ensure", "detour">>, <<"detour">>, <<"ensure">>, <<"clear", "stop">>}
    BY <1>2, <2>1 DEF Edit, Edited, Progress, Plans
  <2>3. d \in Docs /\ SoundDoc(d) /\ (Head(todo) = "clear" => d.detour = {})
    BY <2>2, EditedSound DEF AllSound, Progress
  <2>4. CASE d = conf
    <3>1. UNCHANGED <<conf, bak, history, phase, from, to, before>>
      BY <2>1, <2>4 DEF storeVars, files, save
    <3>2. Contents' /\ AllSound' /\ BackedUp'
      BY <2>2, <3>1 DEF Contents, AllSound, SoundDoc, BackedUp, HalfWrittenHasBackup
    <3>3. Progress' /\ Cleared'
      <4>1. /\ todo' \in {<<"detour">>, <<"stop">>, <<>>} /\ (todo' = <<"stop">> => todo = <<"clear", "stop">>)
            /\ todo' = <<"detour">> => todo = <<"ensure", "detour">>
        BY <2>1, <2>2, <2>4, Leaves
      <4>2. Progress'
        BY <2>2, <3>1, <4>1 DEF Progress, Plans
      <4>3. Cleared'
        BY <2>2, <2>3, <2>4, <3>1, <4>1 DEF Cleared
      <4>. QED  BY <4>2, <4>3
    <3>. QED  BY <3>2, <3>3
  <2>5. CASE d # conf
    <3>1. Begin(d) /\ todo' = todo
      BY <2>1, <2>5 DEF SaveChecked
    <3>2. Contents' /\ AllSound' /\ BackedUp'
      BY <2>2, <2>3, <3>1, BeginKeeps
    <3>3. Progress' /\ Cleared'
      BY <2>2, <2>3, <3>1 DEF Begin, files, Progress, Plans, Cleared
    <3>. QED  BY <3>2, <3>3
  <2>. QED  BY <2>4, <2>5
<1>. QED  BY <1>1, <1>2

LEMMA StepInv == ASSUME Inv, [Next]_vars PROVE Inv'
<1>1. CASE UNCHANGED vars
  BY <1>1 DEF vars, storeVars, files, save, Inv, Contents, AllSound, SoundDoc, Progress,
     Cleared,
     BackedUp, HalfWrittenHasBackup
<1>. QED  BY <1>1, OperationKeeps, StepKeeps, SaveKeeps, EndKeeps, OutsideKeeps, Zenon DEF Next

-----------------------------------------------------------------------------
(* The properties *)

LEMMA StepServed == ASSUME Inv, Inv', [Next]_vars PROVE [NoDangling' /\ (~meddled' => ContainerFirst)]_vars
<1>1. NoDangling'
  BY DEF Inv, AllSound, SoundDoc, NoDangling
<1>2. todo # <<>> /\ Head(todo) = "detour" => container = "running"
  BY DEF Inv, Progress, Plans
<1>3. ~meddled' /\ container = "running" /\ container' = "stopped" => conf.detour = {} /\ ~Routed(conf)
  <2>1. CASE StopContainer
    BY <2>1 DEF StopContainer, Unused, Inv, Progress, Plans, Cleared
  <2>2. CASE container' # "stopped" \/ container' = container
    BY <2>2
  <2>. QED
    BY <2>1, <2>2 DEF Next, vars, EnableChain, DisableChain, EnableDirect, SwitchOutbound,
       SaveSection, RestoreVersion,
                   CreateConfig, Operation, StartContainer, Edit, StepFails, SaveStep, Returns, Dies, OtherProgram, ClockSetBack
<1>. QED  BY <1>1, <1>2, <1>3 DEF ContainerFirst

\* Documents without dangling references everywhere, unless another program has
\* written one; the plans, and the backup
THEOREM Invariance == Spec => []Inv
BY InitInv, StepInv, PTL DEF Spec

\* config.json has no reference to a missing bypass outbound that sing-box would
\* not start with, until another program writes one: saved sections, rollbacks
\* and switches add none. A chain is saved over a running container only, which
\* stops when nothing is dialled through it and no rule or route.final leads to
\* it: for every failure and crash at any file operation (EnableChain,
\* DisableChain, checkDependencies).
THEOREM BypassServed == Spec => BypassIsServed
BY Invariance, StepServed, PTL DEF Spec, BypassIsServed

\* A half-written config.json has in its backup what it replaced (editor.go write)
THEOREM BackupIsThere == Spec => []HalfWrittenHasBackup
<1>1. Inv => HalfWrittenHasBackup
  BY DEF Inv, BackedUp
<1>. QED  BY <1>1, Invariance, PTL

-----------------------------------------------------------------------------
(* The names of the archived versions *)

\* The stamps are numbers, and the one being archived is in the history
Stamps ==
    /\ DOMAIN history \subseteq Nat /\ IsFiniteSet(DOMAIN history)
    /\ clock \in 0 .. MaxClock /\ name \in Nat /\ newest \in Seq(Nat)
    /\ phase = "archiving" => name \in DOMAIN history

\* The names given ahead of the clock
Ahead == {s \in DOMAIN history : s >= clock}

\* As long as the clock is not set back, no name between it and one in the
\* history is free, there are no more than Keep of them, and the last names given
\* are the greatest
Ordered ==
    /\ \A s \in DOMAIN history : \A r \in clock .. s : r \in DOMAIN history
    /\ Cardinality(Ahead) <= Keep
    /\ phase \in {"backup", "backing", "archive"} => Cardinality(Ahead) < Keep
    /\ Len(newest) <= Keep
    /\ \A i \in 1 .. Len(newest) : newest[i] \in DOMAIN history
    /\ \A i, j \in 1 .. Len(newest) : i < j => newest[i] < newest[j]
    /\ \A s \in DOMAIN history, i \in 1 .. Len(newest) :
          s < newest[i] \/ \E j \in 1 .. Len(newest) : s = newest[j]

\* There is a free name from now on, and Stamp is the first
LEMMA StampIsFree ==
    ASSUME DOMAIN history \subseteq Nat, IsFiniteSet(DOMAIN history), clock \in Nat
    PROVE  /\ Stamp \in Nat /\ Stamp >= clock /\ Stamp \notin DOMAIN history
           /\ \A r \in clock .. Stamp - 1 : r \in DOMAIN history
<1> DEFINE H == DOMAIN history
           room == clock .. clock + Cardinality(H)
           Spare == room \ H
<1>1. Cardinality(H) \in Nat
  BY FS_CardinalityType
<1>2. Cardinality(room) = Cardinality(H) + 1
  BY <1>1, FS_Interval
<1>3. Spare # {}
  <2>1. SUFFICES ASSUME room \subseteq H PROVE FALSE
    OBVIOUS
  <2>2. Cardinality(room) <= Cardinality(H)
    BY <2>1, FS_Subset
  <2> QED  BY <1>1, <1>2, <2>2
<1>4. Spare \subseteq Nat
  BY <1>1
<1>5. PICK s \in Spare : \A m \in Spare : s <= m
  BY <1>3, <1>4, Least
<1>6. s \in room /\ s \notin H /\ \A r \in clock .. s - 1 : r \in H
  BY <1>1, <1>5
<1>7. /\ Stamp \in room /\ Stamp \notin H
      /\ \A r \in clock .. Stamp - 1 : r \in H
  <2> HIDE DEF H
  <2>1. Stamp = CHOOSE x \in room : x \notin H /\ \A r \in clock .. x - 1 : r \in H
    BY DEF Stamp, H
  <2> QED  BY <1>6, <2>1
<1> QED  BY <1>1, <1>7

\* What the pruning removes is the oldest name
LEMMA MinIsLeast ==
    ASSUME NEW S, S \subseteq Nat, S # {}
    PROVE  Min(S) \in S /\ \A m \in S : Min(S) <= m
<1>1. \E n \in S : \A m \in S : n <= m
  BY Least
<1> QED
  BY <1>1 DEF Min

\* They can be counted
LEMMA AheadFinite ==
    ASSUME IsFiniteSet(DOMAIN history)
    PROVE  IsFiniteSet(Ahead) /\ Cardinality(Ahead) \in Nat
BY FS_Subset, FS_CardinalityType DEF Ahead

\* With a clock that was set back only the stamps are certain
Named == Stamps /\ (~setBack => Ordered)

\* What leaves the names alone
LEMMA OtherwiseNamed ==
    ASSUME Named, UNCHANGED <<history, newest, clock>>, setBack' <=> setBack,
           \/ UNCHANGED <<phase, name>>
           \/ phase' = "idle" /\ name' \in {name, 0}
           \/ phase' \notin {"backup", "backing", "archive", "archiving"} /\ name' = name
           \/ phase' \in {"backing", "archive"} /\ phase \in {"backup", "backing"} /\ name' = name
    PROVE  Named'
<1>1. Stamps'
  BY DEF Named, Stamps
<1>2. ASSUME Ordered PROVE Ordered'
  <2>1. Ahead' = Ahead
    BY DEF Ahead
  <2> QED  BY <1>2, <2>1 DEF Ordered
<1> QED
  BY <1>1, <1>2, Zenon DEF Named

\* The clock moves only where a save begins, and when it stands still there is
\* room for a name
LEMMA BeginNamed ==
    ASSUME Named, Reading, UNCHANGED <<history, newest, name, setBack>>, phase' = "backup"
    PROVE  Named'
<1> USE StoreAssumption
<1>1. clock \in Nat /\ clock' \in {clock, clock + 1} /\ clock' <= MaxClock
  BY DEF Named, Stamps, Reading
<1>2. Stamps'
  BY <1>1 DEF Named, Stamps
<1>3. ASSUME Ordered PROVE Ordered'
  <2>1. \A s \in DOMAIN history : \A r \in clock' .. s : r \in DOMAIN history
    BY <1>1, <1>3 DEF Ordered
  <2>2. Cardinality(Ahead') < Keep
    <3>1. CASE clock' = clock
      <4>1. Ahead' = {s \in DOMAIN history : s >= clock}
        BY <3>1 DEF Ahead
      <4> QED  BY <3>1, <4>1 DEF Reading
    <3>2. CASE clock' = clock + 1
      <4>1. IsFiniteSet(Ahead) /\ Cardinality(Ahead) \in Nat /\ Cardinality(Ahead) <= Keep
        BY <1>3, AheadFinite DEF Named, Stamps, Ordered
      <4>2. Ahead' = Ahead \ {clock}
        BY <1>1, <3>2 DEF Ahead, Named, Stamps
      <4>3. CASE clock \in Ahead
        <5>1. Cardinality(Ahead \ {clock}) = Cardinality(Ahead) - 1
          BY <4>1, <4>3, FS_RemoveElement
        <5> QED  BY <4>1, <4>2, <5>1
      <4>4. CASE clock \notin Ahead
        <5>1. Ahead = {}
          BY <1>1, <1>3, <4>4 DEF Ahead, Ordered, Named, Stamps
        <5> QED  BY <4>2, <5>1, FS_EmptySet
      <4> QED  BY <4>3, <4>4
    <3> QED  BY <1>1, <3>1, <3>2
  <2>3. Cardinality(Ahead') \in Nat
    <3>1. Ahead' \subseteq DOMAIN history
      BY DEF Ahead
    <3> QED  BY <3>1, FS_Subset, FS_CardinalityType DEF Named, Stamps
  <2> QED
    BY <1>3, <2>1, <2>2, <2>3 DEF Ordered
<1> QED
  BY <1>2, <1>3 DEF Named

\* A new name is greater than every name in the history
LEMMA ArchiveNamed ==
    ASSUME Named, Archive, UNCHANGED <<clock, setBack>>
    PROVE  Named'
<1> USE StoreAssumption
<1>1. CASE phase = "archiving"
  <2>1. DOMAIN history' = DOMAIN history /\ UNCHANGED <<newest, name>> /\ phase' = "prune"
    BY <1>1 DEF Archive, Put, Named, Stamps
  <2>2. Ahead' = Ahead
    BY <2>1 DEF Ahead
  <2> QED
    BY <2>1, <2>2 DEF Named, Stamps, Ordered
<1>2. CASE phase = "archive"
  <2> DEFINE all == Append(newest, Stamp)
  <2>1. /\ name' = Stamp /\ phase' = "archiving"
        /\ DOMAIN history' = DOMAIN history \cup {Stamp}
        /\ newest' = IF Len(all) > Keep THEN Tail(all) ELSE all
    BY <1>2 DEF Archive, Put
  <2>2. /\ DOMAIN history \subseteq Nat /\ IsFiniteSet(DOMAIN history) /\ clock \in Nat
        /\ newest \in Seq(Nat)
    BY DEF Named, Stamps
  <2>3. /\ Stamp \in Nat /\ Stamp >= clock /\ Stamp \notin DOMAIN history
        /\ \A r \in clock .. Stamp - 1 : r \in DOMAIN history
    BY <2>2, StampIsFree
  <2>4. all \in Seq(Nat) /\ Len(all) = Len(newest) + 1
        /\ \A i \in 1 .. Len(newest) : all[i] = newest[i]
        /\ all[Len(newest) + 1] = Stamp
    BY <2>2, <2>3
  <2>5. newest' \in Seq(Nat)
    BY <2>1, <2>4
  <2>6. Stamps'
    BY <2>1, <2>2, <2>3, <2>5, FS_AddElement DEF Named, Stamps
  <2>7. ASSUME Ordered PROVE Ordered'
    <3>1. \A s \in DOMAIN history : s < Stamp
      BY <2>2, <2>3, <2>7 DEF Ordered
    <3>2. \A s \in DOMAIN history' : \A r \in clock' .. s : r \in DOMAIN history'
      BY <2>1, <2>2, <2>3, <2>7 DEF Ordered
    <3>3. Cardinality(Ahead') <= Keep /\ Cardinality(Ahead') \in Nat
      <4>1. Ahead' = Ahead \cup {Stamp}
        BY <2>1, <2>3 DEF Ahead
      <4>2. IsFiniteSet(Ahead) /\ Cardinality(Ahead) \in Nat /\ Cardinality(Ahead) < Keep
        BY <1>2, <2>2, <2>7, AheadFinite DEF Ordered
      <4> QED  BY <4>1, <4>2, FS_AddElement
    <3>4. \A i, j \in 1 .. Len(all) : i < j => all[i] < all[j]
      <4> SUFFICES ASSUME NEW i \in 1 .. Len(all), NEW j \in 1 .. Len(all), i < j
                   PROVE  all[i] < all[j]
        OBVIOUS
      <4>1. i \in 1 .. Len(newest) /\ all[i] = newest[i] /\ newest[i] \in DOMAIN history
        BY <2>2, <2>4, <2>7 DEF Ordered
      <4>2. CASE j \in 1 .. Len(newest)
        BY <2>4, <2>7, <4>1, <4>2 DEF Ordered
      <4>3. CASE j = Len(newest) + 1
        BY <2>4, <3>1, <4>1, <4>3
      <4> QED  BY <2>2, <2>4, <4>2, <4>3
    <3>5. \A i \in 1 .. Len(all) : all[i] \in DOMAIN history'
      <4> SUFFICES ASSUME NEW i \in 1 .. Len(all) PROVE all[i] \in DOMAIN history'
        OBVIOUS
      <4>1. CASE i \in 1 .. Len(newest)
        BY <2>1, <2>4, <2>7, <4>1 DEF Ordered
      <4>2. CASE i = Len(newest) + 1
        BY <2>1, <2>4, <4>2
      <4> QED  BY <2>2, <2>4, <4>1, <4>2
    <3>6. \A s \in DOMAIN history', i \in 1 .. Len(all) :
             s < all[i] \/ \E j \in 1 .. Len(all) : s = all[j]
      <4> SUFFICES ASSUME NEW s \in DOMAIN history', NEW i \in 1 .. Len(all)
                   PROVE  s < all[i] \/ \E j \in 1 .. Len(all) : s = all[j]
        OBVIOUS
      <4>1. CASE s = Stamp
        BY <2>2, <2>4, <4>1
      <4>2. CASE s \in DOMAIN history /\ i = Len(newest) + 1
        BY <2>4, <3>1, <4>2
      <4>3. CASE s \in DOMAIN history /\ i \in 1 .. Len(newest)
        <5>1. s < newest[i] \/ \E j \in 1 .. Len(newest) : s = newest[j]
          BY <2>7, <4>3 DEF Ordered
        <5> QED  BY <2>2, <2>4, <4>3, <5>1
      <4> QED  BY <2>1, <2>2, <2>4, <4>1, <4>2, <4>3
    <3> HIDE DEF all
    <3>7. CASE Len(all) <= Keep
      <4>1. newest' = all
        BY <2>1, <2>4, <3>7
      <4> QED  BY <2>1, <3>2, <3>3, <3>4, <3>5, <3>6, <3>7, <4>1 DEF Ordered
    <3>8. CASE Len(all) > Keep
      <4>1. newest' = Tail(all) /\ Len(newest) = Keep /\ Len(all) = Keep + 1
        BY <2>1, <2>2, <2>4, <2>7, <3>8 DEF Ordered
      <4>2. Len(newest') = Keep /\ \A i \in 1 .. Keep : newest'[i] = all[i + 1]
        BY <2>4, <4>1
      <4>3. \A i \in 1 .. Keep : newest'[i] \in DOMAIN history'
        BY <3>5, <4>1, <4>2
      <4>4. \A i, j \in 1 .. Keep : i < j => newest'[i] < newest'[j]
        BY <3>4, <4>1, <4>2
      <4>5. \A s \in DOMAIN history', i \in 1 .. Keep :
               s < newest'[i] \/ \E j \in 1 .. Keep : s = newest'[j]
        <5> SUFFICES ASSUME NEW s \in DOMAIN history', NEW i \in 1 .. Keep
                     PROVE  s < newest'[i] \/ \E j \in 1 .. Keep : s = newest'[j]
          OBVIOUS
        <5>1. CASE s < all[i + 1]
          BY <4>2, <5>1
        <5>2. ASSUME NEW j \in 1 .. Len(all), s = all[j], j > 1
              PROVE  \E k \in 1 .. Keep : s = newest'[k]
          <6>1. j - 1 \in 1 .. Keep /\ newest'[j - 1] = all[j]
            BY <4>1, <4>2, <5>2
          <6> QED  BY <5>2, <6>1
        <5>3. CASE s = all[1]
          BY <3>4, <4>1, <4>2, <5>3
        <5>4. i + 1 \in 1 .. Len(all)
          BY <4>1
        <5>5. s < all[i + 1] \/ \E j \in 1 .. Len(all) : s = all[j]
          BY <3>6, <5>4
        <5>6. \A j \in 1 .. Len(all) : j > 1 \/ j = 1
          OBVIOUS
        <5>7. CASE \E j \in 1 .. Len(all) : s = all[j]
          <6>1. PICK j \in 1 .. Len(all) : s = all[j]
            BY <5>7
          <6>2. CASE j > 1
            BY <5>2, <6>1, <6>2
          <6>3. CASE j = 1
            BY <5>3, <6>1, <6>3
          <6> QED  BY <5>6, <6>2, <6>3
        <5> QED  BY <5>1, <5>5, <5>7, Zenon
      <4>6. phase' \notin {"backup", "backing", "archive"}
        BY <2>1
      <4>7. Len(newest') <= Keep
        BY <4>2
      <4>8. 1 .. Len(newest') = 1 .. Keep
        BY <4>2
      <4> QED  BY <3>2, <3>3, <4>3, <4>4, <4>5, <4>6, <4>7, <4>8, Zenon DEF Ordered
    <3> QED  BY <2>2, <2>4, <3>7, <3>8
  <2> QED
    BY <2>6, <2>7 DEF Named
<1> QED
  BY <1>1, <1>2 DEF Archive

\* Pruning removes a name from before the clock, which is none of the last Keep
LEMMA PruneNamed ==
    ASSUME Named, Prune, UNCHANGED <<clock, setBack, newest, name>>
    PROVE  Named'
<1> USE StoreAssumption
<1>3. Cardinality(DOMAIN history) \in Nat
  BY FS_CardinalityType DEF Named, Stamps
<1>1. CASE Cardinality(DOMAIN history) <= Keep
  <2>1. UNCHANGED history /\ phase = "prune" /\ phase' = "write"
    BY <1>1, <1>3 DEF Prune
  <2> QED  BY <2>1, OtherwiseNamed
<1>2. CASE Cardinality(DOMAIN history) > Keep
  <2> DEFINE H == DOMAIN history
             least == Min(H)
  <2>1. phase = "prune" /\ phase' = "prune" /\ DOMAIN history' = H \ {least}
    BY <1>2 DEF Prune
  <2>2. H \subseteq Nat /\ IsFiniteSet(H) /\ clock \in Nat /\ newest \in Seq(Nat)
    BY DEF Named, Stamps
  <2>3. Cardinality(H) \in Nat /\ H # {}
    BY <1>2, <2>2, FS_EmptySet, FS_CardinalityType
  <2> HIDE DEF H
  <2>4. least \in H /\ \A m \in H : least <= m
    BY <2>2, <2>3, MinIsLeast
  <2>5. Stamps'
    BY <2>1, <2>2, FS_RemoveElement DEF Named, Stamps, H
  <2>6. ASSUME Ordered PROVE Ordered'
    <3>1. Ahead \subseteq H /\ Cardinality(Ahead) \in Nat /\ Cardinality(Ahead) <= Keep
      BY <2>2, <2>6, AheadFinite DEF Ahead, H, Ordered
    <3>2. least < clock
      <4>1. PICK s \in H : s \notin Ahead
        BY <1>2, <3>1 DEF H
      <4> QED  BY <2>2, <2>4, <4>1 DEF Ahead, H
    <3>3. Ahead' = Ahead
      BY <2>1, <2>2, <2>4, <3>2 DEF Ahead, H
    <3>4. \A i \in 1 .. Len(newest) : newest[i] # least
      <4> SUFFICES ASSUME NEW i \in 1 .. Len(newest), newest[i] = least PROVE FALSE
        OBVIOUS
      <4>1. \A s \in H : \E j \in 1 .. Len(newest) : s = newest[j]
        BY <2>2, <2>4, <2>6 DEF Ordered, H
      <4>2. Cardinality(H) <= Len(newest)
        <5>1. newest \in Surjection(1 .. Len(newest), H)
          <6>1. newest \in [1 .. Len(newest) -> Nat] /\ \A j \in 1 .. Len(newest) : newest[j] \in H
            BY <2>2, <2>6 DEF Ordered, H
          <6>2. newest \in [1 .. Len(newest) -> H]
            BY <6>1
          <6> QED  BY <4>1, <6>2 DEF Surjection
        <5>2. Len(newest) \in Nat
          BY <2>2
        <5> QED  BY <5>1, <5>2, FS_SurjCardinalityBound DEF ExistsSurjection
      <4> QED  BY <1>2, <2>2, <2>3, <2>6, <4>2 DEF Ordered, H
    <3> QED
      BY <2>1, <2>2, <2>6, <3>2, <3>3, <3>4 DEF Ordered, H
  <2> QED
    BY <2>5, <2>6 DEF Named
<1> QED
  BY <1>1, <1>2, <1>3

\* Every step keeps the names
LEMMA StepNamed == ASSUME Inv, Named, [Next]_vars PROVE Named'
<1>1. CASE UNCHANGED vars
  <2>1. UNCHANGED <<history, newest, clock, name, phase>> /\ (setBack' <=> setBack)
    BY <1>1, Zenon DEF vars, storeVars, files, save
  <2> QED  BY <2>1, OtherwiseNamed
<1>2. ASSUME NEW d, Begin(d) PROVE Named'
  BY <1>2, BeginNamed DEF Begin, files
<1>3. ASSUME NEW d, Create(d) PROVE Named'
  BY <1>3, OtherwiseNamed DEF Create, files
<1>4. CASE SaveStep
  <2>1. UNCHANGED <<clock, setBack>>
    BY <1>4 DEF SaveStep, Files
  <2>2. CASE Archive \/ (Prune /\ UNCHANGED <<newest, name>>)
    BY <2>1, <2>2, ArchiveNamed, PruneNamed
  <2>3. CASE UNCHANGED <<history, name, newest>> /\ (Backup \/ Write \/ Link \/ Fails)
    <3>1. \/ phase' \in {"backing", "archive"} /\ phase \in {"backup", "backing"}
          \/ phase' \notin {"backup", "backing", "archive", "archiving"}
      BY <2>3 DEF Backup, Write, Link, Fails, AfterFailure
    <3>2. UNCHANGED <<history, newest, clock, name>> /\ (setBack' <=> setBack)
      BY <2>1, <2>3, Zenon
    <3>3. CASE phase' \in {"backing", "archive"} /\ phase \in {"backup", "backing"}
      BY <3>2, <3>3, OtherwiseNamed
    <3>4. CASE phase' \notin {"backup", "backing", "archive", "archiving"}
      BY <3>2, <3>4, OtherwiseNamed
    <3> QED  BY <3>1, <3>3, <3>4
  <2>4. FileStep
    BY <1>4 DEF SaveStep, Files
  <2>5. Fails => UNCHANGED <<history, name, newest>>
    BY DEF Fails
  <2> QED  BY <2>2, <2>3, <2>4, <2>5 DEF FileStep
<1>5. CASE Returns \/ Dies
  BY <1>5, OtherwiseNamed DEF Returns, Return, Dies, Crash, files
<1>6. ASSUME NEW d, OtherProgram(d) PROVE Named'
  <2>1. UNCHANGED <<history, newest, clock, name, phase>> /\ (setBack' <=> setBack)
    BY <1>6, Zenon DEF OtherProgram, Foreign, save
  <2> QED  BY <2>1, OtherwiseNamed
<1>7. CASE ClockSetBack
  <2>1. setBack'
    BY <1>7, Zenon DEF ClockSetBack, SetBack
  <2>2. Stamps'
    <3>1. UNCHANGED <<history, newest, name, phase>> /\ clock > 0 /\ clock' \in 0 .. clock - 1
      BY <1>7, Zenon DEF ClockSetBack, SetBack, files, save
    <3> QED  BY <3>1, StoreAssumption DEF Named, Stamps
  <2> QED  BY <2>1, <2>2 DEF Named
<1>8. CASE UNCHANGED storeVars
  <2>1. UNCHANGED <<history, newest, clock, name, phase>> /\ (setBack' <=> setBack)
    BY <1>8, Zenon DEF storeVars, files, save
  <2> QED  BY <2>1, OtherwiseNamed
<1>9. CASE Edit
  <2>1. UNCHANGED storeVars \/ \E d : Begin(d)
    BY <1>9 DEF Edit, SaveChecked
  <2> QED  BY <1>2, <1>8, <2>1
<1>10. CASE EnableChain \/ DisableChain \/ EnableDirect \/ StartContainer \/ StopContainer \/ StepFails
  BY <1>8, <1>10 DEF EnableChain, DisableChain, EnableDirect, StartContainer, StopContainer, StepFails
<1> QED
  BY <1>1, <1>2, <1>3, <1>4, <1>5, <1>6, <1>7, <1>9, <1>10, SavesBegin, Zenon DEF Next

\* No names at first
LEMMA InitNamed == Init => Named
<1> SUFFICES ASSUME Init PROVE Named
  OBVIOUS
<1>1. DOMAIN history = {} /\ newest = <<>> /\ phase = "idle" /\ clock = 1 /\ name = 0
  BY DEF Init, StoreInit
<1>2. Ahead = {}
  BY <1>1 DEF Ahead
<1> QED
  BY <1>1, <1>2, StoreAssumption, FS_EmptySet DEF Named, Stamps, Ordered

\* The names of the history, in every behaviour
THEOREM VersionsNamed == Spec => []Named
BY Invariance, InitNamed, StepNamed, PTL DEF Spec

\* The newest Keep versions are in the history, each under a name of its own, as
\* long as the clock was not set back: for any number of saves in any order with
\* failures and crashes (editor.go archive, prune)
THEOREM NewestKept == Spec => []NewestAreKept
<1>1. Named => NewestAreKept
  <2> SUFFICES ASSUME Named, ~setBack PROVE IsInjective(newest) /\ Range(newest) \subseteq DOMAIN history
    BY DEF NewestAreKept
  <2>1. Ordered /\ newest \in Seq(Nat) /\ DOMAIN newest = 1 .. Len(newest)
    BY DEF Named, Stamps
  <2>2. IsInjective(newest)
    <3>1. \A i \in 1 .. Len(newest) : newest[i] \in Nat
      BY <2>1
    <3> QED  BY <2>1, <3>1 DEF Ordered, IsInjective
  <2>3. Range(newest) \subseteq DOMAIN history
    BY <2>1 DEF Ordered, Range
  <2> QED  BY <2>2, <2>3
<1> QED  BY <1>1, VersionsNamed, PTL

\* There is a way back: the backup of a half-written config.json, and the newest
\* versions (editor.go write, archive)
THEOREM WayBackThere == Spec => []WayBack
<1>1. HalfWrittenHasBackup /\ NewestAreKept => WayBack
  BY DEF WayBack
<1> QED  BY <1>1, BackupIsThere, NewestKept, PTL

-----------------------------------------------------------------------------
(* Types *)

Phases == {"idle", "backup", "backing", "archive", "archiving", "prune", "write",
           "writing", "link", "done", "failed"}

\* The types the invariant does not need
OthersOK ==
    /\ bak \in File /\ before \in Docs \cup {Absent} /\ phase \in Phases
    /\ container \in {"absent", "stopped", "running"} /\ target \in Servers \cup {Direct}
SwitchesOK == setBack \in BOOLEAN /\ meddled \in BOOLEAN /\ astray \in BOOLEAN

\* Every step keeps the Booleans
LEMMA StepSwitches == ASSUME SwitchesOK, [Next]_vars PROVE SwitchesOK'
BY Zenon DEF SwitchesOK, Next, vars, storeVars, EnableChain, DisableChain, EnableDirect,
   SwitchOutbound, SaveSection, RestoreVersion, CreateConfig, Operation, SaveChecked, Begin, Create,
   StartContainer, StopContainer, Edit, StepFails, SaveStep, Files, Returns, Return, Dies, Crash,
   OtherProgram, Foreign, ClockSetBack, SetBack

\* Every step keeps the other types
LEMMA StepOthers == ASSUME Inv, OthersOK, [Next]_vars PROVE OthersOK'
<1> USE DEF OthersOK, Phases, File, files, save
<1>1. CASE UNCHANGED vars \/ UNCHANGED <<storeVars, container, target>>
  BY <1>1 DEF vars, storeVars
<1>2. ASSUME NEW d, Begin(d) \/ Create(d), UNCHANGED <<container, target>> PROVE OthersOK'
  BY <1>2 DEF Begin, Create
<1>3. CASE SaveStep
  <2>1. UNCHANGED <<container, target>> /\ FileStep
    BY <1>3 DEF SaveStep, Files
  <2>2. from \in Docs \cup {Absent}
    BY DEF Inv, Contents
  <2>3. bak' \in {bak, Partial, from} /\ before' \in {before, from, Absent}
    BY <2>1 DEF FileStep, Backup, Archive, Prune, Write, Link, Fails
  <2>4. phase' \in Phases
    BY <2>1 DEF FileStep, Backup, Archive, Prune, Write, Link, Fails, AfterFailure
  <2> QED  BY <2>1, <2>2, <2>3, <2>4
<1>4. CASE Returns \/ Dies
  BY <1>4 DEF Returns, Return, Dies, Crash
<1>5. ASSUME NEW d, OtherProgram(d) PROVE OthersOK'
  BY <1>5 DEF OtherProgram, Foreign
<1>6. CASE ClockSetBack
  BY <1>6 DEF ClockSetBack, SetBack
<1>7. CASE StartContainer \/ StopContainer
  BY <1>7 DEF StartContainer, StopContainer, storeVars
<1>8. CASE EnableChain \/ DisableChain \/ EnableDirect \/ StepFails
  BY <1>8 DEF EnableChain, DisableChain, EnableDirect, StepFails, Operation, storeVars
<1>9. CASE Edit
  <2>1. UNCHANGED storeVars \/ \E d : Begin(d)
    BY <1>9 DEF Edit, SaveChecked
  <2> QED  BY <1>1, <1>2, <1>9, <2>1 DEF Edit
<1>10. ASSUME \E d : Begin(d) \/ Create(d), UNCHANGED <<container, target>> PROVE OthersOK'
  BY <1>2, <1>10
<1> QED
  BY <1>1, <1>3, <1>4, <1>5, <1>6, <1>7, <1>8, <1>9, <1>10, SavesBegin, Zenon DEF Next

\* They hold at first
LEMMA InitOthers == Init => OthersOK /\ SwitchesOK
<1> SUFFICES ASSUME Init PROVE OthersOK /\ SwitchesOK
  OBVIOUS
<1>1. OthersOK
  BY DEF Init, StoreInit, OthersOK, Phases, File
<1>2. SwitchesOK
  BY Zenon DEF Init, StoreInit, SwitchesOK
<1> QED  BY <1>1, <1>2

\* Every variable of the store and of the bypass keeps its type
THEOREM TypeCorrect == Spec => []TypeOK
<1>1. Inv /\ Named /\ OthersOK /\ SwitchesOK => TypeOK
  <2> SUFFICES ASSUME Inv, Named, OthersOK, SwitchesOK PROVE TypeOK
    OBVIOUS
  <2>1. todo \in Seq({"start", "stop", "ensure", "detour", "clear", "save"})
    <3> DEFINE Steps == {"start", "stop", "ensure", "detour", "clear", "save"}
    <3>1. /\ <<>> \in Seq(Steps) /\ <<"detour">> \in Seq(Steps) /\ <<"ensure">> \in Seq(Steps)
          /\ <<"stop">> \in Seq(Steps) /\ <<"save">> \in Seq(Steps)
      OBVIOUS
    <3>2. /\ <<"ensure", "detour">> \in Seq(Steps) /\ <<"start", "ensure">> \in Seq(Steps)
          /\ <<"clear", "stop">> \in Seq(Steps)
      OBVIOUS
    <3>3. <<"start", "ensure", "detour">> \in Seq(Steps)
      OBVIOUS
    <3> HIDE DEF Steps
    <3>4. todo \in Seq(Steps)
      BY <3>1, <3>2, <3>3, Zenon DEF Inv, Progress, Plans
    <3> QED  BY <3>4 DEF Steps
  <2>2. StoreTypeOK
    <3>1. Contents /\ Stamps /\ OthersOK
      BY DEF Inv, Named
    <3> QED  BY <3>1, Zenon DEF StoreTypeOK, Contents, Stamps, OthersOK, SwitchesOK, Phases
  <2> QED  BY <2>1, <2>2, Zenon DEF TypeOK, OthersOK, SwitchesOK
<1>2. Spec => [](OthersOK /\ SwitchesOK)
  BY InitOthers, StepOthers, StepSwitches, Invariance, PTL DEF Spec
<1> QED  BY <1>1, <1>2, Invariance, VersionsNamed, PTL
-----------------------------------------------------------------------------
(* The Web UI server: opMu and the requests                                    *)

ReqOK ==
    /\ req \in [Requests -> [at : {"free", "authorised", "locked", "serving"},
                             to : Endpoints, sub : Subs \cup {NoSub}]]
    /\ opMu \in Requests \cup {Tray, Nobody} /\ list \subseteq Subs

\* One holder: the lock is a request's exactly while it is past it
Owned ==
    \A r \in Requests : req[r].at \in {"locked", "serving"} <=> opMu = r

WebInv == ReqOK /\ Owned /\ LookupHolds

LEMMA FreeIsRequest ==
    Free \in [at : {"free", "authorised", "locked", "serving"}, to : Endpoints, sub : Subs \cup {NoSub}]
<1>1. "session" \in Endpoints
  BY DEF Endpoints, Reads
<1>. QED  BY <1>1 DEF Free

LEMMA WebInitInv == WebInit => WebInv
<1>1. Free.at = "free"
  BY DEF Free
<1>. QED  BY <1>1, HolderAssumption, FreeIsRequest DEF WebInit, WebInv, ReqOK, Owned,
   LookupHolds

LEMMA WebStepInv == ASSUME WebInv, [WebNext]_webVars PROVE WebInv'
<1>. USE HolderAssumption DEF WebInv, ReqOK, Owned, LookupHolds, access
<1>1. CASE Open \/ Tick \/ (\E c \in 1..MaxCodes : Login(c)) \/ (\E id \in 1..MaxLogins : Logout(id)) \/ UNCHANGED webVars
  <2>1. UNCHANGED <<opMu, list, req>>
    BY <1>1 DEF Open, Tick, Login, Logout, webVars
  <2>. QED  BY <2>1
<1>2. CASE TrayLocks \/ TrayDone
  BY <1>2 DEF TrayLocks, TrayDone
<1>3. ASSUME NEW r \in Requests, NEW id, NEW goal \in Asked, NEW sub \in Subs \cup {NoSub},
             Arrive(r, id, goal, sub)
      PROVE  WebInv'
  <2>1. /\ req[r].at = "free" /\ UNCHANGED <<opMu, list>>
        /\ req' = [req EXCEPT ![r] = [at |-> "authorised", to |-> goal, sub |-> sub]] \/ req' = req
    BY <1>3, Zenon DEF Arrive
  <2>2. goal \in Endpoints
    BY EndpointAssumption
  <2>. QED  BY <2>1, <2>2
<1>4. ASSUME NEW r \in Requests, Reject(r) \/ Handled(r) PROVE WebInv'
  <2>1. req[r].at = "authorised" /\ req' = [req EXCEPT ![r] = Free] /\ UNCHANGED <<opMu, list>>
    BY <1>4 DEF Reject, Handled, Read, SetVPN, Done
  <2>. QED  BY <2>1, FreeIsRequest DEF Free
<1>5. ASSUME NEW r \in Requests, Lock(r) \/ Serve(r) PROVE WebInv'
  BY <1>5 DEF Lock, Serve, Goes, Reads, VPNSwitch, Locked, ByID
<1>6. ASSUME NEW r \in Requests, LookUp(r) PROVE WebInv'
  <2>1. CASE req[r].sub \in list
    BY <1>6, <2>1 DEF LookUp, Goes, Held
  <2>2. CASE req[r].sub \notin list
    <3>1. req' = [req EXCEPT ![r] = Free] /\ opMu' = Nobody /\ req[r].at = "locked" /\ UNCHANGED list
      BY <1>6, <2>2 DEF LookUp, Done
    <3>. QED  BY <3>1, FreeIsRequest DEF Free
  <2>. QED  BY <2>1, <2>2
<1>7. ASSUME NEW r \in Requests, Answer(r) PROVE WebInv'
  <2>1. /\ req[r].at = "serving" /\ opMu' = Nobody /\ req' = [req EXCEPT ![r] = Free]
        /\ list' = list \cup {req[r].sub} \/ list' = list \ {req[r].sub} \/ list' = list
        /\ list' = list \cup {req[r].sub} /\ list' # list => req[r].sub # NoSub
    BY <1>7 DEF Answer, Done
  <2>2. list' \subseteq Subs
    BY <2>1
  <2>. QED  BY <2>1, <2>2, FreeIsRequest DEF Free
<1>. QED  BY <1>1, <1>2, <1>3, <1>4, <1>5, <1>6, <1>7 DEF WebNext, LockedStep

-----------------------------------------------------------------------------
\* The lock is its holder's from the lookup to the answer
THEOREM WebInvariance == WebSpec => []WebInv
BY WebInitInv, WebStepInv, PTL DEF WebSpec

\* The subscription found by its ID is there for the whole operation, whatever
\* the tray and any number of other requests do (handleSubscriptionUpdate,
\* handleSubscriptionRemove).
THEOREM LookupKept == WebSpec => []LookupHolds
<1>1. WebInv => LookupHolds
  BY DEF WebInv
<1>. QED  BY <1>1, WebInvariance, PTL
-----------------------------------------------------------------------------
(* The Web UI server: login codes and sessions                                 *)

\* A record of sessions
Session == [id : Drawn, code : Issued, age : 0..SessionLife, idle : 0..IdleLife]

AccessTypes ==
    /\ codes \in Seq(Issued) /\ codeAge \in Seq(0..CodeLife)
    /\ sessions \in Seq(Session)
    /\ logins \in 0..MaxLogins
    /\ presented.once \subseteq Issued /\ presented.again \subseteq presented.once

\* The queue of codes: in the order they were drawn, none presented yet
Rising(cs) == \A i, j \in 1..Len(cs) : i < j => cs[i] < cs[j]
NotShown(cs) == \A i \in 1..Len(cs) : cs[i] \notin presented.once

\* The sessions: one per code, and the code was presented once
Apart(ss) == \A i, j \in 1..Len(ss) : ss[i].code = ss[j].code => i = j
Opened(ss) == \A i \in 1..Len(ss) : ss[i].code \in presented.once \ presented.again

Links == Rising(codes) /\ NotShown(codes) /\ Apart(sessions) /\ Opened(sessions) /\ NewestCodesWork

Access == AccessTypes /\ Links

-----------------------------------------------------------------------------
\* What the lists keep that lose some of their entries, or gain one
LEMMA SomeSessions ==
    ASSUME NEW R, NEW ss \in Seq(R), NEW T
    PROVE  /\ Only(ss, T) \in Seq(R)
           /\ Apart(ss) => Apart(Only(ss, T))
           /\ Opened(ss) => Opened(Only(ss, T))
           /\ \A i \in 1..Len(Only(ss, T)) : \E j \in 1..Len(ss) : Only(ss, T)[i] = ss[j] /\ ss[j] \in T
<1> DEFINE t == Only(ss, T)
<1>1. /\ t \in Seq(R)
      /\ \A k \in 1 .. Len(t) : \E i \in 1 .. Len(ss) : t[k] = ss[i] /\ ss[i] \in T
      /\ \A k, l \in 1 .. Len(t) : k # l =>
                \E i, j \in 1 .. Len(ss) : i # j /\ t[k] = ss[i] /\ t[l] = ss[j]
  <2>1. t \in Seq(R) /\ \A k \in 1 .. Len(t) : \E i \in 1 .. Len(ss) : t[k] = ss[i] /\ ss[i] \in T
    BY OnlyThose
  <2>2. \A k, l \in 1 .. Len(t) : k # l =>
                \E i, j \in 1 .. Len(ss) : i # j /\ t[k] = ss[i] /\ t[l] = ss[j]
    BY OnlyThose
  <2> HIDE DEF t
  <2> QED  BY <2>1, <2>2
<1> HIDE DEF t
<1>2. Apart(ss) => Apart(t)
  BY <1>1 DEF Apart
<1>3. Opened(ss) => Opened(t)
  BY <1>1 DEF Opened
<1> QED  BY <1>1, <1>2, <1>3 DEF t

LEMMA TailSessions ==
    ASSUME NEW R, NEW ss \in Seq(R), ss # <<>>
    PROVE  /\ Tail(ss) \in Seq(R)
           /\ Apart(ss) => Apart(Tail(ss))
           /\ Opened(ss) => Opened(Tail(ss))
           /\ \A i \in 1..Len(Tail(ss)) : \E j \in 1..Len(ss) : Tail(ss)[i] = ss[j]
BY DEF Apart, Opened

LEMMA OneMore ==
    ASSUME NEW R, NEW ss \in Seq(R), NEW x \in R, \A i \in 1..Len(ss) : ss[i].code # x.code, Apart(ss)
    PROVE  /\ Append(ss, x) \in Seq(R) /\ Apart(Append(ss, x))
           /\ \A i \in 1..Len(Append(ss, x)) : Append(ss, x)[i] = x \/ \E j \in 1..Len(ss) : Append(ss, x)[i] = ss[j]
BY DEF Apart

LEMMA TailCodes ==
    ASSUME NEW R \in SUBSET Nat, NEW cs \in Seq(R), cs # <<>>
    PROVE  /\ Tail(cs) \in Seq(R)
           /\ Rising(cs) => Rising(Tail(cs))
           /\ NotShown(cs) => NotShown(Tail(cs))
           /\ \A j \in 1..Len(cs) : j # 1 => \E i \in 1..Len(Tail(cs)) : Tail(cs)[i] = cs[j]
<1>1. /\ Tail(cs) \in Seq(R) /\ Len(Tail(cs)) = Len(cs) - 1 /\ Len(cs) \in Nat
      /\ \A i \in 1..Len(Tail(cs)) : Tail(cs)[i] = cs[i + 1]
  OBVIOUS
<1>2. Rising(cs) => Rising(Tail(cs))
  BY <1>1 DEF Rising
<1>3. NotShown(cs) => NotShown(Tail(cs))
  BY <1>1 DEF NotShown
<1>4. ASSUME NEW j \in 1..Len(cs), j # 1 PROVE \E i \in 1..Len(Tail(cs)) : Tail(cs)[i] = cs[j]
  <2>1. j - 1 \in 1..Len(Tail(cs)) /\ cs[(j - 1) + 1] = cs[j]
    BY <1>1, <1>4
  <2> QED  BY <1>1, <2>1
<1> QED  BY <1>1, <1>2, <1>3, <1>4

LEMMA SomeCodes ==
    ASSUME NEW R \in SUBSET Nat, NEW cs \in Seq(R), NEW T
    PROVE  /\ Only(cs, T) \in Seq(R)
           /\ Rising(cs) => Rising(Only(cs, T))
           /\ NotShown(cs) => NotShown(Only(cs, T))
           /\ \A i \in 1..Len(Only(cs, T)) : \E j \in 1..Len(cs) : Only(cs, T)[i] = cs[j] /\ cs[j] \in T
           /\ \A j \in 1..Len(cs) : cs[j] \in T => \E i \in 1..Len(Only(cs, T)) : Only(cs, T)[i] = cs[j]
<1>1. PICK f : Picks(cs, T, Only(cs, T), f)
  BY OnlyPlaces
<1>2. Rising(cs) => Rising(Only(cs, T))
  BY <1>1 DEF Rising, Picks
<1>3. NotShown(cs) => NotShown(Only(cs, T))
  BY <1>1 DEF NotShown, Picks
<1>4. Only(cs, T) \in Seq(R)
  BY OnlyThose
<1>5. \A i \in 1..Len(Only(cs, T)) : \E j \in 1..Len(cs) : Only(cs, T)[i] = cs[j] /\ cs[j] \in T
  BY <1>1 DEF Picks
<1>6. \A j \in 1..Len(cs) : cs[j] \in T => \E i \in 1..Len(Only(cs, T)) : Only(cs, T)[i] = cs[j]
  BY <1>1 DEF Picks
<1> QED  BY <1>2, <1>3, <1>4, <1>5, <1>6

\* A full queue begins with a code that is not among the newest
LEMMA OldestIsOld ==
    ASSUME NEW n \in Nat, NEW m \in Nat, NEW cs \in Seq(1..n), Rising(cs), Len(cs) >= m, cs # <<>>
    PROVE  cs[1] <= n + 1 - m
<1> DEFINE L == Len(cs)
<1>1. L \in Nat /\ L >= 1 /\ \A i \in 1..L : cs[i] \in 1..n
  OBVIOUS
<1>2. \A i \in 1..L : cs[1] <= cs[i]
  BY <1>1 DEF Rising
<1> DEFINE f == [i \in 1..L |-> cs[i]]
<1>3. f \in [1..L -> cs[1]..n]
  BY <1>1, <1>2
<1>4. \A i, j \in 1..L : f[i] = f[j] => i = j
  <2> SUFFICES ASSUME NEW i \in 1..L, NEW j \in 1..L, i < j PROVE f[i] # f[j]
    BY <1>1
  <2> QED  BY <1>1 DEF Rising
<1>5. f \in Injection(1..L, cs[1]..n)
  BY <1>3, <1>4 DEF Injection, IsInjective
<1>6. /\ IsFiniteSet(cs[1]..n) /\ Cardinality(cs[1]..n) = n - cs[1] + 1
      /\ Cardinality(1..L) = L
  <2>1. cs[1] \in 1..n
    BY <1>1
  <2>2. cs[1] \in Int /\ n \in Int /\ 1 \in Int /\ L \in Int
    BY <1>1, <2>1
  <2> HIDE DEF L
  <2>3. IsFiniteSet(cs[1]..n) /\ Cardinality(cs[1]..n) = n - cs[1] + 1
    <3>1. ~(cs[1] > n)
      BY <2>1
    <3>2. IsFiniteSet(cs[1]..n) /\ Cardinality(cs[1]..n) = IF cs[1] > n THEN 0 ELSE n - cs[1] + 1
      BY <2>2, FS_Interval
    <3> QED  BY <3>1, <3>2
  <2>4. Cardinality(1..L) = L
    BY <1>1, <2>2, FS_Interval
  <2> QED  BY <2>3, <2>4
<1>7. L <= n - cs[1] + 1
  <2> HIDE DEF f
  <2> QED  BY <1>5, <1>6, FS_Injection
<1> QED  BY <1>1, <1>7

-----------------------------------------------------------------------------
\* What is pruned is over
LEMMA PrunedCodes ==
    ASSUME Access
    PROVE  /\ Pruned(codes) \in Seq(Issued) /\ Rising(Pruned(codes)) /\ NotShown(Pruned(codes))
           /\ \A c \in Issued : (codeAge[c] < CodeLife /\ Contains(codes, c)) => Contains(Pruned(codes), c)
<1>1. Issued \in SUBSET Nat /\ codes \in Seq(Issued) /\ Rising(codes) /\ NotShown(codes)
  BY DEF Access, AccessTypes, Links, Issued
<1> DEFINE T == {c \in Issued : codeAge[c] < CodeLife}
<1>2. Pruned(codes) = Only(codes, T)
  BY DEF Pruned
<1> HIDE DEF T
<1>3. /\ Only(codes, T) \in Seq(Issued) /\ Rising(Only(codes, T)) /\ NotShown(Only(codes, T))
      /\ \A j \in 1..Len(codes) : codes[j] \in T => \E i \in 1..Len(Only(codes, T)) : Only(codes, T)[i] = codes[j]
  BY <1>1, SomeCodes
<1>4. ASSUME NEW c \in Issued, codeAge[c] < CodeLife, Contains(codes, c) PROVE Contains(Only(codes, T), c)
  <2>1. PICK j \in 1..Len(codes) : codes[j] = c
    BY <1>4 DEF Contains
  <2>2. c \in T
    BY <1>4 DEF T
  <2> QED  BY <1>3, <2>1, <2>2 DEF Contains
<1> QED  BY <1>2, <1>3, <1>4

LEMMA LiveSessions ==
    ASSUME Access
    PROVE  Kept(sessions) \in Seq(Session) /\ Apart(Kept(sessions)) /\ Opened(Kept(sessions))
BY SomeSessions DEF Access, AccessTypes, Links, Kept

LEMMA OpenKeeps == ASSUME Access, Open PROVE Access'
<1> DEFINE n == Len(codeAge)
           p == Pruned(codes)
           rest == IF Len(p) < MaxPending THEN p ELSE Tail(p)
<1>1. n \in Nat /\ Issued = 1..n /\ MaxPending \in Nat \ {0}
  BY LimitAssumption DEF Access, AccessTypes, Issued
<1>2. p \in Seq(Issued) /\ Rising(p) /\ NotShown(p)
  BY PrunedCodes
<1>3. /\ codes' = Append(rest, n + 1) /\ codeAge' = Append(codeAge, 0) /\ sessions' = Kept(sessions)
      /\ UNCHANGED <<logins, presented>>
  BY DEF Open, Queued
<1>4. Issued' = 1..(n + 1) /\ Issued \subseteq Issued' /\ codeAge' \in Seq(0..CodeLife)
  BY <1>1, <1>3, LimitAssumption DEF Access, AccessTypes, Issued
<1>5. /\ rest \in Seq(Issued) /\ Rising(rest) /\ NotShown(rest)
      /\ \A c \in Issued : (c > (n + 1) - MaxPending /\ Contains(p, c)) => Contains(rest, c)
  <2>1. CASE Len(p) < MaxPending
    BY <1>2, <2>1
  <2>2. CASE ~(Len(p) < MaxPending)
    <3> HIDE DEF p, n
    <3>1. rest = Tail(p) /\ p # <<>> /\ Len(p) \in Nat
      BY <1>1, <1>2, <2>2
    <3>2. /\ Tail(p) \in Seq(Issued) /\ Rising(Tail(p)) /\ NotShown(Tail(p))
          /\ \A j \in 1..Len(p) : j # 1 => \E i \in 1..Len(Tail(p)) : Tail(p)[i] = p[j]
      <4>1. Issued \in SUBSET Nat
        BY <1>1
      <4> QED  BY <1>2, <3>1, <4>1, TailCodes
    <3>3. p[1] <= n + 1 - MaxPending
      <4>1. p \in Seq(1..n) /\ MaxPending \in Nat /\ Len(p) >= MaxPending
        BY <1>1, <1>2, <2>2, <3>1
      <4> QED  BY <1>1, <1>2, <3>1, <4>1, OldestIsOld
    <3>4. ASSUME NEW c \in Issued, c > (n + 1) - MaxPending, Contains(p, c) PROVE Contains(Tail(p), c)
      <4>1. PICK j \in 1..Len(p) : p[j] = c
        BY <3>4 DEF Contains
      <4>2. j # 1
        BY <1>1, <3>3, <3>4, <4>1
      <4> QED  BY <3>2, <4>1, <4>2 DEF Contains
    <3> QED  BY <3>1, <3>2, <3>4
  <2> QED  BY <2>1, <2>2
<1> HIDE DEF p, n, rest
<1>6. Len(rest) \in Nat /\ \A i \in 1..Len(rest) : rest[i] \in 1..n /\ rest[i] \in Nat
  BY <1>1, <1>5
<1>7. codes' \in Seq(Issued') /\ Rising(codes')
  BY <1>1, <1>3, <1>4, <1>5, <1>6 DEF Rising
<1>8. NotShown(codes)'
  <2>1. n + 1 \notin presented.once
    BY <1>1 DEF Access, AccessTypes
  <2> QED  BY <1>1, <1>3, <1>5, <1>6, <2>1 DEF NotShown
<1>9. sessions' \in Seq(Session') /\ Apart(sessions') /\ Opened(sessions)'
  <2>1. Session \subseteq Session'
    BY <1>3, <1>4 DEF Session, Drawn
  <2>2. sessions' \in Seq(Session) /\ Apart(sessions') /\ Opened(sessions')
    BY <1>3, LiveSessions
  <2> QED  BY <1>3, <2>1, <2>2 DEF Opened
<1>10. NewestCodesWork'
  <2> SUFFICES ASSUME NEW c \in Issued', c > Len(codeAge') - MaxPending, codeAge'[c] < CodeLife,
                      c \notin presented'.once
               PROVE  Contains(codes', c)
    BY DEF NewestCodesWork
  <2>1. Len(codeAge') = n + 1 /\ \A d \in Issued : codeAge'[d] = codeAge[d]
    BY <1>1, <1>3 DEF Access, AccessTypes, Issued, n
  <2>2. CASE c = n + 1
    <3>1. codes'[Len(rest) + 1] = c /\ Len(codes') = Len(rest) + 1
      BY <1>3, <1>5, <2>2
    <3> QED  BY <1>6, <3>1 DEF Contains
  <2>3. CASE c # n + 1
    <3>1. c \in Issued /\ codeAge[c] < CodeLife /\ c > n - MaxPending /\ c > (n + 1) - MaxPending
      BY <1>1, <1>4, <2>1, <2>3
    <3>2. Contains(codes, c)
      BY <1>3, <3>1 DEF Access, Links, NewestCodesWork, n
    <3>3. Contains(rest, c)
      BY <1>5, <3>1, <3>2, PrunedCodes DEF p
    <3> QED  BY <1>3, <1>5, <1>6, <3>3 DEF Contains
  <2> QED  BY <2>2, <2>3
<1> QED  BY <1>3, <1>4, <1>7, <1>8, <1>9, <1>10 DEF Access, AccessTypes, Links

\* What leaves the codes as they are, and prunes them at most
LEMMA PrunedAtMost ==
    ASSUME Access, codes' = Pruned(codes), UNCHANGED <<codeAge, logins, presented>>,
           sessions' \in Seq(Session), Apart(sessions'), Opened(sessions')
    PROVE  Access'
<1>1. Issued' = Issued /\ Session' = Session
  BY DEF Issued, Session, Drawn
<1>2. NewestCodesWork'
  <2> SUFFICES ASSUME NEW c \in Issued, c > Len(codeAge) - MaxPending, codeAge[c] < CodeLife,
                      c \notin presented.once
               PROVE  Contains(codes', c)
    BY <1>1 DEF NewestCodesWork
  <2>1. Contains(codes, c)
    BY DEF Access, Links, NewestCodesWork
  <2> QED  BY <2>1, PrunedCodes
<1>3. NotShown(codes)' /\ Opened(sessions)' /\ Rising(codes') /\ codes' \in Seq(Issued)
  BY PrunedCodes DEF NotShown, Opened
<1> QED  BY <1>1, <1>2, <1>3 DEF Access, AccessTypes, Links

LEMMA OlderStays ==
    ASSUME NEW limit \in Nat \ {0}, NEW n \in 0..limit
    PROVE  Older(n, limit) \in 0..limit /\ (Older(n, limit) < limit => n < limit)
BY DEF Older

LEMMA TickKeeps == ASSUME Access, Tick PROVE Access'
<1>8. /\ {CodeLife, IdleLife, SessionLife} \subseteq Nat \ {0}
      /\ codeAge \in Seq(0..CodeLife) /\ Issued = 1..Len(codeAge) /\ Len(codeAge) \in Nat
      /\ DOMAIN sessions = 1..Len(sessions) /\ Len(sessions) \in Nat /\ sessions \in Seq(Session)
      /\ \A c \in Issued : codeAge[c] \in 0..CodeLife
  BY LimitAssumption DEF Access, AccessTypes, Issued
<1>1. /\ codeAge' = [c \in Issued |-> Older(codeAge[c], CodeLife)]
      /\ UNCHANGED <<codes, logins, presented>>
      /\ sessions' = [i \in DOMAIN sessions |->
                      [sessions[i] EXCEPT !.age = Older(@, SessionLife), !.idle = Older(@, IdleLife)]]
  BY DEF Tick
<1>2. codeAge' \in Seq(0..CodeLife) /\ Issued' = Issued /\ Len(codeAge') = Len(codeAge)
  <2>1. \A c \in Issued : Older(codeAge[c], CodeLife) \in 0..CodeLife
    BY <1>8, OlderStays
  <2>2. codeAge' = [c \in 1..Len(codeAge) |-> Older(codeAge[c], CodeLife)]
    BY <1>8, <1>1
  <2>3. codeAge' \in Seq(0..CodeLife) /\ Len(codeAge') = Len(codeAge)
    BY <1>8, <2>1, <2>2
  <2> QED  BY <1>8, <2>3 DEF Issued
<1>3. Session' = Session
  BY <1>1, <1>2 DEF Session, Drawn
<1>4. /\ sessions' \in Seq(Session) /\ Len(sessions') = Len(sessions)
      /\ \A i \in 1..Len(sessions) : sessions'[i].code = sessions[i].code
  <2>1. ASSUME NEW i \in 1..Len(sessions)
        PROVE  sessions'[i] \in Session /\ sessions'[i].code = sessions[i].code
    <3>1. sessions[i] \in Session
      BY DEF Access, AccessTypes
    <3>2. sessions'[i] = [sessions[i] EXCEPT !.age = Older(@, SessionLife), !.idle = Older(@, IdleLife)]
      BY <1>8, <1>1
    <3>3. Older(sessions[i].age, SessionLife) \in 0..SessionLife /\ Older(sessions[i].idle, IdleLife) \in 0..IdleLife
      BY <1>8, <3>1, OlderStays DEF Session
    <3> QED  BY <3>1, <3>2, <3>3 DEF Session
  <2>2. DOMAIN sessions' = 1..Len(sessions)
    BY <1>8, <1>1
  <2>3. sessions' = [i \in 1..Len(sessions) |-> sessions'[i]]
    BY <1>8, <1>1
  <2>4. \A i \in 1..Len(sessions) : sessions'[i] \in Session
    BY <2>1
  <2>5. sessions' \in Seq(Session) /\ Len(sessions') = Len(sessions)
    <3>1. \A n \in Nat : \A ss : ss = [i \in 1..n |-> ss[i]] /\ (\A i \in 1..n : ss[i] \in Session)
                             => ss \in Seq(Session) /\ Len(ss) = n
      OBVIOUS
    <3>2. Len(sessions) \in Nat
      BY <1>8
    <3> QED  BY Zenon, <2>3, <2>4, <3>1, <3>2
  <2> QED  BY <2>1, <2>5
<1>5. Apart(sessions') /\ Opened(sessions)'
  <2>1. Apart(sessions) /\ Opened(sessions)
    BY DEF Access, Links
  <2>2. Apart(sessions')
    BY <1>4, <2>1 DEF Apart
  <2>3. Opened(sessions)'
    BY <1>1, <1>4, <2>1 DEF Opened
  <2> QED  BY <2>2, <2>3
<1>6. NewestCodesWork'
  <2>1. ASSUME NEW c \in Issued PROVE codeAge'[c] < CodeLife => codeAge[c] < CodeLife
    BY <1>8, <1>1, OlderStays
  <2> QED  BY <1>1, <1>2, <2>1 DEF NewestCodesWork, Access, Links
<1>7. Rising(codes') /\ NotShown(codes)'
  BY <1>1 DEF Access, Links, NotShown
<1> QED  BY <1>1, <1>2, <1>3, <1>4, <1>5, <1>6, <1>7 DEF Access, AccessTypes, Links

LEMMA LoginKeeps == ASSUME Access, NEW code, Login(code) PROVE Access'
<1> DEFINE p == Pruned(codes)
           kept == Kept(sessions)
<1>1. /\ code \in Issued /\ UNCHANGED codeAge
      /\ presented' = [once |-> presented.once \cup {code},
                       again |-> presented.again \cup ({code} \cap presented.once)]
  BY DEF Login, Shown
<1>2. Issued' = Issued /\ Issued \in SUBSET Nat
  BY <1>1 DEF Issued, Access, AccessTypes
<1>3. p \in Seq(Issued) /\ Rising(p) /\ NotShown(p)
  BY PrunedCodes
<1>4. kept \in Seq(Session) /\ Apart(kept) /\ Opened(kept)
  BY LiveSessions
<1>5. presented'.once \subseteq Issued' /\ presented'.again \subseteq presented'.once
  BY <1>1, <1>2 DEF Access, AccessTypes
<1>6. CASE Contains(p, code)
  <2>1. /\ codes' = Only(p, Issued \ {code}) /\ sessions' = AddSession(kept, code)
        /\ logins' = logins + 1 /\ logins < MaxLogins
    BY <1>6 DEF Login, OpensWith
  <2>2. code \notin presented.once
    BY <1>3, <1>6 DEF Contains, NotShown
  <2>3. /\ codes' \in Seq(Issued) /\ Rising(codes') /\ NotShown(codes)'
        /\ \A c \in Issued \ {code} : Contains(p, c) => Contains(codes', c)
    <3> HIDE DEF p
    <3> DEFINE T == Issued \ {code}
    <3> HIDE DEF T
    <3>1. /\ Only(p, T) \in Seq(Issued) /\ Rising(Only(p, T)) /\ NotShown(Only(p, T))
          /\ \A i \in 1..Len(Only(p, T)) : \E j \in 1..Len(p) : Only(p, T)[i] = p[j] /\ p[j] \in T
          /\ \A j \in 1..Len(p) : p[j] \in T => \E i \in 1..Len(Only(p, T)) : Only(p, T)[i] = p[j]
      BY <1>2, <1>3, SomeCodes
    <3>2. codes' = Only(p, T)
      BY <2>1 DEF T
    <3>3. NotShown(codes)'
      BY <1>1, <3>1, <3>2 DEF NotShown, T
    <3>4. \A c \in T : Contains(p, c) => Contains(codes', c)
      BY <3>1, <3>2 DEF Contains
    <3> QED  BY <3>1, <3>2, <3>3, <3>4 DEF T
  <2>4. logins' \in 0..MaxLogins /\ Session \subseteq Session' /\ logins + 1 \in Drawn'
    BY <1>2, <2>1, LimitAssumption DEF Access, AccessTypes, Session, Drawn
  <2>5. sessions' \in Seq(Session') /\ Apart(sessions') /\ Opened(sessions)'
    <3> DEFINE new == [id |-> logins + 1, code |-> code, age |-> 0, idle |-> 0]
               room == Evicted(kept)
    <3>1. new \in Session' /\ new.code = code
      BY <1>1, <1>2, <2>4, LimitAssumption DEF Session
    <3>2. room \in Seq(Session') /\ Apart(room) /\ Opened(room)
      <4>1. CASE Len(kept) < MaxSessions
        BY <1>4, <2>4, <4>1 DEF Evicted
      <4>2. CASE ~(Len(kept) < MaxSessions)
        <5>1. room = Tail(kept) /\ kept # <<>>
          <6> HIDE DEF kept
          <6> QED  BY <1>4, <4>2, LimitAssumption DEF Evicted
        <5> QED  BY <1>4, <2>4, <5>1, TailSessions
      <4> QED  BY <4>1, <4>2
    <3>3. sessions' = Append(room, new)
      BY <2>1 DEF AddSession
    <3> HIDE DEF new, room
    <3>4. \A i \in 1..Len(room) : room[i].code # new.code
      BY <2>2, <3>1, <3>2 DEF Opened
    <3>5. /\ Append(room, new) \in Seq(Session') /\ Apart(Append(room, new))
          /\ \A i \in 1..Len(Append(room, new)) : Append(room, new)[i] = new \/ \E j \in 1..Len(room) : Append(room, new)[i] = room[j]
      BY <3>1, <3>2, <3>4, OneMore
    <3>6. Opened(sessions)'
      BY <1>1, <2>2, <3>1, <3>2, <3>3, <3>5 DEF Opened, Access, AccessTypes
    <3> QED  BY <3>3, <3>5, <3>6
  <2>6. NewestCodesWork'
    <3> SUFFICES ASSUME NEW c \in Issued, c > Len(codeAge) - MaxPending, codeAge[c] < CodeLife,
                        c \notin presented.once, c # code
                 PROVE  Contains(codes', c)
      BY <1>1, <1>2 DEF NewestCodesWork
    <3>1. Contains(codes, c)
      BY DEF Access, Links, NewestCodesWork
    <3> QED  BY <2>3, <3>1, PrunedCodes
  <2> QED  BY <1>1, <1>2, <1>5, <2>3, <2>4, <2>5, <2>6 DEF Access, AccessTypes, Links
<1>7. CASE ~Contains(p, code)
  <2>1. codes' = p /\ sessions' = Closed(kept, code) /\ logins' = logins
    BY <1>7 DEF Login
  <2>2. /\ sessions' \in Seq(Session) /\ Apart(sessions') /\ Opened(sessions')
        /\ \A i \in 1..Len(sessions') : sessions'[i].code # code
    <3> DEFINE T == {s \in ToSet(kept) : s.code # code}
    <3>1. sessions' = Only(kept, T) /\ \A s \in T : s.code # code
      BY <2>1 DEF Closed
    <3> HIDE DEF T, kept
    <3> QED  BY <1>4, <3>1, SomeSessions
  <2>3. Opened(sessions)'
    BY <1>1, <2>2 DEF Opened
  <2>4. NotShown(codes)'
    <3>1. \A i \in 1..Len(p) : p[i] # code
      BY <1>7 DEF Contains
    <3> QED  BY <1>1, <1>3, <2>1, <3>1 DEF NotShown
  <2>5. NewestCodesWork'
    <3> SUFFICES ASSUME NEW c \in Issued, c > Len(codeAge) - MaxPending, codeAge[c] < CodeLife,
                        c \notin presented.once
                 PROVE  Contains(codes', c)
      BY <1>1, <1>2 DEF NewestCodesWork
    <3>1. Contains(codes, c)
      BY DEF Access, Links, NewestCodesWork
    <3> QED  BY <2>1, <3>1, PrunedCodes
  <2>6. Session' = Session
    BY <1>2, <2>1 DEF Session, Drawn
  <2> QED  BY <1>1, <1>2, <1>3, <1>5, <2>1, <2>2, <2>3, <2>4, <2>5, <2>6 DEF Access,
     AccessTypes, Links
<1> QED  BY <1>6, <1>7

LEMMA LogoutKeeps == ASSUME Access, NEW id, Logout(id) PROVE Access'
<1>1. /\ sessions' = Only(sessions, {s \in ToSet(sessions) : s.id # id})
      /\ UNCHANGED <<codes, codeAge, logins, presented>>
  BY DEF Logout, Without
<1>2. sessions' \in Seq(Session) /\ Apart(sessions') /\ Opened(sessions')
  BY <1>1, SomeSessions DEF Access, AccessTypes, Links
<1>3. Issued' = Issued /\ Session' = Session /\ Opened(sessions)' /\ NotShown(codes)'
  BY <1>1, <1>2 DEF Issued, Session, Drawn, Opened, NotShown, Access, Links
<1>4. NewestCodesWork'
  BY <1>1, <1>3 DEF NewestCodesWork, Access, Links
<1> QED  BY <1>1, <1>2, <1>3, <1>4 DEF Access, AccessTypes, Links

LEMMA ArriveKeeps == ASSUME Access, NEW r, NEW id, NEW goal, NEW sub, Arrive(r, id, goal, sub) PROVE Access'
<1> DEFINE kept == Kept(sessions)
<1>1. /\ codes' = Pruned(codes) /\ UNCHANGED <<codeAge, logins, presented>>
      /\ (id \in Ids(kept) /\ sessions' = Touched(kept, id)) \/ sessions' = kept
  BY DEF Arrive
<1>2. kept \in Seq(Session) /\ Apart(kept) /\ Opened(kept)
  BY LiveSessions
<1>3. ASSUME id \in Ids(kept) PROVE Touched(kept, id) \in Seq(Session) /\ Apart(Touched(kept, id)) /\ Opened(Touched(kept, id))
  <2> HIDE DEF kept
  <2> DEFINE n == CHOOSE i \in DOMAIN kept : kept[i].id = id
             old == kept[n]
             new == [old EXCEPT !.idle = 0]
             T == {s \in ToSet(kept) : s.id # id}
             rest == Only(kept, T)
  <2>1. n \in 1..Len(kept) /\ kept[n].id = id
    BY <1>2, <1>3 DEF Ids, ToSet
  <2>2. old \in Session /\ new \in Session /\ new.code = old.code
    <3>1. old \in Session
      BY <1>2, <2>1
    <3>2. 0 \in 0..IdleLife
      BY LimitAssumption
    <3> HIDE DEF old
    <3> QED  BY <3>1, <3>2 DEF Session
  <2>3. Touched(kept, id) = Append(rest, new)
    BY DEF Touched, Without
  <2>4. \A s \in T : s.id # id
    OBVIOUS
  <2> HIDE DEF n, old, new, T
  <2>5. /\ rest \in Seq(Session) /\ Apart(rest) /\ Opened(rest)
        /\ \A i \in 1..Len(rest) : \E j \in 1..Len(kept) : rest[i] = kept[j] /\ kept[j] \in T
    BY <1>2, SomeSessions
  <2> HIDE DEF rest
  <2>6. \A i \in 1..Len(rest) : rest[i].code # new.code
    BY <1>2, <2>1, <2>2, <2>4, <2>5 DEF Apart, old
  <2>7. /\ Append(rest, new) \in Seq(Session) /\ Apart(Append(rest, new))
        /\ \A i \in 1..Len(Append(rest, new)) : Append(rest, new)[i] = new \/ \E j \in 1..Len(rest) : Append(rest, new)[i] = rest[j]
    BY <2>2, <2>5, <2>6, OneMore
  <2>8. Opened(Append(rest, new))
    BY <1>2, <2>1, <2>2, <2>5, <2>7 DEF Opened, old
  <2> QED  BY <2>3, <2>7, <2>8
<1>4. sessions' \in Seq(Session) /\ Apart(sessions') /\ Opened(sessions')
  <2> HIDE DEF kept
  <2> QED  BY <1>1, <1>2, <1>3
<1> QED  BY <1>1, <1>4, PrunedAtMost

LEMMA InitAccess == WebInit => Access
BY LimitAssumption DEF WebInit, Access, AccessTypes, Links, Rising, NotShown, Apart, Opened,
   NewestCodesWork,
   Issued, Session, Drawn

LEMMA StepAccess == ASSUME Access, [WebNext]_webVars PROVE Access'
<1>1. CASE UNCHANGED access
  BY <1>1 DEF access, Access, AccessTypes, Links, NotShown, Opened, NewestCodesWork, Issued,
     Session, Drawn
<1>2. CASE UNCHANGED webVars
  BY <1>1, <1>2 DEF webVars, access
<1>3. ASSUME NEW c \in 1..MaxCodes, Login(c) PROVE Access'
  BY <1>3, LoginKeeps
<1>4. ASSUME NEW id \in 1..MaxLogins, Logout(id) PROVE Access'
  BY <1>4, LogoutKeeps
<1>5. ASSUME NEW r \in Requests, NEW id \in 1..MaxLogins, NEW goal \in Asked, NEW sub \in Subs \cup {NoSub},
             Arrive(r, id, goal, sub)
      PROVE  Access'
  BY <1>5, ArriveKeeps
<1>6. ASSUME NEW r \in Requests, Reject(r) \/ Handled(r) \/ LockedStep(r) PROVE Access'
  BY <1>1, <1>6 DEF Reject, Handled, Read, SetVPN, LockedStep, Lock, LookUp, Serve, Answer
<1>7. CASE TrayLocks \/ TrayDone
  BY <1>1, <1>7 DEF TrayLocks, TrayDone
<1> QED  BY <1>2, <1>3, <1>4, <1>5, <1>6, <1>7, OpenKeeps, TickKeeps, Zenon DEF WebNext

-----------------------------------------------------------------------------
\* Codes wait in the order they were drawn and nobody has presented them; the
\* sessions come from different codes, each presented once
THEOREM AccessInvariance == WebSpec => []Access
BY InitAccess, StepAccess, PTL DEF WebSpec

\* A login link opens one session, none that it opened survives its second use,
\* and the newest links work, however often codes are drawn, pruned, traded and
\* sessions evicted (issueCode, handleLogin, addSession)
THEOREM OneSessionPerLink == WebSpec => []LoginLinks
<1>1. Access => LoginLinks
  <2> SUFFICES ASSUME Access PROVE LoginLinks
    OBVIOUS
  <2>1. DOMAIN sessions = 1..Len(sessions)
    BY DEF Access, AccessTypes
  <2> QED  BY <2>1 DEF Access, Links, Apart, Opened, LoginLinks, CodeOpensOnce
<1> QED  BY <1>1, AccessInvariance, PTL
-----------------------------------------------------------------------------
UpOK == up \in BOOLEAN

LEMMA StepUp == ASSUME UpOK, [WebNext]_webVars PROVE UpOK'
<1>1. up' = TRUE \/ up' = up
  BY Zenon DEF WebNext, webVars, access, Open, Tick, TrayLocks, TrayDone, Login, Logout, Arrive,
     Reject, Handled,
     Read, SetVPN, LockedStep, Lock, LookUp, Serve, Answer
<1>. QED  BY <1>1, Zenon DEF UpOK

LEMMA WebTypes == UpOK /\ WebInv /\ Access => WebTypeOK
<1>. SUFFICES ASSUME UpOK, WebInv, Access PROVE WebTypeOK
  OBVIOUS
<1>1. up \in BOOLEAN
  BY Zenon DEF UpOK
<1>2. /\ codes \in Seq(Issued) /\ codeAge \in Seq(0..CodeLife)
      /\ sessions \in Seq([id : Drawn, code : Issued, age : 0..SessionLife, idle : 0..IdleLife])
      /\ logins \in 0..MaxLogins /\ presented.once \subseteq Issued /\ presented.again \subseteq presented.once
  BY DEF Access, AccessTypes, Session
<1>3. /\ opMu \in Requests \cup {Tray, Nobody} /\ list \subseteq Subs
      /\ req \in [Requests -> [at : {"free", "authorised", "locked", "serving"},
                               to : Endpoints, sub : Subs \cup {NoSub}]]
  BY DEF WebInv, ReqOK
<1>. QED  BY <1>1, <1>2, <1>3, Zenon DEF WebTypeOK

\* A code or session that a request or a login works with was drawn, the lock is
\* a request's, the tray's or nobody's, and no age passes the one it is compared
\* with (server.go)
THEOREM WebTypeCorrect == WebSpec => []WebTypeOK
<1>1. WebInit => UpOK
  BY Zenon DEF WebInit, UpOK
<1>2. WebSpec => []UpOK
  BY <1>1, StepUp, PTL DEF WebSpec
<1>. QED  BY <1>2, WebTypes, WebInvariance, AccessInvariance, PTL

-----------------------------------------------------------------------------
(* Dependencies: what is saved starts *)

\* Nothing is lacking where everything named is there
LEMMA LackingIs ==
    ASSUME NEW kind, NEW owner, NEW tags, NEW present
    PROVE  Lacking(kind, owner, tags, present) = {} <=> tags \subseteq present
BY DEF Lacking

\* No outbound is missing and none is on a ring: they all start, and only then
LEMMA OutboundsStart ==
    ASSUME NEW cfg, IsFiniteSet(DOMAIN cfg.outbounds)
    PROVE  OutboundProblems(cfg) = {} <=> Started(Graph(cfg)) = DOMAIN Graph(cfg)
<1> DEFINE graph == Graph(cfg)
           present == [t \in DOMAIN graph |-> graph[t] \cap DOMAIN graph]
           missing == UNION {{Problem("missing", t, d) : d \in graph[t] \ DOMAIN graph} : t \in DOMAIN graph}
           rings == {Problem("ring", ring, None) : ring \in Rings(present)}
<1>1. OutboundProblems(cfg) = rings \cup missing
  BY DEF OutboundProblems
<1>2. graph = [t \in DOMAIN graph |-> graph[t]] /\ IsFiniteSet(DOMAIN graph)
  BY DEF Graph
<1>3. missing = {} <=> \A t \in DOMAIN graph : graph[t] \subseteq DOMAIN graph
  <2>1. ASSUME missing = {}, NEW t \in DOMAIN graph, NEW d \in graph[t], d \notin DOMAIN graph PROVE FALSE
    <3>1. Problem("missing", t, d) \in missing
      <4> HIDE DEF graph
      <4> QED  BY <2>1
    <3> QED  BY <2>1, <3>1
  <2> HIDE DEF graph
  <2> QED  BY <2>1
<1>4. rings = {} <=> Rings(present) = {}
  <2> HIDE DEF present
  <2> QED  OBVIOUS
<1> HIDE DEF graph, missing, rings
<1>5. ASSUME \A t \in DOMAIN graph : graph[t] \subseteq DOMAIN graph
      PROVE  Started(graph) = DOMAIN graph <=> Rings(present) = {}
  <2>1. \A t \in DOMAIN graph : graph[t] \cap DOMAIN graph = graph[t]
    BY <1>5
  <2>2. present = graph
    BY <1>2, <2>1
  <2> HIDE DEF present
  <2> QED  BY <1>2, <1>5, <2>2, StartsWithoutRings
<1>6. Started(graph) = DOMAIN graph => \A t \in DOMAIN graph : graph[t] \subseteq DOMAIN graph
  BY <1>2, StartedNoRing
<1> HIDE DEF present
<1> QED  BY <1>1, <1>3, <1>4, <1>5, <1>6 DEF graph

\* Every reference of the route is to something that is there
RouteFound(cfg) ==
    LET route == cfg.route
        nodes == DOMAIN cfg.outbounds
        sets == route.sets
    IN  /\ Some(route.final) \cup route.prefers \subseteq nodes
        /\ route.named \subseteq DOMAIN sets
        /\ Some(route.client) \subseteq ClientTags(cfg)
        /\ \A s \in DOMAIN sets :
              /\ Some(sets[s].detour) \subseteq nodes
              /\ sets[s].client = Own => Some(sets[s].ownDetour) \subseteq nodes
              /\ sets[s].client # Own => Some(sets[s].client) \subseteq ClientTags(cfg)

\* Without a problem in the route section, all it refers to is found, and only then
LEMMA RouteProblemsAre ==
    ASSUME NEW cfg
    PROVE  RouteProblems(cfg) = {} <=> RouteFound(cfg)
<1> DEFINE route == cfg.route
           nodes == DOMAIN cfg.outbounds
           OfSet(s) ==
            LET set == route.sets[s]
            IN  Lacking("download_detour", s, Some(set.detour), nodes)
                \cup IF set.client = Own THEN Lacking("http_client.detour", s, Some(set.ownDetour), nodes)
                     ELSE Lacking("http_client", s, Some(set.client), ClientTags(cfg))
           ofSets == UNION {OfSet(s) : s \in DOMAIN route.sets}
<1>1. RouteProblems(cfg) =
        Lacking("final", None, Some(route.final), nodes)
        \cup Lacking("rule_set", None, route.named, DOMAIN route.sets)
        \cup Lacking("preferred_by", None, route.prefers, nodes)
        \cup Lacking("default_http_client", None, Some(route.client), ClientTags(cfg))
        \cup ofSets
  BY DEF RouteProblems
<1>2. \A s : OfSet(s) = {} <=>
              /\ Some(route.sets[s].detour) \subseteq nodes
              /\ route.sets[s].client = Own => Some(route.sets[s].ownDetour) \subseteq nodes
              /\ route.sets[s].client # Own => Some(route.sets[s].client) \subseteq ClientTags(cfg)
  BY LackingIs
<1>3. ofSets = {} <=> \A s \in DOMAIN route.sets : OfSet(s) = {}
  <2> HIDE DEF OfSet
  <2> QED  OBVIOUS
<1>4. ofSets = {} <=> \A s \in DOMAIN route.sets :
              /\ Some(route.sets[s].detour) \subseteq nodes
              /\ route.sets[s].client = Own => Some(route.sets[s].ownDetour) \subseteq nodes
              /\ route.sets[s].client # Own => Some(route.sets[s].client) \subseteq ClientTags(cfg)
  <2> HIDE DEF OfSet
  <2> QED  BY <1>2, <1>3
<1> HIDE DEF ofSets
<1>5. RouteProblems(cfg) = {} <=>
        /\ Lacking("final", None, Some(route.final), nodes) = {}
        /\ Lacking("rule_set", None, route.named, DOMAIN route.sets) = {}
        /\ Lacking("preferred_by", None, route.prefers, nodes) = {}
        /\ Lacking("default_http_client", None, Some(route.client), ClientTags(cfg)) = {}
        /\ ofSets = {}
  <2> DEFINE p == Lacking("final", None, Some(route.final), nodes)
             q == Lacking("rule_set", None, route.named, DOMAIN route.sets)
             r == Lacking("preferred_by", None, route.prefers, nodes)
             d == Lacking("default_http_client", None, Some(route.client), ClientTags(cfg))
  <2>1. RouteProblems(cfg) = p \cup q \cup r \cup d \cup ofSets
    BY <1>1
  <2> HIDE DEF p, q, r, d
  <2>2. RouteProblems(cfg) = {} <=> p = {} /\ q = {} /\ r = {} /\ d = {} /\ ofSets = {}
    BY <2>1
  <2> QED  BY <2>2 DEF p, q, r, d
<1>6. /\ Lacking("final", None, Some(route.final), nodes) = {} <=> Some(route.final) \subseteq nodes
      /\ Lacking("rule_set", None, route.named, DOMAIN route.sets) = {} <=> route.named \subseteq DOMAIN route.sets
      /\ Lacking("preferred_by", None, route.prefers, nodes) = {} <=> route.prefers \subseteq nodes
      /\ Lacking("default_http_client", None, Some(route.client), ClientTags(cfg)) = {}
            <=> Some(route.client) \subseteq ClientTags(cfg)
  BY LackingIs
<1>7. RouteProblems(cfg) = {} <=>
        /\ Some(route.final) \subseteq nodes /\ route.named \subseteq DOMAIN route.sets
        /\ route.prefers \subseteq nodes /\ Some(route.client) \subseteq ClientTags(cfg)
        /\ ofSets = {}
  BY <1>5, <1>6
<1>8. RouteFound(cfg) <=>
        /\ Some(route.final) \cup route.prefers \subseteq nodes
        /\ route.named \subseteq DOMAIN route.sets
        /\ Some(route.client) \subseteq ClientTags(cfg)
        /\ \A s \in DOMAIN route.sets :
              /\ Some(route.sets[s].detour) \subseteq nodes
              /\ route.sets[s].client = Own => Some(route.sets[s].ownDetour) \subseteq nodes
              /\ route.sets[s].client # Own => Some(route.sets[s].client) \subseteq ClientTags(cfg)
  BY DEF RouteFound
<1> HIDE DEF route, nodes
<1> QED  BY <1>4, <1>7, <1>8

\* Every outbound a download, a DNS server or the clock goes through is there
OthersFound(cfg) ==
    LET nodes == DOMAIN cfg.outbounds
    IN  /\ \A c \in ToSet(cfg.clients) : c.tag \in DownloadClients(cfg) => Some(c.detour) \subseteq nodes
        /\ \A s \in DOMAIN cfg.other.dns : Some(cfg.other.dns[s]) \subseteq nodes
        /\ cfg.other.named \subseteq DOMAIN cfg.route.sets
        /\ cfg.other.ntp.enabled => Some(cfg.other.ntp.detour) \subseteq nodes

\* The same for every reference of the config: route, clients, DNS, NTP and rules
LEMMA ReferenceProblemsAre ==
    ASSUME NEW cfg
    PROVE  ReferenceProblems(cfg) = {} <=> RouteFound(cfg) /\ OthersFound(cfg)
<1> DEFINE nodes == DOMAIN cfg.outbounds
           downloading == {c \in ToSet(cfg.clients) : c.tag \in DownloadClients(cfg)}
           ofClient(c) == Lacking("http_client.dials", c.tag, Some(c.detour), nodes)
           ofServer(s) == Lacking("dns", s, Some(cfg.other.dns[s]), nodes)
           ofClients == UNION {ofClient(c) : c \in downloading}
           ofServers == UNION {ofServer(s) : s \in DOMAIN cfg.other.dns}
           ofNtp == IF cfg.other.ntp.enabled THEN Lacking("ntp", None, Some(cfg.other.ntp.detour), nodes) ELSE {}
           ofRules == Lacking("dns_rule_set", None, cfg.other.named, DOMAIN cfg.route.sets)
<1>1. ReferenceProblems(cfg) = RouteProblems(cfg) \cup ofClients \cup ofServers \cup ofRules \cup ofNtp
  BY DEF ReferenceProblems
<1>2. ofClients = {} <=> \A c \in downloading : Some(c.detour) \subseteq nodes
  <2>1. \A c : ofClient(c) = {} <=> Some(c.detour) \subseteq nodes
    <3> SUFFICES ASSUME NEW c PROVE ofClient(c) = {} <=> Some(c.detour) \subseteq nodes
      OBVIOUS
    <3> QED  BY LackingIs
  <2> HIDE DEF ofClient, downloading
  <2> QED  BY <2>1
<1>3. ofServers = {} <=> \A s \in DOMAIN cfg.other.dns : Some(cfg.other.dns[s]) \subseteq nodes
  <2>1. \A s : ofServer(s) = {} <=> Some(cfg.other.dns[s]) \subseteq nodes
    BY LackingIs
  <2> HIDE DEF ofServer
  <2> QED  BY <2>1
<1>4. ofNtp = {} <=> (cfg.other.ntp.enabled => Some(cfg.other.ntp.detour) \subseteq nodes)
  BY LackingIs
<1>5. ofRules = {} <=> cfg.other.named \subseteq DOMAIN cfg.route.sets
  BY LackingIs
<1> HIDE DEF ofClients, ofServers, ofNtp, ofRules
<1>6. ReferenceProblems(cfg) = {} <=>
        RouteFound(cfg) /\ ofClients = {} /\ ofServers = {} /\ ofRules = {} /\ ofNtp = {}
  BY <1>1, RouteProblemsAre
<1> QED  BY <1>2, <1>3, <1>4, <1>5, <1>6 DEF OthersFound

\* No problem is found in the sections of a config sing-box starts with, and one in every other
LEMMA StartsIsNoProblem ==
    ASSUME NEW cfg \in Configs
    PROVE  StartsFresh(cfg) <=> DependencyProblems(cfg) = {} /\ DanglingDefaults(cfg) = {}
<1> DEFINE graph == Graph(cfg)
           nodes == DOMAIN cfg.outbounds
           route == cfg.route
           sets == cfg.route.sets
           remote == {s \in DOMAIN sets : sets[s].remote}
           clients == ToSet(cfg.clients)
           Dials(client) == {c.detour : c \in {d \in clients : d.tag = client}} \ {None}
           SetsFound == \A s \in DOMAIN sets : /\ Some(sets[s].detour) \subseteq nodes
                                               /\ sets[s].client = Own => Some(sets[s].ownDetour) \subseteq nodes
           ClientsFound == \A c \in clients : c.tag \in DownloadClients(cfg) => Some(c.detour) \subseteq nodes
           Reachable == \A s \in remote : Transport(cfg, sets[s]) \subseteq nodes
<1>1. /\ Own # None /\ IsFiniteSet(DOMAIN cfg.outbounds) /\ route.client # Own
      /\ \A s \in DOMAIN sets : Downloads(sets[s])
      /\ \A c \in clients : c.tag # None
  BY SectionsAssumption DEF SectionsAssumption, Configs
<1>2. DOMAIN graph = nodes
  BY DEF Graph
<1>3. DanglingDefaults(cfg) = {} <=> \A t \in DOMAIN graph : Some(cfg.outbounds[t].default) \subseteq cfg.outbounds[t].members
  <2> DEFINE Of(t) == Lacking("default", t, Some(cfg.outbounds[t].default), cfg.outbounds[t].members)
  <2>1. \A t : Of(t) = {} <=> Some(cfg.outbounds[t].default) \subseteq cfg.outbounds[t].members
    <3> SUFFICES ASSUME NEW t
                 PROVE  Of(t) = {} <=> Some(cfg.outbounds[t].default) \subseteq cfg.outbounds[t].members
      OBVIOUS
    <3> QED  BY LackingIs
  <2>2. DanglingDefaults(cfg) = UNION {Of(t) : t \in nodes}
    BY DEF DanglingDefaults
  <2> HIDE DEF Of, graph
  <2> QED  BY <1>2, <2>1, <2>2
<1>4. DependencyProblems(cfg) = {} <=> Started(graph) = DOMAIN graph /\ RouteFound(cfg) /\ OthersFound(cfg)
  <2>1. DependencyProblems(cfg) = {} <=> OutboundProblems(cfg) = {} /\ ReferenceProblems(cfg) = {}
    BY DEF DependencyProblems
  <2> QED  BY <1>1, <2>1, OutboundsStart, ReferenceProblemsAre
<1>5. (Some(route.client) \cup {sets[s].client : s \in DOMAIN sets}) \ {None, Own} \subseteq ClientTags(cfg)
      <=> /\ Some(route.client) \subseteq ClientTags(cfg)
          /\ \A s \in DOMAIN sets : sets[s].client # Own => Some(sets[s].client) \subseteq ClientTags(cfg)
  BY <1>1 DEF Some
<1>6. Reachable <=> SetsFound /\ ClientsFound
  <2> DEFINE T(s) == Transport(cfg, sets[s])
             Default(c) == c.tag \in DefaultClients(cfg)
  <2>1. ASSUME NEW s \in DOMAIN sets
        PROVE  /\ sets[s].client = Own => T(s) = Some(sets[s].ownDetour)
               /\ sets[s].client \notin {Own, None} => T(s) = Dials(sets[s].client)
               /\ sets[s].client = None /\ sets[s].detour # None => T(s) = {sets[s].detour}
               /\ sets[s].client = None /\ sets[s].detour = None =>
                      T(s) = {c.detour : c \in {d \in clients : Default(d)}} \ {None}
    <3> DEFINE set == sets[s]
               serving == {c \in clients : Serves(cfg, c, set)}
    <3>1. set.client = Own => T(s) = Some(set.ownDetour)
      BY DEF Transport
    <3>2. set.client # Own => T(s) = Some(set.detour) \cup ({c.detour : c \in serving} \ {None})
      BY DEF Transport
    <3>3. set.client = None \/ set.detour = None
      BY <1>1 DEF Downloads
    <3>4. ASSUME set.client \notin {Own, None} PROVE T(s) = Dials(set.client)
      <4>1. \A c \in clients : Serves(cfg, c, set) <=> c.tag = set.client
        BY <3>4 DEF Serves
      <4>2. serving = {d \in clients : d.tag = set.client}
        BY <4>1
      <4>3. Some(set.detour) = {}
        BY <3>3, <3>4 DEF Some
      <4> QED  BY <3>2, <3>4, <4>2, <4>3
    <3>5. ASSUME set.client = None, set.detour # None PROVE T(s) = {set.detour}
      <4>1. \A c \in clients : ~Serves(cfg, c, set)
        BY <1>1, <3>5 DEF Serves
      <4>2. serving = {}
        BY <4>1
      <4> QED  BY <1>1, <3>2, <3>5, <4>2 DEF Some
    <3>6. ASSUME set.client = None, set.detour = None
          PROVE  T(s) = {c.detour : c \in {d \in clients : Default(d)}} \ {None}
      <4>1. \A c \in clients : Serves(cfg, c, set) <=> Default(c)
        <5> SUFFICES ASSUME NEW c \in clients PROVE Serves(cfg, c, set) <=> Default(c)
          OBVIOUS
        <5>1. Serves(cfg, c, set) <=> c.tag = DefaultTag(cfg)
          BY <1>1, <3>6 DEF Serves
        <5>2. CASE route.client # None
          BY <5>1, <5>2 DEF DefaultTag, DefaultClients
        <5>3. CASE route.client = None
          <6>1. cfg.clients # <<>>
            BY DEF ToSet
          <6>2. DefaultClients(cfg) = Some(cfg.clients[1].tag)
            BY <5>3, <6>1 DEF DefaultClients
          <6> QED  BY <1>1, <5>1, <5>3, <6>2 DEF DefaultTag, Some
        <5> QED  BY <5>2, <5>3
      <4>2. serving = {d \in clients : Default(d)}
        BY <4>1
      <4> QED  BY <1>1, <3>2, <3>6, <4>2 DEF Some
    <3> QED  BY <3>1, <3>4, <3>5, <3>6
  <2>2. DownloadClients(cfg) =
          ({sets[s].client : s \in DOMAIN sets} \ {None, Own})
          \cup IF \E s \in DOMAIN sets : ~HasOwn(sets[s]) /\ sets[s].remote THEN DefaultClients(cfg) ELSE {}
    BY DEF DownloadClients
  <2>3. \A s \in DOMAIN sets : (sets[s].client # None \/ sets[s].detour # None => s \in remote)
                                 /\ (sets[s].client = None \/ sets[s].detour = None)
    BY <1>1 DEF Downloads
  <2>4. \A c \in clients : (c.tag \in DownloadClients(cfg) <=>
            \/ \E s \in remote : sets[s].client \notin {None, Own} /\ sets[s].client = c.tag
            \/ (\E s \in remote : sets[s].client = None /\ sets[s].detour = None) /\ Default(c))
    <3> SUFFICES ASSUME NEW c \in clients
                 PROVE (c.tag \in DownloadClients(cfg) <=>
            \/ \E s \in remote : sets[s].client \notin {None, Own} /\ sets[s].client = c.tag
            \/ (\E s \in remote : sets[s].client = None /\ sets[s].detour = None) /\ Default(c))
      OBVIOUS
    <3> QED  BY <2>2, <2>3 DEF HasOwn
  <2> HIDE DEF T, Default, clients, sets, nodes
  <2>5. ASSUME \A s \in remote : T(s) \subseteq nodes
        PROVE  SetsFound /\ ClientsFound
    <3>1. ASSUME NEW s \in DOMAIN sets
          PROVE  /\ Some(sets[s].detour) \subseteq nodes
                 /\ sets[s].client = Own => Some(sets[s].ownDetour) \subseteq nodes
      <4>1. sets[s].detour # None => T(s) = {sets[s].detour} /\ s \in remote
        BY <2>1, <2>3
      <4>2. sets[s].client = Own => T(s) = Some(sets[s].ownDetour) /\ s \in remote
        BY <1>1, <2>1, <2>3
      <4> HIDE DEF remote
      <4> QED  BY <2>5, <4>1, <4>2 DEF Some
    <3>2. ASSUME NEW c \in clients, c.tag \in DownloadClients(cfg), c.detour # None PROVE c.detour \in nodes
      <4>1. ASSUME NEW s \in remote, sets[s].client \notin {None, Own}, sets[s].client = c.tag
            PROVE  c.detour \in nodes
        <5>1. c.detour \in Dials(c.tag)
          BY <3>2
        <5> QED  BY <2>1, <2>5, <4>1, <5>1
      <4>2. ASSUME NEW s \in remote, sets[s].client = None, sets[s].detour = None, Default(c)
            PROVE  c.detour \in nodes
        BY <2>1, <2>5, <3>2, <4>2
      <4> QED  BY <2>4, <3>2, <4>1, <4>2
    <3> QED  BY <3>1, <3>2 DEF Some
  <2>6. ASSUME SetsFound, ClientsFound, NEW s \in remote
        PROVE  T(s) \subseteq nodes
    <3>1. CASE sets[s].client = Own
      BY <2>1, <2>6, <3>1
    <3>2. CASE sets[s].client \notin {Own, None}
      <4>1. \A c \in clients : c.tag = sets[s].client => Some(c.detour) \subseteq nodes
        BY <2>4, <2>6, <3>2
      <4> QED  BY <2>1, <3>2, <4>1 DEF Some
    <3>3. CASE sets[s].client = None /\ sets[s].detour # None
      BY <2>1, <2>6, <3>3 DEF Some
    <3>4. CASE sets[s].client = None /\ sets[s].detour = None
      <4>1. \A c \in clients : Default(c) => Some(c.detour) \subseteq nodes
        BY <2>4, <2>6, <3>4
      <4> QED  BY <2>1, <3>4, <4>1 DEF Some
    <3> QED  BY <3>1, <3>2, <3>3, <3>4
  <2>7. (\A s \in remote : T(s) \subseteq nodes) => SetsFound /\ ClientsFound
    <3> HIDE DEF SetsFound, ClientsFound
    <3> QED  BY <2>5
  <2>8. SetsFound /\ ClientsFound => \A s \in remote : T(s) \subseteq nodes
    <3> HIDE DEF SetsFound, ClientsFound, remote
    <3> QED  BY <2>6
  <2>9. Reachable <=> \A s \in remote : T(s) \subseteq nodes
    BY DEF T
  <2> HIDE DEF SetsFound, ClientsFound, Reachable
  <2> QED  BY <2>7, <2>8, <2>9
<1>7. StartsFresh(cfg) <=>
        /\ Started(graph) = DOMAIN graph
        /\ \A t \in DOMAIN graph : Some(cfg.outbounds[t].default) \subseteq cfg.outbounds[t].members
        /\ Some(route.final) \cup route.prefers \subseteq nodes
        /\ route.named \cup cfg.other.named \subseteq DOMAIN sets
        /\ (Some(route.client) \cup {sets[s].client : s \in DOMAIN sets}) \ {None, Own} \subseteq ClientTags(cfg)
        /\ Reachable
        /\ \A s \in DOMAIN cfg.other.dns : Some(cfg.other.dns[s]) \subseteq nodes
        /\ cfg.other.ntp.enabled => Some(cfg.other.ntp.detour) \subseteq nodes
  BY <1>2 DEF StartsFresh, SingBoxStarts
<1>8. RouteFound(cfg) <=>
        /\ Some(route.final) \cup route.prefers \subseteq nodes
        /\ route.named \subseteq DOMAIN sets
        /\ Some(route.client) \subseteq ClientTags(cfg)
        /\ SetsFound
        /\ \A s \in DOMAIN sets : sets[s].client # Own => Some(sets[s].client) \subseteq ClientTags(cfg)
  BY DEF RouteFound
<1>9. OthersFound(cfg) <=>
        /\ ClientsFound
        /\ \A s \in DOMAIN cfg.other.dns : Some(cfg.other.dns[s]) \subseteq nodes
        /\ cfg.other.named \subseteq DOMAIN sets
        /\ cfg.other.ntp.enabled => Some(cfg.other.ntp.detour) \subseteq nodes
  BY DEF OthersFound
<1> HIDE DEF graph, nodes, route, sets, remote, clients, SetsFound, ClientsFound, Reachable
<1> QED  BY <1>3, <1>4, <1>5, <1>6, <1>7, <1>8, <1>9

\* What starts with nothing cached starts whatever is
LEMMA FreshIsAnyhow == ASSUME NEW cfg, StartsFresh(cfg) PROVE StartsAnyhow(cfg)
BY DEF StartsFresh, StartsAnyhow, SingBoxStarts

\* Where nothing was wrong, a save is allowed where nothing will be
LEMMA PassesStarts ==
    ASSUME config \in Configs, StartsFresh(config), NEW new \in Configs
    PROVE  Judged(new)
<1>1. DependencyProblems(config) = {} /\ DanglingDefaults(config) = {}
  BY StartsIsNoProblem
<1>2. Passes(new) <=> DependencyProblems(new) = {} /\ DanglingDefaults(new) = {}
  BY <1>1 DEF Passes, CheckDependencies, CheckSelectorDefaults
<1>3. Passes(new) <=> StartsFresh(new)
  BY <1>2, StartsIsNoProblem
<1> QED  BY <1>3, FreshIsAnyhow DEF Judged

\* A config with one section replaced is a config of the model
LEMMA Replacing ==
    ASSUME config \in Configs
    PROVE  /\ \A value \in Outbounds : Replaced("outbounds", value) \in Configs
           /\ \A value \in Routes : Replaced("route", value) \in Configs
           /\ \A value \in Clients : Replaced("clients", value) \in Configs
           /\ \A value \in Others : Replaced("other", value) \in Configs
BY DEF Configs, Replaced

DepInv == config \in Configs

\* Every step leaves a config of the model
LEMMA StepConfigs == ASSUME DepInv, [DepNext]_depVars PROVE DepInv'
<1> USE DEF DepInv
<1>1. CASE ByHand
  <2>1. PICK value \in Outbounds : config' = [config EXCEPT !.outbounds = value]
    BY <1>1 DEF ByHand
  <2> QED  BY <2>1 DEF Configs
<1>2. CASE UNCHANGED depVars
  BY <1>2 DEF depVars
<1> QED  BY <1>1, <1>2, Replacing DEF DepNext, Save

\* On every config, each save is judged right
LEMMA ConfigsSaveWhatStarts == DepInv => SavesWhatStarts
<1> USE DEF DepInv
<1> SUFFICES ASSUME config \in Configs, StartsFresh(config) PROVE SavesWhatStarts
  BY DEF SavesWhatStarts
<1>1. \A new \in Configs : Judged(new)
  BY PassesStarts
<1> QED  BY <1>1, Replacing DEF SavesWhatStarts

\* On a config sing-box starts with, what is saved starts whatever is cached,
\* and what is refused would not start with no rule set cached, for any
\* sections: no problem is overlooked, and none made up but a download that a
\* cached copy would spare (checkDependencies and checkSelectorDefaults before
\* every write).
THEOREM StartsAreSaved == DepSpec => []SavesWhatStarts
<1>1. DepInit => DepInv
  BY DEF DepInit, DepInv
<1> QED  BY <1>1, StepConfigs, ConfigsSaveWhatStarts, PTL DEF DepSpec

-----------------------------------------------------------------------------
(* Secrets: a placeholder never ends up as a credential *)

\* What is stored: no tag used twice, and no placeholder taken for a credential
PageInv ==
    /\ stored \in Seq(Items) /\ Accepted(stored) /\ \A i \in DOMAIN stored : stored[i].secret # Hidden
    /\ page \in Seq(Items)

\* What a tag shows and what it dials through are those of the outbounds that have it
LEMMA WithTagIs ==
    ASSUME NEW L \in Seq(Items), NEW t
    PROVE  ToSet(WithTag(L, t)) = {L[i] : i \in {j \in DOMAIN L : L[j].tag = t}}
<1> DEFINE P == {i \in DOMAIN L : L[i].tag = t}
           w == WithTag(L, t)
<1>1. P \in SUBSET (DOMAIN L)
  OBVIOUS
<1>2. w = At(L, P)
  BY DEF WithTag
<1> HIDE DEF P, w
<1>3. w \in Seq(Items) /\ Len(w) = Cardinality(P) /\ Cardinality(P) \in Nat
  BY <1>1, <1>2, Sublist
<1>4. PICK f : Lists(L, P, w, f)
  BY <1>1, <1>2, Sublist
<1>5. \A x : x \in ToSet(w) <=> \E i \in P : x = L[i]
  <2>1. ToSet(w) = {w[k] : k \in 1 .. Len(w)}
    BY <1>3 DEF ToSet
  <2>2. \A k \in 1 .. Len(w) : f[k] \in P /\ w[k] = L[f[k]]
    BY <1>3, <1>4 DEF Lists
  <2>3. \A i \in P : \E k \in 1 .. Len(w) : w[k] = L[i]
    BY <1>3, <1>4 DEF Lists
  <2> QED  BY <2>1, <2>2, <2>3
<1>6. ToSet(w) = {L[i] : i \in P}
  BY <1>5
<1> QED  BY <1>6 DEF P, w

\* What a tag dials through directly
LEMMA OneStepOf ==
    ASSUME NEW L \in Seq(Items), NEW t
    PROVE  OneStep(DialGraph(L), {t}) = UNION {item.via : item \in ToSet(ShownAs(L, t))}
<1> DEFINE tags == {item.tag : item \in ToSet(L)}
           W == ToSet(WithTag(L, t))
<1>1. OneStep(DialGraph(L), {t}) = IF t \in tags THEN UNION {item.via : item \in W} ELSE {}
  BY DEF OneStep, DialGraph
<1>2. t \notin tags => W = {}
  <2>1. \A i \in DOMAIN L : L[i].tag \in tags
    BY DEF ToSet
  <2>2. W = {L[i] : i \in {j \in DOMAIN L : L[j].tag = t}}
    BY WithTagIs
  <2> HIDE DEF W, tags
  <2> QED  BY <2>1, <2>2
<1>3. OneStep(DialGraph(L), {t}) = UNION {item.via : item \in W}
  BY <1>1, <1>2
<1>4. \A x : x \in {item.via : item \in W} <=> x \in {item.via : item \in ToSet(ShownAs(L, t))}
  <2> DEFINE w == WithTag(L, t)
  <2>1. \A x : x \in {item.via : item \in W} <=> \E k \in DOMAIN w : x = w[k].via
    BY DEF ToSet
  <2>2. ToSet(ShownAs(L, t)) = {Strip(w[k]) : k \in DOMAIN w}
    BY DEF ToSet, ShownAs
  <2>3. \A k \in DOMAIN w : Strip(w[k]).via = w[k].via
    BY DEF Strip
  <2> QED  BY <2>1, <2>2, <2>3
<1> QED  BY <1>3, <1>4

\* A tag that is used once dials through what its one outbound names
LEMMA OneStepOnce ==
    ASSUME NEW L \in Seq(Items), Accepted(L), NEW j \in DOMAIN L
    PROVE  OneStep(DialGraph(L), {L[j].tag}) = L[j].via
<1> DEFINE t == L[j].tag
           W == ToSet(WithTag(L, t))
<1>1. W = {L[j]}
  <2>1. W = {L[i] : i \in {k \in DOMAIN L : L[k].tag = t}}
    BY WithTagIs
  <2>2. {k \in DOMAIN L : L[k].tag = t} = {j}
    BY DEF Accepted
  <2> QED  BY <2>1, <2>2
<1>2. t \in {item.tag : item \in ToSet(L)}
  BY DEF ToSet
<1>3. OneStep(DialGraph(L), {t}) = UNION {item.via : item \in W}
  <2> HIDE DEF t
  <2> QED  BY <1>2 DEF OneStep, DialGraph
<1> QED  BY <1>1, <1>3

\* Two lists that show the same
Alike(L, M) == DOMAIN L = DOMAIN M /\ \A i \in DOMAIN L : Strip(L[i]) = Strip(M[i])

\* Lists that show the same show the same of every tag
LEMMA AlikeShown ==
    ASSUME NEW L \in Seq(Items), NEW M \in Seq(Items), Alike(L, M)
    PROVE  \A t : ShownAs(L, t) = ShownAs(M, t)
<1> SUFFICES ASSUME NEW t PROVE ShownAs(L, t) = ShownAs(M, t)
  OBVIOUS
<1> DEFINE P == {i \in DOMAIN L : L[i].tag = t}
           v == WithTag(L, t)
           w == WithTag(M, t)
           place(k) == CHOOSE i \in P : Place(P, i) = k
<1>1. \A i \in DOMAIN L : L[i].tag = M[i].tag
  BY DEF Alike, Strip
<1>2. P = {i \in DOMAIN M : M[i].tag = t} /\ P \in SUBSET (DOMAIN L) /\ P \in SUBSET (1 .. Len(L))
  BY <1>1 DEF Alike
<1>3. v = [k \in 1 .. Cardinality(P) |-> L[place(k)]] /\ w = [k \in 1 .. Cardinality(P) |-> M[place(k)]]
  <2>1. v = At(L, P) /\ w = At(M, P)
    BY <1>2 DEF WithTag
  <2> HIDE DEF P, v, w
  <2> QED  BY <2>1 DEF At
<1>4. \A k \in 1 .. Cardinality(P) : place(k) \in P
  <2> HIDE DEF P
  <2>1. \A k \in 1 .. Cardinality(P) : \E i \in P : Place(P, i) = k
    <3>1. Len(L) \in Nat
      OBVIOUS
    <3> QED  BY <1>2, <3>1, Places
  <2> QED  BY <2>1
<1>5. \A k \in 1 .. Cardinality(P) : Strip(v[k]) = Strip(w[k])
  <2> HIDE DEF P, place, v, w
  <2> QED  BY <1>2, <1>3, <1>4 DEF Alike
<1>6. DOMAIN v = 1 .. Cardinality(P) /\ DOMAIN w = 1 .. Cardinality(P)
  BY <1>3
<1>7. ShownAs(L, t) = [i \in DOMAIN v |-> Strip(v[i])] /\ ShownAs(M, t) = [i \in DOMAIN w |-> Strip(w[i])]
  BY DEF ShownAs
<1> HIDE DEF v, w, P
<1> QED  BY <1>5, <1>6, <1>7

\* A list has finitely many tags
LEMMA DialsFinite == ASSUME NEW L \in Seq(Items) PROVE IsFiniteSet(DOMAIN DialGraph(L))
<1>1. DOMAIN DialGraph(L) = {L[i].tag : i \in 1 .. Len(L)}
  BY DEF DialGraph, ToSet
<1>2. IsFiniteSet(1 .. Len(L))
  BY FS_Interval
<1>3. IsFiniteSet({L[i].tag : i \in 1 .. Len(L)})
  <2> DEFINE T == {L[i].tag : i \in 1 .. Len(L)}
             f == [i \in 1 .. Len(L) |-> L[i].tag]
  <2>1. f \in Surjection(1 .. Len(L), T)
    BY DEF Surjection
  <2> HIDE DEF f
  <2> QED  BY <1>2, <2>1, FS_Surjection
<1> QED  BY <1>1, <1>3

\* What a stored outbound can be matched with has its credential, and the same way there
LEMMA MatchKeeps ==
    ASSUME PageInv, NEW i \in DOMAIN page, NEW m \in Matches(page[i], page)
    PROVE  /\ m \in ToSet(stored) /\ m \in Items /\ m.secret \in Values /\ Strip(m) = Strip(page[i])
           /\ \A t \in DependsOn(DialGraph(stored), page[i].tag) : ShownAs(stored, t) = ShownAs(page, t)
<1>1. m \in ToSet(stored) /\ Strip(m) = Strip(page[i]) /\ m.secret # Empty /\ ~ChangedDependency(page[i].tag, page)
  BY DEF Matches
<1>2. PICK j \in DOMAIN stored : m = stored[j]
  BY <1>1 DEF ToSet
<1>3. m \in Items /\ m.secret # Hidden
  BY <1>2 DEF PageInv
<1>4. m.secret \in Values
  BY <1>1, <1>3 DEF Items
<1>5. \A t \in DependsOn(DialGraph(stored), page[i].tag) : ShownAs(stored, t) = ShownAs(page, t)
  BY <1>1 DEF ChangedDependency, DialsThrough
<1> QED  BY <1>1, <1>3, <1>4, <1>5

\* What a save writes shows what the page shows
LEMMA RestoredAlike ==
    ASSUME PageInv, Restorable(page)
    PROVE  /\ Restored(page) \in Seq(Items) /\ Alike(page, Restored(page))
           /\ \A i \in DOMAIN page :
                IF page[i].secret = Hidden THEN Restored(page)[i] \in Matches(page[i], page)
                ELSE Restored(page)[i] = page[i]
<1> DEFINE R == Restored(page)
<1>1. page \in Seq(Items)
  BY DEF PageInv
<1>2. DOMAIN R = DOMAIN page
  BY DEF Restored
<1>3. ASSUME NEW i \in DOMAIN page
      PROVE  IF page[i].secret = Hidden THEN R[i] \in Matches(page[i], page) ELSE R[i] = page[i]
  <2>1. page[i].secret = Hidden => Matches(page[i], page) # {}
    BY DEF Restorable, ToSet
  <2>2. R[i] = IF page[i].secret = Hidden THEN CHOOSE s \in Matches(page[i], page) : TRUE ELSE page[i]
    BY DEF Restored
  <2> QED  BY <2>1, <2>2
<1>4. ASSUME NEW i \in DOMAIN page PROVE R[i] \in Items /\ Strip(R[i]) = Strip(page[i])
  <2>1. CASE page[i].secret = Hidden
    BY <1>3, <2>1, MatchKeeps
  <2>2. CASE page[i].secret # Hidden
    BY <1>1, <1>3, <2>2
  <2> QED  BY <2>1, <2>2
<1>5. R = [i \in 1 .. Len(page) |-> R[i]]
  BY <1>1, <1>2 DEF Restored
<1>6. R \in Seq(Items)
  <2>1. \A i \in 1 .. Len(page) : R[i] \in Items
    BY <1>1, <1>4
  <2> HIDE DEF R
  <2> QED  BY <1>1, <1>5, <2>1
<1>7. Alike(page, R)
  BY <1>2, <1>4 DEF Alike
<1> QED  BY <1>3, <1>6, <1>7

\* After a save a kept placeholder dials through what it dialed through
LEMMA SaveKeepsWays ==
    ASSUME PageInv, Restorable(page), Accepted(page), NEW i \in DOMAIN page, page[i].secret = Hidden
    PROVE  \A t \in DependsOn(DialGraph(Restored(page)), page[i].tag) : ShownAs(Restored(page), t) = ShownAs(stored, t)
<1> DEFINE R == Restored(page)
           g == DialGraph(stored)
           h == DialGraph(R)
           tag == page[i].tag
<1>1. stored \in Seq(Items) /\ Accepted(stored) /\ page \in Seq(Items)
  BY DEF PageInv
<1>2. R \in Seq(Items) /\ Alike(page, R) /\ R[i] \in Matches(page[i], page)
  BY RestoredAlike
<1>3. /\ R[i] \in ToSet(stored) /\ Strip(R[i]) = Strip(page[i])
      /\ \A t \in DependsOn(g, tag) : ShownAs(stored, t) = ShownAs(page, t)
  BY <1>2, MatchKeeps
<1>4. \A t : ShownAs(page, t) = ShownAs(R, t)
  BY <1>1, <1>2, AlikeShown
<1>5. \A t \in DependsOn(g, tag) : OneStep(g, {t}) = OneStep(h, {t})
  <2> SUFFICES ASSUME NEW t \in DependsOn(g, tag) PROVE OneStep(g, {t}) = OneStep(h, {t})
    OBVIOUS
  <2>1. ShownAs(stored, t) = ShownAs(R, t)
    BY <1>3, <1>4
  <2>2. OneStep(g, {t}) = UNION {item.via : item \in ToSet(ShownAs(stored, t))}
    BY <1>1, OneStepOf
  <2>3. OneStep(h, {t}) = UNION {item.via : item \in ToSet(ShownAs(R, t))}
    BY <1>2, OneStepOf
  <2> QED  BY <2>1, <2>2, <2>3
<1>6. OneStep(g, {tag}) = OneStep(h, {tag})
  <2>1. PICK j \in DOMAIN stored : R[i] = stored[j]
    BY <1>3 DEF ToSet
  <2>2. stored[j].tag = tag /\ R[i].tag = tag
    BY <1>3, <2>1 DEF Strip
  <2>3. OneStep(g, {tag}) = stored[j].via
    BY <1>1, <2>2, OneStepOnce
  <2>4. Accepted(R) /\ i \in DOMAIN R
    BY <1>2 DEF Alike, Accepted, Strip
  <2>5. OneStep(h, {tag}) = R[i].via
    BY <1>2, <2>2, <2>4, OneStepOnce
  <2> QED  BY <2>1, <2>3, <2>5
<1>7. DependsOn(h, tag) = DependsOn(g, tag)
  <2>1. IsFiniteSet(DOMAIN g) /\ IsFiniteSet(DOMAIN h)
    BY <1>1, <1>2, DialsFinite
  <2>2. \A x \in {tag} \cup DependsOn(g, tag) : OneStep(g, {x}) = OneStep(h, {x})
    BY <1>5, <1>6
  <2> HIDE DEF g, h, tag
  <2> QED  BY <2>1, <2>2, SameDependsOn
<1> QED  BY <1>3, <1>4, <1>7

\* A page that shows what is stored saves what is stored
LEMMA UnchangedPage ==
    ASSUME PageInv, page = Masked(stored)
    PROVE  Restorable(page) /\ Accepted(page) /\ Restored(page) = stored
<1>1. stored \in Seq(Items) /\ Accepted(stored) /\ page \in Seq(Items)
  BY DEF PageInv
<1>2. /\ DOMAIN page = DOMAIN stored
      /\ \A i \in DOMAIN stored : page[i] = [stored[i] EXCEPT !.secret = MaskValue(stored[i].secret)]
  BY DEF Masked
<1>3. \A i \in DOMAIN stored :
          /\ Strip(page[i]) = Strip(stored[i]) /\ page[i].secret = MaskValue(stored[i].secret)
          /\ page[i].secret # Hidden => page[i] = stored[i]
  <2> SUFFICES ASSUME NEW i \in DOMAIN stored
               PROVE  /\ Strip(page[i]) = Strip(stored[i]) /\ page[i].secret = MaskValue(stored[i].secret)
                      /\ page[i].secret # Hidden => page[i] = stored[i]
    OBVIOUS
  <2>1. stored[i] \in Items
    BY <1>1
  <2>2. page[i].secret = MaskValue(stored[i].secret) /\ Strip(page[i]) = Strip(stored[i])
    BY <1>2, <2>1 DEF Items, Strip
  <2>3. page[i].secret # Hidden => MaskValue(stored[i].secret) = stored[i].secret
    BY <2>2 DEF MaskValue
  <2>4. page[i].secret # Hidden => page[i] = stored[i]
    BY <1>2, <2>1, <2>3 DEF Items
  <2> QED  BY <2>2, <2>4
<1>4. Alike(page, stored)
  BY <1>2, <1>3 DEF Alike
<1>5. Accepted(page)
  <2>1. \A i \in DOMAIN stored : page[i].tag = stored[i].tag
    BY <1>3 DEF Strip
  <2> QED  BY <1>1, <1>2, <2>1 DEF Accepted
<1>6. ASSUME NEW i \in DOMAIN page, page[i].secret = Hidden
      PROVE  stored[i] \in Matches(page[i], page) /\ \A m \in Matches(page[i], page) : m = stored[i]
  <2>1. stored[i].secret # Empty
    BY <1>2, <1>3, <1>6, SecretAssumption DEF MaskValue, SecretAssumption
  <2>2. ~ChangedDependency(page[i].tag, page)
    BY <1>1, <1>4, AlikeShown DEF ChangedDependency
  <2>3. stored[i] \in ToSet(stored) /\ Strip(stored[i]) = Strip(page[i])
    BY <1>2, <1>3 DEF ToSet
  <2>4. ASSUME NEW m \in Matches(page[i], page) PROVE m = stored[i]
    <3>1. PICK j \in DOMAIN stored : m = stored[j] /\ Strip(m) = Strip(page[i])
      BY DEF Matches, ToSet
    <3>2. stored[j].tag = stored[i].tag
      BY <1>2, <1>3, <3>1 DEF Strip
    <3> QED  BY <1>1, <1>2, <3>1, <3>2 DEF Accepted
  <2> QED  BY <2>1, <2>2, <2>3, <2>4 DEF Matches
<1>7. Restorable(page)
  <2> SUFFICES ASSUME NEW i \in DOMAIN page, page[i].secret = Hidden PROVE Matches(page[i], page) # {}
    BY DEF Restorable, ToSet
  <2> QED  BY <1>6
<1>8. \A i \in DOMAIN page : Restored(page)[i] = stored[i]
  <2> SUFFICES ASSUME NEW i \in DOMAIN page PROVE Restored(page)[i] = stored[i]
    OBVIOUS
  <2>1. IF page[i].secret = Hidden THEN Restored(page)[i] \in Matches(page[i], page) ELSE Restored(page)[i] = page[i]
    BY <1>7, RestoredAlike
  <2> QED  BY <1>2, <1>3, <1>6, <2>1
<1>9. Restored(page) = stored
  <2>1. Restored(page) \in Seq(Items) /\ Len(Restored(page)) = Len(page) /\ Len(page) = Len(stored)
    BY <1>1, <1>2, <1>7, RestoredAlike DEF Alike
  <2>2. \A i \in 1 .. Len(stored) : Restored(page)[i] = stored[i]
    BY <1>1, <1>2, <1>8
  <2> QED  BY <1>1, <2>1, <2>2
<1> QED  BY <1>5, <1>7, <1>9

\* A list without one item has no others
LEMMA Removed ==
    ASSUME NEW L \in Seq(Items), NEW i \in DOMAIN L
    PROVE  /\ RemoveAt(L, i) \in Seq(Items)
           /\ \A j \in DOMAIN RemoveAt(L, i) : \E k \in DOMAIN L : RemoveAt(L, i)[j] = L[k]
<1>1. RemoveAt(L, i) = SubSeq(L, 1, i - 1) \o SubSeq(L, i + 1, Len(L))
  BY DEF RemoveAt
<1> DEFINE a == SubSeq(L, 1, i - 1)
           b == SubSeq(L, i + 1, Len(L))
<1>2. a \in Seq(Items) /\ Len(a) = i - 1 /\ \A j \in 1 .. i - 1 : a[j] = L[j]
  OBVIOUS
<1>3. b \in Seq(Items) /\ Len(b) = Len(L) - i /\ \A j \in 1 .. Len(L) - i : b[j] = L[j + i]
  OBVIOUS
<1>4. i \in Nat /\ Len(L) \in Nat /\ i \in 1 .. Len(L)
  OBVIOUS
<1> HIDE DEF a, b
<1> DEFINE ab == a \o b
<1>5. ab \in Seq(Items) /\ Len(ab) = Len(L) - 1
  BY <1>2, <1>3, <1>4
<1>6. \A j \in 1 .. Len(L) - 1 : ab[j] = IF j < i THEN a[j] ELSE b[j - (i - 1)]
  <2> SUFFICES ASSUME NEW j \in 1 .. Len(L) - 1 PROVE (a \o b)[j] = IF j < i THEN a[j] ELSE b[j - (i - 1)]
    OBVIOUS
  <2>1. j \in 1 .. Len(a) + Len(b) /\ (j < i <=> j <= Len(a))
    BY <1>2, <1>3, <1>4
  <2>2. (a \o b)[j] = IF j <= Len(a) THEN a[j] ELSE b[j - Len(a)]
    BY <1>2, <1>3, <2>1
  <2> QED  BY <1>2, <2>1, <2>2
<1> HIDE DEF ab
<1>7. ASSUME NEW j \in 1 .. Len(L) - 1 PROVE \E k \in DOMAIN L : ab[j] = L[k]
  <2>1. CASE j < i
    <3>1. j \in 1 .. i - 1 /\ j \in DOMAIN L
      BY <1>4, <2>1
    <3> QED  BY <1>2, <1>6, <2>1, <3>1
  <2>2. CASE ~(j < i)
    <3>1. j - (i - 1) \in 1 .. Len(L) - i /\ (j - (i - 1)) + i = j + 1 /\ j + 1 \in DOMAIN L
      BY <1>4, <2>2
    <3>2. b[j - (i - 1)] = L[j + 1]
      BY <1>3, <3>1
    <3> QED  BY <1>6, <2>2, <3>1, <3>2
  <2> QED  BY <2>1, <2>2
<1>8. DOMAIN ab = 1 .. Len(L) - 1
  BY <1>4, <1>5
<1>9. RemoveAt(L, i) = ab
  BY <1>1 DEF ab, a, b
<1> QED  BY <1>5, <1>7, <1>8, <1>9

\* A masked section is a section
LEMMA MaskedItems ==
    ASSUME NEW L \in Seq(Items)
    PROVE  Masked(L) \in Seq(Items)
<1>1. \A i \in 1 .. Len(L) : [L[i] EXCEPT !.secret = MaskValue(L[i].secret)] \in Items
  <2> SUFFICES ASSUME NEW i \in 1 .. Len(L) PROVE [L[i] EXCEPT !.secret = MaskValue(L[i].secret)] \in Items
    OBVIOUS
  <2>1. L[i] \in Items
    OBVIOUS
  <2> QED  BY <2>1 DEF Items, MaskValue
<1>2. Masked(L) = [i \in 1 .. Len(L) |-> [L[i] EXCEPT !.secret = MaskValue(L[i].secret)]]
  BY DEF Masked
<1> QED  BY <1>1, <1>2

\* A save stores no placeholder and no tag twice
LEMMA SaveKeepsPageInv == ASSUME PageInv, WriteSection PROVE PageInv'
<1>1. page' = page /\ page \in Seq(Items)
  BY DEF WriteSection, PageInv
<1>2. CASE stored' = Restored(page) /\ Restorable(page) /\ Accepted(page)
  <2> DEFINE R == Restored(page)
  <2>1. R \in Seq(Items) /\ Alike(page, R)
    BY <1>2, RestoredAlike
  <2>2. Accepted(R)
    BY <1>2, <2>1 DEF Accepted, Alike, Strip
  <2>3. ASSUME NEW i \in DOMAIN R PROVE R[i].secret # Hidden
    <3>1. i \in DOMAIN page
      BY <2>1 DEF Alike
    <3>2. IF page[i].secret = Hidden THEN R[i] \in Matches(page[i], page) ELSE R[i] = page[i]
      BY <1>2, <3>1, RestoredAlike
    <3>3. R[i] \in Matches(page[i], page) => R[i].secret \in Values
      BY <3>1, MatchKeeps
    <3> QED  BY <3>2, <3>3, SecretAssumption DEF SecretAssumption
  <2> HIDE DEF R
  <2> QED  BY <1>1, <1>2, <2>1, <2>2, <2>3 DEF PageInv, R
<1>3. CASE stored' = stored
  BY <1>1, <1>3 DEF PageInv
<1> QED  BY <1>2, <1>3 DEF WriteSection

\* Nor does any other step
LEMMA StepPageInv == ASSUME PageInv, [PageNext]_pageVars PROVE PageInv'
<1>1. stored \in Seq(Items) /\ Accepted(stored) /\ page \in Seq(Items) /\ \A i \in DOMAIN stored : stored[i].secret # Hidden
  BY DEF PageInv
<1>2. CASE ReadSection
  BY <1>1, <1>2, MaskedItems DEF ReadSection, PageInv, Accepted
<1>3. CASE WriteSection
  BY <1>3, SaveKeepsPageInv
<1>4. CASE EditPage
  <2>1. stored' = stored
    BY <1>4 DEF EditPage
  <2>2. \A i \in DOMAIN page, item \in Items : [page EXCEPT ![i] = item] \in Seq(Items)
    BY <1>1
  <2>3. \A i \in DOMAIN page : RemoveAt(page, i) \in Seq(Items)
    BY <1>1, Removed
  <2>4. \A item \in Items : Append(page, item) \in Seq(Items)
    BY <1>1
  <2>5. page' \in Seq(Items)
    BY <1>4, <2>2, <2>3, <2>4 DEF EditPage
  <2> QED  BY <1>1, <2>1, <2>5 DEF PageInv, Accepted
<1>5. CASE Refresh
  <2>1. page' = page /\ Accepted(stored')
    BY <1>5 DEF Refresh
  <2>2. PICK i \in DOMAIN stored :
           \/ \E item \in Items : item.secret # Hidden /\ stored' = [stored EXCEPT ![i] = item]
           \/ stored' = RemoveAt(stored, i)
    BY <1>5 DEF Refresh
  <2>3. CASE stored' = RemoveAt(stored, i)
    <3>1. RemoveAt(stored, i) \in Seq(Items)
      BY <1>1, Removed
    <3>2. \A j \in DOMAIN RemoveAt(stored, i) : \E k \in DOMAIN stored : RemoveAt(stored, i)[j] = stored[k]
      BY <1>1, Removed
    <3>3. \A j \in DOMAIN RemoveAt(stored, i) : RemoveAt(stored, i)[j].secret # Hidden
      BY <1>1, <3>2
    <3> QED  BY <1>1, <2>1, <2>3, <3>1, <3>3 DEF PageInv
  <2>4. ASSUME NEW item \in Items, item.secret # Hidden, stored' = [stored EXCEPT ![i] = item] PROVE PageInv'
    <3>1. stored' \in Seq(Items) /\ \A j \in DOMAIN stored' : stored'[j] = IF j = i THEN item ELSE stored[j]
      BY <1>1, <2>4
    <3>2. DOMAIN stored' = DOMAIN stored
      BY <2>4
    <3> QED  BY <1>1, <2>1, <2>4, <3>1, <3>2 DEF PageInv
  <2> QED  BY <2>2, <2>3, <2>4
<1>6. CASE UNCHANGED pageVars
  BY <1>1, <1>6 DEF pageVars, PageInv, Accepted
<1> QED  BY <1>2, <1>3, <1>4, <1>5, <1>6 DEF PageNext

\* What is stored has no placeholder and no tag twice, whatever page is saved and
\* whatever a refresh or an import replaces meanwhile (WriteSection of editor.go).
THEOREM PageInvariance == PageSpec => []PageInv
<1>1. PageInit => PageInv
  <2> SUFFICES ASSUME PageInit PROVE PageInv
    OBVIOUS
  <2>1. stored \in Sections /\ page = <<>>
    BY DEF PageInit
  <2>2. page \in Seq(Items)
    BY <2>1
  <2> QED  BY <2>1, <2>2, SectionAssumption DEF SectionAssumption, PageInv
<1> QED  BY <1>1, StepPageInv, PTL DEF PageSpec

\* A save that is accepted puts each credential back where it was, on a way that is
\* as it was; one that changes nothing is accepted and stores the same
LEMMA StepKeepsSecrets == ASSUME PageInv, [PageNext]_pageVars PROVE [KeepsSecrets]_pageVars
<1> SUFFICES ASSUME PageNext PROVE KeepsSecrets
  OBVIOUS
<1>1. CASE ~WriteSection
  <2>1. answer' \notin {"saved", "refused"}
    BY <1>1 DEF PageNext, ReadSection, EditPage, Refresh
  <2> QED  BY <2>1 DEF KeepsSecrets
<1>2. CASE WriteSection
  <2>1. page' = page /\ page # <<>>
    BY <1>2 DEF WriteSection
  <2>2. CASE Restorable(page) /\ Accepted(page)
    <3>1. stored' = Restored(page) /\ answer' = "saved"
      BY <1>2, <2>2 DEF WriteSection
    <3>2. ASSUME NEW i \in DOMAIN page, page[i].secret = Hidden
          PROVE  /\ stored'[i] \in ToSet(stored) /\ stored'[i].secret \in Values
                 /\ \A t \in DependsOn(DialGraph(stored'), page[i].tag) : ShownAs(stored', t) = ShownAs(stored, t)
      <4>1. Restored(page)[i] \in Matches(page[i], page)
        BY <2>2, <3>2, RestoredAlike
      <4>2. Restored(page)[i] \in ToSet(stored) /\ Restored(page)[i].secret \in Values
        BY <3>2, <4>1, MatchKeeps
      <4>3. \A t \in DependsOn(DialGraph(Restored(page)), page[i].tag) :
               ShownAs(Restored(page), t) = ShownAs(stored, t)
        BY <2>2, <3>2, SaveKeepsWays
      <4> QED  BY <3>1, <4>2, <4>3
    <3>3. page = Masked(stored) => Restored(page) = stored
      BY UnchangedPage
    <3> QED  BY <3>1, <3>2, <3>3 DEF KeepsSecrets
  <2>3. CASE ~(Restorable(page) /\ Accepted(page))
    <3>1. answer' = "refused"
      BY <1>2, <2>3 DEF WriteSection
    <3>2. page # Masked(stored)
      BY <2>3, UnchangedPage
    <3> QED  BY <3>1, <3>2 DEF KeepsSecrets
  <2> QED  BY <2>2, <2>3
<1> QED  BY <1>1, <1>2

\* A credential stays with its server and its way there, for any section, page
\* and order of edits, refreshes and saves (restoreSecrets of secrets.go).
THEOREM SecretsStay == PageSpec => SecretStays
<1> QED  BY PageInvariance, StepKeepsSecrets, PTL DEF PageSpec, SecretStays

-----------------------------------------------------------------------------
(* RingSearch: the search finds the rings of any graph *)

Graphs == [Nodes -> SUBSET Nodes]
Reaches(E, x, y) == y = x \/ y \in DependsOn(E, x)
Class(E, t) == {u \in DependsOn(E, t) \cap Nodes : t \in DependsOn(E, u)}
Visited(ix) == {t \in Nodes : ix[t] # Unseen}
Under(cs) == {f.tag : f \in cs}

\* What a tag reaches, it reaches step by step, and no further than a closed set
LEMMA ReachesIs ==
    ASSUME NEW E \in Graphs
    PROVE  /\ \A x, y, z : Reaches(E, x, y) /\ Reaches(E, y, z) => Reaches(E, x, z)
           /\ \A x, y, z : Reaches(E, x, y) /\ z \in DependsOn(E, y) => z \in DependsOn(E, x)
           /\ \A x, y, z : y \in DependsOn(E, x) /\ Reaches(E, y, z) => z \in DependsOn(E, x)
           /\ \A x \in Nodes : \A y \in E[x] : y \in DependsOn(E, x) /\ Reaches(E, x, y)
           /\ \A S \in SUBSET Nodes : (\A x \in S : E[x] \subseteq S)
                => \A x \in S : DependsOn(E, x) \subseteq S
           /\ \A x \in Nodes : x \in DependsOn(E, x) => \E y \in E[x] : Reaches(E, y, x)
<1>1. DOMAIN E = Nodes /\ IsFiniteSet(DOMAIN E) /\ \A x \in Nodes : E[x] \subseteq Nodes
  BY NodesAssumption DEF Graphs
<1>2. \A t : \A u \in DependsOn(E, t) : DependsOn(E, u) \subseteq DependsOn(E, t)
  BY <1>1, DependsFurther
<1>3. \A t \in Nodes : \A u \in E[t] : u \in DependsOn(E, t)
  BY <1>1, DependsFurther
<1>4. ASSUME NEW S \in SUBSET Nodes, \A x \in S : E[x] \subseteq S, NEW x \in S PROVE DependsOn(E, x) \subseteq S
  <2>1. Keeps(E, {x}, S) /\ Keeps(E, S, S)
    BY <1>4 DEF Keeps
  <2> QED  BY <1>1, <2>1, DependsOnIs
<1>5. ASSUME NEW x \in Nodes, x \in DependsOn(E, x) PROVE \E y \in E[x] : Reaches(E, y, x)
  BY <1>1, <1>5, DependsVia DEF Reaches
<1> QED  BY <1>2, <1>3, <1>4, <1>5 DEF Reaches

\* The search, seen as sets: E the edges, ix and lo the numbers, st the stack,
\* cs the visits under way, fd what was found
Typed(E, ix, lo, st, cs) ==
    /\ E \in Graphs /\ ix \in [Nodes -> Nat \cup {Unseen}] /\ lo \in [Nodes -> Nat \cup {Unseen}]
    /\ st \subseteq Visited(ix) /\ cs \subseteq [tag : st, todo : SUBSET Nodes]
    /\ \A x, y \in st : ix[x] = ix[y] => x = y
    /\ \A f, g \in cs : f.tag = g.tag => f = g
    /\ \A x \in Visited(ix) : ix[x] < Cardinality(Visited(ix))

\* low is the number of a tag on the stack that can be reached; a visit under
\* way reaches all that came after it, and one that is over reaches one before it
Numbered(E, ix, lo, st, cs) ==
    /\ \A x \in st : lo[x] <= ix[x] /\ \E u \in st : ix[u] = lo[x] /\ Reaches(E, x, u)
    /\ \A x \in st \ Under(cs) : lo[x] < ix[x]
    /\ \A v \in Under(cs), x \in st : ix[v] <= ix[x] => Reaches(E, v, x)
    /\ \A x \in st : \E v \in Under(cs) : ix[v] <= ix[x]

\* The visit that x belongs to: the latest under way that began no later
Within(ix, cs, x, v) == ix[v] <= ix[x] /\ \A g \in Under(cs) : ix[g] <= ix[x] => ix[g] <= ix[v]

\* What was followed: nothing assigned leads back to the stack, and what leads
\* to the stack is known to the visit it belongs to
Followed(E, ix, lo, st, cs) ==
    /\ \A x \in Visited(ix) \ st : E[x] \subseteq Visited(ix) \ st
    /\ \A x \in st \ Under(cs) : E[x] \subseteq Visited(ix)
    /\ \A f \in cs : f.todo \subseteq E[f.tag] /\ E[f.tag] \ f.todo \subseteq Visited(ix)
    /\ \A v \in Under(cs), x \in st : Within(ix, cs, x, v) =>
         \A y \in E[x] \cap st : (\A f \in cs : f.tag = x => y \notin f.todo) => lo[v] <= ix[y]

RingsNamed(E, ix, st, fd) == fd = {Class(E, t) : t \in {t \in Visited(ix) \ st : t \in DependsOn(E, t)}}

\* The latest of the visits under way
Latest(ix, cs, f) == f \in cs /\ \A g \in cs : g = f \/ ix[g.tag] < ix[f.tag]

InvOf(E, ix, lo, st, cs, fd) ==
    Typed(E, ix, lo, st, cs) /\ Numbered(E, ix, lo, st, cs) /\ Followed(E, ix, lo, st, cs) /\ RingsNamed(E, ix, st, fd)

\* The visit of v begins, from none or from the latest one
Beginning(E, ix, lo, st, cs, v, cs1, ix2, lo2, st2, cs2) ==
    /\ v \in Nodes /\ ix[v] = Unseen
    /\ \/ cs = {} /\ cs1 = {}
       \/ \E f \in cs : /\ Latest(ix, cs, f) /\ v \in f.todo
                        /\ cs1 = (cs \ {f}) \cup {[tag |-> f.tag, todo |-> f.todo \ {v}]}
    /\ ix2 = [ix EXCEPT ![v] = Cardinality(Visited(ix))]
    /\ lo2 = [lo EXCEPT ![v] = Cardinality(Visited(ix))]
    /\ st2 = st \cup {v} /\ cs2 = cs1 \cup {[tag |-> v, todo |-> E[v]]}

\* A tag not seen before: its visit begins
LEMMA Begins ==
    ASSUME NEW E, NEW ix, NEW lo, NEW st, NEW cs, NEW fd, InvOf(E, ix, lo, st, cs, fd),
           NEW v, NEW cs1, NEW ix2, NEW lo2, NEW st2, NEW cs2,
           Beginning(E, ix, lo, st, cs, v, cs1, ix2, lo2, st2, cs2)
    PROVE  InvOf(E, ix2, lo2, st2, cs2, fd)
<1> USE DEF InvOf, Beginning
<1> DEFINE n == Cardinality(Visited(ix))
<1> USE DEF Unseen
<1>1. /\ E \in Graphs /\ ix \in [Nodes -> Nat \cup {-1}] /\ lo \in [Nodes -> Nat \cup {-1}]
      /\ st \subseteq Visited(ix) /\ cs \subseteq [tag : st, todo : SUBSET Nodes]
      /\ \A x, y \in st : ix[x] = ix[y] => x = y
      /\ \A f, g \in cs : f.tag = g.tag => f = g
      /\ \A x \in Visited(ix) : ix[x] < n
  BY DEF Typed
<1>2. IsFiniteSet(Visited(ix)) /\ n \in Nat
  <2>1. IsFiniteSet(Visited(ix))
    BY NodesAssumption, FS_Subset DEF Visited
  <2> QED  BY <2>1, FS_CardinalityType
<1>3. v \notin Visited(ix) /\ v \notin st
  BY <1>1 DEF Visited
<1>4. /\ ix2 \in [Nodes -> Nat \cup {-1}] /\ lo2 \in [Nodes -> Nat \cup {-1}]
      /\ ix2[v] = n /\ lo2[v] = n /\ \A x \in Nodes : x # v => ix2[x] = ix[x] /\ lo2[x] = lo[x]
  BY <1>1, <1>2
<1>5. Visited(ix2) = Visited(ix) \cup {v}
  <2>1. ix2[v] # -1
    BY <1>2, <1>4
  <2>2. \A t \in Nodes : ix2[t] # -1 <=> ix[t] # -1 \/ t = v
    BY <1>4, <2>1
  <2> QED  BY <2>2 DEF Visited
<1>6. Cardinality(Visited(ix2)) = n + 1
  BY <1>2, <1>3, <1>5, FS_AddElement
<1>7. \A x \in st : x \in Nodes /\ x # v /\ ix2[x] = ix[x] /\ lo2[x] = lo[x] /\ ix[x] \in Nat /\ ix[x] < n /\ lo[x] \in Nat \cup {-1}
  BY <1>1, <1>3, <1>4 DEF Visited
<1>8. Under(cs1) = Under(cs) /\ Under(cs2) = Under(cs) \cup {v} /\ Under(cs) \subseteq st
  <2>1. Under(cs1) = Under(cs)
    <3>1. CASE cs1 = {} /\ cs = {}
      BY <3>1
    <3>2. ASSUME NEW f \in cs, cs1 = (cs \ {f}) \cup {[tag |-> f.tag, todo |-> f.todo \ {v}]} PROVE Under(cs1) = Under(cs)
      <4> DEFINE new == [tag |-> f.tag, todo |-> f.todo \ {v}]
      <4>1. new.tag = f.tag
        OBVIOUS
      <4> HIDE DEF new
      <4> QED  BY <3>2, <4>1 DEF Under, new
    <3> QED  BY <3>1, <3>2
  <2>2. Under(cs2) = Under(cs1) \cup {v}
    <3> DEFINE new == [tag |-> v, todo |-> E[v]]
    <3>1. new.tag = v /\ cs2 = cs1 \cup {new}
      OBVIOUS
    <3> HIDE DEF new
    <3> QED  BY <3>1 DEF Under
  <2>3. Under(cs) \subseteq st
    BY <1>1 DEF Under
  <2> QED  BY <2>1, <2>2, <2>3
<1>9. \A g \in Under(cs) : Reaches(E, g, v)
  <2>1. CASE cs = {}
    BY <2>1 DEF Under
  <2>2. ASSUME NEW f \in cs, Latest(ix, cs, f), v \in f.todo, NEW g \in Under(cs) PROVE Reaches(E, g, v)
    <3>1. PICK h \in cs : g = h.tag
      BY DEF Under
    <3>2. ix[g] <= ix[f.tag] /\ f.tag \in st /\ g \in Under(cs) /\ f.tag \in Nodes
      BY <1>1, <1>7, <2>2, <3>1 DEF Latest
    <3>3. Reaches(E, g, f.tag)
      BY <3>2 DEF Numbered
    <3>4. v \in E[f.tag]
      BY <2>2 DEF Followed
    <3> QED  BY <1>1, <3>2, <3>3, <3>4, ReachesIs
  <2> QED  BY <2>1, <2>2
<1>10. Typed(E, ix2, lo2, st2, cs2)
  <2>1. cs1 \subseteq [tag : st, todo : SUBSET Nodes] /\ \A f, g \in cs1 : f.tag = g.tag => f = g
    <3>1. CASE cs1 = {}
      BY <3>1
    <3>2. ASSUME NEW f \in cs, cs1 = (cs \ {f}) \cup {[tag |-> f.tag, todo |-> f.todo \ {v}]}
          PROVE  cs1 \subseteq [tag : st, todo : SUBSET Nodes] /\ \A g, h \in cs1 : g.tag = h.tag => g = h
      <4> DEFINE new == [tag |-> f.tag, todo |-> f.todo \ {v}]
      <4>1. new.tag = f.tag /\ new \in [tag : st, todo : SUBSET Nodes]
        BY <1>1
      <4> HIDE DEF new
      <4>2. cs1 = (cs \ {f}) \cup {new}
        BY <3>2 DEF new
      <4> QED  BY <1>1, <4>1, <4>2
    <3> QED  BY <3>1, <3>2
  <2>2. cs2 \subseteq [tag : st2, todo : SUBSET Nodes]
    <3> DEFINE new == [tag |-> v, todo |-> E[v]]
    <3>1. new \in [tag : st2, todo : SUBSET Nodes]
      BY <1>1 DEF Graphs
    <3>2. cs1 \subseteq [tag : st2, todo : SUBSET Nodes]
      BY <2>1
    <3> QED  BY <3>1, <3>2
  <2>3. \A f, g \in cs2 : f.tag = g.tag => f = g
    <3> DEFINE new == [tag |-> v, todo |-> E[v]]
    <3>1. new.tag = v /\ \A g \in cs1 : g.tag # v
      BY <1>3, <2>1
    <3> HIDE DEF new
    <3>2. cs2 = cs1 \cup {new}
      BY DEF new
    <3> QED  BY <2>1, <3>1, <3>2
  <2>4. \A x, y \in st2 : ix2[x] = ix2[y] => x = y
    <3>1. \A x \in st : ix2[x] # ix2[v]
      BY <1>2, <1>4, <1>7
    <3> QED  BY <1>1, <1>7, <3>1
  <2>5. \A x \in Visited(ix2) : ix2[x] < Cardinality(Visited(ix2))
    <3>1. \A x \in Visited(ix) : x \in Nodes /\ x # v /\ ix[x] \in Nat
      BY <1>1, <1>3 DEF Visited
    <3>2. \A x \in Visited(ix) : ix2[x] < n + 1
      BY <1>1, <1>2, <1>4, <3>1
    <3>3. ix2[v] < n + 1
      BY <1>2, <1>4
    <3> QED  BY <1>5, <1>6, <3>2, <3>3
  <2>6. st2 \subseteq Visited(ix2)
    BY <1>1, <1>5
  <2> QED  BY <1>1, <1>4, <2>2, <2>3, <2>4, <2>5, <2>6 DEF Typed
<1>11. Numbered(E, ix2, lo2, st2, cs2)
  <2>1. \A x \in st2 : lo2[x] <= ix2[x] /\ \E u \in st2 : ix2[u] = lo2[x] /\ Reaches(E, x, u)
    <3>1. \A x \in st : lo2[x] <= ix2[x] /\ \E u \in st2 : ix2[u] = lo2[x] /\ Reaches(E, x, u)
      <4> SUFFICES ASSUME NEW x \in st PROVE lo[x] <= ix[x] /\ \E u \in st : ix2[u] = lo[x] /\ Reaches(E, x, u)
        BY <1>7
      <4>1. lo[x] <= ix[x] /\ \E u \in st : ix[u] = lo[x] /\ Reaches(E, x, u)
        BY DEF Numbered
      <4> QED  BY <1>7, <4>1
    <3>2. lo2[v] <= ix2[v] /\ ix2[v] = lo2[v] /\ Reaches(E, v, v)
      BY <1>2, <1>4 DEF Reaches
    <3> QED  BY <3>1, <3>2
  <2>2. \A x \in st2 \ Under(cs2) : lo2[x] < ix2[x]
    BY <1>7, <1>8 DEF Numbered
  <2>3. \A g \in Under(cs2), x \in st2 : ix2[g] <= ix2[x] => Reaches(E, g, x)
    <3>1. \A g \in Under(cs), x \in st : ix2[g] <= ix2[x] => Reaches(E, g, x)
      BY <1>7, <1>8 DEF Numbered
    <3>2. \A x \in st : ~(ix2[v] <= ix2[x])
      BY <1>2, <1>4, <1>7
    <3>3. Reaches(E, v, v)
      BY DEF Reaches
    <3> QED  BY <1>8, <1>9, <3>1, <3>2, <3>3
  <2>4. \A x \in st2 : \E g \in Under(cs2) : ix2[g] <= ix2[x]
    <3>1. ix2[v] <= ix2[v]
      BY <1>2, <1>4
    <3>2. \A x \in st : \E g \in Under(cs) : ix2[g] <= ix2[x]
      BY <1>7, <1>8 DEF Numbered
    <3> QED  BY <1>8, <3>1, <3>2
  <2> QED  BY <2>1, <2>2, <2>3, <2>4 DEF Numbered
<1>12. Visited(ix2) \ st2 = Visited(ix) \ st
  BY <1>3, <1>5
<1>13. Followed(E, ix2, lo2, st2, cs2)
  <2>1. \A x \in Visited(ix2) \ st2 : E[x] \subseteq Visited(ix2) \ st2
    BY <1>12 DEF Followed
  <2>2. \A x \in st2 \ Under(cs2) : E[x] \subseteq Visited(ix2)
    BY <1>5, <1>8 DEF Followed
  <2>3. \A f \in cs2 : f.todo \subseteq E[f.tag] /\ E[f.tag] \ f.todo \subseteq Visited(ix2)
    <3>1. \A f \in cs : f.todo \subseteq E[f.tag] /\ E[f.tag] \ f.todo \subseteq Visited(ix)
      BY DEF Followed
    <3>2. ASSUME NEW f \in cs, cs1 = (cs \ {f}) \cup {[tag |-> f.tag, todo |-> f.todo \ {v}]}
          PROVE  \A g \in cs1 : g.todo \subseteq E[g.tag] /\ E[g.tag] \ g.todo \subseteq Visited(ix2)
      <4> DEFINE new == [tag |-> f.tag, todo |-> f.todo \ {v}]
      <4>1. new.tag = f.tag /\ new.todo = f.todo \ {v}
        OBVIOUS
      <4> HIDE DEF new
      <4>2. cs1 = (cs \ {f}) \cup {new}
        BY <3>2 DEF new
      <4>3. new.todo \subseteq E[new.tag] /\ E[new.tag] \ new.todo \subseteq Visited(ix2)
        BY <1>5, <3>1, <4>1
      <4> QED  BY <1>5, <3>1, <4>2, <4>3
    <3>3. \A g \in cs1 : g.todo \subseteq E[g.tag] /\ E[g.tag] \ g.todo \subseteq Visited(ix2)
      BY <3>2
    <3> DEFINE new == [tag |-> v, todo |-> E[v]]
    <3>4. new.tag = v /\ new.todo = E[v] /\ cs2 = cs1 \cup {new}
      OBVIOUS
    <3> HIDE DEF new
    <3>5. new.todo \subseteq E[new.tag] /\ E[new.tag] \ new.todo \subseteq Visited(ix2)
      BY <3>4
    <3> QED  BY <3>3, <3>4, <3>5
  <2>4. ASSUME NEW g \in Under(cs2), NEW x \in st2, Within(ix2, cs2, x, g), NEW y \in E[x] \cap st2,
               \A f \in cs2 : f.tag = x => y \notin f.todo
        PROVE  lo2[g] <= ix2[y]
    <3>1. x # v
      <4> DEFINE new == [tag |-> v, todo |-> E[v]]
      <4>1. new \in cs2 /\ new.tag = v /\ new.todo = E[v]
        OBVIOUS
      <4> QED  BY <2>4, <4>1
    <3>2. x \in st /\ g \in Under(cs)
      <4>1. x \in st /\ ix2[x] = ix[x] /\ ix[x] \in Nat /\ ix[x] < n
        BY <1>7, <3>1
      <4>2. ix2[g] <= ix2[x] /\ (g \in Under(cs) \/ g = v)
        BY <1>8, <2>4 DEF Within
      <4>3. g # v
        BY <1>2, <1>4, <4>1, <4>2
      <4> QED  BY <4>1, <4>2, <4>3
    <3>3. Within(ix, cs, x, g)
      BY <1>7, <1>8, <2>4, <3>2 DEF Within
    <3>4. g \in st /\ lo[g] <= ix[g] /\ ix[g] < n /\ lo2[g] = lo[g] /\ ix[g] \in Nat
      BY <1>7, <1>8, <3>2 DEF Numbered
    <3>5. CASE y = v
      BY <1>1, <1>2, <1>4, <1>7, <3>4, <3>5
    <3>6. CASE y # v
      <4>1. y \in E[x] \cap st
        BY <3>6
      <4>2. ASSUME NEW f \in cs, f.tag = x PROVE y \notin f.todo
        <5>1. CASE f \in cs2
          BY <2>4, <4>2, <5>1
        <5>2. CASE f \notin cs2
          <6> DEFINE new == [tag |-> f.tag, todo |-> f.todo \ {v}]
          <6>1. new \in cs2
            BY <5>2
          <6>2. new.tag = x /\ new.todo = f.todo \ {v}
            BY <4>2
          <6> QED  BY <2>4, <3>6, <6>1, <6>2
        <5> QED  BY <5>1, <5>2
      <4>3. lo[g] <= ix[y]
        BY <3>2, <3>3, <4>1, <4>2 DEF Followed
      <4> QED  BY <1>7, <3>4, <4>1, <4>3
    <3> QED  BY <3>5, <3>6
  <2> QED  BY <2>1, <2>2, <2>3, <2>4 DEF Followed
<1>14. RingsNamed(E, ix2, st2, fd)
  BY <1>12 DEF RingsNamed
<1> QED  BY <1>10, <1>11, <1>13, <1>14

\* The visit f goes along the edge to w, a tag seen before
Following(ix, lo, st, cs, f, w, lo2, cs2) ==
    /\ Latest(ix, cs, f) /\ w \in f.todo /\ w \in Nodes /\ ix[w] # Unseen
    /\ cs2 = (cs \ {f}) \cup {[tag |-> f.tag, todo |-> f.todo \ {w}]}
    /\ lo2 = IF w \in st THEN [lo EXCEPT ![f.tag] = Lower(@, ix[w])] ELSE lo

\* An edge to a tag seen before: its number counts while it is on the stack
LEMMA Follows ==
    ASSUME NEW E, NEW ix, NEW lo, NEW st, NEW cs, NEW fd, InvOf(E, ix, lo, st, cs, fd),
           NEW f, NEW w, NEW lo2, NEW cs2, Following(ix, lo, st, cs, f, w, lo2, cs2)
    PROVE  InvOf(E, ix, lo2, st, cs2, fd)
<1> USE DEF InvOf, Following
<1> USE DEF Unseen
<1> DEFINE v == f.tag
           new == [tag |-> f.tag, todo |-> f.todo \ {w}]
<1>1. /\ E \in Graphs /\ ix \in [Nodes -> Nat \cup {-1}] /\ lo \in [Nodes -> Nat \cup {-1}]
      /\ st \subseteq Visited(ix) /\ cs \subseteq [tag : st, todo : SUBSET Nodes]
      /\ \A x, y \in st : ix[x] = ix[y] => x = y
      /\ \A g, h \in cs : g.tag = h.tag => g = h
      /\ \A x \in Visited(ix) : ix[x] < Cardinality(Visited(ix))
  BY DEF Typed
<1>2. new.tag = v /\ new.todo = f.todo \ {w} /\ cs2 = (cs \ {f}) \cup {new} /\ f \in cs
      /\ new \in [tag : st, todo : SUBSET Nodes] /\ v \in st
  BY <1>1 DEF Latest
<1>3. w \in Visited(ix) /\ w \in E[v]
  BY <1>2 DEF Visited, Followed
<1>4. \A x \in st : x \in Nodes /\ ix[x] \in Nat /\ lo[x] \in Nat
  <2> SUFFICES ASSUME NEW x \in st PROVE x \in Nodes /\ ix[x] \in Nat /\ lo[x] \in Nat
    OBVIOUS
  <2>1. x \in Nodes /\ ix[x] \in Nat
    BY <1>1 DEF Visited
  <2>2. \E u \in st : ix[u] = lo[x]
    BY DEF Numbered
  <2>3. \A u \in st : ix[u] \in Nat
    BY <1>1 DEF Visited
  <2> QED  BY <2>1, <2>2, <2>3
<1> HIDE DEF new, v
<1>5. Under(cs2) = Under(cs) /\ v \in Under(cs) /\ Under(cs) \subseteq st
  <2>1. Under(cs2) = Under(cs) /\ v \in Under(cs)
    BY <1>2 DEF Under, v
  <2> QED  BY <1>1, <2>1 DEF Under
<1>6. /\ lo2 \in [Nodes -> Nat \cup {-1}]
      /\ \A x \in st : x # v => lo2[x] = lo[x]
      /\ lo2[v] = lo[v] \/ (w \in st /\ lo2[v] = ix[w])
      /\ lo2[v] <= lo[v] /\ (w \in st => lo2[v] <= ix[w])
  <2>1. CASE w \in st
    <3>1. lo2 = [lo EXCEPT ![v] = Lower(lo[v], ix[w])]
      BY <2>1 DEF v
    <3>2. lo[v] \in Nat /\ ix[w] \in Nat /\ v \in Nodes
      BY <1>2, <1>4, <2>1
    <3>3. Lower(lo[v], ix[w]) \in {lo[v], ix[w]} /\ Lower(lo[v], ix[w]) <= lo[v] /\ Lower(lo[v], ix[w]) <= ix[w]
      BY <3>2 DEF Lower
    <3>4. lo2[v] = Lower(lo[v], ix[w]) /\ \A x \in Nodes : x # v => lo2[x] = lo[x]
      BY <1>1, <3>1, <3>2
    <3>5. lo2 \in [Nodes -> Nat \cup {-1}]
      BY <1>1, <3>1, <3>2, <3>3
    <3> QED  BY <1>4, <2>1, <3>3, <3>4, <3>5
  <2>2. CASE w \notin st
    BY <1>1, <1>2, <1>4, <2>2
  <2> QED  BY <2>1, <2>2
<1>7. Typed(E, ix, lo2, st, cs2)
  <2>1. cs2 \subseteq [tag : st, todo : SUBSET Nodes] /\ \A g, h \in cs2 : g.tag = h.tag => g = h
    BY <1>1, <1>2 DEF v
  <2> QED  BY <1>1, <1>6, <2>1 DEF Typed
<1>8. Numbered(E, ix, lo2, st, cs2)
  <2>1. ASSUME NEW x \in st PROVE lo2[x] <= ix[x] /\ \E u \in st : ix[u] = lo2[x] /\ Reaches(E, x, u)
    <3>1. lo[x] <= ix[x] /\ \E u \in st : ix[u] = lo[x] /\ Reaches(E, x, u)
      BY DEF Numbered
    <3>2. CASE x # v \/ lo2[v] = lo[v]
      BY <1>6, <3>1, <3>2
    <3>3. CASE x = v /\ w \in st /\ lo2[v] = ix[w]
      <4>1. Reaches(E, v, w)
        BY <1>1, <1>2, <1>3, <1>4, ReachesIs
      <4>2. lo2[v] \in Nat /\ lo[v] \in Nat /\ ix[v] \in Nat
        BY <1>2, <1>4, <3>3
      <4> QED  BY <1>6, <3>1, <3>3, <4>1, <4>2
    <3> QED  BY <1>6, <3>2, <3>3
  <2>2. \A x \in st \ Under(cs2) : lo2[x] < ix[x]
    BY <1>5, <1>6 DEF Numbered
  <2>3. \A g \in Under(cs2), x \in st : ix[g] <= ix[x] => Reaches(E, g, x)
    BY <1>5 DEF Numbered
  <2>4. \A x \in st : \E g \in Under(cs2) : ix[g] <= ix[x]
    BY <1>5 DEF Numbered
  <2> QED  BY <2>1, <2>2, <2>3, <2>4 DEF Numbered
<1>9. Followed(E, ix, lo2, st, cs2)
  <2>1. \A x \in Visited(ix) \ st : E[x] \subseteq Visited(ix) \ st
    BY DEF Followed
  <2>2. \A x \in st \ Under(cs2) : E[x] \subseteq Visited(ix)
    BY <1>5 DEF Followed
  <2>3. \A g \in cs2 : g.todo \subseteq E[g.tag] /\ E[g.tag] \ g.todo \subseteq Visited(ix)
    <3>1. \A g \in cs : g.todo \subseteq E[g.tag] /\ E[g.tag] \ g.todo \subseteq Visited(ix)
      BY DEF Followed
    <3>2. new.todo \subseteq E[new.tag] /\ E[new.tag] \ new.todo \subseteq Visited(ix)
      BY <1>2, <1>3, <3>1 DEF v
    <3> QED  BY <1>2, <3>1, <3>2
  <2>4. ASSUME NEW g \in Under(cs2), NEW x \in st, Within(ix, cs2, x, g), NEW y \in E[x] \cap st,
               \A h \in cs2 : h.tag = x => y \notin h.todo
        PROVE  lo2[g] <= ix[y]
    <3>1. g \in Under(cs) /\ g \in st /\ Within(ix, cs, x, g)
      BY <1>5, <2>4 DEF Within
    <3>2. lo2[g] <= lo[g] /\ lo2[g] \in Nat /\ lo[g] \in Nat /\ ix[y] \in Nat
      BY <1>4, <1>6, <3>1
    <3>3. CASE x = v /\ y = w
      <4>1. ix[v] <= ix[g] /\ ix[g] <= ix[v] /\ ix[v] \in Nat /\ ix[g] \in Nat
        BY <1>2, <1>4, <1>5, <3>1, <3>3 DEF Within
      <4>2. g = v
        BY <1>1, <1>2, <3>1, <4>1
      <4> QED  BY <1>6, <2>4, <3>3, <4>2
    <3>4. CASE ~(x = v /\ y = w)
      <4>1. \A h \in cs : h.tag = x => y \notin h.todo
        BY <1>2, <2>4, <3>4 DEF v
      <4>2. lo[g] <= ix[y]
        BY <3>1, <4>1 DEF Followed
      <4> QED  BY <3>2, <4>2
    <3> QED  BY <3>3, <3>4
  <2> QED  BY <2>1, <2>2, <2>3, <2>4 DEF Followed
<1> QED  BY <1>7, <1>8, <1>9

\* The visit f is over, and its tag depends on an earlier one
Returning(ix, lo, cs, f, lo2, cs2) ==
    /\ Latest(ix, cs, f) /\ f.todo = {} /\ lo[f.tag] # ix[f.tag] /\ cs2 = cs \ {f}
    /\ cs2 # {} => \E h : Latest(ix, cs2, h) /\ lo2 = [lo EXCEPT ![h.tag] = Lower(@, lo[f.tag])]

\* A visit that is over and reaches an earlier tag: it stays on the stack, and
\* the visit it began from learns its number
LEMMA ReturnKeeps ==
    ASSUME NEW E, NEW ix, NEW lo, NEW st, NEW cs, NEW fd, InvOf(E, ix, lo, st, cs, fd),
           NEW f, NEW lo2, NEW cs2, Returning(ix, lo, cs, f, lo2, cs2)
    PROVE  InvOf(E, ix, lo2, st, cs2, fd) /\ cs2 # {}
<1> USE DEF InvOf, Returning
<1> USE DEF Unseen
<1> DEFINE v == f.tag
<1>1. /\ E \in Graphs /\ ix \in [Nodes -> Nat \cup {-1}] /\ lo \in [Nodes -> Nat \cup {-1}]
      /\ st \subseteq Visited(ix) /\ cs \subseteq [tag : st, todo : SUBSET Nodes]
      /\ \A x, y \in st : ix[x] = ix[y] => x = y
      /\ \A g, h \in cs : g.tag = h.tag => g = h
      /\ \A x \in Visited(ix) : ix[x] < Cardinality(Visited(ix))
  BY DEF Typed
<1>2. f \in cs /\ v \in st /\ Under(cs) \subseteq st /\ v \in Under(cs)
  BY <1>1 DEF Latest, Under
<1>3. \A x \in st : x \in Nodes /\ ix[x] \in Nat /\ lo[x] \in Nat
  <2> SUFFICES ASSUME NEW x \in st PROVE x \in Nodes /\ ix[x] \in Nat /\ lo[x] \in Nat
    OBVIOUS
  <2>1. x \in Nodes /\ ix[x] \in Nat
    BY <1>1 DEF Visited
  <2>2. \E u \in st : ix[u] = lo[x]
    BY DEF Numbered
  <2>3. \A u \in st : ix[u] \in Nat
    BY <1>1 DEF Visited
  <2> QED  BY <2>1, <2>2, <2>3
<1>4. lo[v] < ix[v] /\ \E z \in st : ix[z] = lo[v] /\ Reaches(E, v, z)
  <2>1. lo[v] <= ix[v] /\ \E z \in st : ix[z] = lo[v] /\ Reaches(E, v, z)
    BY <1>2 DEF Numbered
  <2> QED  BY <1>2, <1>3, <2>1
<1>5. PICK z \in st : ix[z] = lo[v] /\ Reaches(E, v, z)
  BY <1>4
<1>6. Under(cs2) = Under(cs) \ {v}
  BY <1>1, <1>2 DEF Under
<1>7. cs2 # {}
  <2>1. PICK g \in Under(cs) : ix[g] <= ix[z]
    BY DEF Numbered
  <2>2. ix[g] < ix[v]
    BY <1>2, <1>3, <1>4, <1>5, <2>1
  <2>3. g # v
    <3>1. ix[v] \in Nat
      BY <1>2, <1>3
    <3> QED  BY <2>2, <3>1
  <2>4. g \in Under(cs2)
    BY <1>6, <2>3
  <2> QED  BY <2>4 DEF Under
<1>8. PICK h : Latest(ix, cs2, h) /\ lo2 = [lo EXCEPT ![h.tag] = Lower(@, lo[f.tag])]
  BY <1>7
<1> DEFINE u == h.tag
<1>9. u \in st /\ u \in Under(cs2) /\ ix[u] < ix[v] /\ u # v /\ \A g \in Under(cs2) : g = u \/ ix[g] < ix[u]
  <2>1. h \in cs /\ h # f /\ h \in cs2
    BY <1>8 DEF Latest
  <2>2. ix[u] < ix[v] /\ u \in st
    BY <1>1, <2>1 DEF Latest
  <2>3. u \in Under(cs2) /\ \A g \in Under(cs2) : g = u \/ ix[g] < ix[u]
    BY <1>8, <2>1 DEF Latest, Under
  <2>4. u # v
    <3>1. ix[v] \in Nat
      BY <1>2, <1>3
    <3> QED  BY <2>2, <3>1
  <2> HIDE DEF u, v
  <2> QED  BY <2>2, <2>3, <2>4
<1>10. lo2 = [lo EXCEPT ![u] = Lower(lo[u], lo[v])]
  BY <1>8
<1> HIDE DEF u, v
<1>11. /\ lo2 \in [Nodes -> Nat \cup {-1}]
       /\ \A x \in st : x # u => lo2[x] = lo[x]
       /\ lo2[u] \in {lo[u], lo[v]} /\ lo2[u] <= lo[u] /\ lo2[u] <= lo[v] /\ lo2[u] \in Nat
  <2>1. lo[u] \in Nat /\ lo[v] \in Nat /\ u \in Nodes
    BY <1>2, <1>3, <1>9
  <2>2. Lower(lo[u], lo[v]) \in {lo[u], lo[v]} /\ Lower(lo[u], lo[v]) <= lo[u] /\ Lower(lo[u], lo[v]) <= lo[v]
    BY <2>1 DEF Lower
  <2>3. lo2[u] = Lower(lo[u], lo[v]) /\ \A x \in Nodes : x # u => lo2[x] = lo[x]
    BY <1>1, <1>10, <2>1
  <2>4. lo2 \in [Nodes -> Nat \cup {-1}]
    BY <1>1, <1>10, <2>1, <2>2
  <2> QED  BY <1>3, <2>1, <2>2, <2>3, <2>4
<1>12. Typed(E, ix, lo2, st, cs2)
  BY <1>1, <1>11 DEF Typed
<1>13. Numbered(E, ix, lo2, st, cs2)
  <2>1. ASSUME NEW x \in st PROVE lo2[x] <= ix[x] /\ \E y \in st : ix[y] = lo2[x] /\ Reaches(E, x, y)
    <3>1. lo[x] <= ix[x] /\ \E y \in st : ix[y] = lo[x] /\ Reaches(E, x, y)
      BY DEF Numbered
    <3>2. CASE x # u \/ lo2[u] = lo[u]
      BY <1>11, <3>1, <3>2
    <3>3. CASE x = u /\ lo2[u] = lo[v]
      <4>1. Reaches(E, u, v)
        <5>1. ix[u] <= ix[v] /\ u \in Under(cs)
          BY <1>2, <1>3, <1>6, <1>9
        <5> QED  BY <1>2, <5>1 DEF Numbered
      <4>2. Reaches(E, u, z)
        BY <1>1, <1>5, <4>1, ReachesIs
      <4>3. lo2[u] <= ix[u]
        BY <1>2, <1>3, <1>9, <1>11, <3>1, <3>3
      <4> QED  BY <1>5, <3>3, <4>2, <4>3
    <3> QED  BY <1>11, <3>2, <3>3
  <2>2. \A x \in st \ Under(cs2) : lo2[x] < ix[x]
    <3>1. \A x \in st \ Under(cs2) : x # u /\ lo[x] < ix[x]
      BY <1>4, <1>6, <1>9 DEF Numbered
    <3> QED  BY <1>11, <3>1
  <2>3. \A g \in Under(cs2), x \in st : ix[g] <= ix[x] => Reaches(E, g, x)
    BY <1>6 DEF Numbered
  <2>4. ASSUME NEW x \in st PROVE \E g \in Under(cs2) : ix[g] <= ix[x]
    <3>1. PICK g \in Under(cs) : ix[g] <= ix[x]
      BY DEF Numbered
    <3>2. CASE g = v
      BY <1>2, <1>3, <1>9, <3>1, <3>2
    <3> QED  BY <1>6, <3>1, <3>2
  <2> QED  BY <2>1, <2>2, <2>3, <2>4 DEF Numbered
<1>14. Followed(E, ix, lo2, st, cs2)
  <2>1. \A x \in Visited(ix) \ st : E[x] \subseteq Visited(ix) \ st
    BY DEF Followed
  <2>2. \A x \in st \ Under(cs2) : E[x] \subseteq Visited(ix)
    <3>1. E[v] \subseteq Visited(ix)
      BY <1>2 DEF Followed, v
    <3> QED  BY <1>6, <3>1 DEF Followed
  <2>3. \A g \in cs2 : g.todo \subseteq E[g.tag] /\ E[g.tag] \ g.todo \subseteq Visited(ix)
    BY DEF Followed
  <2>4. ASSUME NEW g \in Under(cs2), NEW x \in st, Within(ix, cs2, x, g), NEW y \in E[x] \cap st,
               \A k \in cs2 : k.tag = x => y \notin k.todo
        PROVE  lo2[g] <= ix[y]
    <3>1. \A k \in cs : k.tag = x => y \notin k.todo
      BY <1>1, <2>4
    <3>2. g \in Under(cs) /\ g \in st /\ g # v /\ ix[y] \in Nat /\ lo[g] \in Nat /\ lo2[g] \in Nat
      BY <1>2, <1>3, <1>6, <1>11
    <3>3. CASE Within(ix, cs, x, g)
      <4>1. lo[g] <= ix[y]
        BY <3>1, <3>2, <3>3 DEF Followed
      <4>2. lo2[g] <= lo[g]
        BY <1>11, <3>2
      <4> QED  BY <3>2, <4>1, <4>2
    <3>4. CASE ~Within(ix, cs, x, g)
      <4>1. ix[v] <= ix[x]
        BY <1>6, <2>4, <3>4 DEF Within
      <4>2. \A k \in Under(cs) : ix[k] <= ix[v]
        BY <1>2, <1>3 DEF Latest, Under, v
      <4>3. Within(ix, cs, x, v)
        BY <4>1, <4>2 DEF Within
      <4>4. lo[v] <= ix[y]
        BY <1>2, <3>1, <4>3 DEF Followed
      <4>5. g = u
        <5>1. ix[u] <= ix[x]
          BY <1>2, <1>3, <1>9, <4>1
        <5>2. ix[u] <= ix[g]
          BY <1>9, <2>4, <5>1 DEF Within
        <5>3. g = u \/ ix[g] < ix[u]
          BY <1>9, <2>4
        <5>4. ix[g] \in Nat /\ ix[u] \in Nat
          BY <1>3, <1>9, <3>2
        <5>5. ~(ix[g] < ix[u])
          BY <5>2, <5>4
        <5> QED  BY <5>3, <5>5
      <4> QED  BY <1>2, <1>3, <1>11, <3>2, <4>4, <4>5
    <3> QED  BY <3>3, <3>4
  <2> QED  BY <2>1, <2>2, <2>3, <2>4 DEF Followed
<1> QED  BY <1>7, <1>12, <1>13, <1>14

\* A visit that is over and reaches no earlier tag: what came after it on the
\* stack is a set of tags that reach each other, with no other one that does
LEMMA IsSet ==
    ASSUME NEW E, NEW ix, NEW lo, NEW st, NEW cs,
           Typed(E, ix, lo, st, cs), Numbered(E, ix, lo, st, cs), Followed(E, ix, lo, st, cs),
           NEW f, Latest(ix, cs, f), f.todo = {}, lo[f.tag] = ix[f.tag],
           NEW S, S = {x \in st : ix[f.tag] <= ix[x]}
    PROVE  /\ f.tag \in S
           /\ \A x \in S : E[x] \subseteq (Visited(ix) \ st) \cup S
           /\ \A x \in S : Reaches(E, f.tag, x) /\ Reaches(E, x, f.tag)
           /\ \A t \in Visited(ix) \ st : DependsOn(E, t) \subseteq Visited(ix) \ st
           /\ \A t \in S : DependsOn(E, t) \subseteq (Visited(ix) \ st) \cup S
<1> USE DEF Unseen
<1> DEFINE v == f.tag
           done == Visited(ix) \ st
<1>1. /\ E \in Graphs /\ ix \in [Nodes -> Nat \cup {-1}]
      /\ st \subseteq Visited(ix) /\ cs \subseteq [tag : st, todo : SUBSET Nodes]
      /\ \A x, y \in st : ix[x] = ix[y] => x = y
      /\ \A g, h \in cs : g.tag = h.tag => g = h
  BY DEF Typed
<1>2. f \in cs /\ v \in st /\ Under(cs) \subseteq st /\ v \in Under(cs)
  BY <1>1 DEF Latest, Under
<1>3. \A x \in st : x \in Nodes /\ ix[x] \in Nat /\ lo[x] \in Nat
  <2> SUFFICES ASSUME NEW x \in st PROVE x \in Nodes /\ ix[x] \in Nat /\ lo[x] \in Nat
    OBVIOUS
  <2>1. x \in Nodes /\ ix[x] \in Nat
    BY <1>1 DEF Visited
  <2>2. \E u \in st : ix[u] = lo[x]
    BY DEF Numbered
  <2>3. \A u \in st : ix[u] \in Nat
    BY <1>1 DEF Visited
  <2> QED  BY <2>1, <2>2, <2>3
<1>4. v \in S
  BY <1>2, <1>3
<1>5. \A g \in Under(cs) : ix[g] <= ix[v]
  BY <1>2, <1>3 DEF Latest, Under
<1>6. \A g \in cs : g.tag \in S => g = f
  <2> SUFFICES ASSUME NEW g \in cs, g.tag \in S, g # f PROVE FALSE
    OBVIOUS
  <2>1. ix[g.tag] < ix[v] /\ ix[v] <= ix[g.tag]
    BY DEF Latest
  <2>2. ix[g.tag] \in Nat /\ ix[v] \in Nat
    BY <1>2, <1>3
  <2> QED  BY <2>1, <2>2
<1> HIDE DEF v
<1>7. ASSUME NEW x \in S PROVE E[x] \subseteq done \cup S
  <2>1. x \in st /\ ix[v] <= ix[x]
    BY DEF v
  <2>2. E[x] \subseteq Visited(ix)
    <3>1. CASE x \in Under(cs)
      <4>1. x = v
        BY <1>6, <3>1 DEF Under, v
      <4> QED  BY <1>2, <4>1 DEF Followed, v
    <3>2. CASE x \notin Under(cs)
      BY <2>1, <3>2 DEF Followed
    <3> QED  BY <3>1, <3>2
  <2>3. Within(ix, cs, x, v)
    BY <1>5, <2>1 DEF Within
  <2>4. \A g \in cs : g.tag = x => g.todo = {}
    BY <1>6
  <2>5. \A y \in E[x] \cap st : lo[v] <= ix[y]
    BY <1>2, <2>1, <2>3, <2>4 DEF Followed
  <2> QED  BY <2>2, <2>5 DEF v
<1>8. ASSUME NEW x \in S PROVE Reaches(E, v, x)
  BY <1>2 DEF Numbered, v
<1>9. done \in SUBSET Nodes /\ done \cup S \in SUBSET Nodes
  BY <1>3 DEF Visited
<1>10. \A t \in done : DependsOn(E, t) \subseteq done
  <2>1. \A x \in done : E[x] \subseteq done
    BY DEF Followed
  <2> HIDE DEF done
  <2> QED  BY <1>1, <1>9, <2>1, ReachesIs
<1>11. \A t \in done \cup S : DependsOn(E, t) \subseteq done \cup S
  <2>1. \A x \in done : E[x] \subseteq done
    BY DEF Followed
  <2> HIDE DEF done
  <2>2. \A x \in done \cup S : E[x] \subseteq done \cup S
    BY <1>7, <2>1
  <2> QED  BY <1>1, <1>9, <2>2, ReachesIs
<1>12. ASSUME NEW x \in S PROVE Reaches(E, x, v)
  <2> DEFINE R == {ix[y] : y \in {y \in S : Reaches(E, x, y)}}
  <2>1. ix[x] \in R /\ R \subseteq Nat
    BY <1>3 DEF Reaches
  <2>2. PICK n \in R : \A m \in R : n <= m
    BY <2>1, Least
  <2>3. PICK y \in S : Reaches(E, x, y) /\ n = ix[y]
    OBVIOUS
  <2>4. CASE y = v
    BY <2>3, <2>4
  <2>5. CASE y # v
    <3>1. y \in st \ Under(cs)
      BY <1>6, <2>5 DEF Under, v
    <3>2. PICK u \in st : ix[u] = lo[y] /\ Reaches(E, y, u)
      BY <3>1 DEF Numbered
    <3>3. lo[y] < ix[y]
      BY <3>1 DEF Numbered
    <3>4. u \in S
      <4>1. u = y \/ u \in DependsOn(E, y)
        BY <3>2 DEF Reaches
      <4> QED  BY <1>11, <3>2, <4>1
    <3>5. Reaches(E, x, u)
      BY <1>1, <2>3, <3>2, ReachesIs
    <3>6. ix[u] \in R
      BY <3>4, <3>5
    <3> HIDE DEF R
    <3>7. ix[y] <= ix[u] /\ ix[u] < ix[y]
      BY <2>2, <2>3, <3>2, <3>3, <3>6
    <3>8. ix[u] \in Nat /\ ix[y] \in Nat
      BY <1>3, <3>1
    <3> QED  BY <3>7, <3>8
  <2> QED  BY <2>4, <2>5
<1> QED  BY <1>4, <1>7, <1>8, <1>10, <1>11, <1>12 DEF v

\* The visit f is over, and S was met since it began
Assigning(E, ix, lo, st, cs, fd, f, S, lo2, st2, cs2, fd2) ==
    /\ Latest(ix, cs, f) /\ f.todo = {} /\ lo[f.tag] = ix[f.tag]
    /\ S = {x \in st : ix[f.tag] <= ix[x]} /\ st2 = st \ S /\ cs2 = cs \ {f}
    /\ IF cs2 = {} THEN lo2 = lo ELSE \E h : Latest(ix, cs2, h) /\ lo2 = [lo EXCEPT ![h.tag] = Lower(@, lo[f.tag])]
    /\ fd2 = IF Cardinality(S) > 1 \/ f.tag \in E[f.tag] THEN fd \cup {S} ELSE fd

\* That set is taken from the stack, and is one of the rings unless it is one
\* tag that does not depend on itself
LEMMA Assigns ==
    ASSUME NEW E, NEW ix, NEW lo, NEW st, NEW cs, NEW fd, InvOf(E, ix, lo, st, cs, fd),
           NEW f, NEW S, NEW lo2, NEW st2, NEW cs2, NEW fd2, Assigning(E, ix, lo, st, cs, fd, f, S, lo2, st2, cs2, fd2)
    PROVE  InvOf(E, ix, lo2, st2, cs2, fd2)
<1> USE DEF InvOf, Assigning
<1> USE DEF Unseen
<1> DEFINE v == f.tag
           done == Visited(ix) \ st
<1>1. /\ E \in Graphs /\ ix \in [Nodes -> Nat \cup {-1}] /\ lo \in [Nodes -> Nat \cup {-1}]
      /\ st \subseteq Visited(ix) /\ cs \subseteq [tag : st, todo : SUBSET Nodes]
      /\ \A x, y \in st : ix[x] = ix[y] => x = y
      /\ \A g, h \in cs : g.tag = h.tag => g = h
      /\ \A x \in Visited(ix) : ix[x] < Cardinality(Visited(ix))
  BY DEF Typed
<1>2. f \in cs /\ v \in st /\ Under(cs) \subseteq st /\ v \in Under(cs)
  BY <1>1 DEF Latest, Under
<1>3. \A x \in st : x \in Nodes /\ ix[x] \in Nat /\ lo[x] \in Nat
  <2> SUFFICES ASSUME NEW x \in st PROVE x \in Nodes /\ ix[x] \in Nat /\ lo[x] \in Nat
    OBVIOUS
  <2>1. x \in Nodes /\ ix[x] \in Nat
    BY <1>1 DEF Visited
  <2>2. \E u \in st : ix[u] = lo[x]
    BY DEF Numbered
  <2>3. \A u \in st : ix[u] \in Nat
    BY <1>1 DEF Visited
  <2> QED  BY <2>1, <2>2, <2>3
<1>4. /\ v \in S
      /\ \A x \in S : E[x] \subseteq done \cup S
      /\ \A x \in S : Reaches(E, v, x) /\ Reaches(E, x, v)
      /\ \A t \in done : DependsOn(E, t) \subseteq done
      /\ \A t \in S : DependsOn(E, t) \subseteq done \cup S
  BY IsSet
<1>5. Under(cs2) = Under(cs) \ {v} /\ \A g \in cs2 : ix[g.tag] < ix[v]
  BY <1>1, <1>2 DEF Under, Latest
<1>6. \A x \in st2 : ix[x] < ix[v] /\ x \in st
  <2> SUFFICES ASSUME NEW x \in st, x \notin S PROVE ix[x] < ix[v]
    OBVIOUS
  <2>1. ~(ix[v] <= ix[x])
    OBVIOUS
  <2> QED  BY <1>2, <1>3, <2>1
<1>7. \A g \in Under(cs2) : g \in st2 /\ ix[g] < ix[v] /\ g \in Under(cs)
  <2> SUFFICES ASSUME NEW k \in cs2 PROVE k.tag \in st2 /\ ix[k.tag] < ix[v] /\ k.tag \in Under(cs)
    BY DEF Under
  <2>1. k.tag \in st /\ ix[k.tag] < ix[v] /\ k.tag \in Under(cs)
    BY <1>1, <1>5 DEF Under
  <2>2. ~(ix[v] <= ix[k.tag])
    BY <1>2, <1>3, <2>1
  <2> QED  BY <2>1, <2>2
<1>8. lo2 = lo
  <2>1. CASE cs2 = {}
    BY <2>1
  <2>2. ASSUME NEW h, Latest(ix, cs2, h), lo2 = [lo EXCEPT ![h.tag] = Lower(lo[h.tag], lo[f.tag])] PROVE lo2 = lo
    <3> DEFINE u == h.tag
    <3>1. u \in st /\ ix[u] < ix[v]
      BY <1>1, <1>5, <2>2 DEF Latest
    <3>2. lo[u] <= ix[u] /\ lo[u] \in Nat /\ ix[u] \in Nat /\ ix[v] \in Nat /\ lo[v] = ix[v]
      BY <1>2, <1>3, <3>1 DEF Numbered
    <3>3. Lower(lo[u], lo[v]) = lo[u]
      BY <3>1, <3>2 DEF Lower
    <3> QED  BY <1>1, <2>2, <3>3
  <2> QED  BY <2>1, <2>2
<1> HIDE DEF v
<1>9. Typed(E, ix, lo2, st2, cs2)
  <2>1. cs2 \subseteq [tag : st2, todo : SUBSET Nodes]
    <3>1. \A g \in cs2 : g \in [tag : st, todo : SUBSET Nodes] /\ g.tag \in st2
      BY <1>1, <1>7 DEF Under
    <3> QED  BY <3>1
  <2> QED  BY <1>1, <1>8, <2>1 DEF Typed
<1>10. Numbered(E, ix, lo2, st2, cs2)
  <2>1. ASSUME NEW x \in st2 PROVE lo[x] <= ix[x] /\ \E y \in st2 : ix[y] = lo[x] /\ Reaches(E, x, y)
    <3>1. PICK y \in st : lo[x] <= ix[x] /\ ix[y] = lo[x] /\ Reaches(E, x, y)
      BY <1>6 DEF Numbered
    <3>2. ix[y] < ix[v] /\ ix[y] \in Nat /\ ix[v] \in Nat
      BY <1>2, <1>3, <1>6, <3>1
    <3>3. y \notin S
      BY <3>2 DEF v
    <3> QED  BY <3>1, <3>3
  <2>2. \A x \in st2 \ Under(cs2) : lo[x] < ix[x]
    <3>1. \A x \in st2 \ Under(cs2) : x \in st \ Under(cs)
      BY <1>4, <1>5, <1>6
    <3> QED  BY <3>1 DEF Numbered
  <2>3. \A g \in Under(cs2), x \in st2 : ix[g] <= ix[x] => Reaches(E, g, x)
    BY <1>6, <1>7 DEF Numbered
  <2>4. ASSUME NEW x \in st2 PROVE \E g \in Under(cs2) : ix[g] <= ix[x]
    <3>1. PICK g \in Under(cs) : ix[g] <= ix[x]
      BY <1>6 DEF Numbered
    <3>2. ix[x] < ix[v] /\ ix[x] \in Nat /\ ix[v] \in Nat
      BY <1>2, <1>3, <1>6
    <3>3. g # v
      BY <3>1, <3>2
    <3> QED  BY <1>5, <3>1, <3>3
  <2> QED  BY <1>8, <2>1, <2>2, <2>3, <2>4 DEF Numbered
<1>11. Visited(ix) \ st2 = done \cup S
  BY <1>1
<1>12. Followed(E, ix, lo2, st2, cs2)
  <2>1. \A x \in Visited(ix) \ st2 : E[x] \subseteq Visited(ix) \ st2
    <3>1. \A x \in done : E[x] \subseteq done
      BY DEF Followed
    <3> HIDE DEF done
    <3> QED  BY <1>4, <1>11, <3>1
  <2>2. \A x \in st2 \ Under(cs2) : E[x] \subseteq Visited(ix)
    <3>1. \A x \in st2 \ Under(cs2) : x \in st \ Under(cs)
      BY <1>4, <1>5, <1>6
    <3> QED  BY <3>1 DEF Followed
  <2>3. \A g \in cs2 : g.todo \subseteq E[g.tag] /\ E[g.tag] \ g.todo \subseteq Visited(ix)
    BY DEF Followed
  <2>4. ASSUME NEW g \in Under(cs2), NEW x \in st2, Within(ix, cs2, x, g), NEW y \in E[x] \cap st2,
               \A k \in cs2 : k.tag = x => y \notin k.todo
        PROVE  lo[g] <= ix[y]
    <3>1. \A k \in cs : k.tag = x => y \notin k.todo
      BY <2>4
    <3>2. ~(ix[v] <= ix[x])
      BY <1>2, <1>3, <1>6
    <3>3. Within(ix, cs, x, g)
      BY <1>5, <2>4, <3>2 DEF Within
    <3> QED  BY <1>6, <1>7, <3>1, <3>3 DEF Followed
  <2>5. \A g \in Under(cs2), x \in st2 : Within(ix, cs2, x, g) =>
          \A y \in E[x] \cap st2 : (\A k \in cs2 : k.tag = x => y \notin k.todo) => lo[g] <= ix[y]
    BY <2>4
  <2>6. Followed(E, ix, lo, st2, cs2)
    BY <2>1, <2>2, <2>3, <2>5, Zenon DEF Followed
  <2> QED  BY <1>8, <2>6
<1>13. \A t \in S : t \in DependsOn(E, t) => Class(E, t) = S
  <2> SUFFICES ASSUME NEW t \in S, t \in DependsOn(E, t) PROVE Class(E, t) = S
    OBVIOUS
  <2>1. ASSUME NEW x, x \in Class(E, t) PROVE x \in S
    <3>1. x \in DependsOn(E, t) /\ t \in DependsOn(E, x)
      BY <2>1 DEF Class
    <3>2. x \in done \cup S
      BY <1>4, <3>1
    <3>3. x \notin done
      BY <1>4, <3>1
    <3> QED  BY <3>2, <3>3
  <2>2. ASSUME NEW x \in S PROVE x \in Class(E, t)
    <3>1. Reaches(E, t, x) /\ Reaches(E, x, t)
      BY <1>1, <1>4, ReachesIs
    <3>2. x \in DependsOn(E, t) /\ t \in DependsOn(E, x)
      BY <3>1 DEF Reaches
    <3> QED  BY <1>3, <3>2 DEF Class
  <2> QED  BY <2>1, <2>2
<1>14. (\E t \in S : t \in DependsOn(E, t)) <=> Cardinality(S) > 1 \/ v \in E[v]
  <2>1. IsFiniteSet(S)
    <3>1. S \in SUBSET Nodes
      BY <1>3
    <3> QED  BY <3>1, NodesAssumption, FS_Subset
  <2>2. ASSUME v \in E[v] PROVE v \in DependsOn(E, v)
    BY <1>1, <1>2, <1>3, <2>2, ReachesIs
  <2>3. ASSUME Cardinality(S) > 1 PROVE v \in DependsOn(E, v)
    <3>1. PICK x \in S : x # v
      <4>1. S = {v} => Cardinality(S) = 1
        BY FS_Singleton
      <4> QED  BY <1>4, <2>3, <4>1
    <3>2. x \in DependsOn(E, v) /\ Reaches(E, x, v)
      BY <1>4, <3>1 DEF Reaches
    <3> QED  BY <1>1, <3>2, ReachesIs
  <2>4. ASSUME NEW t \in S, t \in DependsOn(E, t), ~(Cardinality(S) > 1) PROVE v \in E[v]
    <3>1. S = {v}
      <4>1. Cardinality(S) \in Nat /\ Cardinality({v}) = 1 /\ {v} \in SUBSET S
        BY <1>4, <2>1, FS_CardinalityType, FS_Singleton
      <4>2. Cardinality({v}) <= Cardinality(S)
        BY <2>1, <4>1, FS_Subset
      <4>3. Cardinality(S) = Cardinality({v})
        BY <2>4, <4>1, <4>2
      <4> QED  BY <2>1, <4>1, <4>3, FS_Subset
    <3>2. t = v /\ v \in Nodes
      BY <1>2, <1>3, <3>1
    <3>3. PICK y \in E[v] : Reaches(E, y, v)
      BY <1>1, <2>4, <3>2, ReachesIs
    <3>4. y \in done \cup {v}
      BY <1>4, <3>1
    <3>5. y \notin done
      <4>1. v \notin done
        BY <1>2
      <4> QED  BY <1>4, <3>3, <4>1 DEF Reaches
    <3> QED  BY <3>3, <3>4, <3>5
  <2> QED  BY <1>4, <2>2, <2>3, <2>4
<1>15. RingsNamed(E, ix, st2, fd2)
  <2> DEFINE looping(T) == {Class(E, t) : t \in {t \in T : t \in DependsOn(E, t)}}
  <2>1. looping(done \cup S) = looping(done) \cup looping(S)
    OBVIOUS
  <2>2. looping(S) = IF Cardinality(S) > 1 \/ v \in E[v] THEN {S} ELSE {}
    <3>1. \A c \in looping(S) : c = S
      BY <1>13
    <3>2. looping(S) # {} <=> \E t \in S : t \in DependsOn(E, t)
      OBVIOUS
    <3> HIDE DEF looping
    <3>3. CASE looping(S) = {}
      BY <1>14, <3>2, <3>3
    <3>4. CASE looping(S) # {}
      <4>1. looping(S) = {S}
        BY <3>1, <3>4
      <4> QED  BY <1>14, <3>2, <3>4, <4>1
    <3> QED  BY <3>3, <3>4
  <2>3. fd = looping(done)
    BY DEF RingsNamed
  <2>4. fd2 = looping(done \cup S)
    <3> HIDE DEF looping
    <3> QED  BY <2>1, <2>2, <2>3 DEF v
  <2> QED  BY <1>11, <2>4 DEF RingsNamed
<1> QED  BY <1>9, <1>10, <1>12, <1>15

\* The latest comes first
Falling(ix, s) == \A i, j \in DOMAIN s : i < j => ix[s[j]] < ix[s[i]]
FallingTags(ix, cs) == \A i, j \in DOMAIN cs : i < j => ix[cs[j].tag] < ix[cs[i].tag]

Visits == [tag : Nodes, todo : SUBSET Nodes]

\* An element put in front of a list
LEMMA InFront ==
    ASSUME NEW S, NEW s \in Seq(S), NEW x \in S
    PROVE  LET t == <<x>> \o s IN
           /\ t \in Seq(S) /\ DOMAIN t = 1 .. Len(s) + 1 /\ t[1] = x
           /\ \A i \in DOMAIN t : i = 1 \/ (i - 1 \in DOMAIN s /\ t[i] = s[i - 1])
           /\ ToSet(t) = ToSet(s) \cup {x}
<1> DEFINE t == <<x>> \o s
<1>1. t \in Seq(S) /\ DOMAIN t = 1 .. Len(s) + 1 /\ t[1] = x /\ Len(s) \in Nat /\ DOMAIN s = 1 .. Len(s)
  OBVIOUS
<1>2. \A i \in 1 .. Len(s) : t[i + 1] = s[i]
  OBVIOUS
<1>3. \A i \in DOMAIN t : i = 1 \/ (i - 1 \in DOMAIN s /\ t[i] = s[i - 1])
  <2> SUFFICES ASSUME NEW i \in DOMAIN t, i # 1 PROVE i - 1 \in DOMAIN s /\ t[i] = s[i - 1]
    OBVIOUS
  <2>1. i - 1 \in 1 .. Len(s) /\ (i - 1) + 1 = i
    BY <1>1
  <2> QED  BY <1>1, <1>2, <2>1
<1>4. ToSet(t) = ToSet(s) \cup {x}
  <2>1. \A y \in ToSet(s) : y \in ToSet(t)
    <3> SUFFICES ASSUME NEW i \in DOMAIN s PROVE \E j \in DOMAIN t : t[j] = s[i]
      BY DEF ToSet
    <3>1. i + 1 \in DOMAIN t /\ t[i + 1] = s[i]
      BY <1>1, <1>2
    <3> QED  BY <3>1
  <2>2. x \in ToSet(t)
    BY <1>1 DEF ToSet
  <2>3. \A y \in ToSet(t) : y = x \/ y \in ToSet(s)
    BY <1>1, <1>3 DEF ToSet
  <2> QED  BY <2>1, <2>2, <2>3
<1> QED  BY <1>1, <1>2, <1>3, <1>4

\* A list without its first element
LEMMA WithoutFirst ==
    ASSUME NEW S, NEW s \in Seq(S), s # <<>>
    PROVE  /\ Head(s) = s[1] /\ 1 \in DOMAIN s /\ Tail(s) \in Seq(S) /\ DOMAIN Tail(s) = 1 .. Len(s) - 1
           /\ \A i \in DOMAIN Tail(s) : i + 1 \in DOMAIN s /\ Tail(s)[i] = s[i + 1]
           /\ ToSet(s) = {s[1]} \cup ToSet(Tail(s))
           /\ (\A i \in DOMAIN s : i # 1 => s[i] # s[1]) => ToSet(Tail(s)) = ToSet(s) \ {s[1]}
<1>1. Head(s) = s[1] /\ Tail(s) \in Seq(S) /\ DOMAIN Tail(s) = 1 .. Len(s) - 1 /\ Len(s) \in Nat /\ DOMAIN s = 1 .. Len(s) /\ Len(s) # 0
  OBVIOUS
<1>2. \A i \in DOMAIN Tail(s) : i + 1 \in DOMAIN s /\ i + 1 # 1 /\ Tail(s)[i] = s[i + 1]
  OBVIOUS
<1>3. \A i \in DOMAIN s : i = 1 \/ (i - 1 \in DOMAIN Tail(s) /\ s[i] = Tail(s)[i - 1])
  <2> SUFFICES ASSUME NEW i \in DOMAIN s, i # 1 PROVE i - 1 \in DOMAIN Tail(s) /\ s[i] = Tail(s)[i - 1]
    OBVIOUS
  <2>1. i - 1 \in 1 .. Len(s) - 1 /\ (i - 1) + 1 = i
    BY <1>1
  <2> QED  BY <1>1, <1>2, <2>1
<1>4. 1 \in DOMAIN s
  BY <1>1
<1>5. ToSet(s) = {s[1]} \cup ToSet(Tail(s))
  <2>1. \A x \in ToSet(s) : x = s[1] \/ x \in ToSet(Tail(s))
    <3> SUFFICES ASSUME NEW x \in ToSet(s), x # s[1] PROVE x \in ToSet(Tail(s))
      OBVIOUS
    <3>1. PICK i \in DOMAIN s : x = s[i]
      BY DEF ToSet
    <3>2. i - 1 \in DOMAIN Tail(s) /\ x = Tail(s)[i - 1]
      BY <1>3, <3>1
    <3> QED  BY <3>2 DEF ToSet
  <2>2. \A x \in ToSet(Tail(s)) : x \in ToSet(s)
    BY <1>2 DEF ToSet
  <2>3. s[1] \in ToSet(s)
    BY <1>4 DEF ToSet
  <2> QED  BY <2>1, <2>2, <2>3
<1>6. (\A i \in DOMAIN s : i # 1 => s[i] # s[1]) => s[1] \notin ToSet(Tail(s))
  BY <1>2 DEF ToSet
<1> QED  BY <1>1, <1>2, <1>4, <1>5, <1>6

\* The visit under way is the first of the list, and the only one of its tag
LEMMA Innermost ==
    ASSUME NEW ix, NEW cs, cs \in Seq(Visits), cs # <<>>, FallingTags(ix, cs), \A f \in ToSet(cs) : ix[f.tag] \in Nat
    PROVE  /\ Latest(ix, ToSet(cs), Head(cs))
           /\ ToSet(Tail(cs)) = ToSet(cs) \ {Head(cs)}
           /\ FallingTags(ix, Tail(cs)) /\ Tail(cs) \in Seq(Visits)
           /\ Tail(cs) # <<>> => Head(Tail(cs)) = cs[2]
<1>1. /\ Head(cs) = cs[1] /\ 1 \in DOMAIN cs /\ Tail(cs) \in Seq(Visits) /\ DOMAIN Tail(cs) = 1 .. Len(cs) - 1
      /\ \A i \in DOMAIN Tail(cs) : i + 1 \in DOMAIN cs /\ Tail(cs)[i] = cs[i + 1]
      /\ (\A i \in DOMAIN cs : i # 1 => cs[i] # cs[1]) => ToSet(Tail(cs)) = ToSet(cs) \ {cs[1]}
  BY WithoutFirst
<1>2. \A i \in DOMAIN cs : i # 1 => ix[cs[i].tag] < ix[cs[1].tag]
  <2>1. \A i \in DOMAIN cs : i # 1 => 1 < i
    OBVIOUS
  <2> QED  BY <1>1, <2>1 DEF FallingTags
<1>3. \A i \in DOMAIN cs : ix[cs[i].tag] \in Nat
  BY DEF ToSet
<1>4. \A i \in DOMAIN cs : i # 1 => cs[i] # cs[1]
  <2> SUFFICES ASSUME NEW i \in DOMAIN cs, i # 1, cs[i] = cs[1] PROVE FALSE
    OBVIOUS
  <2>1. ix[cs[1].tag] < ix[cs[1].tag] /\ ix[cs[1].tag] \in Nat
    BY <1>1, <1>2, <1>3
  <2> QED  BY <2>1
<1>5. Latest(ix, ToSet(cs), Head(cs))
  BY <1>1, <1>2 DEF Latest, ToSet
<1>6. FallingTags(ix, Tail(cs))
  <2> SUFFICES ASSUME NEW i \in DOMAIN Tail(cs), NEW j \in DOMAIN Tail(cs), i < j
               PROVE  ix[Tail(cs)[j].tag] < ix[Tail(cs)[i].tag]
    BY DEF FallingTags
  <2>1. i + 1 < j + 1
    OBVIOUS
  <2> QED  BY <1>1, <2>1 DEF FallingTags
<1>7. Tail(cs) # <<>> => Head(Tail(cs)) = cs[2]
  OBVIOUS
<1> QED  BY <1>1, <1>4, <1>5, <1>6, <1>7

\* The visits once the first of them followed its edge to w
Less(cs, w) == [cs EXCEPT ![1].todo = @ \ {w}]

\* An edge of the visit under way was followed
LEMMA EdgeLess ==
    ASSUME NEW ix, NEW cs, cs \in Seq(Visits), cs # <<>>, FallingTags(ix, cs), \A f \in ToSet(cs) : ix[f.tag] \in Nat,
           NEW w
    PROVE  LET rest == Less(cs, w)
               f == Head(cs)
           IN  /\ rest \in Seq(Visits) /\ rest # <<>> /\ FallingTags(ix, rest)
               /\ \A i \in DOMAIN rest : i \in DOMAIN cs /\ rest[i].tag = cs[i].tag
               /\ ToSet(rest) = (ToSet(cs) \ {f}) \cup {[tag |-> f.tag, todo |-> f.todo \ {w}]}
<1> DEFINE rest == Less(cs, w)
           f == Head(cs)
           new == [tag |-> f.tag, todo |-> f.todo \ {w}]
<1>1. f = cs[1] /\ 1 \in DOMAIN cs /\ f \in Visits /\ DOMAIN cs = 1 .. Len(cs) /\ Len(cs) \in Nat
  OBVIOUS
<1>2. new.tag = f.tag /\ new \in Visits
  BY <1>1 DEF Visits
<1>3. rest = [cs EXCEPT ![1] = new]
  <2>1. [f EXCEPT !.todo = @ \ {w}] = new
    <3>1. ASSUME NEW g, NEW t, NEW d, g = [tag |-> t, todo |-> d], NEW e PROVE [g EXCEPT !.todo = e] = [tag |-> t, todo |-> e]
      BY <3>1
    <3>2. f = [tag |-> f.tag, todo |-> f.todo]
      BY <1>1 DEF Visits
    <3>3. [f EXCEPT !.todo = f.todo \ {w}] = [tag |-> f.tag, todo |-> f.todo \ {w}]
      <4> HIDE DEF f
      <4> QED  BY <3>1, <3>2
    <3> QED  BY <3>3
  <2>2. rest = [cs EXCEPT ![1] = [cs[1] EXCEPT !.todo = @ \ {w}]]
    BY DEF Less
  <2> HIDE DEF new
  <2> QED  BY <1>1, <2>1, <2>2
<1> HIDE DEF new, rest
<1>4. DOMAIN rest = DOMAIN cs /\ rest[1] = new /\ \A i \in DOMAIN cs : i # 1 => rest[i] = cs[i]
  BY <1>1, <1>3
<1>5. rest \in Seq(Visits) /\ rest # <<>>
  <2>1. \A i \in DOMAIN cs : rest[i] \in Visits
    <3>1. \A i \in DOMAIN cs : cs[i] \in Visits
      OBVIOUS
    <3> QED  BY <1>2, <1>4, <3>1
  <2>2. rest \in [1 .. Len(cs) -> Visits]
    BY <1>1, <1>3, <1>4, <2>1
  <2>3. rest \in Seq(Visits)
    BY <1>1, <2>2
  <2> QED  BY <1>1, <1>4, <2>3
<1>6. \A i \in DOMAIN rest : i \in DOMAIN cs /\ rest[i].tag = cs[i].tag
  BY <1>1, <1>2, <1>4
<1>7. FallingTags(ix, rest)
  BY <1>4, <1>6 DEF FallingTags
<1>8. Latest(ix, ToSet(cs), f) /\ ToSet(Tail(cs)) = ToSet(cs) \ {f}
  BY Innermost
<1>9. \A i \in DOMAIN cs : i # 1 => cs[i] # f
  <2> SUFFICES ASSUME NEW i \in DOMAIN cs, i # 1, cs[i] = f PROVE FALSE
    OBVIOUS
  <2>1. ix[f.tag] < ix[f.tag]
    <3>1. 1 < i
      OBVIOUS
    <3> QED  BY <1>1, <2>1, <3>1 DEF FallingTags
  <2>2. ix[f.tag] \in Nat
    BY <1>8 DEF Latest
  <2> QED  BY <2>1, <2>2
<1>10. ToSet(rest) = (ToSet(cs) \ {f}) \cup {new}
  <2>1. \A x \in ToSet(rest) : x = new \/ (x \in ToSet(cs) /\ x # f)
    BY <1>4, <1>9 DEF ToSet
  <2>2. new \in ToSet(rest)
    BY <1>1, <1>4 DEF ToSet
  <2>3. \A x \in ToSet(cs) : x # f => x \in ToSet(rest)
    BY <1>1, <1>4 DEF ToSet
  <2> QED  BY <2>1, <2>2, <2>3
<1> QED  BY <1>5, <1>6, <1>7, <1>10 DEF new, rest

\* The search as lists: st the stack, cs the visits under way
Searched(E, ix, lo, st, cs, fd) ==
    /\ st \in Seq(Nodes) /\ cs \in Seq(Visits) /\ Falling(ix, st) /\ FallingTags(ix, cs)
    /\ InvOf(E, ix, lo, ToSet(st), ToSet(cs), fd)

\* The tags of the visits are on the stack, and what is there is numbered
LEMMA OnTheStack ==
    ASSUME NEW E, NEW ix, NEW lo, NEW st, NEW cs, NEW fd, Searched(E, ix, lo, st, cs, fd)
    PROVE  /\ \A i \in DOMAIN st : st[i] \in Visited(ix) /\ ix[st[i]] \in Nat /\ ix[st[i]] < Cardinality(Visited(ix))
           /\ \A f \in ToSet(cs) : f.tag \in ToSet(st) /\ f.tag \in Nodes /\ ix[f.tag] \in Nat
                                   /\ ix[f.tag] < Cardinality(Visited(ix)) /\ f.todo \subseteq Nodes
           /\ cs = <<>> <=> ToSet(cs) = {}
<1> USE DEF Unseen
<1>1. /\ ix \in [Nodes -> Nat \cup {-1}] /\ ToSet(st) \subseteq Visited(ix) /\ ToSet(cs) \subseteq [tag : ToSet(st), todo : SUBSET Nodes]
      /\ \A x \in Visited(ix) : ix[x] < Cardinality(Visited(ix))
  BY DEF Searched, InvOf, Typed
<1>2. \A x \in Visited(ix) : x \in Nodes /\ ix[x] \in Nat
  BY <1>1 DEF Visited
<1>3. \A i \in DOMAIN st : st[i] \in ToSet(st)
  BY DEF ToSet
<1>4. cs = <<>> <=> ToSet(cs) = {}
  <2>1. cs \in Seq(Visits)
    BY DEF Searched
  <2>2. cs # <<>> => cs[1] \in ToSet(cs)
    BY <2>1 DEF ToSet
  <2>3. cs = <<>> => ToSet(cs) = {}
    BY DEF ToSet
  <2> QED  BY <2>2, <2>3
<1>5. \A f \in ToSet(cs) : f.tag \in ToSet(st) /\ f.todo \subseteq Nodes
  BY <1>1
<1> QED  BY <1>1, <1>2, <1>3, <1>4, <1>5

\* The step that begins a visit
LEMMA VisitKeeps ==
    ASSUME NEW E, NEW ix, NEW lo, NEW st, NEW cs, NEW fd, Searched(E, ix, lo, st, cs, fd),
           NEW v \in Nodes, ix[v] = Unseen,
           NEW cs1 \in Seq(Visits), FallingTags(ix, cs1),
           \/ cs = <<>> /\ cs1 = <<>>
           \/ /\ cs # <<>> /\ v \in Head(cs).todo /\ cs1 = Less(cs, v),
           NEW n, n = Cardinality(Visited(ix)),
           NEW ix2, ix2 = [ix EXCEPT ![v] = n], NEW lo2, lo2 = [lo EXCEPT ![v] = n],
           NEW st2, st2 = <<v>> \o st, NEW cs2, cs2 = <<[tag |-> v, todo |-> E[v]]>> \o cs1
    PROVE  Searched(E, ix2, lo2, st2, cs2, fd)
<1> USE DEF Unseen
<1> DEFINE new == [tag |-> v, todo |-> E[v]]
<1>1. /\ st \in Seq(Nodes) /\ cs \in Seq(Visits) /\ Falling(ix, st) /\ FallingTags(ix, cs)
      /\ InvOf(E, ix, lo, ToSet(st), ToSet(cs), fd)
      /\ E \in Graphs /\ ix \in [Nodes -> Nat \cup {-1}]
  BY DEF Searched, InvOf, Typed
<1>2. /\ \A i \in DOMAIN st : st[i] \in Visited(ix) /\ ix[st[i]] \in Nat /\ ix[st[i]] < n
      /\ \A f \in ToSet(cs) : f.tag \in ToSet(st) /\ f.tag \in Nodes /\ ix[f.tag] \in Nat /\ ix[f.tag] < n
      /\ cs = <<>> <=> ToSet(cs) = {}
  BY OnTheStack
<1>3. new.tag = v /\ new \in Visits
  BY <1>1 DEF Visits, Graphs
<1>4. cs2 = <<new>> \o cs1
  OBVIOUS
<1> HIDE DEF new
<1>5. /\ st2 \in Seq(Nodes) /\ DOMAIN st2 = 1 .. Len(st) + 1 /\ st2[1] = v
      /\ \A i \in DOMAIN st2 : i = 1 \/ (i - 1 \in DOMAIN st /\ st2[i] = st[i - 1])
      /\ ToSet(st2) = ToSet(st) \cup {v}
  BY <1>1, InFront
<1>6. /\ cs2 \in Seq(Visits) /\ DOMAIN cs2 = 1 .. Len(cs1) + 1 /\ cs2[1] = new
      /\ \A i \in DOMAIN cs2 : i = 1 \/ (i - 1 \in DOMAIN cs1 /\ cs2[i] = cs1[i - 1])
      /\ ToSet(cs2) = ToSet(cs1) \cup {new}
  BY <1>3, <1>4, InFront
<1>7. /\ \A i \in DOMAIN cs1 : i \in DOMAIN cs /\ cs1[i].tag = cs[i].tag
      /\ \/ ToSet(cs) = {} /\ ToSet(cs1) = {}
         \/ \E f \in ToSet(cs) : /\ Latest(ix, ToSet(cs), f) /\ v \in f.todo
                                 /\ ToSet(cs1) = (ToSet(cs) \ {f}) \cup {[tag |-> f.tag, todo |-> f.todo \ {v}]}
  <2>1. CASE cs = <<>> /\ cs1 = <<>>
    BY <2>1 DEF ToSet
  <2>2. CASE cs # <<>> /\ v \in Head(cs).todo /\ cs1 = Less(cs, v)
    <3> DEFINE f == Head(cs)
    <3>1. \A g \in ToSet(cs) : ix[g.tag] \in Nat
      BY <1>2
    <3>2. Latest(ix, ToSet(cs), f)
      BY <1>1, <2>2, <3>1, Innermost
    <3> DEFINE r == Less(cs, v)
    <3>3. /\ r \in Seq(Visits) /\ r # <<>> /\ FallingTags(ix, r)
          /\ \A i \in DOMAIN r : i \in DOMAIN cs /\ r[i].tag = cs[i].tag
          /\ ToSet(r) = (ToSet(cs) \ {f}) \cup {[tag |-> f.tag, todo |-> f.todo \ {v}]}
      BY <1>1, <2>2, <3>1, EdgeLess, Zenon
    <3>5. cs1 = r
      BY <2>2
    <3>4. f \in ToSet(cs) /\ v \in f.todo
      BY <2>2, <3>2 DEF Latest
    <3> HIDE DEF f, r
    <3> QED  BY <3>2, <3>3, <3>4, <3>5
  <2> QED  BY <2>1, <2>2
<1>8. n \in Nat
  <2>1. IsFiniteSet(Visited(ix))
    BY NodesAssumption, FS_Subset DEF Visited
  <2> QED  BY <2>1, FS_CardinalityType
<1>9. v \notin Visited(ix) /\ ix2[v] = n /\ \A x \in Visited(ix) : ix2[x] = ix[x]
  BY <1>1 DEF Visited
<1>10. \A i \in DOMAIN st : ix2[st[i]] = ix[st[i]] /\ ix[st[i]] < n
  BY <1>2, <1>9
<1>11. \A i \in DOMAIN cs1 : ix2[cs1[i].tag] = ix[cs1[i].tag] /\ ix[cs1[i].tag] < n
  <2> SUFFICES ASSUME NEW i \in DOMAIN cs PROVE ix2[cs[i].tag] = ix[cs[i].tag] /\ ix[cs[i].tag] < n
    BY <1>7
  <2>1. cs[i] \in ToSet(cs)
    BY DEF ToSet
  <2>2. cs[i].tag \in Visited(ix) /\ ix[cs[i].tag] < n
    <3>1. ToSet(st) \subseteq Visited(ix)
      BY <1>2 DEF ToSet
    <3> QED  BY <1>2, <2>1, <3>1
  <2> QED  BY <1>9, <2>2
<1>12. Falling(ix2, st2)
  <2> SUFFICES ASSUME NEW i \in DOMAIN st2, NEW j \in DOMAIN st2, i < j PROVE ix2[st2[j]] < ix2[st2[i]]
    BY DEF Falling
  <2>1. j - 1 \in DOMAIN st /\ st2[j] = st[j - 1]
    BY <1>5
  <2>2. CASE i = 1
    BY <1>5, <1>9, <1>10, <2>1, <2>2
  <2>3. CASE i # 1
    <3>1. i - 1 \in DOMAIN st /\ st2[i] = st[i - 1] /\ i - 1 < j - 1
      BY <1>5, <2>3
    <3>2. ix[st[j - 1]] < ix[st[i - 1]]
      BY <1>1, <2>1, <3>1 DEF Falling
    <3> QED  BY <1>10, <2>1, <3>1, <3>2
  <2> QED  BY <2>2, <2>3
<1>13. FallingTags(ix2, cs2)
  <2> SUFFICES ASSUME NEW i \in DOMAIN cs2, NEW j \in DOMAIN cs2, i < j PROVE ix2[cs2[j].tag] < ix2[cs2[i].tag]
    BY DEF FallingTags
  <2>1. j - 1 \in DOMAIN cs1 /\ cs2[j] = cs1[j - 1]
    BY <1>6
  <2>2. CASE i = 1
    BY <1>3, <1>6, <1>9, <1>11, <2>1, <2>2
  <2>3. CASE i # 1
    <3>1. i - 1 \in DOMAIN cs1 /\ cs2[i] = cs1[i - 1] /\ i - 1 < j - 1
      BY <1>6, <2>3
    <3>2. ix[cs1[j - 1].tag] < ix[cs1[i - 1].tag]
      BY <2>1, <3>1 DEF FallingTags
    <3> QED  BY <1>11, <2>1, <3>1, <3>2
  <2> QED  BY <2>2, <2>3
<1>14. InvOf(E, ix2, lo2, ToSet(st2), ToSet(cs2), fd)
  <2>1. Beginning(E, ix, lo, ToSet(st), ToSet(cs), v, ToSet(cs1), ix2, lo2, ToSet(st2), ToSet(cs2))
    BY <1>5, <1>6, <1>7 DEF Beginning, new
  <2> QED  BY <1>1, <2>1, Begins
<1> QED  BY <1>5, <1>6, <1>12, <1>13, <1>14 DEF Searched

\* The step along an edge to a tag seen before
LEMMA FollowKeeps ==
    ASSUME NEW E, NEW ix, NEW lo, NEW st, NEW cs, NEW fd, Searched(E, ix, lo, st, cs, fd),
           cs # <<>>, NEW w \in Nodes, w \in Head(cs).todo, ix[w] # Unseen,
           NEW lo2, lo2 = IF Contains(st, w) THEN [lo EXCEPT ![Head(cs).tag] = Lower(@, ix[w])] ELSE lo
    PROVE  Searched(E, ix, lo2, st, Less(cs, w), fd)
<1> DEFINE f == Head(cs)
           r == Less(cs, w)
<1>1. st \in Seq(Nodes) /\ cs \in Seq(Visits) /\ Falling(ix, st) /\ FallingTags(ix, cs) /\ InvOf(E, ix, lo, ToSet(st), ToSet(cs), fd)
  BY DEF Searched
<1>2. \A g \in ToSet(cs) : ix[g.tag] \in Nat
  BY OnTheStack
<1>3. Latest(ix, ToSet(cs), f)
  BY <1>1, <1>2, Innermost
<1>4. /\ r \in Seq(Visits) /\ r # <<>> /\ FallingTags(ix, r)
      /\ \A i \in DOMAIN r : i \in DOMAIN cs /\ r[i].tag = cs[i].tag
      /\ ToSet(r) = (ToSet(cs) \ {f}) \cup {[tag |-> f.tag, todo |-> f.todo \ {w}]}
  BY <1>1, <1>2, EdgeLess, Zenon
<1>5. Contains(st, w) <=> w \in ToSet(st)
  <2>1. DOMAIN st = 1 .. Len(st)
    BY <1>1
  <2> QED  BY <2>1 DEF Contains, ToSet
<1> HIDE DEF r
<1>6. Following(ix, lo, ToSet(st), ToSet(cs), f, w, lo2, ToSet(r))
  BY <1>3, <1>4, <1>5 DEF Following
<1>7. InvOf(E, ix, lo2, ToSet(st), ToSet(r), fd)
  BY <1>1, <1>6, Follows
<1> QED  BY <1>1, <1>4, <1>7 DEF Searched, r

\* What a list keeps behind a position
LEMMA Behind ==
    ASSUME NEW S, NEW s \in Seq(S), NEW at \in DOMAIN s
    PROVE  LET t == SubSeq(s, at + 1, Len(s)) IN
           /\ t \in Seq(S) /\ \A i \in DOMAIN t : i + at \in DOMAIN s /\ t[i] = s[i + at]
           /\ \A i \in DOMAIN s : at < i => i - at \in DOMAIN t /\ t[i - at] = s[i]
<1> DEFINE t == SubSeq(s, at + 1, Len(s))
<1>1. t \in Seq(S) /\ DOMAIN t = 1 .. Len(s) - at /\ at \in 1 .. Len(s) /\ Len(s) \in Nat /\ DOMAIN s = 1 .. Len(s)
  OBVIOUS
<1>2. \A i \in DOMAIN t : t[i] = s[i + at]
  OBVIOUS
<1>3. \A i \in DOMAIN t : i + at \in DOMAIN s
  BY <1>1
<1> HIDE DEF t
<1>4. ASSUME NEW i \in DOMAIN s, at < i PROVE i - at \in DOMAIN t /\ t[i - at] = s[i]
  <2>1. i - at \in DOMAIN t /\ (i - at) + at = i
    BY <1>1, <1>4
  <2> QED  BY <1>2, <2>1
<1> QED  BY <1>1, <1>2, <1>3, <1>4 DEF t

\* What came after v on the stack, and what is left
LEMMA Popped ==
    ASSUME NEW ix, NEW st \in Seq(Nodes), Falling(ix, st), \A i \in DOMAIN st : ix[st[i]] \in Nat,
           NEW at \in DOMAIN st
    PROVE  LET v == st[at]
               rest == SubSeq(st, at + 1, Len(st))
               S == {x \in ToSet(st) : ix[v] <= ix[x]}
           IN  /\ {st[i] : i \in 1 .. at} = S
               /\ rest \in Seq(Nodes) /\ Falling(ix, rest) /\ ToSet(rest) = ToSet(st) \ S
<1> DEFINE v == st[at]
           rest == SubSeq(st, at + 1, Len(st))
           S == {x \in ToSet(st) : ix[v] <= ix[x]}
<1>1. at \in DOMAIN st /\ st[at] = v
  OBVIOUS
<1> HIDE DEF v
<1>2. DOMAIN st = 1 .. Len(st) /\ Len(st) \in Nat
  OBVIOUS
<1>3. \A i \in DOMAIN st : i <= at <=> ix[v] <= ix[st[i]]
  <2> SUFFICES ASSUME NEW i \in DOMAIN st PROVE i <= at <=> ix[v] <= ix[st[i]]
    OBVIOUS
  <2>1. ix[st[i]] \in Nat /\ ix[v] \in Nat
    BY <1>1
  <2>2. CASE i = at
    BY <1>1, <1>2, <2>1, <2>2
  <2>3. CASE i < at
    <3>1. ix[v] < ix[st[i]]
      BY <1>1, <2>3 DEF Falling
    <3> QED  BY <1>1, <1>2, <2>1, <2>3, <3>1
  <2>4. CASE at < i
    <3>1. ix[st[i]] < ix[v]
      BY <1>1, <2>4 DEF Falling
    <3> QED  BY <1>1, <1>2, <2>1, <2>4, <3>1
  <2> QED  BY <1>1, <1>2, <2>2, <2>3, <2>4
<1>4. /\ rest \in Seq(Nodes) /\ \A i \in DOMAIN rest : i + at \in DOMAIN st /\ rest[i] = st[i + at]
      /\ \A i \in DOMAIN st : at < i => i - at \in DOMAIN rest /\ rest[i - at] = st[i]
  BY <1>1, Behind, Zenon
<1> HIDE DEF rest
<1>5. {st[i] : i \in 1 .. at} = S
  <2>1. \A i \in 1 .. at : i \in DOMAIN st /\ i <= at
    BY <1>1, <1>2
  <2>2. \A i \in 1 .. at : st[i] \in S
    BY <1>3, <2>1 DEF ToSet
  <2>3. ASSUME NEW x \in S PROVE \E i \in 1 .. at : st[i] = x
    <3>1. PICK i \in DOMAIN st : st[i] = x
      BY DEF ToSet
    <3>2. i \in 1 .. at
      BY <1>1, <1>2, <1>3, <3>1
    <3> QED  BY <3>1, <3>2
  <2> QED  BY <2>2, <2>3
<1>6. Falling(ix, rest)
  <2> SUFFICES ASSUME NEW i \in DOMAIN rest, NEW j \in DOMAIN rest, i < j PROVE ix[rest[j]] < ix[rest[i]]
    BY DEF Falling
  <2>1. i \in Nat /\ j \in Nat /\ at \in Nat
    BY <1>1, <1>2, <1>4
  <2>2. i + at < j + at
    BY <2>1
  <2> QED  BY <1>4, <2>2 DEF Falling
<1>7. ToSet(rest) = ToSet(st) \ S
  <2>1. ASSUME NEW i \in DOMAIN rest PROVE rest[i] \in ToSet(st) \ S
    <3>1. i + at \in DOMAIN st /\ rest[i] = st[i + at] /\ i \in 1 .. Len(rest) /\ Len(rest) \in Nat
      BY <1>4
    <3>2. ~(i + at <= at)
      BY <1>1, <1>2, <3>1
    <3> QED  BY <1>3, <3>1, <3>2 DEF ToSet
  <2>2. ASSUME NEW x \in ToSet(st), x \notin S PROVE \E i \in DOMAIN rest : rest[i] = x
    <3>1. PICK i \in DOMAIN st : st[i] = x
      BY DEF ToSet
    <3>2. at < i
      BY <1>1, <1>2, <1>3, <2>2, <3>1
    <3> QED  BY <1>4, <3>1, <3>2
  <2> QED  BY <2>1, <2>2 DEF ToSet
<1> QED  BY <1>4, <1>5, <1>6, <1>7 DEF rest, v

\* The visit the code ends, and what it leaves
Ending(E, ix, lo, st, cs, fd, lo2, st2, fd2) ==
    LET v == Head(cs).tag
        at == CHOOSE i \in DOMAIN st : st[i] = v
        S == {st[i] : i \in 1 .. at}
    IN  /\ cs # <<>> /\ Head(cs).todo = {}
        /\ lo2 = IF Tail(cs) = <<>> THEN lo ELSE [lo EXCEPT ![cs[2].tag] = Lower(@, lo[v])]
        /\ IF lo[v] = ix[v]
           THEN /\ st2 = SubSeq(st, at + 1, Len(st))
                /\ fd2 = IF Cardinality(S) > 1 \/ v \in E[v] THEN fd \cup {S} ELSE fd
           ELSE st2 = st /\ fd2 = fd

\* The step that ends a visit
LEMMA CompleteKeeps ==
    ASSUME NEW E, NEW ix, NEW lo, NEW st, NEW cs, NEW fd, Searched(E, ix, lo, st, cs, fd),
           NEW lo2, NEW st2, NEW fd2, Ending(E, ix, lo, st, cs, fd, lo2, st2, fd2)
    PROVE  Searched(E, ix, lo2, st2, Tail(cs), fd2)
<1> DEFINE f == Head(cs)
           r == Tail(cs)
           v == Head(cs).tag
           at == CHOOSE i \in DOMAIN st : st[i] = v
           S == {st[i] : i \in 1 .. at}
<1>0. /\ cs # <<>> /\ f.todo = {}
      /\ lo2 = IF r = <<>> THEN lo ELSE [lo EXCEPT ![cs[2].tag] = Lower(@, lo[v])]
      /\ IF lo[v] = ix[v]
         THEN /\ st2 = SubSeq(st, at + 1, Len(st))
              /\ fd2 = IF Cardinality(S) > 1 \/ v \in E[v] THEN fd \cup {S} ELSE fd
         ELSE st2 = st /\ fd2 = fd
  BY DEF Ending
<1> HIDE DEF at, S
<1>1. st \in Seq(Nodes) /\ cs \in Seq(Visits) /\ Falling(ix, st) /\ FallingTags(ix, cs) /\ InvOf(E, ix, lo, ToSet(st), ToSet(cs), fd)
  BY DEF Searched
<1>2. /\ \A i \in DOMAIN st : ix[st[i]] \in Nat
      /\ \A g \in ToSet(cs) : ix[g.tag] \in Nat /\ g.tag \in ToSet(st)
  BY OnTheStack
<1>3. /\ Latest(ix, ToSet(cs), f) /\ ToSet(r) = ToSet(cs) \ {f} /\ FallingTags(ix, r) /\ r \in Seq(Visits)
      /\ r # <<>> => Head(r) = cs[2]
  BY <1>0, <1>1, <1>2, Innermost, Zenon
<1> HIDE DEF r
<1>4. r = <<>> <=> ToSet(r) = {}
  <2>1. r # <<>> => r[1] \in ToSet(r)
    BY <1>3 DEF ToSet
  <2>2. r = <<>> => ToSet(r) = {}
    BY DEF ToSet
  <2> QED  BY <2>1, <2>2
<1>5. ASSUME r # <<>> PROVE Latest(ix, ToSet(r), cs[2])
  <2>1. \A g \in ToSet(r) : ix[g.tag] \in Nat
    BY <1>2, <1>3
  <2>2. Latest(ix, ToSet(r), Head(r))
    BY <1>3, <1>5, <2>1, Innermost
  <2> QED  BY <1>3, <1>5, <2>2
<1>6. IF ToSet(r) = {} THEN lo2 = lo
      ELSE \E h : Latest(ix, ToSet(r), h) /\ lo2 = [lo EXCEPT ![h.tag] = Lower(@, lo[f.tag])]
  BY <1>0, <1>4, <1>5
<1>7. CASE lo[v] # ix[v]
  <2>1. st2 = st /\ fd2 = fd
    BY <1>0, <1>7
  <2>2. Returning(ix, lo, ToSet(cs), f, lo2, ToSet(r))
    BY <1>0, <1>3, <1>6, <1>7 DEF Returning
  <2>3. InvOf(E, ix, lo2, ToSet(st), ToSet(r), fd)
    BY <1>1, <2>2, ReturnKeeps
  <2> QED  BY <1>1, <1>3, <2>1, <2>3 DEF Searched, r
<1>8. CASE lo[v] = ix[v]
  <2> DEFINE A == {x \in ToSet(st) : ix[v] <= ix[x]}
  <2>1. v \in ToSet(st)
    BY <1>2, <1>3 DEF Latest
  <2>2. /\ S = A
        /\ SubSeq(st, at + 1, Len(st)) \in Seq(Nodes) /\ Falling(ix, SubSeq(st, at + 1, Len(st)))
        /\ ToSet(SubSeq(st, at + 1, Len(st))) = ToSet(st) \ A
    <3>1. \A i \in DOMAIN st : ix[st[i]] \in Nat
      BY <1>2
    <3>3. at \in DOMAIN st /\ v = st[at]
      BY <2>1 DEF at, ToSet
    <3> HIDE DEF v
    <3>2. /\ {st[i] : i \in 1 .. at} = A
          /\ SubSeq(st, at + 1, Len(st)) \in Seq(Nodes) /\ Falling(ix, SubSeq(st, at + 1, Len(st)))
          /\ ToSet(SubSeq(st, at + 1, Len(st))) = ToSet(st) \ A
      BY <1>1, <2>1, <3>1, <3>3, Popped
    <3> QED  BY <3>2 DEF S, v
  <2>3. st2 \in Seq(Nodes) /\ Falling(ix, st2) /\ ToSet(st2) = ToSet(st) \ S
        /\ fd2 = IF Cardinality(S) > 1 \/ v \in E[v] THEN fd \cup {S} ELSE fd
    BY <1>0, <1>8, <2>2
  <2>4. Assigning(E, ix, lo, ToSet(st), ToSet(cs), fd, f, S, lo2, ToSet(st2), ToSet(r), fd2)
    BY <1>0, <1>3, <1>6, <1>8, <2>2, <2>3 DEF Assigning
  <2>5. InvOf(E, ix, lo2, ToSet(st2), ToSet(r), fd2)
    BY <1>1, <2>4, Assigns
  <2> QED  BY <1>3, <2>3, <2>5 DEF Searched, r
<1> QED  BY <1>7, <1>8

\* What the search knows at every step
RingInv == Searched(edges, index, low, stack, calls, found)

\* Every step of the search keeps the invariant
LEMMA RingStep == RingInv /\ [RingNext]_ringVars => RingInv'
<1> SUFFICES ASSUME RingInv, [RingNext]_ringVars PROVE RingInv'
  OBVIOUS
<1>1. Searched(edges, index, low, stack, calls, found) /\ FallingTags(index, calls) /\ calls \in Seq(Visits)
      /\ edges \in Graphs
  BY DEF RingInv, Searched, InvOf, Typed
<1>2. ASSUME NEW v \in Nodes, Root(v) PROVE RingInv'
  <2>1. <<>> \in Seq(Visits) /\ FallingTags(index, <<>>)
    BY DEF FallingTags
  <2>2. /\ calls = <<>> /\ index[v] = Unseen /\ edges' = edges /\ found' = found
        /\ index' = [index EXCEPT ![v] = Cardinality(Visited(index))]
        /\ low' = [low EXCEPT ![v] = Cardinality(Visited(index))]
        /\ stack' = <<v>> \o stack /\ calls' = <<[tag |-> v, todo |-> edges[v]]>> \o <<>>
    BY <1>2, Zenon DEF Root, Visit, SeenNodes, Visited
  <2>3. Searched(edges, index', low', stack', calls', found)
    BY <1>1, <2>1, <2>2, VisitKeeps, Zenon
  <2> QED  BY <2>2, <2>3, Zenon DEF RingInv
<1>3. ASSUME NEW w \in Nodes, Follow(w) PROVE RingInv'
  <2>1. calls # <<>> /\ w \in Head(calls).todo
    BY <1>3 DEF Follow
  <2>2. Less(calls, w) \in Seq(Visits) /\ FallingTags(index, Less(calls, w))
    <3>1. \A g \in ToSet(calls) : index[g.tag] \in Nat
      BY <1>1, OnTheStack
    <3> QED  BY <1>1, <2>1, <3>1, EdgeLess, Zenon
  <2>3. CASE index[w] = Unseen
    <3>1. Visit(w, Less(calls, w))
      BY <1>3, <2>3, Zenon DEF Follow, Less
    <3>2. /\ edges' = edges /\ found' = found
          /\ index' = [index EXCEPT ![w] = Cardinality(Visited(index))]
          /\ low' = [low EXCEPT ![w] = Cardinality(Visited(index))]
          /\ stack' = <<w>> \o stack /\ calls' = <<[tag |-> w, todo |-> edges[w]]>> \o Less(calls, w)
      BY <3>1, Zenon DEF Visit, SeenNodes, Visited
    <3>3. Searched(edges, index', low', stack', calls', found)
      BY <1>1, <2>1, <2>2, <2>3, <3>2, VisitKeeps, Zenon
    <3> QED  BY <3>2, <3>3, Zenon DEF RingInv
  <2>4. CASE index[w] # Unseen
    <3>1. /\ low' = IF Contains(stack, w) THEN [low EXCEPT ![Head(calls).tag] = Lower(@, index[w])] ELSE low
          /\ calls' = Less(calls, w) /\ UNCHANGED <<edges, index, stack, found>>
      BY <1>3, <2>4, Zenon DEF Follow, Less, OnStack
    <3>2. Searched(edges, index, low', stack, Less(calls, w), found)
      BY <1>1, <2>1, <2>4, <3>1, FollowKeeps, Zenon
    <3> QED  BY <3>1, <3>2 DEF RingInv
  <2> QED  BY <2>3, <2>4
<1>4. ASSUME Complete PROVE RingInv'
  <2>1. Ending(edges, index, low, stack, calls, found, low', stack', found')
        /\ UNCHANGED <<edges, index>> /\ calls' = Tail(calls)
    BY <1>4 DEF Complete, Ending
  <2>2. Searched(edges, index, low', stack', Tail(calls), found')
    BY <1>1, <2>1, CompleteKeeps, Zenon
  <2> QED  BY <2>1, <2>2 DEF RingInv
<1>5. CASE UNCHANGED ringVars
  BY <1>5 DEF ringVars, RingInv
<1> QED  BY <1>2, <1>3, <1>4, <1>5 DEF RingNext

\* Before the search, nothing is numbered
LEMMA RingStart == RingInit => RingInv
<1> SUFFICES ASSUME RingInit PROVE RingInv
  OBVIOUS
<1> USE DEF Unseen
<1>1. /\ edges \in Graphs /\ index = [t \in Nodes |-> -1] /\ low = [t \in Nodes |-> -1]
      /\ stack = <<>> /\ calls = <<>> /\ found = {}
  BY DEF RingInit, Graphs
<1>2. ToSet(<<>>) = {} /\ Visited(index) = {} /\ Under({}) = {}
  BY <1>1 DEF ToSet, Visited, Under
<1>3. Typed(edges, index, low, {}, {})
  BY <1>1, <1>2 DEF Typed
<1>4. Numbered(edges, index, low, {}, {})
  BY <1>2 DEF Numbered
<1>5. Followed(edges, index, low, {}, {})
  BY <1>2 DEF Followed
<1>6. RingsNamed(edges, index, {}, {})
  BY <1>2 DEF RingsNamed
<1>7. Falling(index, <<>>) /\ FallingTags(index, <<>>) /\ <<>> \in Seq(Nodes) /\ <<>> \in Seq(Visits)
  BY DEF Falling, FallingTags
<1> QED  BY <1>1, <1>2, <1>3, <1>4, <1>5, <1>6, <1>7 DEF RingInv, Searched, InvOf

\* The sets of tags that depend on each other are the rings
LEMMA RingsAre ==
    ASSUME NEW E \in Graphs
    PROVE  Rings(E) = {Class(E, t) : t \in {t \in Nodes : t \in DependsOn(E, t)}}
<1> DEFINE deps == [t \in DOMAIN E |-> DependsOn(E, t)]
           ring(t) == {u \in deps[t] \cap DOMAIN E : t \in deps[u]}
<1>1. DOMAIN E = Nodes
  BY DEF Graphs
<1>2. \A t \in Nodes : deps[t] = DependsOn(E, t)
  BY <1>1
<1>3. Rings(E) = {ring(t) : t \in {t \in Nodes : t \in deps[t]}}
  BY <1>1 DEF Rings
<1> HIDE DEF deps
<1>4. \A t \in Nodes : ring(t) = Class(E, t)
  BY <1>1, <1>2 DEF Class
<1>5. {t \in Nodes : t \in deps[t]} = {t \in Nodes : t \in DependsOn(E, t)}
  BY <1>2
<1> HIDE DEF ring
<1>6. {ring(t) : t \in {t \in Nodes : t \in DependsOn(E, t)}} = {Class(E, t) : t \in {t \in Nodes : t \in DependsOn(E, t)}}
  BY <1>4
<1> QED  BY <1>3, <1>5, <1>6

\* What the search names is what depends on itself: all of it, once it is over
LEMMA RingsFollow == RingInv => RingsAreFound
<1> SUFFICES ASSUME RingInv PROVE RingsAreFound
  OBVIOUS
<1>1. /\ edges \in Graphs /\ ToSet(stack) \subseteq Visited(index)
      /\ found = {Class(edges, t) : t \in {t \in Visited(index) \ ToSet(stack) : t \in DependsOn(edges, t)}}
  BY DEF RingInv, Searched, InvOf, Typed, RingsNamed
<1>2. Rings(edges) = {Class(edges, t) : t \in {t \in Nodes : t \in DependsOn(edges, t)}}
  BY <1>1, RingsAre
<1>3. found \subseteq Rings(edges)
  BY <1>1, <1>2 DEF Visited
<1>4. ASSUME calls = <<>>, SeenNodes = Nodes PROVE found = Rings(edges) /\ (found = {} <=> Started(edges) = Nodes)
  <2>1. Under(ToSet(calls)) = {}
    BY <1>4 DEF ToSet, Under
  <2>2. ToSet(stack) = {}
    BY <2>1 DEF RingInv, Searched, InvOf, Numbered
  <2>3. Visited(index) = Nodes
    BY <1>4 DEF Visited, SeenNodes
  <2>4. found = Rings(edges)
    BY <1>1, <1>2, <2>2, <2>3
  <2>5. DOMAIN edges = Nodes /\ IsFiniteSet(DOMAIN edges) /\ \A t \in DOMAIN edges : edges[t] \subseteq DOMAIN edges
    BY <1>1, NodesAssumption DEF Graphs
  <2>6. Started(edges) = DOMAIN edges <=> Rings(edges) = {}
    BY <2>5, StartsWithoutRings
  <2> QED  BY <2>4, <2>5, <2>6
<1> QED  BY <1>3, <1>4 DEF RingsAreFound

\* For any finite set of outbounds and any references between them: the search names
\* only rings, and all of them when it ends; none, exactly when sing-box starts all
\* outbounds (rings of dependency.go).
THEOREM RingsFound == RingSpec => []RingsAreFound
<1>1. RingSpec => []RingInv
  BY RingStart, RingStep, PTL DEF RingSpec
<1> QED  BY <1>1, RingsFollow, PTL

-----------------------------------------------------------------------------
(* Refusal: a merge leaves out none but the nodes that are to blame *)

\* Lists of nodes, and what a round makes of one
Series == Seq(Positions)
Results == [bad : SUBSET Positions, halvings : Int, says : {"ok", "named", "crash"}]
Spoiled == {"field", "odd", "crash"}

\* The nodes sing-box refuses on their own
Odds == {i \in Positions : incoming[i].verdict \in Spoiled}

\* The assumptions on the nodes of a behaviour
IncomingFits ==
    /\ Len(incoming) \in Nat /\ Positions = 1 .. Len(incoming) /\ None \notin Positions
    /\ \A i \in Positions : incoming[i].verdict \in Verdicts

\* The first of a list with one of the verdicts
LEMMA FirstIs ==
    ASSUME IncomingFits, NEW line \in Seq(Positions), NEW V
    PROVE  /\ First(line, V) = 0 => \A i \in ToSet(line) : incoming[i].verdict \notin V
           /\ First(line, V) # 0 => First(line, V) \in ToSet(line) /\ incoming[First(line, V)].verdict \in V
<1> DEFINE hits == {k \in DOMAIN line : incoming[line[k]].verdict \in V}
<1>1. CASE hits = {}
  <2>1. First(line, V) = 0
    BY <1>1 DEF First
  <2>2. \A i \in ToSet(line) : incoming[i].verdict \notin V
    BY <1>1 DEF ToSet
  <2> QED  BY <2>1, <2>2
<1>2. CASE hits # {}
  <2>1. hits \subseteq Nat
    OBVIOUS
  <2>2. \E k \in hits : \A l \in hits : k <= l
    <3> HIDE DEF hits
    <3> QED  BY <1>2, <2>1, Least
  <2> DEFINE k == CHOOSE k \in hits : \A l \in hits : k <= l
  <2>3. k \in hits
    BY <2>2
  <2>4. First(line, V) = line[k]
    BY <1>2 DEF First
  <2> HIDE DEF k
  <2>5. line[k] \in ToSet(line) /\ incoming[line[k]].verdict \in V
    BY <2>3 DEF ToSet
  <2>6. line[k] # 0
    <3>1. line[k] \in Positions
      BY <2>3
    <3>2. 0 \notin Positions
      BY DEF IncomingFits
    <3> QED  BY <3>1, <3>2
  <2> QED  BY <2>4, <2>5, <2>6
<1> QED  BY <1>1, <1>2

\* What sing-box says of a list of nodes
LEMMA CheckIs ==
    ASSUME IncomingFits, NEW line \in Seq(Positions)
    PROVE  LET saying == SingBoxCheck(line) IN
           /\ saying.says \in {"ok", "named", "crash"}
           /\ saying.says = "ok" <=> ToSet(line) \cap Odds = {}
           /\ saying.says = "named" => saying.at \in ToSet(line) \cap Odds
           /\ saying.says = "crash" => \E i \in ToSet(line) : incoming[i].verdict = "crash"
<1> DEFINE field == First(line, {"field"})
           built == First(line, {"odd", "crash"})
<1>1. ToSet(line) \subseteq Positions
  BY DEF ToSet
<1>2. /\ field = 0 => \A i \in ToSet(line) : incoming[i].verdict \notin {"field"}
      /\ field # 0 => field \in ToSet(line) /\ incoming[field].verdict \in {"field"}
  BY FirstIs
<1>3. /\ built = 0 => \A i \in ToSet(line) : incoming[i].verdict \notin {"odd", "crash"}
      /\ built # 0 => built \in ToSet(line) /\ incoming[built].verdict \in {"odd", "crash"}
  BY FirstIs
<1>4. SingBoxCheck(line) = IF field # 0 THEN Naming(field)
                           ELSE IF built = 0 THEN Passed
                           ELSE IF incoming[built].verdict = "odd" THEN Naming(built) ELSE Crashed
  BY DEF SingBoxCheck
<1>5. /\ Passed.says = "ok" /\ Crashed.says = "crash" /\ \A i : Naming(i).says = "named" /\ Naming(i).at = i
  BY DEF Passed, Crashed, Naming
<1>6. \A i \in ToSet(line) : i \in Odds <=> incoming[i].verdict \in {"field"} \/ incoming[i].verdict \in {"odd", "crash"}
  BY <1>1 DEF Odds, Spoiled
<1> HIDE DEF field, built
<1>7. CASE field # 0
  BY <1>2, <1>4, <1>5, <1>6, <1>7
<1>8. CASE field = 0 /\ built = 0
  BY <1>2, <1>3, <1>4, <1>5, <1>6, <1>8
<1>9. CASE field = 0 /\ built # 0 /\ incoming[built].verdict = "odd"
  BY <1>3, <1>4, <1>5, <1>6, <1>9
<1>10. CASE field = 0 /\ built # 0 /\ incoming[built].verdict # "odd"
  BY <1>3, <1>4, <1>5, <1>6, <1>10
<1> QED  BY <1>7, <1>8, <1>9, <1>10

\* The halves of a list of two or more
LEMMA HalvesAre ==
    ASSUME NEW S, NEW line \in Seq(S), Len(line) > 1
    PROVE  /\ Halves(line)[1] \in Seq(S) /\ Len(Halves(line)[1]) < Len(line)
           /\ Halves(line)[2] \in Seq(S) /\ Len(Halves(line)[2]) < Len(line)
           /\ ToSet(line) = ToSet(Halves(line)[1]) \cup ToSet(Halves(line)[2])
<1> DEFINE n == Len(line)
           half == n \div 2
           l == SubSeq(line, 1, half)
           r == SubSeq(line, half + 1, n)
<1>1. n \in Nat /\ n > 1 /\ DOMAIN line = 1 .. n
  OBVIOUS
<1>2. half \in Nat /\ half >= 1 /\ half < n
  <2> HIDE DEF n
  <2> QED  BY <1>1
<1>3. Halves(line)[1] = l /\ Halves(line)[2] = r
  BY DEF Halves
<1> HIDE DEF half
<1>4. l \in Seq(S) /\ DOMAIN l = 1 .. half /\ Len(l) = half /\ \A i \in 1 .. half : l[i] = line[i]
  BY <1>1, <1>2
<1>5. r \in Seq(S) /\ Len(r) = n - half /\ DOMAIN r = 1 .. n - half /\ \A i \in 1 .. n - half : r[i] = line[i + half]
  <2>1. n - half \in Nat /\ half + 1 \in 1 .. n /\ half + 1 \in Nat
    BY <1>1, <1>2
  <2>2. r \in Seq(S)
    BY <1>1, <2>1
  <2>3. Len(r) = n - half
    BY <1>1, <1>2, <2>1
  <2>4. DOMAIN r = 1 .. n - half
    BY <2>2, <2>3
  <2>5. ASSUME NEW i \in 1 .. n - half PROVE r[i] = line[i + half]
    <3>1. r[i] = line[i + (half + 1) - 1]
      BY <1>1, <1>2, <2>1
    <3>2. i + (half + 1) - 1 = i + half
      BY <1>2
    <3> QED  BY <3>1, <3>2
  <2> QED  BY <2>2, <2>3, <2>4, <2>5
<1> HIDE DEF l, r
<1>6. \A x \in ToSet(line) : x \in ToSet(l) \/ x \in ToSet(r)
  <2> SUFFICES ASSUME NEW i \in 1 .. n PROVE line[i] \in ToSet(l) \/ line[i] \in ToSet(r)
    BY <1>1 DEF ToSet
  <2>1. CASE i <= half
    <3>1. i \in 1 .. half
      BY <1>1, <1>2, <2>1
    <3> QED  BY <1>4, <3>1 DEF ToSet
  <2>2. CASE i > half
    <3>1. i - half \in 1 .. n - half /\ (i - half) + half = i
      BY <1>1, <1>2, <2>2
    <3> QED  BY <1>5, <3>1 DEF ToSet
  <2> QED  BY <1>1, <1>2, <2>1, <2>2
<1>7. \A x \in ToSet(l) : x \in ToSet(line)
  <2> SUFFICES ASSUME NEW i \in 1 .. half PROVE line[i] \in ToSet(line)
    BY <1>4 DEF ToSet
  <2>1. i \in 1 .. n
    BY <1>1, <1>2
  <2> QED  BY <1>1, <2>1 DEF ToSet
<1>8. \A x \in ToSet(r) : x \in ToSet(line)
  <2> SUFFICES ASSUME NEW i \in 1 .. n - half PROVE line[i + half] \in ToSet(line)
    BY <1>5 DEF ToSet
  <2>1. i + half \in 1 .. n
    BY <1>1, <1>2
  <2> QED  BY <1>1, <2>1 DEF ToSet
<1>9. Len(l) < n /\ Len(r) < n
  BY <1>1, <1>2, <1>4, <1>5
<1> QED  BY <1>3, <1>4, <1>5, <1>6, <1>7, <1>8, <1>9

\* What a list keeps without some of its elements
LEMMA RestIs ==
    ASSUME NEW S, NEW line \in Seq(S), NEW gone, NEW x \in ToSet(line), x \in gone
    PROVE  LET rest == Only(line, ToSet(line) \ gone) IN
           rest \in Seq(S) /\ Len(rest) < Len(line) /\ ToSet(rest) = ToSet(line) \ gone
<1> DEFINE T == ToSet(line) \ gone
           P == {i \in DOMAIN line : line[i] \in T}
           rest == Only(line, T)
<1>1. rest = At(line, P) /\ P \in SUBSET (DOMAIN line) /\ DOMAIN line = 1 .. Len(line) /\ Len(line) \in Nat
  BY DEF Only
<1>2. rest \in Seq(S) /\ Len(rest) = Cardinality(P)
  <2> HIDE DEF P, rest
  <2> QED  BY <1>1, Sublist
<1>3. P # DOMAIN line
  BY DEF ToSet
<1>4. Cardinality(P) < Len(line)
  <2> HIDE DEF P
  <2>1. IsFiniteSet(1 .. Len(line)) /\ Cardinality(1 .. Len(line)) = Len(line)
    <3> DEFINE n == Len(line)
    <3>1. n \in Nat
      OBVIOUS
    <3> HIDE DEF n
    <3>2. IsFiniteSet(1 .. n) /\ Cardinality(1 .. n) = IF 1 > n THEN 0 ELSE n - 1 + 1
      BY <3>1, FS_Interval
    <3> QED  BY <3>1, <3>2 DEF n
  <2>2. IsFiniteSet(DOMAIN line) /\ Cardinality(DOMAIN line) = Len(line)
    BY <1>1, <2>1
  <2>3. Cardinality(P) \in Nat /\ Cardinality(P) <= Cardinality(DOMAIN line)
        /\ (Cardinality(P) = Cardinality(DOMAIN line) => P = DOMAIN line)
    BY <1>1, <2>2, FS_Subset, FS_CardinalityType
  <2> QED  BY <1>1, <1>3, <2>2, <2>3
<1>5. ToSet(rest) = T
  <2> HIDE DEF rest, T
  <2>1. /\ \A k \in 1 .. Len(rest) : \E i \in 1 .. Len(line) : rest[k] = line[i] /\ line[i] \in T
        /\ \A i \in 1 .. Len(line) : line[i] \in T => \E k \in 1 .. Len(rest) : rest[k] = line[i]
    BY OnlyThose DEF rest
  <2>2. DOMAIN rest = 1 .. Len(rest)
    BY <1>2
  <2>3. \A y \in ToSet(rest) : y \in T
    BY <2>1, <2>2 DEF ToSet
  <2>4. ASSUME NEW y \in T PROVE y \in ToSet(rest)
    <3>1. PICK i \in 1 .. Len(line) : line[i] = y
      BY <1>1 DEF ToSet, T
    <3> QED  BY <2>1, <2>2, <2>4, <3>1 DEF ToSet
  <2> QED  BY <2>3, <2>4
<1> QED  BY <1>2, <1>4, <1>5

\* What a round leaves out, what it hands on, and the halving it gets back
Gone(line) == {i \in ToSet(line) : i = SingBoxCheck(line).at \/ SameUnknownField(i, SingBoxCheck(line).at)}
Rest(line) == Only(line, ToSet(line) \ Gone(line))
Back(left, right) == IF left.says = "crash" /\ right.says = "crash" THEN 0 ELSE 1

\* The cases of a round
LEMMA RoundIs ==
    ASSUME NEW f, NEW line, NEW h
    PROVE  LET says == SingBoxCheck(line).says
               rest == f[Rest(line)][h]
               left == f[Halves(line)[1]][h - 1]
               right == f[Halves(line)[2]][left.halvings]
           IN  Round(f, line, h) =
                 IF line = <<>> \/ says = "ok" THEN Result({}, h, "ok")
                 ELSE IF Len(line) = 1 THEN Result({Head(line)}, h, says)
                 ELSE IF says = "named" THEN Result(Gone(line) \cup rest.bad, rest.halvings, "named")
                 ELSE IF h <= 0 THEN Result(OneByOne(line), h, "crash")
                 ELSE Result(left.bad \cup right.bad, right.halvings + Back(left, right), "crash")
BY Zenon DEF Round, Gone, Rest, Back

\* The parts of a result
LEMMA ResultIs ==
    ASSUME NEW b, NEW h, NEW s
    PROVE  /\ Result(b, h, s).bad = b /\ Result(b, h, s).halvings = h /\ Result(b, h, s).says = s
           /\ b \subseteq Positions /\ h \in Int /\ s \in {"ok", "named", "crash"} => Result(b, h, s) \in Results
BY DEF Result, Results

\* What a round hands on is shorter
LEMMA HandsOn ==
    ASSUME IncomingFits, NEW line \in Series, line # <<>>, SingBoxCheck(line).says # "ok", Len(line) # 1
    PROVE  /\ Len(line) > 1
           /\ Halves(line)[1] \in Series /\ Len(Halves(line)[1]) < Len(line)
           /\ Halves(line)[2] \in Series /\ Len(Halves(line)[2]) < Len(line)
           /\ ToSet(line) = ToSet(Halves(line)[1]) \cup ToSet(Halves(line)[2])
           /\ SingBoxCheck(line).says = "named" =>
                /\ Rest(line) \in Series /\ Len(Rest(line)) < Len(line) /\ ToSet(Rest(line)) = ToSet(line) \ Gone(line)
                /\ Gone(line) # {} /\ Gone(line) \subseteq ToSet(line) \cap Odds
<1>1. line \in Seq(Positions) /\ Len(line) > 1
  <2>1. line \in Seq(Positions)
    BY DEF Series
  <2> DEFINE n == Len(line)
  <2>2. n \in Nat /\ n # 0 /\ n # 1
    BY <2>1
  <2> HIDE DEF n
  <2>3. n > 1
    BY <2>2
  <2> QED  BY <2>1, <2>3 DEF n
<1>2. /\ Halves(line)[1] \in Seq(Positions) /\ Len(Halves(line)[1]) < Len(line)
      /\ Halves(line)[2] \in Seq(Positions) /\ Len(Halves(line)[2]) < Len(line)
      /\ ToSet(line) = ToSet(Halves(line)[1]) \cup ToSet(Halves(line)[2])
  BY <1>1, HalvesAre
<1>3. ASSUME SingBoxCheck(line).says = "named"
      PROVE  /\ Rest(line) \in Series /\ Len(Rest(line)) < Len(line) /\ ToSet(Rest(line)) = ToSet(line) \ Gone(line)
             /\ Gone(line) # {} /\ Gone(line) \subseteq ToSet(line) \cap Odds
  <2> DEFINE x == SingBoxCheck(line).at
  <2>1. x \in ToSet(line) \cap Odds
    BY <1>1, <1>3, CheckIs
  <2>2. x \in Gone(line)
    BY <2>1 DEF Gone
  <2>3. Gone(line) \subseteq ToSet(line) \cap Odds
    <3>1. ToSet(line) \subseteq Positions
      BY <1>1 DEF ToSet
    <3> HIDE DEF x
    <3>2. \A i \in Gone(line) : i \in ToSet(line) /\ (i = x \/ incoming[i].verdict = "field")
      BY DEF Gone, SameUnknownField, x
    <3> QED  BY <2>1, <3>1, <3>2 DEF Odds, Spoiled
  <2> HIDE DEF x
  <2>4. Rest(line) \in Seq(Positions) /\ Len(Rest(line)) < Len(line) /\ ToSet(Rest(line)) = ToSet(line) \ Gone(line)
    BY <1>1, <2>1, <2>2, RestIs DEF Rest
  <2> QED  BY <2>2, <2>3, <2>4 DEF Series
<1> QED  BY <1>1, <1>2, <1>3 DEF Series

\* The functions of rounds
Finders == [Series -> [Int -> Results]]

\* A round has a result
LEMMA RoundTyped ==
    ASSUME IncomingFits, NEW f \in Finders, NEW line \in Series, NEW h \in Int
    PROVE  Round(f, line, h) \in Results
<1> DEFINE says == SingBoxCheck(line).says
           rest == f[Rest(line)][h]
           left == f[Halves(line)[1]][h - 1]
           right == f[Halves(line)[2]][left.halvings]
<1>1. line \in Seq(Positions) /\ ToSet(line) \subseteq Positions
  BY DEF Series, ToSet
<1>2. says \in {"ok", "named", "crash"}
  BY <1>1, CheckIs
<1>3. \A r \in Results : r.bad \subseteq Positions /\ r.halvings \in Int
  BY DEF Results
<1>4. CASE line = <<>> \/ says = "ok"
  <2>1. Round(f, line, h) = Result({}, h, "ok")
    BY <1>4, RoundIs
  <2> QED  BY <2>1, ResultIs
<1>5. CASE ~(line = <<>> \/ says = "ok") /\ Len(line) = 1
  <2>1. Round(f, line, h) = Result({Head(line)}, h, says)
    BY <1>5, RoundIs
  <2>2. {Head(line)} \subseteq Positions
    BY <1>1, <1>5
  <2> HIDE DEF says
  <2> QED  BY <1>2, <2>1, <2>2, ResultIs
<1>6. CASE ~(line = <<>> \/ says = "ok") /\ Len(line) # 1 /\ says = "named"
  <2>1. Rest(line) \in Series /\ Gone(line) \subseteq Positions
    BY <1>1, <1>6, HandsOn
  <2>2. rest \in Results
    BY <2>1 DEF Finders
  <2>3. Round(f, line, h) = Result(Gone(line) \cup rest.bad, rest.halvings, "named")
    BY <1>6, RoundIs
  <2> HIDE DEF rest
  <2>4. Gone(line) \cup rest.bad \subseteq Positions /\ rest.halvings \in Int
    BY <1>3, <2>1, <2>2
  <2> QED  BY <2>3, <2>4, ResultIs
<1>7. CASE ~(line = <<>> \/ says = "ok") /\ Len(line) # 1 /\ says # "named" /\ h <= 0
  <2>1. Round(f, line, h) = Result(OneByOne(line), h, "crash")
    BY <1>7, RoundIs
  <2>2. OneByOne(line) \subseteq Positions
    BY <1>1 DEF OneByOne
  <2> QED  BY <2>1, <2>2, ResultIs
<1>8. CASE ~(line = <<>> \/ says = "ok") /\ Len(line) # 1 /\ says # "named" /\ ~(h <= 0)
  <2>1. Halves(line)[1] \in Series /\ Halves(line)[2] \in Series
    BY <1>8, HandsOn
  <2>2. left \in Results
    BY <2>1 DEF Finders
  <2>3. right \in Results
    <3> HIDE DEF left
    <3>1. left.halvings \in Int
      BY <1>3, <2>2
    <3> QED  BY <2>1, <3>1 DEF Finders
  <2>4. Round(f, line, h) = Result(left.bad \cup right.bad, right.halvings + Back(left, right), "crash")
    BY <1>8, RoundIs
  <2> HIDE DEF left, right
  <2>5. Back(left, right) \in Int
    BY DEF Back
  <2>6. left.bad \cup right.bad \subseteq Positions /\ right.halvings + Back(left, right) \in Int
    BY <1>3, <2>2, <2>3, <2>5
  <2> QED  BY <2>4, <2>6, ResultIs
<1> QED  BY <1>4, <1>5, <1>6, <1>7, <1>8

\* A round depends only on what is found on shorter lists
LEMMA RoundShrinks ==
    ASSUME IncomingFits, NEW f \in Finders, NEW g \in Finders, NEW line \in Series, NEW h \in Int,
           \A l \in Series : Len(l) < Len(line) => f[l] = g[l]
    PROVE  Round(f, line, h) = Round(g, line, h)
<1> DEFINE says == SingBoxCheck(line).says
<1>1. CASE line = <<>> \/ says = "ok" \/ Len(line) = 1
  BY <1>1, RoundIs
<1>2. CASE ~(line = <<>> \/ says = "ok" \/ Len(line) = 1)
  <2>1. f[Halves(line)[1]] = g[Halves(line)[1]] /\ f[Halves(line)[2]] = g[Halves(line)[2]]
    BY <1>2, HandsOn
  <2>2. says = "named" => f[Rest(line)] = g[Rest(line)]
    BY <1>2, HandsOn
  <2> QED  BY <1>2, <2>1, <2>2, RoundIs, Zenon
<1> QED  BY <1>1, <1>2

\* The rounds come to an end: the function of them exists
LEMMA Finder ==
    ASSUME IncomingFits
    PROVE  \E f \in Finders : f = [line \in Series |-> [h \in Int |-> Round(f, line, h)]]
<1> DEFINE R == [Int -> Results]
           F == [f \in Finders |-> [line \in Series |-> [h \in Int |-> Round(f, line, h)]]]
           size == [line \in Series |-> Len(line)]
           r0 == [h \in Int |-> Result({}, h, "ok")]
<1>1. r0 \in R
  <2>1. \A h \in Int : Result({}, h, "ok") \in Results
    BY ResultIs
  <2> QED  BY <2>1
<1>2. size \in [Series -> Nat] /\ \A l \in Series : size[l] = Len(l)
  <2>1. \A l \in Series : Len(l) \in Nat
    BY DEF Series
  <2> QED  BY <2>1
<1>3. Finders = [Series -> R]
  BY DEF Finders
<1>4. F \in [Finders -> Finders]
  <2> SUFFICES ASSUME NEW f \in Finders PROVE [line \in Series |-> [h \in Int |-> Round(f, line, h)]] \in [Series -> [Int -> Results]]
    BY DEF Finders
  <2>1. \A line \in Series, h \in Int : Round(f, line, h) \in Results
    BY RoundTyped
  <2> QED  BY <2>1
<1>5. Shrinks(Series, R, size, F)
  <2>0. R # {} /\ F \in [[Series -> R] -> [Series -> R]]
    BY <1>1, <1>3, <1>4
  <2> SUFFICES ASSUME NEW f \in Finders, NEW g \in Finders, NEW x \in Series,
                      \A y \in Series : size[y] < size[x] => f[y] = g[y]
               PROVE  F[f][x] = F[g][x]
    BY <1>2, <1>3, <2>0 DEF Shrinks
  <2>1. \A y \in Series : Len(y) < Len(x) => f[y] = g[y]
    BY <1>2
  <2>2. \A h \in Int : Round(f, x, h) = Round(g, x, h)
    BY <2>1, RoundShrinks
  <2>3. F[f] = [line \in Series |-> [h \in Int |-> Round(f, line, h)]] /\ F[g] = [line \in Series |-> [h \in Int |-> Round(g, line, h)]]
    OBVIOUS
  <2>4. F[f][x] = [h \in Int |-> Round(f, x, h)] /\ F[g][x] = [h \in Int |-> Round(g, x, h)]
    <3> HIDE DEF F
    <3> QED  BY <2>3
  <2> QED  BY <2>2, <2>4
<1> HIDE DEF R, F, size, r0
<1>6. \E f \in [Series -> R] : f = F[f]
  BY <1>5, Recursive
<1>7. PICK f \in Finders : f = F[f]
  BY <1>3, <1>6
<1>8. F[f] = [line \in Series |-> [h \in Int |-> Round(f, line, h)]]
  BY DEF F
<1> QED  BY <1>7, <1>8

\* What the rounds find on a list, whatever the halvings left
FindsIn(line, taken) ==
    /\ taken.bad \subseteq ToSet(line) \cap Odds /\ taken.halvings \in Int
    /\ taken.bad = {} => ToSet(line) \cap Odds = {}
Finds(f, line) == \A h \in Int : FindsIn(line, f[line][h])

\* A round finds nodes that are refused, and one at least where there is one, if the
\* rounds on shorter lists do
LEMMA RoundFinds ==
    ASSUME IncomingFits, NEW f, NEW line \in Series, \A l \in Series : Len(l) < Len(line) => Finds(f, l), NEW h \in Int
    PROVE  FindsIn(line, Round(f, line, h))
<1> DEFINE says == SingBoxCheck(line).says
           rest == f[Rest(line)][h]
           left == f[Halves(line)[1]][h - 1]
           right == f[Halves(line)[2]][left.halvings]
           all == ToSet(line)
<1>1. line \in Seq(Positions) /\ all \subseteq Positions
  BY DEF Series, ToSet
<1>2. says \in {"ok", "named", "crash"} /\ (says = "ok" <=> all \cap Odds = {})
      /\ (says = "crash" => \E i \in all : incoming[i].verdict = "crash")
  BY <1>1, CheckIs
<1> DEFINE result == Round(f, line, h)
<1> SUFFICES /\ result.bad \subseteq all \cap Odds /\ result.halvings \in Int
             /\ result.bad = {} => all \cap Odds = {}
  BY DEF FindsIn
<1> HIDE DEF says, result
<1>3. CASE line = <<>> \/ says = "ok"
  <2>1. result = Result({}, h, "ok")
    BY <1>3, RoundIs DEF says, result
  <2>2. all \cap Odds = {}
    BY <1>2, <1>3 DEF ToSet
  <2> QED  BY <2>1, <2>2, ResultIs
<1>4. CASE ~(line = <<>> \/ says = "ok") /\ Len(line) = 1
  <2>1. result = Result({Head(line)}, h, says)
    BY <1>4, RoundIs DEF says, result
  <2>2. all = {Head(line)}
    <3>1. DOMAIN line = {1} /\ Head(line) = line[1]
      BY <1>1, <1>4
    <3> QED  BY <3>1 DEF ToSet
  <2>3. result.bad = {Head(line)} /\ result.halvings = h
    BY <2>1, ResultIs
  <2> QED  BY <1>2, <1>4, <2>2, <2>3
<1>5. CASE ~(line = <<>> \/ says = "ok") /\ Len(line) # 1 /\ says = "named"
  <2>1. /\ Rest(line) \in Series /\ Len(Rest(line)) < Len(line) /\ ToSet(Rest(line)) = all \ Gone(line)
        /\ Gone(line) # {} /\ Gone(line) \subseteq all \cap Odds
    BY <1>5, HandsOn DEF says
  <2>2. FindsIn(Rest(line), rest)
    BY <2>1 DEF Finds
  <2> HIDE DEF rest
  <2>3. result = Result(Gone(line) \cup rest.bad, rest.halvings, "named")
    BY <1>5, RoundIs DEF rest, says, result
  <2>4. result.bad = Gone(line) \cup rest.bad /\ result.halvings = rest.halvings
    BY <2>3, ResultIs
  <2>5. rest.bad \subseteq all \cap Odds /\ rest.halvings \in Int
    BY <2>1, <2>2 DEF FindsIn
  <2> HIDE DEF all
  <2> QED  BY <2>1, <2>4, <2>5
<1>6. CASE ~(line = <<>> \/ says = "ok") /\ Len(line) # 1 /\ says # "named" /\ h <= 0
  <2>1. result = Result(OneByOne(line), h, "crash")
    BY <1>6, RoundIs DEF says, result
  <2>2. ASSUME NEW i \in all PROVE i \in OneByOne(line) <=> i \in Odds
    <3>1. <<i>> \in Seq(Positions) /\ ToSet(<<i>>) = {i}
      BY <1>1, <2>2 DEF ToSet
    <3>2. SingBoxCheck(<<i>>).says = "ok" <=> i \notin Odds
      BY <3>1, CheckIs
    <3> QED  BY <2>2, <3>2 DEF OneByOne
  <2>3. OneByOne(line) \subseteq all
    BY DEF OneByOne
  <2>4. result.bad = OneByOne(line) /\ result.halvings = h
    BY <2>1, ResultIs
  <2> HIDE DEF all
  <2>5. OneByOne(line) = all \cap Odds
    BY <2>2, <2>3
  <2> QED  BY <2>4, <2>5
<1>7. CASE ~(line = <<>> \/ says = "ok") /\ Len(line) # 1 /\ says # "named" /\ ~(h <= 0)
  <2>1. /\ Halves(line)[1] \in Series /\ Len(Halves(line)[1]) < Len(line)
        /\ Halves(line)[2] \in Series /\ Len(Halves(line)[2]) < Len(line)
        /\ all = ToSet(Halves(line)[1]) \cup ToSet(Halves(line)[2])
    BY <1>7, HandsOn DEF says
  <2>2. Finds(f, Halves(line)[1]) /\ Finds(f, Halves(line)[2])
    BY <2>1
  <2>3. FindsIn(Halves(line)[1], left)
    <3>1. h - 1 \in Int
      OBVIOUS
    <3> QED  BY <2>2, <3>1 DEF Finds
  <2>4. left.halvings \in Int
    BY <2>3 DEF FindsIn
  <2>5. FindsIn(Halves(line)[2], right)
    <3> HIDE DEF left
    <3> QED  BY <2>2, <2>4 DEF Finds
  <2>6. result = Result(left.bad \cup right.bad, right.halvings + Back(left, right), "crash")
    BY <1>7, RoundIs DEF says, result
  <2> HIDE DEF left, right
  <2>7. result.bad = left.bad \cup right.bad /\ result.halvings = right.halvings + Back(left, right)
    BY <2>6, ResultIs
  <2>8. result.halvings \in Int
    <3>1. Back(left, right) \in Int
      BY DEF Back
    <3>2. right.halvings \in Int
      BY <2>5 DEF FindsIn
    <3> QED  BY <2>7, <3>1, <3>2
  <2> HIDE DEF all
  <2> QED  BY <2>1, <2>3, <2>5, <2>7, <2>8 DEF FindsIn
<1> QED  BY <1>2, <1>3, <1>4, <1>5, <1>6, <1>7

\* What the rounds find are nodes sing-box refuses, and none only when there is none
LEMMA IsolateIs ==
    ASSUME IncomingFits, NEW pending \in Seq(Positions), NEW budget \in Int
    PROVE  /\ Isolate(pending, budget) \subseteq ToSet(pending) \cap Odds
           /\ Isolate(pending, budget) = {} => ToSet(pending) \cap Odds = {}
<1> DEFINE isolate[line \in Seq(Positions)] == [halvings \in Int |-> Round(isolate, line, halvings)]
<1>1. PICK f \in Finders : f = [line \in Seq(Positions) |-> [halvings \in Int |-> Round(f, line, halvings)]]
  BY Finder DEF Series
<1>2. isolate = [line \in Seq(Positions) |-> [halvings \in Int |-> Round(isolate, line, halvings)]]
  BY <1>1
<1>3. Isolate(pending, budget) = isolate[pending][budget].bad
  BY DEF Isolate
<1> HIDE DEF isolate
<1>4. \A l \in Series, h \in Int : isolate[l][h] = Round(isolate, l, h)
  <2>1. \A l \in Series : isolate[l] = [halvings \in Int |-> Round(isolate, l, halvings)]
    BY <1>2 DEF Series
  <2> QED  BY <2>1
<1>5. \A l \in Series : Finds(isolate, l)
  <2> SUFFICES ASSUME NEW x \in Series, ~Finds(isolate, x) PROVE FALSE
    OBVIOUS
  <2> DEFINE bad == {l \in Series : ~Finds(isolate, l)}
             lens == {Len(l) : l \in bad}
  <2>1. \A l \in Series : Len(l) \in Nat
    BY DEF Series
  <2>2. lens \subseteq Nat /\ lens # {}
    BY <2>1
  <2>3. PICK n \in lens : \A m \in lens : n <= m
    BY <2>2, Least
  <2>4. PICK line \in bad : n = Len(line)
    OBVIOUS
  <2>5. \A l \in Series : Len(l) < Len(line) => Finds(isolate, l)
    <3> SUFFICES ASSUME NEW l \in Series, Len(l) < Len(line), ~Finds(isolate, l) PROVE FALSE
      OBVIOUS
    <3>1. Len(l) \in lens
      OBVIOUS
    <3>2. n <= Len(l) /\ Len(l) < n /\ n \in Nat /\ Len(l) \in Nat
      BY <2>1, <2>2, <2>3, <2>4, <3>1
    <3> QED  BY <3>2
  <2>6. \A h \in Int : FindsIn(line, Round(isolate, line, h))
    BY <2>5, RoundFinds
  <2>7. Finds(isolate, line)
    BY <1>4, <2>6 DEF Finds
  <2> QED  BY <2>4, <2>7
<1>6. FindsIn(pending, isolate[pending][budget])
  BY <1>5 DEF Finds, Series
<1> QED  BY <1>3, <1>6 DEF FindsIn

\* The nodes every check accepts on their own
Fine == {i \in Positions : incoming[i].verdict = "ok"}

\* The nodes a config without others refuses, and none only when all are fine
LEMMA RefusedIs ==
    ASSUME IncomingFits, NEW line \in Seq(Positions)
    PROVE  /\ RefusedAlone(line) \subseteq ToSet(line) \ Fine
           /\ RefusedAlone(line) = {} => ToSet(line) \subseteq Fine
<1> DEFINE guarded == {i \in ToSet(line) : incoming[i].verdict = "guard"}
           pending == Only(line, ToSet(line) \ guarded)
           taken == Isolate(pending, Budget(Len(pending)))
<1>1. RefusedAlone(line) = guarded \cup taken
  BY DEF RefusedAlone
<1>2. ToSet(line) \subseteq Positions
  BY DEF ToSet
<1>3. pending \in Seq(Positions) /\ ToSet(pending) = ToSet(line) \ guarded
  <2> DEFINE T == ToSet(line) \ guarded
  <2>1. T \subseteq ToSet(line)
    OBVIOUS
  <2> HIDE DEF T
  <2> DEFINE t == Only(line, T)
  <2>2. /\ t \in Seq(Positions)
        /\ \A k \in 1 .. Len(t) : \E i \in 1 .. Len(line) : t[k] = line[i] /\ line[i] \in T
        /\ \A i \in 1 .. Len(line) : line[i] \in T => \E k \in 1 .. Len(t) : t[k] = line[i]
    BY OnlyThose
  <2> HIDE DEF t
  <2>3. DOMAIN t = 1 .. Len(t) /\ DOMAIN line = 1 .. Len(line)
    BY <2>2
  <2>4. \A y \in ToSet(t) : y \in T
    BY <2>2, <2>3 DEF ToSet
  <2>5. ASSUME NEW y \in T PROVE y \in ToSet(t)
    <3>1. PICK i \in 1 .. Len(line) : line[i] = y
      BY <2>1, <2>3 DEF ToSet
    <3> QED  BY <2>2, <2>3, <2>5, <3>1 DEF ToSet
  <2> QED  BY <2>2, <2>4, <2>5 DEF t, T
<1>4. Budget(Len(pending)) \in Int
  <2> DEFINE n == Len(pending)
             B == {b \in 0 .. n : 2^b <= n}
  <2>1. n \in Nat
    BY <1>3
  <2> HIDE DEF n
  <2>2. IsFiniteSet(0 .. n)
    BY <2>1, FS_Interval
  <2>3. B \subseteq 0 .. n
    OBVIOUS
  <2>4. Bits(n) = Cardinality(B)
    BY DEF Bits
  <2> HIDE DEF B
  <2>5. Cardinality(B) \in Nat
    BY <2>2, <2>3, FS_Subset, FS_CardinalityType
  <2>6. Budget(n) \in Int
    BY <2>4, <2>5 DEF Budget
  <2> QED  BY <2>6 DEF n
<1> HIDE DEF pending
<1>5. /\ taken \subseteq ToSet(pending) \cap Odds
      /\ taken = {} => ToSet(pending) \cap Odds = {}
  BY <1>3, <1>4, IsolateIs
<1> HIDE DEF taken
<1>6. \A i \in ToSet(line) : /\ i \in Odds => i \notin Fine
                             /\ i \in guarded => i \notin Fine
                             /\ i \notin guarded /\ i \notin Odds => i \in Fine
  <2> SUFFICES ASSUME NEW i \in ToSet(line) PROVE /\ i \in Odds => i \notin Fine
                                                  /\ i \in guarded => i \notin Fine
                                                  /\ i \notin guarded /\ i \notin Odds => i \in Fine
    OBVIOUS
  <2>1. i \in Positions /\ incoming[i].verdict \in Verdicts
    BY <1>2 DEF IncomingFits
  <2> QED  BY <2>1 DEF Odds, Fine, Spoiled, Verdicts
<1>7. guarded \subseteq ToSet(line)
  OBVIOUS
<1> HIDE DEF guarded
<1> QED  BY <1>1, <1>3, <1>5, <1>6, <1>7

\* What is left out with nodes: no more than a set the chains stay in
LEMMA ChainedIs ==
    ASSUME IncomingFits, NEW K \in SUBSET Positions, \A i \in Positions : incoming[i].detour \in K => i \in K,
           NEW bad \in SUBSET K
    PROVE  Chained(bad) \subseteq K
<1> DEFINE N == Len(incoming)
           F == [s \in SUBSET K |-> s \cup {i \in Positions : incoming[i].detour \in s}]
           gone[n \in 0 .. N] ==
              IF n = 0 THEN bad
              ELSE LET former == gone[n - 1] IN former \cup {i \in Positions : incoming[i].detour \in former}
<1>1. N \in Nat
  BY DEF IncomingFits
<1>2. F \in [SUBSET K -> SUBSET K] /\ bad \in SUBSET K
  OBVIOUS
<1>3. \A s \in SUBSET K : F[s] = s \cup {i \in Positions : incoming[i].detour \in s}
  OBVIOUS
<1>4. PICK f : Iterates(SUBSET K, F, bad, N, f)
  <2> HIDE DEF F, N
  <2> QED  BY <1>1, <1>2, Iterated
<1>5. f \in [0 .. N -> SUBSET K] /\ \A k \in 0 .. N : f[k] = IF k = 0 THEN bad ELSE F[f[k - 1]]
  <2> HIDE DEF F, N
  <2> QED  BY <1>4 DEF Iterates
<1>6. \A k \in 0 .. N : f[k] = IF k = 0 THEN bad ELSE f[k - 1] \cup {i \in Positions : incoming[i].detour \in f[k - 1]}
  <2> SUFFICES ASSUME NEW k \in 0 .. N
               PROVE f[k] = IF k = 0 THEN bad ELSE f[k - 1] \cup {i \in Positions : incoming[i].detour \in f[k - 1]}
    OBVIOUS
  <2> HIDE DEF F, N
  <2>1. k # 0 => k - 1 \in 0 .. N
    BY <1>1
  <2> QED  BY <1>3, <1>5, <2>1
<1>7. f = [n \in 0 .. N |-> IF n = 0 THEN bad
                            ELSE LET former == f[n - 1] IN former \cup {i \in Positions : incoming[i].detour \in former}]
  <2> HIDE DEF F, N
  <2> QED  BY <1>5, <1>6
<1>8. gone = [n \in 0 .. N |-> IF n = 0 THEN bad
                            ELSE LET former == gone[n - 1] IN former \cup {i \in Positions : incoming[i].detour \in former}]
  <2> HIDE DEF F, N
  <2> QED  BY <1>7
<1>9. Chained(bad) = gone[N]
  BY DEF Chained
<1>10. \A n \in 0 .. N : gone[n] = IF n = 0 THEN bad
                            ELSE gone[n - 1] \cup {i \in Positions : incoming[i].detour \in gone[n - 1]}
  <2> HIDE DEF N
  <2>1. \A n \in 0 .. N : gone[n] = IF n = 0 THEN bad
                            ELSE LET former == gone[n - 1] IN former \cup {i \in Positions : incoming[i].detour \in former}
    BY <1>8
  <2> HIDE DEF gone
  <2> QED  BY <2>1
<1> HIDE DEF gone, N
<1> DEFINE S == {n \in Nat : gone[n] \subseteq K}
<1>11. 0 \in S
  <2>1. 0 \in 0 .. N /\ 0 \in Nat
    BY <1>1
  <2>2. gone[0] = bad
    BY <1>10, <2>1
  <2> QED  BY <2>1, <2>2
<1>12. ASSUME NEW n \in 0 .. N, n \in S, n < N PROVE n + 1 \in S
  <2>1. n + 1 \in 0 .. N /\ n + 1 # 0 /\ (n + 1) - 1 = n
    BY <1>1, <1>12
  <2>2. gone[n + 1] = gone[n] \cup {i \in Positions : incoming[i].detour \in gone[n]}
    <3>1. gone[n + 1] = IF n + 1 = 0 THEN bad
                        ELSE gone[(n + 1) - 1] \cup {i \in Positions : incoming[i].detour \in gone[(n + 1) - 1]}
      BY Zenon, <1>10, <2>1
    <3> QED  BY Zenon, <2>1, <3>1
  <2>3. gone[n] \subseteq K
    BY <1>12
  <2>4. gone[n + 1] \subseteq K
    BY <2>2, <2>3
  <2> QED  BY <2>4
<1>13. \A n \in 0 .. N : n \in S
  <2> HIDE DEF S
  <2> QED  BY <1>1, <1>11, <1>12, UpTo
<1>14. gone[N] \subseteq K
  BY <1>1, <1>13
<1> QED  BY <1>9, <1>14

\* The tags in rings are the ones that depend on themselves
LEMMA InRings ==
    ASSUME NEW graph, IsFiniteSet(DOMAIN graph), NEW t
    PROVE  t \in UNION Rings(graph) <=> t \in DOMAIN graph /\ t \in DependsOn(graph, t)
<1> DEFINE deps == [x \in DOMAIN graph |-> DependsOn(graph, x)]
           ring(x) == {u \in deps[x] \cap DOMAIN graph : x \in deps[u]}
<1>1. Rings(graph) = {ring(x) : x \in {x \in DOMAIN graph : x \in deps[x]}}
  BY DEF Rings
<1>2. \A x \in DOMAIN graph : deps[x] = DependsOn(graph, x)
  OBVIOUS
<1> HIDE DEF deps
<1>3. ASSUME NEW x \in DOMAIN graph, x \in deps[x], t \in ring(x) PROVE t \in DOMAIN graph /\ t \in DependsOn(graph, t)
  <2>1. t \in DOMAIN graph /\ t \in DependsOn(graph, x) /\ x \in DependsOn(graph, t)
    BY <1>2, <1>3
  <2> QED  BY <2>1, DependsFurther
<1>4. ASSUME t \in DOMAIN graph, t \in DependsOn(graph, t) PROVE t \in ring(t) /\ t \in deps[t]
  BY <1>2, <1>4
<1> HIDE DEF ring
<1> QED  BY <1>1, <1>3, <1>4

\* What starts in a graph starts in one that has more
LEMMA StartsIn ==
    ASSUME NEW g, IsFiniteSet(DOMAIN g), NEW h, IsFiniteSet(DOMAIN h),
           \A t \in DOMAIN g : t \in DOMAIN h /\ h[t] = g[t]
    PROVE  Started(g) \subseteq Started(h)
<1>1. Started(h) = Startable(h, Started(h))
  BY StartedIs
<1>2. Startable(g, Started(h)) \subseteq Started(h)
  BY <1>1 DEF Startable
<1> QED  BY <1>2, StartedIs

AroundFits ==
    /\ IsFiniteSet(DOMAIN around) /\ DOMAIN around \cap Positions = {}
    /\ Started([t \in DOMAIN around |-> {around[t]} \ {None}]) = DOMAIN around

\* The graph of a merge
LEMMA MergedIs ==
    ASSUME IncomingFits, AroundFits, NEW nodes \in SUBSET Positions
    PROVE  /\ DOMAIN Merged(nodes) = nodes \cup DOMAIN around /\ IsFiniteSet(DOMAIN Merged(nodes))
           /\ \A t \in nodes : Merged(nodes)[t] = {incoming[t].detour} \ {None}
           /\ \A t \in DOMAIN around : Merged(nodes)[t] = {around[t]} \ {None}
           /\ DOMAIN around \subseteq Started(Merged(nodes))
<1>1. DOMAIN Merged(nodes) = nodes \cup DOMAIN around
  BY DEF Merged
<1>2. IsFiniteSet(DOMAIN Merged(nodes))
  <2>1. IsFiniteSet(Positions)
    BY FS_Interval DEF IncomingFits
  <2>2. IsFiniteSet(nodes)
    BY <2>1, FS_Subset
  <2>3. IsFiniteSet(DOMAIN around)
    BY DEF AroundFits
  <2>4. IsFiniteSet(nodes \cup DOMAIN around)
    BY <2>2, <2>3, FS_Union
  <2> QED  BY <1>1, <2>4
<1>3. \A t \in nodes : Merged(nodes)[t] = {incoming[t].detour} \ {None}
  BY DEF Merged
<1>4. \A t \in DOMAIN around : Merged(nodes)[t] = {around[t]} \ {None}
  BY DEF Merged, AroundFits
<1>5. DOMAIN around \subseteq Started(Merged(nodes))
  <2> DEFINE g == [t \in DOMAIN around |-> {around[t]} \ {None}]
  <2>1. DOMAIN g = DOMAIN around /\ IsFiniteSet(DOMAIN g) /\ Started(g) = DOMAIN around
    BY DEF AroundFits
  <2>2. \A t \in DOMAIN g : t \in DOMAIN Merged(nodes) /\ Merged(nodes)[t] = g[t]
    BY <1>1, <1>4
  <2> HIDE DEF g
  <2> QED  BY <1>2, <2>1, <2>2, StartsIn
<1> QED  BY <1>1, <1>2, <1>3, <1>4, <1>5

\* What starts beside the fine nodes: the sound ones and the config around
LEMMA SoundIs ==
    ASSUME IncomingFits, AroundFits
    PROVE  /\ Sound \subseteq Fine /\ Started(Merged(Fine)) = Sound \cup DOMAIN around
           /\ \A t \in Sound \cup DOMAIN around : Merged(Fine)[t] \subseteq Sound \cup DOMAIN around
           /\ \A i \in Sound : incoming[i].detour \in Positions => incoming[i].detour \in Sound
<1>1. Fine \in SUBSET Positions
  BY DEF Fine
<1>2. Sound = Started(Merged(Fine)) \cap Positions
  BY DEF Sound, Fine
<1> DEFINE g == Merged(Fine)
<1>8. DOMAIN g = Fine \cup DOMAIN around /\ IsFiniteSet(DOMAIN g) /\ \A t \in Fine : g[t] = {incoming[t].detour} \ {None}
  BY <1>1, MergedIs
<1>9. \A t \in Started(g) : t \in DOMAIN g /\ g[t] \subseteq Started(g)
  <2> HIDE DEF g
  <2>1. Started(g) = Startable(g, Started(g))
    BY <1>8, StartedIs
  <2> QED  BY <2>1 DEF Startable
<1>3. Started(g) \subseteq Fine \cup DOMAIN around
  BY <1>8, <1>9
<1>4. DOMAIN around \subseteq Started(Merged(Fine))
  BY <1>1, MergedIs
<1>5. Started(Merged(Fine)) = Sound \cup DOMAIN around /\ Sound \subseteq Fine
  BY <1>1, <1>2, <1>3, <1>4 DEF AroundFits
<1>6. \A t \in Started(g) : g[t] \subseteq Started(g)
  BY <1>9
<1>7. ASSUME NEW i \in Sound, incoming[i].detour \in Positions PROVE incoming[i].detour \in Sound
  <2>1. incoming[i].detour \in g[i]
    <3>1. i \in Fine /\ incoming[i].detour # None
      BY <1>5, <1>7 DEF IncomingFits
    <3> HIDE DEF g
    <3> QED  BY <1>8, <3>1
  <2>2. incoming[i].detour \in Started(Merged(Fine))
    BY <1>5, <1>6, <2>1
  <2> QED  BY <1>2, <1>7, <2>2
<1> QED  BY <1>5, <1>6, <1>7

\* Whom the dependency check blames
LEMMA BlamedIs ==
    ASSUME IncomingFits, AroundFits, NEW nodes \in SUBSET Positions, Sound \subseteq nodes
    PROVE  /\ Blamed(nodes) \subseteq nodes \ Sound
           /\ Blamed(nodes) = {} /\ nodes \subseteq Fine => nodes = Sound
<1> DEFINE graph == Merged(nodes)
           known == [t \in DOMAIN graph |-> graph[t] \cap DOMAIN graph]
           ok == Sound \cup DOMAIN around
           fine == Merged(Fine)
<1>1. /\ DOMAIN graph = nodes \cup DOMAIN around /\ IsFiniteSet(DOMAIN graph)
      /\ \A t \in nodes : graph[t] = {incoming[t].detour} \ {None}
      /\ \A t \in DOMAIN around : graph[t] = {around[t]} \ {None}
  BY MergedIs
<1>2. /\ DOMAIN fine = Fine \cup DOMAIN around /\ IsFiniteSet(DOMAIN fine)
      /\ \A t \in Fine : fine[t] = {incoming[t].detour} \ {None}
      /\ \A t \in DOMAIN around : fine[t] = {around[t]} \ {None}
  <2>1. Fine \in SUBSET Positions
    BY DEF Fine
  <2> QED  BY <2>1, MergedIs
<1>3. /\ Sound \subseteq Fine /\ Started(fine) = ok /\ \A t \in ok : fine[t] \subseteq ok
  BY SoundIs
<1>4. DOMAIN known = DOMAIN graph /\ \A t \in DOMAIN graph : known[t] = graph[t] \cap DOMAIN graph
  OBVIOUS
<1>5. \A t : t \in Blamed(nodes) <=> t \in DOMAIN graph /\ (~(graph[t] \subseteq DOMAIN graph) \/ t \in DependsOn(known, t))
  <2>1. Blamed(nodes) = {t \in DOMAIN graph : ~(graph[t] \subseteq DOMAIN graph)} \cup (UNION Rings(known))
    BY DEF Blamed
  <2> HIDE DEF known
  <2>2. \A t : t \in UNION Rings(known) <=> t \in DOMAIN graph /\ t \in DependsOn(known, t)
    BY <1>1, <1>4, InRings
  <2> HIDE DEF graph
  <2> QED  BY <2>1, <2>2
<1>6. ok \subseteq DOMAIN graph /\ \A t \in ok : t \in DOMAIN fine /\ graph[t] = fine[t]
  BY <1>1, <1>2, <1>3
<1> HIDE DEF graph, known, fine, ok
<1>7. ASSUME NEW t \in ok PROVE t \notin Blamed(nodes)
  <2>1. graph[t] \subseteq DOMAIN graph
    BY <1>3, <1>6
  <2>2. t \notin DependsOn(fine, t) /\ DependsOn(fine, t) \subseteq ok
    BY <1>2, <1>3, StartedNoRing
  <2>3. \A x \in {t} \cup DependsOn(fine, t) : x \in ok
    BY <2>2
  <2>4. \A x \in ok : OneStep(fine, {x}) = OneStep(known, {x})
    <3> SUFFICES ASSUME NEW x \in ok, NEW u PROVE u \in OneStep(fine, {x}) <=> u \in OneStep(known, {x})
      OBVIOUS
    <3>1. x \in DOMAIN fine /\ x \in DOMAIN known /\ known[x] = fine[x]
      BY <1>3, <1>4, <1>6
    <3> QED  BY <3>1, OneStepIs
  <2>5. DependsOn(known, t) = DependsOn(fine, t)
    BY <1>1, <1>2, <1>4, <2>3, <2>4, SameDependsOn
  <2> QED  BY <1>5, <2>1, <2>2, <2>5
<1>8. Blamed(nodes) \subseteq nodes \ Sound
  BY <1>1, <1>5, <1>7 DEF ok
<1>9. ASSUME Blamed(nodes) = {}, nodes \subseteq Fine PROVE nodes = Sound
  <2>1. \A t \in DOMAIN graph : graph[t] \subseteq DOMAIN graph /\ t \notin DependsOn(known, t)
    BY <1>5, <1>9
  <2>2. \A t \in DOMAIN known : known[t] \subseteq DOMAIN known /\ t \notin DependsOn(known, t)
    BY <1>4, <2>1
  <2>3. DOMAIN known \subseteq Started(known)
    BY <1>1, <1>4, <2>2, AllStart
  <2>4. \A t \in DOMAIN known : t \in DOMAIN fine /\ fine[t] = known[t]
    BY <1>1, <1>2, <1>4, <1>9, <2>1
  <2>5. Started(known) \subseteq Started(fine)
    BY <1>1, <1>2, <1>4, <2>4, StartsIn
  <2>6. nodes \subseteq ok
    BY <1>1, <1>3, <1>4, <2>3, <2>5
  <2> QED  BY <2>6 DEF ok, AroundFits
<1> QED  BY <1>8, <1>9

\* What is left out at every pass: never a sound node
MergeInv ==
    /\ incoming \in Incomings /\ around \in Arounds
    /\ out \subseteq Positions \ Sound
    /\ GoodNodesAreSaved

\* The nodes of a behaviour are the assumed ones
LEMMA Fits ==
    ASSUME incoming \in Incomings, around \in Arounds
    PROVE  IncomingFits /\ AroundFits
BY IncomingAssumption, AroundAssumption DEF IncomingAssumption, AroundAssumption, IncomingFits,
   AroundFits, Positions

\* The nodes of a pass, in their order
LEMMA WorkIs ==
    ASSUME IncomingFits
    PROVE  Work \in Seq(Positions) /\ ToSet(Work) = Left
<1> DEFINE s == [i \in Positions |-> i]
           n == Len(incoming)
<1>1. n \in Nat /\ Positions = 1 .. n
  BY DEF IncomingFits
<1>2. s \in Seq(Positions) /\ Len(s) = n /\ \A i \in 1 .. n : s[i] = i
  <2> HIDE DEF n
  <2> QED  BY <1>1
<1> HIDE DEF s
<1> DEFINE t == Only(s, Left)
<1>3. /\ t \in Seq(Positions)
      /\ \A k \in 1 .. Len(t) : \E i \in 1 .. Len(s) : t[k] = s[i] /\ s[i] \in Left
      /\ \A i \in 1 .. Len(s) : s[i] \in Left => \E k \in 1 .. Len(t) : t[k] = s[i]
  <2>1. s \in Seq(Positions)
    BY <1>2
  <2> QED  BY <2>1, OnlyThose
<1> HIDE DEF t
<1>4. DOMAIN t = 1 .. Len(t)
  BY <1>3
<1>5. \A y \in ToSet(t) : y \in Left
  BY <1>3, <1>4 DEF ToSet
<1>6. ASSUME NEW y \in Left PROVE y \in ToSet(t)
  <2>1. y \in 1 .. Len(s) /\ s[y] = y
    BY <1>1, <1>2 DEF Left
  <2> QED  BY <1>3, <1>4, <1>6, <2>1 DEF ToSet
<1>7. Work = t
  BY DEF Work, t, s
<1> QED  BY <1>3, <1>5, <1>6, <1>7

\* A pass that finds whom to blame, or nobody
LEMMA LeavesSound ==
    ASSUME MergeInv, UNCHANGED <<incoming, around>>, NEW bad, bad \subseteq Left \ Sound, bad = {} => Left = Sound,
           merge = "merging", Leave(bad), Sound' = Sound, Positions' = Positions
    PROVE  MergeInv'
<1>1. IncomingFits /\ AroundFits /\ out \subseteq Positions \ Sound
  BY Fits DEF MergeInv
<1>2. CASE bad = {}
  <2>1. merge' = "refused" /\ out' = out
    BY <1>2 DEF Leave
  <2>2. Left' = Left
    BY <2>1 DEF Left
  <2> QED  BY <1>1, <1>2, <2>1, <2>2 DEF MergeInv, GoodNodesAreSaved
<1>3. CASE bad # {}
  <2>1. merge' = "merging" /\ out' = Chained(out \cup bad)
    BY <1>3 DEF Leave
  <2>2. \A i \in Positions : incoming[i].detour \in Positions \ Sound => i \in Positions \ Sound
    BY <1>1, SoundIs
  <2>3. out \cup bad \in SUBSET (Positions \ Sound)
    BY <1>1 DEF Left
  <2>4. Chained(out \cup bad) \subseteq Positions \ Sound
    <3> DEFINE K == Positions \ Sound
    <3>1. K \in SUBSET Positions
      OBVIOUS
    <3> HIDE DEF K
    <3>2. Chained(out \cup bad) \subseteq K
      BY <1>1, <2>2, <2>3, <3>1, ChainedIs DEF K
    <3> QED  BY <3>2 DEF K
  <2> QED  BY <2>1, <2>4 DEF MergeInv, GoodNodesAreSaved
<1> QED  BY <1>2, <1>3

\* Which nodes are sound is settled at the start
LEMMA SameSound == UNCHANGED <<incoming, around>> => Sound' = Sound /\ Positions' = Positions
BY DEF Sound, Positions, Merged

\* A pass keeps the invariant: it blames none but nodes that are not sound
LEMMA MergeStep == MergeInv /\ [MergeNext]_mergeVars => MergeInv'
<1> SUFFICES ASSUME MergeInv, [MergeNext]_mergeVars PROVE MergeInv'
  OBVIOUS
<1>1. IncomingFits /\ AroundFits /\ out \subseteq Positions \ Sound /\ Sound \subseteq Left /\ Left \subseteq Positions
      /\ Sound \subseteq Fine
  <2>1. IncomingFits /\ AroundFits
    BY Fits DEF MergeInv
  <2>2. Sound \subseteq Fine
    BY <2>1, SoundIs
  <2> QED  BY <2>1, <2>2 DEF MergeInv, Left, Fine
<1>2. /\ Blamed(Left) \subseteq Left \ Sound
      /\ Blamed(Left) = {} /\ Left \subseteq Fine => Left = Sound
  BY <1>1, BlamedIs
<1>3. /\ RefusedAlone(Work) \subseteq Left \ Fine
      /\ RefusedAlone(Work) = {} => Left \subseteq Fine
  <2>1. Work \in Seq(Positions) /\ ToSet(Work) = Left
    BY <1>1, WorkIs
  <2>2. /\ RefusedAlone(Work) \subseteq ToSet(Work) \ Fine
        /\ RefusedAlone(Work) = {} => ToSet(Work) \subseteq Fine
    BY <1>1, <2>1, RefusedIs
  <2> QED  BY <2>1, <2>2
<1>4. CASE AllLeftOut
  BY <1>1, <1>4, SameSound DEF AllLeftOut, MergeInv, GoodNodesAreSaved, Left
<1>5. CASE PassGuard
  <2>1. /\ merge = "merging" /\ Leave(RefusedAlone(Work)) /\ UNCHANGED <<incoming, around>>
        /\ \E i \in Left : incoming[i].verdict = "guard"
    BY <1>5 DEF PassGuard, Merging
  <2>2. RefusedAlone(Work) # {}
    BY <1>1, <1>3, <2>1 DEF Fine
  <2> QED  BY <1>1, <1>3, <2>1, <2>2, LeavesSound, SameSound
<1>6. CASE PassDependencies
  <2>1. /\ merge = "merging" /\ Blamed(Left) # {} /\ Leave(Blamed(Left) \cap Left) /\ UNCHANGED <<incoming, around>>
    BY <1>6 DEF PassDependencies, Merging
  <2>2. Blamed(Left) \cap Left = Blamed(Left)
    BY <1>2
  <2> QED  BY <1>2, <2>1, <2>2, LeavesSound, SameSound
<1>7. ASSUME NEW fine \in BOOLEAN, PassSingBox(fine) PROVE MergeInv'
  <2>1. merge = "merging" /\ Blamed(Left) = {} /\ UNCHANGED <<incoming, around>>
    BY <1>7 DEF PassSingBox, Merging
  <2>2. \/ merge' = "saved" /\ out' = out /\ \A i \in Left : incoming[i].verdict = "ok"
        \/ Leave(RefusedAlone(Work))
    BY <1>7 DEF PassSingBox
  <2>3. CASE merge' = "saved" /\ out' = out /\ \A i \in Left : incoming[i].verdict = "ok"
    <3>1. Left = Sound
      BY <1>1, <1>2, <2>1, <2>3 DEF Fine
    <3>2. Left' = Left
      BY <2>1, <2>3, SameSound DEF Left
    <3> QED  BY <2>1, <2>3, <3>1, <3>2, SameSound DEF MergeInv, GoodNodesAreSaved
  <2>4. CASE Leave(RefusedAlone(Work))
    <3>1. RefusedAlone(Work) = {} => Left = Sound
      BY <1>2, <1>3, <2>1
    <3>2. RefusedAlone(Work) \subseteq Left \ Sound
      BY <1>1, <1>3
    <3> QED  BY <2>1, <2>4, <3>1, <3>2, LeavesSound, SameSound
  <2> QED  BY <2>2, <2>3, <2>4
<1>8. CASE UNCHANGED mergeVars
  <2>1. out' = out /\ merge' = merge /\ UNCHANGED <<incoming, around>> /\ Left' = Left
    BY <1>8, SameSound DEF mergeVars, Left
  <2> QED  BY <2>1, SameSound DEF MergeInv, GoodNodesAreSaved
<1> QED  BY <1>4, <1>5, <1>6, <1>7, <1>8 DEF MergeNext

\* For any nodes, references between them and answers of the checks: what a merge
\* saves is every node that is sound, and whatever is left out, a sound node never is
\* (saveMerged, refusedAlone and isolate of refusal.go).
THEOREM GoodNodesSaved == MergeSpec => []GoodNodesAreSaved
<1>1. MergeInit => MergeInv
  BY DEF MergeInit, MergeInv, GoodNodesAreSaved
<1>2. MergeInv => GoodNodesAreSaved
  BY DEF MergeInv
<1> QED  BY <1>1, <1>2, MergeStep, PTL DEF MergeSpec

==============================================================================
