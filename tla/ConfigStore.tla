----------------------------- MODULE ConfigStore -----------------------------
(* The files of the configuration editor (configfile/editor.go): config.json, *)
(* its .bak and the history of versions, one file operation at a time. A file *)
(* is whole (a document), Absent, or Partial while it is written and after a  *)
(* write that stopped half way. DPIBypass adds the operations.                *)
EXTENDS Naturals, FiniteSets, FiniteSetsExt, Sequences, SequencesExt, Functions

CONSTANTS
    Docs,           \* the documents
    Absent, Partial,
    Keep,           \* ConfigHistoryKeep
    MaxClock,       \* bounds the readings of the clock, and so the saves
    MaxFailures,    \* bounds failing file operations and crashes
    MaxForeign      \* bounds the edits by other programs and the changes of the clock

ASSUME StoreAssumption ==
    /\ Absent \notin Docs /\ Partial \notin Docs /\ Absent # Partial
    /\ Keep \in Nat \ {0}
    /\ MaxClock \in Nat \ {0} /\ MaxFailures \in Nat /\ MaxForeign \in Nat

VARIABLES
    conf, bak,      \* config.json and config.json.bak
    history,        \* config-history: a function from time stamps to contents
    clock,
    phase,          \* the next file operation of the save under way
    from, to,       \* its document as it was read, and the one to be written
    name,           \* the time stamp of its archived version
    failures, foreign,
    \* history variables
    before,         \* what was read from the config.json that is now Partial
    newest,         \* the last Keep time stamps, in the order they were given
    setBack         \* the clock was set back

files == <<conf, bak, history>>
save == <<phase, from, to, name>>
storeVars == <<files, clock, save, failures, foreign, before, newest, setBack>>

Fail == failures < MaxFailures /\ failures' = failures + 1
Meddle == foreign < MaxForeign /\ foreign' = foreign + 1

\* mutant: the clock as it is, also when a version has this name
StampNow == clock

\* The first free name from now on
Stamp == CHOOSE s \in clock .. clock + Cardinality(DOMAIN history) :
            /\ s \notin DOMAIN history
            /\ \A r \in clock .. s - 1 : r \in DOMAIN history

\* mutant: the first value of the file is taken for the document
Parses(file) == file # Absent
Whole(file) == file \in Docs

Put(h, s, content) == [r \in DOMAIN h \cup {s} |-> IF r = s THEN content ELSE h[r]]

-----------------------------------------------------------------------------
(* save: load and check have passed, then the files one by one *)

\* The clock may stand still between saves, but not for a whole history: each
\* save waits for a sing-box check
Reading ==
    /\ clock' \in {clock, clock + 1} /\ clock' <= MaxClock
    /\ clock' = clock => Cardinality({s \in DOMAIN history : s >= clock}) < Keep

Begin(d) ==
    /\ phase = "idle" /\ conf \in Docs
    /\ Reading
    /\ phase' = "backup" /\ from' = conf /\ to' = d
    /\ UNCHANGED <<files, name, failures, foreign, before, newest, setBack>>

Backup ==
    \/ /\ phase = "backup" /\ phase' = "backing"
       /\ bak' = Partial
    \/ /\ phase = "backing" /\ phase' = "archive"
       /\ bak' = from

Archive ==
    \/ /\ phase = "archive" /\ phase' = "archiving"
       /\ name' = Stamp
       /\ history' = Put(history, name', Partial)
       /\ newest' = LET all == Append(newest, name')
                    IN IF Len(all) > Keep THEN Tail(all) ELSE all
    \/ /\ phase = "archiving" /\ phase' = "prune"
       /\ history' = Put(history, name, from)
       /\ UNCHANGED <<name, newest>>

Prune ==
    /\ phase = "prune"
    /\ IF Cardinality(DOMAIN history) > Keep
       THEN /\ history' = [s \in DOMAIN history \ {Min(DOMAIN history)} |-> history[s]]
            /\ phase' = phase
       ELSE phase' = "write" /\ history' = history

Write ==
    \/ /\ phase = "write" /\ phase' = "writing"
       /\ conf' = Partial /\ before' = from
    \/ /\ phase = "writing" /\ phase' = "done"
       /\ conf' = to /\ before' = Absent

\* mutant: a failed backup does not stop the save
GoesOn(p) == IF p = "backing" THEN "archive" ELSE IF p = "archiving" THEN "write" ELSE "failed"
\* What a failing file operation leads to: a version that cannot be archived
\* or pruned does not block the save
AfterFailure(p) == IF p \in {"archive", "archiving", "prune"} THEN "write" ELSE "failed"

Fails ==
    /\ phase \notin {"idle", "done", "failed"} /\ Fail
    /\ phase' = AfterFailure(phase)
    \* createExclusive removes its file
    /\ conf' = IF phase = "writing" /\ from = Absent THEN Absent ELSE conf
    /\ UNCHANGED <<bak, history, from, to, name, newest, before>>

\* CreateConfig has found no config.json; its document is checked
Create(d) ==
    /\ phase = "idle" /\ conf = Absent
    /\ phase' = "link" /\ from' = Absent /\ to' = d
    /\ UNCHANGED <<files, clock, name, failures, foreign, before, newest, setBack>>

\* What a link or an exclusive create asks of its target
Vacant(c) == c = Absent

\* The finished file is linked into place; a file system without links gets an
\* exclusive create
Link ==
    /\ phase = "link"
    /\ \/ /\ ~Vacant(conf) /\ phase' = "failed" /\ conf' = conf
       \/ /\ Vacant(conf) /\ phase' = "done" /\ conf' = to
       \/ /\ Vacant(conf) /\ phase' = "writing" /\ conf' = Partial
    /\ before' = before

FileStep ==
    \/ Backup /\ UNCHANGED <<conf, history, name, newest, before, failures>>
    \/ Archive /\ UNCHANGED <<conf, bak, before, failures>>
    \/ Prune /\ UNCHANGED <<conf, bak, name, newest, before, failures>>
    \/ Write /\ UNCHANGED <<bak, history, name, newest, failures>>
    \/ Link /\ UNCHANGED <<bak, history, name, newest, failures>>
    \/ Fails

Files == FileStep /\ UNCHANGED <<from, to, clock, foreign, setBack>>

Return ==
    /\ phase \in {"done", "failed"}
    /\ phase' = "idle" /\ from' = Absent /\ to' = Absent /\ name' = 0
    /\ UNCHANGED <<files, clock, failures, foreign, before, newest, setBack>>

\* The application ends inside the save
Crash ==
    /\ Fail
    /\ phase' = "idle" /\ from' = Absent /\ to' = Absent /\ name' = 0
    /\ UNCHANGED <<files, clock, foreign, before, newest, setBack>>

\* Another program writes or removes config.json
Foreign(d) ==
    /\ phase # "writing" /\ d # conf /\ Meddle
    /\ conf' = d /\ before' = Absent
    /\ UNCHANGED <<bak, history, clock, save, failures, newest, setBack>>

\* The clock is local time: it is set back every autumn
SetBack ==
    /\ phase = "idle" /\ clock > 0 /\ Meddle
    /\ clock' \in 0 .. clock - 1
    /\ setBack' = TRUE
    /\ UNCHANGED <<files, save, failures, before, newest>>

StoreInit ==
    /\ conf \in Docs \cup {Absent}
    /\ bak = Absent /\ history = [s \in {} |-> Absent] /\ clock = 1
    /\ phase = "idle" /\ from = Absent /\ to = Absent /\ name = 0
    /\ failures = 0 /\ foreign = 0
    /\ before = Absent /\ newest = <<>> /\ setBack = FALSE

-----------------------------------------------------------------------------
(* Properties *)

File == Docs \cup {Absent, Partial}

StoreTypeOK ==
    /\ conf \in File /\ bak \in File
    /\ from \in Docs \cup {Absent} /\ to \in Docs \cup {Absent} /\ before \in Docs \cup {Absent}
    /\ DOMAIN history \subseteq Nat /\ \A s \in DOMAIN history : history[s] \in Docs \cup {Partial}
    /\ clock \in 0 .. MaxClock /\ name \in Nat /\ newest \in Seq(Nat)
    /\ phase \in {"idle", "backup", "backing", "archive", "archiving", "prune", "write",
                  "writing", "link", "done", "failed"}
    /\ setBack \in BOOLEAN

HalfWrittenHasBackup == conf = Partial /\ before # Absent => bak = before

NewestAreKept ==
    ~setBack => IsInjective(newest) /\ Range(newest) \subseteq DOMAIN history

\* There is a way back. A config.json that a failed save or a crash has left
\* half written can be had again: until it is whole, whatever is tried in
\* between, the .bak is the version the save replaced (editor.go write: a failed
\* backup ends the save, and a config that cannot be read is never backed up).
\* And the newest Keep versions are in the history, each under a name of its
\* own, also when the clock stands still and after failures and crashes, as
\* long as it was not set back (editor.go archive: names sort by time).
WayBack == HalfWrittenHasBackup /\ NewestAreKept
=============================================================================
