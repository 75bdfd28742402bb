----------------------------- MODULE EpochStore -----------------------------
(***************************************************************************)
(* The publisher of packages/engine: cli.js `rebalance`, epochs.js and     *)
(* state.js over a directory of JSON files.  Each publisher process reads  *)
(* the continuity state, checks the cadence, computes the next epoch, and  *)
(* writes the epoch record, the head pointer, the state and the audit      *)
(* record, one file operation per step; it may die between any two.        *)
(*                                                                         *)
(* The basket, the divisor and the attestation are abstracted to the       *)
(* identity of the run that computed them: a file holds the document of a  *)
(* run.  head.json and state.json are projections of that document (epoch  *)
(* and publication time; epoch, basket and divisor).  A file that does not *)
(* parse is Torn.                                                          *)
(***************************************************************************)
EXTENDS Naturals

CONSTANTS Publisher,            \* rebalance processes that share the directory
          MaxEpoch,             \* bound: the last epoch a run may compute
          MaxRuns,              \* bound: invocations of the CLI
          MaxTime,              \* bound: the wall clock
          Gate,                 \* cadenceDays * CADENCE_TOLERANCE, in clock units
          HeadPath, StatePath,  \* epochs/head.json and state.json
          Absent, Torn          \* no such file (or null); a file cut short

Epochs == 0..MaxEpoch

\* What a run computes: its epoch number, the run itself, the run whose state
\* it was chained from (0 at inception), publishedAt, and the --force flag.
Doc == [epoch : Epochs, run : 1..MaxRuns, basis : 0..MaxRuns,
        at : 0..MaxTime, forced : BOOLEAN]

\* The record of epoch e has e itself for its path.
Path == Epochs \union {HeadPath, StatePath}

ASSUME BoundsAssumption ==
    /\ MaxEpoch \in Nat /\ MaxRuns \in Nat /\ MaxTime \in Nat /\ Gate \in Nat

ASSUME PathAssumption ==
    /\ HeadPath \notin Nat /\ StatePath \notin Nat /\ HeadPath # StatePath

ASSUME ValueAssumption ==
    /\ Absent \notin Doc /\ Torn \notin Doc /\ Absent # Torn
    /\ Absent \notin Path

VARIABLES
    file,     \* the file at each path
    tmp,      \* the file at each path's `.tmp`
    audit,    \* audit/epoch-NNNNN.json
    runs,     \* CLI invocations so far
    now,      \* the wall clock
    pc,       \* where each process is
    job,      \* the invocation: its number and its --force flag
    prev,     \* the state it loaded
    doc,      \* the document it computed
    target,   \* the path writeJson or save is writing
    fd,       \* what its open file is now: the .tmp, the final path, or neither
    outcome   \* how its last invocation ended

vars == <<file, tmp, audit, runs, now, pc, job, prev, doc, target, fd, outcome>>
disk == <<file, tmp, audit>>

PC == {"idle", "gate", "compute", "readHead", "readRecord", "open", "write",
       "rename", "openAudit", "writeAudit"}
Outcome == {"none", "published", "notDue", "dryRun", "failed", "rejected",
            "immutable", "crashed"}
NoJob == [run |-> 0, forced |-> FALSE]

TypeOK ==
    /\ file \in [Path -> Doc \union {Absent, Torn}]
    /\ tmp \in [Path -> Doc \union {Absent, Torn}]
    /\ audit \in [Epochs -> Doc \union {Absent, Torn}]
    /\ runs \in 0..MaxRuns
    /\ now \in 0..MaxTime
    /\ pc \in [Publisher -> PC]
    /\ job \in [Publisher -> [run : 0..MaxRuns, forced : BOOLEAN]]
    /\ prev \in [Publisher -> Doc \union {Absent}]
    /\ doc \in [Publisher -> Doc \union {Absent}]
    /\ target \in [Publisher -> Path \union {Absent}]
    /\ fd \in [Publisher -> {"closed", "tmp", "final", "unlinked"}]
    /\ outcome \in [Publisher -> Outcome]

Init ==
    /\ file = [x \in Path |-> Absent]
    /\ tmp = [x \in Path |-> Absent]
    /\ audit = [e \in Epochs |-> Absent]
    /\ runs = 0
    /\ now = 0
    /\ pc = [p \in Publisher |-> "idle"]
    /\ job = [p \in Publisher |-> NoJob]
    /\ prev = [p \in Publisher |-> Absent]
    /\ doc = [p \in Publisher |-> Absent]
    /\ target = [p \in Publisher |-> Absent]
    /\ fd = [p \in Publisher |-> "closed"]
    /\ outcome = [p \in Publisher |-> "none"]

-----------------------------------------------------------------------------

\* The number append demands: head === null ? 0 : head + 1.
Expected == IF file[HeadPath] = Absent THEN 0 ELSE file[HeadPath].epoch + 1

\* The number runRebalance computes from the loaded state.
NextEpoch(state) == IF state = Absent THEN 0 ELSE state.epoch + 1

\* Mutant: the gate forgets the cadence.
IsDue_NoCadence(record) == now >= record.at

\* cadenceGate, at the current clock.
IsDue(record) == now >= record.at + Gate

\* The process is over: it returned, threw, or was killed.
End(p, why) ==
    /\ pc' = [pc EXCEPT ![p] = "idle"]
    /\ job' = [job EXCEPT ![p] = NoJob]
    /\ prev' = [prev EXCEPT ![p] = Absent]
    /\ doc' = [doc EXCEPT ![p] = Absent]
    /\ target' = [target EXCEPT ![p] = Absent]
    /\ fd' = [fd EXCEPT ![p] = "closed"]
    /\ outcome' = [outcome EXCEPT ![p] = why]

Goto(p, where) == pc' = [pc EXCEPT ![p] = where]

\* main up to the cadence check: parse the flags, load the state.
Start(p) ==
    /\ pc[p] = "idle"
    /\ runs < MaxRuns
    /\ runs' = runs + 1
    /\ UNCHANGED <<disk, now>>
    /\ \/ /\ file[StatePath] = Torn
          /\ End(p, "failed")
       \/ /\ file[StatePath] # Torn
          /\ NextEpoch(file[StatePath]) <= MaxEpoch
          /\ \E force \in BOOLEAN :
                /\ job' = [job EXCEPT ![p] = [run |-> runs', forced |-> force]]
                /\ Goto(p, IF file[StatePath] = Absent \/ force
                           THEN "compute" ELSE "gate")
          /\ prev' = [prev EXCEPT ![p] = file[StatePath]]
          /\ outcome' = [outcome EXCEPT ![p] = "none"]
          /\ UNCHANGED <<doc, target, fd>>

\* The gate reads the record of the epoch the state names, and lets the run
\* through when there is none.
CheckCadence(p) ==
    /\ pc[p] = "gate"
    /\ UNCHANGED <<disk, runs, now>>
    /\ LET head == file[prev[p].epoch] IN
       \/ /\ head = Torn
          /\ End(p, "failed")
       \/ /\ head \in Doc /\ ~IsDue(head)
          /\ End(p, "notDue")
       \/ /\ head = Absent \/ (head \in Doc /\ IsDue(head))
          /\ Goto(p, "compute")
          /\ UNCHANGED <<job, prev, doc, target, fd, outcome>>

\* Mutant: the epoch is numbered from the head, not from the state.
Compute_NumberFromHead(p) ==
    /\ pc[p] = "compute"
    /\ UNCHANGED <<disk, runs, now>>
    /\ Expected <= MaxEpoch
    /\ doc' = [doc EXCEPT ![p] =
          [epoch |-> Expected, run |-> job[p].run,
           basis |-> IF prev[p] = Absent THEN 0 ELSE prev[p].run,
           at |-> now, forced |-> job[p].forced]]
    /\ Goto(p, "readHead")
    /\ UNCHANGED <<job, prev, target, fd, outcome>>

\* runRebalance and attest: it throws, or it yields a document stamped with
\* the time, which a dry run prints and drops.
Compute(p) ==
    /\ pc[p] = "compute"
    /\ UNCHANGED <<disk, runs, now>>
    /\ \/ \E why \in {"failed", "dryRun"} : End(p, why)
       \/ /\ doc' = [doc EXCEPT ![p] =
                [epoch |-> NextEpoch(prev[p]),
                 run |-> job[p].run,
                 basis |-> IF prev[p] = Absent THEN 0 ELSE prev[p].run,
                 at |-> now,
                 forced |-> job[p].forced]]
          /\ Goto(p, "readHead")
          /\ UNCHANGED <<job, prev, target, fd, outcome>>

\* append reads the head and rejects whatever is not head + 1.
AppendReadHead(p) ==
    /\ pc[p] = "readHead"
    /\ UNCHANGED <<disk, runs, now>>
    /\ \/ /\ file[HeadPath] = Torn
          /\ End(p, "failed")
       \/ /\ file[HeadPath] # Torn /\ doc[p].epoch # Expected
          /\ End(p, "rejected")
       \/ /\ file[HeadPath] # Torn /\ doc[p].epoch = Expected
          /\ Goto(p, "readRecord")
          /\ UNCHANGED <<job, prev, doc, target, fd, outcome>>

\* Mutants: an existing record is replaced; the head pointer, or the state, is
\* written and no record; a missing record is an error.
AppendReadRecord_Path(p, path, free) ==
    /\ pc[p] = "readRecord"
    /\ UNCHANGED <<disk, runs, now>>
    /\ \/ /\ ~free
          /\ End(p, "immutable")
       \/ /\ free
          /\ Goto(p, "open")
          /\ target' = [target EXCEPT ![p] = path]
          /\ UNCHANGED <<job, prev, doc, fd, outcome>>

AppendReadRecord_Replace(p) == AppendReadRecord_Path(p, doc[p].epoch, TRUE)
AppendReadRecord_HeadFirst(p) ==
    AppendReadRecord_Path(p, HeadPath, file[doc[p].epoch] = Absent)
AppendReadRecord_StateOnly(p) ==
    AppendReadRecord_Path(p, StatePath, file[doc[p].epoch] = Absent)
AppendReadRecord_Throws(p) ==
    AppendReadRecord_Path(p, doc[p].epoch, file[doc[p].epoch] # Absent)

\* append looks for a record of that number and refuses to replace one.
AppendReadRecord(p) ==
    /\ pc[p] = "readRecord"
    /\ UNCHANGED <<disk, runs, now>>
    /\ \/ /\ file[doc[p].epoch] = Torn
          /\ End(p, "failed")
       \/ /\ file[doc[p].epoch] \in Doc
          /\ End(p, "immutable")
       \/ /\ file[doc[p].epoch] = Absent
          /\ Goto(p, "open")
          /\ target' = [target EXCEPT ![p] = doc[p].epoch]
          /\ UNCHANGED <<job, prev, doc, fd, outcome>>

\* writeFile(tmp): open with O_CREAT | O_TRUNC.  A process that already has
\* the same .tmp open keeps it: it is one file.
OpenTmp(p) ==
    /\ pc[p] = "open"
    /\ tmp' = [tmp EXCEPT ![target[p]] = Torn]
    /\ fd' = [fd EXCEPT ![p] = "tmp"]
    /\ Goto(p, "write")
    /\ UNCHANGED <<file, audit, runs, now, job, prev, doc, target, outcome>>

\* What one write of d leaves in an open file: d when it was empty, d or an
\* unparseable mixture when another process's text is there.
Written(d, content) == IF content = Torn THEN {d} ELSE {d, Torn}

\* writeFile(tmp): the bytes go to the file that was opened, which a rename
\* by another process may have moved to the final path or unlinked from it.
WriteTmp(p) ==
    /\ pc[p] = "write"
    /\ \/ /\ fd[p] = "tmp"
          /\ \E c \in Written(doc[p], tmp[target[p]]) :
                tmp' = [tmp EXCEPT ![target[p]] = c]
          /\ UNCHANGED file
       \/ /\ fd[p] = "final"
          /\ \E c \in Written(doc[p], file[target[p]]) :
                file' = [file EXCEPT ![target[p]] = c]
          /\ UNCHANGED tmp
       \/ /\ fd[p] = "unlinked"
          /\ UNCHANGED <<file, tmp>>
    /\ fd' = [fd EXCEPT ![p] = "closed"]
    /\ Goto(p, "rename")
    /\ UNCHANGED <<audit, runs, now, job, prev, doc, target, outcome>>

\* Where a process's open file is once path has been renamed into place.
Moved(q, path) ==
    IF target[q] # path \/ fd[q] = "closed" THEN fd[q]
    ELSE IF fd[q] = "tmp" THEN "final" ELSE "unlinked"

\* Mutant: the state is saved before the head moves.
AfterRename_StateFirst(p, path) ==
    /\ Goto(p, IF path = HeadPath THEN "openAudit" ELSE "open")
    /\ target' = [target EXCEPT ![p] =
          IF path = HeadPath THEN Absent
          ELSE IF path = StatePath THEN HeadPath ELSE StatePath]

\* The write after the one at path: record, head pointer, state, audit.
AfterRename(p, path) ==
    \/ /\ path \notin {HeadPath, StatePath}
       /\ Goto(p, "open")
       /\ target' = [target EXCEPT ![p] = HeadPath]
    \/ /\ path = HeadPath
       /\ Goto(p, "open")
       /\ target' = [target EXCEPT ![p] = StatePath]
    \/ /\ path = StatePath
       /\ Goto(p, "openAudit")
       /\ target' = [target EXCEPT ![p] = Absent]

\* rename(tmp, path): atomic; ENOENT when another process has moved the .tmp.
RenameTmp(p) ==
    /\ pc[p] = "rename"
    /\ \/ /\ tmp[target[p]] = Absent
          /\ End(p, "failed")
          /\ UNCHANGED disk
       \/ /\ tmp[target[p]] # Absent
          /\ file' = [file EXCEPT ![target[p]] = tmp[target[p]]]
          /\ tmp' = [tmp EXCEPT ![target[p]] = Absent]
          /\ fd' = [q \in Publisher |-> Moved(q, target[p])]
          /\ AfterRename(p, target[p])
          /\ UNCHANGED <<audit, job, prev, doc, outcome>>
    /\ UNCHANGED <<runs, now>>

\* saveAudit truncates and writes the file in place, with no .tmp.
OpenAudit(p) ==
    /\ pc[p] = "openAudit"
    /\ audit' = [audit EXCEPT ![doc[p].epoch] = Torn]
    /\ Goto(p, "writeAudit")
    /\ UNCHANGED <<file, tmp, runs, now, job, prev, doc, target, fd, outcome>>

\* Mutant: the audit is filed under the epoch it was computed from.
WriteAudit_Previous(p) ==
    /\ pc[p] = "writeAudit"
    /\ LET e == IF prev[p] = Absent THEN 0 ELSE prev[p].epoch IN
          audit' = [audit EXCEPT ![e] = doc[p]]
    /\ End(p, "published")
    /\ UNCHANGED <<file, tmp, runs, now>>

WriteAudit(p) ==
    /\ pc[p] = "writeAudit"
    /\ \E c \in Written(doc[p], audit[doc[p].epoch]) :
          audit' = [audit EXCEPT ![doc[p].epoch] = c]
    /\ End(p, "published")
    /\ UNCHANGED <<file, tmp, runs, now>>

\* The process dies, or a file operation throws (disk full, permissions):
\* what is on disk stays.
Crash(p) ==
    /\ pc[p] # "idle"
    /\ End(p, "crashed")
    /\ UNCHANGED <<disk, runs, now>>

Tick ==
    /\ now < MaxTime
    /\ now' = now + 1
    /\ UNCHANGED <<disk, runs, pc, job, prev, doc, target, fd, outcome>>

\* One step of the program; Start and Crash are its environment's.
Step(p) ==
    \/ CheckCadence(p) \/ Compute(p)
    \/ AppendReadHead(p) \/ AppendReadRecord(p)
    \/ OpenTmp(p) \/ WriteTmp(p) \/ RenameTmp(p)
    \/ OpenAudit(p) \/ WriteAudit(p)

Next == Tick \/ \E p \in Publisher : Start(p) \/ Step(p) \/ Crash(p)

Spec == Init /\ [][Next]_vars

\* A started process runs on: the operating system schedules it and every
\* await in it settles (every fetch has a timeout).
FairSpec == Spec /\ \A p \in Publisher : WF_vars(Step(p))

-----------------------------------------------------------------------------
(* Correctness *)

\* The published epochs as a reader of the directory sees them: everything up
\* to the head pointer.  head.json is Torn only if two writers tore it.
Published == IF file[HeadPath] = Torn THEN 0 ELSE Expected

\* One writer at a time, which the README asks for ("One instance") and, as it
\* says, nothing in the store enforces.
SingleWriter == \A p, q \in Publisher : p = q

\* An epoch record, once at its path, is never replaced, edited or removed:
\* append refuses an existing epoch, and it checked before it wrote.
RecordsImmutable ==
    [][\A e \in Epochs : file[e] # Absent => file'[e] = file[e]]_vars

\* The head never points at nothing: every epoch up to it has its record.
HeadHasRecords ==
    \A e \in 0..(Published - 1) : file[e] \in Doc /\ file[e].epoch = e

\* A reader never meets a truncated file, whatever write a crash cut short.
WholeFiles == \A x \in Path : file[x] # Torn

\* The continuity state always belongs to a published epoch, and to the very
\* run that published it: the order of the three writes in cli.js.
StateMatchesRecord ==
    file[StatePath] # Absent =>
        /\ file[StatePath].epoch < Published
        /\ file[file[StatePath].epoch].run = file[StatePath].run

\* An audit record, if it parses, is of the run whose record was published.
AuditMatchesRecord ==
    \A e \in Epochs : audit[e] \in Doc => audit[e] = file[e]

\* The state has fallen behind the head and no process is about to save it.
Diverged ==
    /\ NextEpoch(file[StatePath]) < Published
    /\ \A p \in Publisher : target[p] # StatePath

\* A crash between append and save stops publication for good, loudly: no
\* later run, forced or not, publishes an epoch chained from the old state.
DivergenceIsLoud ==
    [][Diverged => Diverged' /\ file'[HeadPath] = file[HeadPath]]_vars

\* The directory is as a completed run leaves it.
InStep ==
    /\ NextEpoch(file[StatePath]) = Published
    /\ Published \in Epochs => file[Published] = Absent

\* A run that reaches append in a directory a completed run left publishes,
\* unless it is killed on the way.
HealthyRunPublishes ==
    \A p \in Publisher :
        (pc[p] = "readHead" /\ InStep) ~> outcome[p] \in {"published", "crashed"}

\* The abstract log, read off the directory.
Log == INSTANCE EpochLog WITH
          count <- Published,
          epochs <- [e \in 0..(Published - 1) |-> file[e]]

\* The directory implements the append-only log: succession, continuity and
\* cadence of everything up to the head pointer.
ImplementsLog == Log!Spec

-----------------------------------------------------------------------------
(* The inductive invariants: types, and the single writer's *)

\* Which locals are set, by where the process is.
LocalsOK(p) ==
    /\ pc[p] = "gate" => prev[p] \in Doc
    /\ pc[p] \in {"gate", "compute"} =>
          job[p].run > 0 /\ NextEpoch(prev[p]) \in Epochs
    /\ pc[p] \notin {"idle", "gate", "compute"} => doc[p] \in Doc
    /\ pc[p] \in {"open", "write", "rename"} => target[p] \in Path

TypeInv == TypeOK /\ \A p \in Publisher : LocalsOK(p)

\* d is chained from the state st: the next number, st's run for its basis,
\* and the cadence elapsed since st's record unless forced.
Chained(d, st) ==
    /\ d.epoch = NextEpoch(st)
    /\ st # Absent => Log!Follows(d, st)

\* Everything below the head is the log; at most one orphan lies above it.
LogPart ==
    /\ \A e \in Epochs :
          /\ e < Published => file[e] \in Doc
          /\ e > Published => file[e] = Absent
          /\ file[e] # Torn
          /\ file[e] \in Doc => file[e].epoch = e
          /\ e > 0 /\ e < Published => Log!Follows(file[e], file[e - 1])
    /\ file[HeadPath] # Torn

\* The state is the document published under its number, so it lags the head
\* but never leads it.
StatePart ==
    /\ file[StatePath] # Torn
    /\ file[StatePath] \in Doc =>
          /\ file[StatePath].epoch < Published
          /\ file[file[StatePath].epoch] = file[StatePath]

AuditPart == \A e \in Epochs :
                audit[e] \in Doc => e < Published /\ audit[e] = file[e]

\* What a running process knows: nothing it read has changed under it.
ComputePart(p) ==
    /\ pc[p] \in PC \ {"idle", "openAudit", "writeAudit"} =>
          prev[p] = file[StatePath]
    /\ pc[p] = "compute" /\ prev[p] # Absent =>
          job[p].forced \/ IsDue(prev[p])
    /\ pc[p] \in {"readHead", "readRecord", "open", "write", "rename"} =>
          Chained(doc[p], prev[p])

\* Which document is where while the three files are written.
AppendPart(p) ==
    /\ pc[p] = "readRecord" => doc[p].epoch = Published
    /\ pc[p] \in {"open", "write", "rename"} =>
          \/ /\ target[p] = doc[p].epoch
             /\ doc[p].epoch = Published /\ file[doc[p].epoch] = Absent
          \/ /\ target[p] = HeadPath
             /\ doc[p].epoch = Published /\ file[doc[p].epoch] = doc[p]
          \/ /\ target[p] = StatePath
             /\ doc[p].epoch + 1 = Published /\ file[doc[p].epoch] = doc[p]
    /\ pc[p] = "write" => fd[p] = "tmp" /\ tmp[target[p]] = Torn
    /\ pc[p] = "rename" => tmp[target[p]] = doc[p]
    /\ pc[p] \in {"openAudit", "writeAudit"} =>
          doc[p].epoch < Published /\ file[doc[p].epoch] = doc[p]
    /\ pc[p] = "writeAudit" => audit[doc[p].epoch] = Torn

IInv ==
    /\ TypeInv /\ LogPart /\ StatePart /\ AuditPart
    /\ \A p \in Publisher : ComputePart(p) /\ AppendPart(p)

-----------------------------------------------------------------------------
(* What is left when several processes write, which nothing prevents *)

\* In the files f every epoch up to n has a record.
RecordsUpTo(f, n) == \A e \in Epochs : e <= n => f[e] # Absent

\* However publishers that share the directory interleave, tear, replace and
\* lose each other's files: no epoch is published over a gap, neither the head
\* nor the state names a missing record, a record that parses is of the epoch
\* it is filed under, and the cadence gate is never let through for want of the
\* record it measures from.
NoGap ==
    /\ \A e \in Epochs : file[e] # Absent => RecordsUpTo(file, e)
    /\ \A x \in {HeadPath, StatePath} : file[x] \in Doc => RecordsUpTo(file, file[x].epoch)
    /\ \A e \in Epochs : file[e] \in Doc => file[e].epoch = e
    /\ \A p \in Publisher : pc[p] = "gate" => file[prev[p].epoch] # Absent

\* The document d may be at path x: the epochs below have their records, and so
\* has d's own when x is a pointer to it.
Grounded(f, d, x) ==
    /\ x \in Epochs => x = d.epoch /\ RecordsUpTo(f, x - 1)
    /\ x \in {HeadPath, StatePath} => RecordsUpTo(f, d.epoch)

\* What the .tmp files add, and what a process knows once append let it through.
GapInv ==
    /\ TypeInv
    /\ \A x \in Path :
          /\ file[x] \in Doc => Grounded(file, file[x], x)
          /\ tmp[x] \in Doc => Grounded(file, tmp[x], x)
    /\ \A e \in Epochs : file[e] # Absent \/ tmp[e] # Absent => RecordsUpTo(file, e - 1)
    /\ \A p \in Publisher :
          /\ pc[p] = "gate" => RecordsUpTo(file, prev[p].epoch)
          /\ pc[p] = "readRecord" => RecordsUpTo(file, doc[p].epoch - 1)
          /\ pc[p] \in {"open", "write", "rename"} => Grounded(file, doc[p], target[p])

-----------------------------------------------------------------------------
(* What the documentation says and the code does not do *)

\* epochs.js:85-87: "an interrupted append leaves an orphan record that the
\* next attempt overwrites".
OrphanIsOverwritten == \A p \in Publisher : outcome[p] # "immutable"
=============================================================================
