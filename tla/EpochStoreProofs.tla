-------------------------- MODULE EpochStoreProofs --------------------------
(***************************************************************************)
(* Proofs about the epoch directory, for every value of the constants: of  *)
(* its publishers (EpochStore), types and the absence of a gap for any     *)
(* number of them, and, for a single writer, immutability, the consistency *)
(* of the three files and the implementation of EpochLog; of its readers   *)
(* (IndexService), however many they are, what they are answered while one *)
(* publisher or several write and crash.                                   *)
(***************************************************************************)
EXTENDS IndexService, TLAPS

-----------------------------------------------------------------------------
(* Type correctness *)

\* A process that ends gives up its locals; the rest of the state keeps its type.
LEMMA EndTypes ==
    ASSUME TypeOK, NEW p \in Publisher, NEW why \in Outcome, End(p, why)
    PROVE  /\ pc' \in [Publisher -> PC]
           /\ job' \in [Publisher -> [run : 0..MaxRuns, forced : BOOLEAN]]
           /\ prev' \in [Publisher -> Doc \union {Absent}]
           /\ doc' \in [Publisher -> Doc \union {Absent}]
           /\ target' \in [Publisher -> Path \union {Absent}]
           /\ fd' \in [Publisher -> {"closed", "tmp", "final", "unlinked"}]
           /\ outcome' \in [Publisher -> Outcome]
<1>1. NoJob \in [run : 0..MaxRuns, forced : BOOLEAN]
  BY BoundsAssumption DEF NoJob
<1>2. QED
  BY <1>1 DEF TypeOK, End, PC

\* An empty directory and idle processes are well typed.
LEMMA InitTypes == Init => TypeInv
<1>1. NoJob \in [run : 0..MaxRuns, forced : BOOLEAN]
  BY BoundsAssumption DEF NoJob
<1>2. Init => TypeOK
  BY <1>1, BoundsAssumption DEF Init, TypeOK, PC, Outcome
<1>3. Init => \A p \in Publisher : LocalsOK(p)
  BY DEF Init, LocalsOK
<1>4. QED
  BY <1>2, <1>3 DEF TypeInv

\* A process that ends leaves the others' locals alone and clears its own.
LEMMA EndKeepsTypes ==
    ASSUME TypeInv, NEW p \in Publisher, NEW why \in Outcome, End(p, why),
           UNCHANGED <<disk, now>>, runs' \in 0..MaxRuns
    PROVE  TypeInv'
<1>1. TypeOK'
  BY EndTypes DEF TypeInv, TypeOK, disk
<1>2. ASSUME NEW q \in Publisher PROVE LocalsOK(q)'
  BY DEF TypeInv, TypeOK, LocalsOK, End, NextEpoch
<1>3. QED
  BY <1>1, <1>2 DEF TypeInv

\* A started process has an invocation, and the state it loaded.
LEMMA StartTypes ==
    ASSUME TypeInv, NEW p \in Publisher, Start(p)
    PROVE  TypeInv'
<1> USE DEF TypeInv
<1>1. runs' \in 0..MaxRuns /\ runs' > 0 /\ UNCHANGED <<disk, now>>
  BY BoundsAssumption DEF TypeOK, Start
<1>2. CASE End(p, "failed")
  BY <1>1, <1>2, EndKeepsTypes DEF Outcome
<1>3. CASE ~End(p, "failed")
  <2>1. PICK force \in BOOLEAN :
          /\ job' = [job EXCEPT ![p] = [run |-> runs', forced |-> force]]
          /\ Goto(p, IF file[StatePath] = Absent \/ force
                     THEN "compute" ELSE "gate")
    BY <1>3 DEF Start
  <2>2. [run |-> runs', forced |-> force]
          \in [run : 0..MaxRuns, forced : BOOLEAN]
    BY <1>1
  <2>3. /\ job' \in [Publisher -> [run : 0..MaxRuns, forced : BOOLEAN]]
        /\ job'[p].run > 0
    BY <2>1, <2>2, <1>1 DEF TypeOK
  <2>4. pc' \in [Publisher -> PC]
    BY <2>1 DEF TypeOK, Goto, PC
  <2>5. file[StatePath] \in Doc \union {Absent}
    BY <1>3 DEF TypeOK, Start, Path
  <2>6. /\ prev' = [prev EXCEPT ![p] = file[StatePath]]
        /\ prev' \in [Publisher -> Doc \union {Absent}]
        /\ outcome' \in [Publisher -> Outcome]
        /\ UNCHANGED <<doc, target, fd>>
        /\ NextEpoch(file[StatePath]) <= MaxEpoch
    BY <1>3, <2>5 DEF TypeOK, Start, Outcome
  <2>7. TypeOK'
    BY <1>1, <2>3, <2>4, <2>6 DEF TypeOK, disk
  <2>8. NextEpoch(file[StatePath]) \in Epochs
    BY <2>5, <2>6, BoundsAssumption DEF NextEpoch, Doc, Epochs
  <2>9. LocalsOK(p)'
    BY <2>1, <2>3, <2>5, <2>6, <2>8 DEF TypeOK, LocalsOK, Goto, NextEpoch
  <2>10. ASSUME NEW q \in Publisher, q # p PROVE LocalsOK(q)'
    BY <2>1, <2>6, <2>10 DEF TypeOK, LocalsOK, Goto, NextEpoch
  <2>11. QED
    BY <2>7, <2>9, <2>10
<1>4. QED
  BY <1>2, <1>3

\* The cadence gate ends the process or sends it on with its locals.
LEMMA CheckCadenceTypes ==
    ASSUME TypeInv, NEW p \in Publisher, CheckCadence(p)
    PROVE  TypeInv'
<1>1. CASE \E why \in {"failed", "notDue"} : End(p, why)
  <2>1. runs' \in 0..MaxRuns /\ UNCHANGED <<disk, now>>
    BY DEF TypeInv, TypeOK, CheckCadence
  <2>2. QED
    BY <1>1, <2>1, EndKeepsTypes DEF Outcome
<1>2. CASE /\ Goto(p, "compute")
           /\ UNCHANGED <<job, prev, doc, target, fd, outcome>>
  <2>1. pc[p] = "gate" /\ UNCHANGED <<disk, runs, now>>
    BY DEF CheckCadence
  <2>2. TypeOK'
    BY <1>2, <2>1 DEF TypeInv, TypeOK, disk, Goto, PC
  <2>3. ASSUME NEW q \in Publisher PROVE LocalsOK(q)'
    BY <1>2, <2>1 DEF TypeInv, TypeOK, LocalsOK, Goto, NextEpoch
  <2>4. QED
    BY <2>2, <2>3 DEF TypeInv
<1>3. QED
  BY <1>1, <1>2 DEF CheckCadence

\* What a process computes is a document, given a usable job and state.
LEMMA ComputeDoc ==
    ASSUME TypeInv, NEW p \in Publisher, pc[p] = "compute"
    PROVE  [epoch |-> NextEpoch(prev[p]), run |-> job[p].run,
            basis |-> IF prev[p] = Absent THEN 0 ELSE prev[p].run,
            at |-> now, forced |-> job[p].forced] \in Doc
<1>1. NextEpoch(prev[p]) \in Epochs /\ job[p].run > 0
  BY DEF TypeInv, LocalsOK
<1>2. job[p].run \in 1..MaxRuns /\ job[p].forced \in BOOLEAN
  BY <1>1, BoundsAssumption DEF TypeInv, TypeOK
<1>3. (IF prev[p] = Absent THEN 0 ELSE prev[p].run) \in 0..MaxRuns
  BY BoundsAssumption DEF TypeInv, TypeOK, Doc
<1>4. now \in 0..MaxTime
  BY DEF TypeInv, TypeOK
<1>5. QED
  BY <1>1, <1>2, <1>3, <1>4 DEF Doc

\* What a run computes is a document with a number within bounds.
LEMMA ComputeTypes ==
    ASSUME TypeInv, NEW p \in Publisher, Compute(p)
    PROVE  TypeInv'
<1>1. CASE \E why \in {"failed", "dryRun"} : End(p, why)
  <2>1. runs' \in 0..MaxRuns /\ UNCHANGED <<disk, now>>
    BY DEF TypeInv, TypeOK, Compute
  <2>2. QED
    BY <1>1, <2>1, EndKeepsTypes DEF Outcome
<1>2. CASE ~\E why \in {"failed", "dryRun"} : End(p, why)
  <2>1. /\ pc[p] = "compute" /\ UNCHANGED <<disk, runs, now>>
        /\ Goto(p, "readHead")
        /\ UNCHANGED <<job, prev, target, fd, outcome>>
    BY <1>2 DEF Compute
  <2>2. \E d \in Doc : doc' = [doc EXCEPT ![p] = d]
    BY <1>2, ComputeDoc DEF Compute
  <2>3. TypeOK'
    BY <2>1, <2>2 DEF TypeInv, TypeOK, disk, Goto, PC
  <2>4. ASSUME NEW q \in Publisher PROVE LocalsOK(q)'
    BY <2>1, <2>2 DEF TypeInv, TypeOK, LocalsOK, Goto, NextEpoch
  <2>5. QED
    BY <2>3, <2>4 DEF TypeInv
<1>3. QED
  BY <1>1, <1>2

\* append's first check touches no file.
LEMMA AppendReadHeadTypes ==
    ASSUME TypeInv, NEW p \in Publisher, AppendReadHead(p)
    PROVE  TypeInv'
<1>1. CASE \E why \in {"failed", "rejected"} : End(p, why)
  <2>1. runs' \in 0..MaxRuns /\ UNCHANGED <<disk, now>>
    BY DEF TypeInv, TypeOK, AppendReadHead
  <2>2. QED
    BY <1>1, <2>1, EndKeepsTypes DEF Outcome
<1>2. CASE ~\E why \in {"failed", "rejected"} : End(p, why)
  <2>1. /\ pc[p] = "readHead" /\ UNCHANGED <<disk, runs, now>>
        /\ Goto(p, "readRecord")
        /\ UNCHANGED <<job, prev, doc, target, fd, outcome>>
    BY <1>2 DEF AppendReadHead
  <2>2. TypeOK'
    BY <2>1 DEF TypeInv, TypeOK, disk, Goto, PC
  <2>3. ASSUME NEW q \in Publisher PROVE LocalsOK(q)'
    BY <2>1 DEF TypeInv, TypeOK, LocalsOK, Goto, NextEpoch
  <2>4. QED
    BY <2>2, <2>3 DEF TypeInv
<1>3. QED
  BY <1>1, <1>2

\* append's second check sets the path that is written next.
LEMMA AppendReadRecordTypes ==
    ASSUME TypeInv, NEW p \in Publisher, AppendReadRecord(p)
    PROVE  TypeInv'
<1>1. CASE \E why \in {"failed", "immutable"} : End(p, why)
  <2>1. runs' \in 0..MaxRuns /\ UNCHANGED <<disk, now>>
    BY DEF TypeInv, TypeOK, AppendReadRecord
  <2>2. QED
    BY <1>1, <2>1, EndKeepsTypes DEF Outcome
<1>2. CASE ~\E why \in {"failed", "immutable"} : End(p, why)
  <2>1. /\ pc[p] = "readRecord" /\ UNCHANGED <<disk, runs, now>>
        /\ Goto(p, "open")
        /\ target' = [target EXCEPT ![p] = doc[p].epoch]
        /\ UNCHANGED <<job, prev, doc, fd, outcome>>
    BY <1>2 DEF AppendReadRecord
  <2>2. doc[p].epoch \in Path
    BY <2>1 DEF TypeInv, LocalsOK, Doc, Path
  <2>3. TypeOK'
    BY <2>1, <2>2 DEF TypeInv, TypeOK, disk, Goto, PC
  <2>4. ASSUME NEW q \in Publisher PROVE LocalsOK(q)'
    BY <2>1, <2>2 DEF TypeInv, TypeOK, LocalsOK, Goto, NextEpoch
  <2>5. QED
    BY <2>3, <2>4 DEF TypeInv
<1>3. QED
  BY <1>1, <1>2

\* Opening a .tmp leaves it cut short, which is a legal content.
LEMMA OpenTmpTypes ==
    ASSUME TypeInv, NEW p \in Publisher, OpenTmp(p)
    PROVE  TypeInv'
<1>1. TypeOK'
  BY DEF TypeInv, TypeOK, OpenTmp, Goto, PC
<1>2. ASSUME NEW q \in Publisher PROVE LocalsOK(q)'
  BY DEF TypeInv, TypeOK, LocalsOK, OpenTmp, Goto, NextEpoch
<1>3. QED
  BY <1>1, <1>2 DEF TypeInv

\* A write leaves the document or a torn file in whichever file is open.
LEMMA WriteTmpTypes ==
    ASSUME TypeInv, NEW p \in Publisher, WriteTmp(p)
    PROVE  TypeInv'
<1>1. doc[p] \in Doc
  BY DEF TypeInv, LocalsOK, WriteTmp
<1>2. \A x : Written(doc[p], x) \subseteq Doc \union {Torn}
  BY <1>1 DEF Written
<1>3. /\ tmp' \in [Path -> Doc \union {Absent, Torn}]
      /\ file' \in [Path -> Doc \union {Absent, Torn}]
  BY <1>2 DEF TypeInv, TypeOK, WriteTmp
<1>4. TypeOK'
  BY <1>3 DEF TypeInv, TypeOK, WriteTmp, Goto, PC
<1>5. ASSUME NEW q \in Publisher PROVE LocalsOK(q)'
  BY DEF TypeInv, TypeOK, LocalsOK, WriteTmp, Goto, NextEpoch
<1>6. QED
  BY <1>4, <1>5 DEF TypeInv

\* A rename moves on to the next file, for a path that is one of the three.
LEMMA AfterRenameMoves ==
    ASSUME TypeInv, NEW p \in Publisher, NEW x \in Path, AfterRename(p, x)
    PROVE  \E where \in {"open", "openAudit"},
              next \in {HeadPath, StatePath, Absent} :
              /\ Goto(p, where)
              /\ target' = [target EXCEPT ![p] = next]
              /\ where = "open" => next # Absent
<1>1. HeadPath # Absent /\ StatePath # Absent
  BY ValueAssumption DEF Path
<1>2. QED
  BY <1>1, PathAssumption DEF AfterRename

\* A rename moves a legal content, and the open files of others with it.
LEMMA RenameTmpTypes ==
    ASSUME TypeInv, NEW p \in Publisher, RenameTmp(p)
    PROVE  TypeInv'
<1>1. CASE End(p, "failed") /\ UNCHANGED disk
  <2>1. runs' \in 0..MaxRuns /\ UNCHANGED now
    BY DEF TypeInv, TypeOK, RenameTmp
  <2>2. QED
    BY <1>1, <2>1, EndKeepsTypes DEF Outcome
<1>2. CASE ~(End(p, "failed") /\ UNCHANGED disk)
  <2>1. /\ file' = [file EXCEPT ![target[p]] = tmp[target[p]]]
        /\ tmp' = [tmp EXCEPT ![target[p]] = Absent]
        /\ fd' = [q \in Publisher |-> Moved(q, target[p])]
        /\ AfterRename(p, target[p])
        /\ UNCHANGED <<audit, job, prev, doc, outcome, runs, now>>
        /\ pc[p] = "rename"
    BY <1>2 DEF RenameTmp
  <2>2. target[p] \in Path /\ doc[p] \in Doc
    BY <2>1 DEF TypeInv, LocalsOK
  <2>3. PICK where \in {"open", "openAudit"},
             next \in {HeadPath, StatePath, Absent} :
             /\ Goto(p, where)
             /\ target' = [target EXCEPT ![p] = next]
             /\ where = "open" => next # Absent
    BY <2>1, <2>2, AfterRenameMoves
  <2>4. next \in Path \union {Absent} /\ (where = "open" => next \in Path)
    BY <2>3 DEF Path
  <2>5. fd' \in [Publisher -> {"closed", "tmp", "final", "unlinked"}]
    <3>1. ASSUME NEW q \in Publisher
          PROVE  Moved(q, target[p]) \in {"closed", "tmp", "final", "unlinked"}
      BY DEF TypeInv, TypeOK, Moved
    <3>2. QED
      BY <2>1, <3>1
  <2>6. /\ file' \in [Path -> Doc \union {Absent, Torn}]
        /\ tmp' \in [Path -> Doc \union {Absent, Torn}]
    BY <2>1, <2>2 DEF TypeInv, TypeOK
  <2>7. TypeOK'
    BY <2>1, <2>3, <2>4, <2>5, <2>6 DEF TypeInv, TypeOK, Goto, PC
  <2>8. ASSUME NEW q \in Publisher PROVE LocalsOK(q)'
    BY <2>1, <2>2, <2>3, <2>4 DEF TypeInv, TypeOK, LocalsOK, Goto, NextEpoch
  <2>9. QED
    BY <2>7, <2>8 DEF TypeInv
<1>3. QED
  BY <1>1, <1>2

\* Truncating the audit file leaves it torn.
LEMMA OpenAuditTypes ==
    ASSUME TypeInv, NEW p \in Publisher, OpenAudit(p)
    PROVE  TypeInv'
<1>1. TypeOK'
  BY DEF TypeInv, TypeOK, OpenAudit, Goto, PC
<1>2. ASSUME NEW q \in Publisher PROVE LocalsOK(q)'
  BY DEF TypeInv, TypeOK, LocalsOK, OpenAudit, Goto, NextEpoch
<1>3. QED
  BY <1>1, <1>2 DEF TypeInv

\* The audit file gets the document or a torn mixture.
LEMMA WriteAuditTypes ==
    ASSUME TypeInv, NEW p \in Publisher, WriteAudit(p)
    PROVE  TypeInv'
<1>1. doc[p] \in Doc
  BY DEF TypeInv, LocalsOK, WriteAudit
<1>2. \A x : Written(doc[p], x) \subseteq Doc \union {Torn}
  BY <1>1 DEF Written
<1>3. audit' \in [Epochs -> Doc \union {Absent, Torn}]
  <2>1. PICK c \in Written(doc[p], audit[doc[p].epoch]) :
          audit' = [audit EXCEPT ![doc[p].epoch] = c]
    BY DEF WriteAudit
  <2>2. c \in Doc \union {Absent, Torn}
    BY <1>2
  <2>3. audit \in [Epochs -> Doc \union {Absent, Torn}]
    BY DEF TypeInv, TypeOK
  <2>4. QED
    BY <2>1, <2>2, <2>3
<1>4. End(p, "published") /\ UNCHANGED <<file, tmp, runs, now>>
  BY DEF WriteAudit
<1>5. "published" \in Outcome /\ TypeOK
  BY DEF Outcome, TypeInv
<1>6. TypeOK'
  BY <1>3, <1>4, <1>5, EndTypes DEF TypeOK
<1>7. ASSUME NEW q \in Publisher PROVE LocalsOK(q)'
  BY <1>4 DEF TypeInv, TypeOK, LocalsOK, End, NextEpoch
<1>8. QED
  BY <1>6, <1>7 DEF TypeInv

\* A killed process leaves the directory as it is.
LEMMA CrashTypes ==
    ASSUME TypeInv, NEW p \in Publisher, Crash(p)
    PROVE  TypeInv'
<1>1. End(p, "crashed") /\ UNCHANGED <<disk, now>> /\ runs' \in 0..MaxRuns
  BY DEF TypeInv, TypeOK, Crash
<1>2. QED
  BY <1>1, EndKeepsTypes DEF Outcome

\* The clock stays within its bound.
LEMMA TickTypes == TypeInv /\ Tick => TypeInv'
<1> SUFFICES ASSUME TypeInv, Tick PROVE TypeInv'
  OBVIOUS
<1>1. TypeOK'
  BY BoundsAssumption DEF TypeInv, TypeOK, Tick, disk
<1>2. ASSUME NEW q \in Publisher PROVE LocalsOK(q)'
  BY DEF TypeInv, LocalsOK, Tick, NextEpoch
<1>3. QED
  BY <1>1, <1>2 DEF TypeInv

\* Every step of any number of publishers keeps the types.
LEMMA NextTypes == TypeInv /\ [Next]_vars => TypeInv'
<1> SUFFICES ASSUME TypeInv, [Next]_vars PROVE TypeInv'
  OBVIOUS
<1>1. CASE UNCHANGED vars
  <2>1. TypeOK'
    BY <1>1 DEF TypeInv, TypeOK, vars
  <2>2. ASSUME NEW q \in Publisher PROVE LocalsOK(q)'
    BY <1>1 DEF TypeInv, LocalsOK, vars, NextEpoch
  <2>3. QED
    BY <2>1, <2>2 DEF TypeInv
<1>2. CASE Tick
  BY <1>2, TickTypes
<1>3. ASSUME NEW p \in Publisher, Start(p) \/ Step(p) \/ Crash(p)
      PROVE  TypeInv'
  BY <1>3, StartTypes, CheckCadenceTypes, ComputeTypes, AppendReadHeadTypes,
     AppendReadRecordTypes, OpenTmpTypes, WriteTmpTypes, RenameTmpTypes,
     OpenAuditTypes, WriteAuditTypes, CrashTypes DEF Step
<1>4. QED
  BY <1>1, <1>2, <1>3 DEF Next

\* Every variable keeps its type, however many publishers share the directory.
THEOREM TypeCorrect == Spec => []TypeOK
<1>1. Spec => []TypeInv
  BY InitTypes, NextTypes, PTL DEF Spec
<1>2. TypeInv => TypeOK
  BY DEF TypeInv
<1>3. QED
  BY <1>1, <1>2, PTL

-----------------------------------------------------------------------------
(* One writer: the inductive invariant *)

\* An epoch number is never one of the two pointer files, nor absent.
LEMMA Paths ==
    /\ HeadPath \in Path /\ StatePath \in Path /\ Epochs \subseteq Path
    /\ HeadPath \notin Epochs /\ StatePath \notin Epochs
    /\ HeadPath # StatePath /\ Epochs \subseteq Nat
  BY PathAssumption DEF Path, Epochs

\* A document's number is an epoch and a natural number.
LEMMA DocEpoch == \A d \in Doc : d.epoch \in Epochs /\ d.epoch \in Nat
  BY Paths DEF Doc

\* The number of published epochs is a number.
LEMMA PublishedIsNat == TypeOK => Published \in Nat
  BY Paths, ValueAssumption DEF TypeOK, Published, Expected, Doc, Epochs

\* The invariant holds of an empty directory.
LEMMA InitInv == Init => IInv
<1> SUFFICES ASSUME Init PROVE IInv
  OBVIOUS
<1>1. TypeInv
  BY InitTypes
<1>2. \A x \in Path : file[x] = Absent
  BY DEF Init
<1>3. Published = 0
  BY <1>2, Paths, ValueAssumption DEF Published, Expected
<1>4. LogPart
  BY <1>2, <1>3, Paths, ValueAssumption DEF LogPart
<1>5. StatePart /\ AuditPart
  BY <1>2, Paths, ValueAssumption DEF Init, StatePart, AuditPart
<1>6. ASSUME NEW p \in Publisher PROVE ComputePart(p) /\ AppendPart(p)
  BY DEF Init, ComputePart, AppendPart
<1>7. QED
  BY <1>1, <1>4, <1>5, <1>6 DEF IInv

\* A step that writes no file keeps what the invariant says of the files.
LEMMA DiskKept ==
    ASSUME IInv, UNCHANGED disk
    PROVE  LogPart' /\ StatePart' /\ AuditPart' /\ Published' = Published
  BY DEF IInv, disk, LogPart, StatePart, AuditPart, Published, Expected,
         Log!Follows

\* A process that has ended claims nothing.
LEMMA EndClaims ==
    ASSUME IInv, SingleWriter, NEW p \in Publisher, NEW why, End(p, why)
    PROVE  \A q \in Publisher : ComputePart(q)' /\ AppendPart(q)'
<1> SUFFICES ASSUME NEW q \in Publisher PROVE ComputePart(q)' /\ AppendPart(q)'
  OBVIOUS
<1>1. pc'[q] = "idle"
  BY DEF SingleWriter, IInv, TypeInv, TypeOK, End
<1>2. QED
  BY <1>1 DEF ComputePart, AppendPart

\* Ending a process without touching the directory keeps the invariant.
LEMMA EndKeepsInv ==
    ASSUME IInv, SingleWriter, TypeInv', NEW p \in Publisher, NEW why,
           End(p, why), UNCHANGED disk
    PROVE  IInv'
  BY DiskKept, EndClaims DEF IInv

\* Starting: the state that was loaded is the one on disk.
LEMMA StartInv ==
    ASSUME IInv, SingleWriter, NEW p \in Publisher, Start(p)
    PROVE  IInv'
<1>1. TypeInv'
  BY StartTypes DEF IInv
<1>2. CASE End(p, "failed")
  BY <1>1, <1>2, EndKeepsInv DEF Start
<1>3. CASE ~End(p, "failed")
  <2>1. /\ prev'[p] = file[StatePath] /\ UNCHANGED disk
        /\ pc'[p] \in {"compute", "gate"}
        /\ pc'[p] = "compute" /\ prev'[p] # Absent => job'[p].forced
    BY <1>3 DEF Start, Goto, IInv, TypeInv, TypeOK
  <2>2. ASSUME NEW q \in Publisher PROVE ComputePart(q)' /\ AppendPart(q)'
    <3>1. q = p
      BY DEF SingleWriter
    <3>2. QED
      BY <3>1, <2>1 DEF ComputePart, AppendPart, disk
  <2>3. QED
    BY <1>1, <2>1, <2>2, DiskKept DEF IInv
<1>4. QED
  BY <1>2, <1>3

\* The gate looks at the published record, which is the state's own document.
LEMMA CheckCadenceInv ==
    ASSUME IInv, SingleWriter, NEW p \in Publisher, CheckCadence(p)
    PROVE  IInv'
<1>1. TypeInv'
  BY CheckCadenceTypes DEF IInv
<1>2. CASE \E why \in {"failed", "notDue"} : End(p, why)
  BY <1>1, <1>2, EndKeepsInv DEF CheckCadence
<1>3. CASE ~\E why \in {"failed", "notDue"} : End(p, why)
  <2>1. /\ pc[p] = "gate" /\ Goto(p, "compute") /\ UNCHANGED <<disk, runs, now>>
        /\ UNCHANGED <<job, prev, doc, target, fd, outcome>>
        /\ \/ file[prev[p].epoch] = Absent
           \/ file[prev[p].epoch] \in Doc /\ IsDue(file[prev[p].epoch])
    BY <1>3 DEF CheckCadence
  <2>2. prev[p] \in Doc /\ prev[p] = file[StatePath]
    BY <2>1 DEF IInv, TypeInv, LocalsOK, ComputePart, PC
  <2>3. file[prev[p].epoch] = prev[p]
    BY <2>2 DEF IInv, StatePart
  <2>4. IsDue(prev[p])
    BY <2>1, <2>2, <2>3, ValueAssumption
  <2>5. pc'[p] = "compute"
    BY <2>1 DEF Goto, IInv, TypeInv, TypeOK
  <2>6. ASSUME NEW q \in Publisher PROVE ComputePart(q)' /\ AppendPart(q)'
    <3>1. q = p
      BY DEF SingleWriter
    <3>2. QED
      BY <3>1, <2>1, <2>2, <2>4, <2>5 DEF ComputePart, AppendPart, disk, IsDue
  <2>7. QED
    BY <1>1, <2>1, <2>6, DiskKept DEF IInv
<1>4. QED
  BY <1>2, <1>3

\* The document is chained from the state: the clock only moved on since the
\* gate let the run through.
LEMMA ComputeInv ==
    ASSUME IInv, SingleWriter, NEW p \in Publisher, Compute(p)
    PROVE  IInv'
<1>1. TypeInv'
  BY ComputeTypes DEF IInv
<1>2. CASE \E why \in {"failed", "dryRun"} : End(p, why)
  BY <1>1, <1>2, EndKeepsInv DEF Compute
<1>3. CASE ~\E why \in {"failed", "dryRun"} : End(p, why)
  <2>1. /\ pc[p] = "compute" /\ Goto(p, "readHead") /\ UNCHANGED <<disk, runs, now>>
        /\ UNCHANGED <<job, prev, target, fd, outcome>>
    BY <1>3 DEF Compute
  <2>2. /\ doc'[p].epoch = NextEpoch(prev[p])
        /\ doc'[p].basis = IF prev[p] = Absent THEN 0 ELSE prev[p].run
        /\ doc'[p].at = now /\ doc'[p].forced = job[p].forced
    BY <1>3 DEF Compute, IInv, TypeInv, TypeOK
  <2>3. prev[p] = file[StatePath] /\ (prev[p] # Absent =>
                                      job[p].forced \/ IsDue(prev[p]))
    BY <2>1 DEF IInv, ComputePart, PC
  <2>4. Chained(doc'[p], prev[p])
    BY <2>2, <2>3 DEF Chained, Log!Follows, IsDue
  <2>5. pc'[p] = "readHead"
    BY <2>1 DEF Goto, IInv, TypeInv, TypeOK
  <2>6. ASSUME NEW q \in Publisher PROVE ComputePart(q)' /\ AppendPart(q)'
    <3>1. q = p
      BY DEF SingleWriter
    <3>2. QED
      BY <3>1, <2>1, <2>3, <2>4, <2>5
      DEF ComputePart, AppendPart, disk, Chained, NextEpoch
  <2>7. QED
    BY <1>1, <2>1, <2>6, DiskKept DEF IInv
<1>4. QED
  BY <1>2, <1>3

\* Past the first check the document's number is the head's successor.
LEMMA AppendReadHeadInv ==
    ASSUME IInv, SingleWriter, NEW p \in Publisher, AppendReadHead(p)
    PROVE  IInv'
<1>1. TypeInv'
  BY AppendReadHeadTypes DEF IInv
<1>2. CASE \E why \in {"failed", "rejected"} : End(p, why)
  BY <1>1, <1>2, EndKeepsInv DEF AppendReadHead
<1>3. CASE ~\E why \in {"failed", "rejected"} : End(p, why)
  <2>1. /\ pc[p] = "readHead" /\ Goto(p, "readRecord")
        /\ UNCHANGED <<disk, runs, now>>
        /\ UNCHANGED <<job, prev, doc, target, fd, outcome>>
        /\ file[HeadPath] # Torn /\ doc[p].epoch = Expected
    BY <1>3 DEF AppendReadHead
  <2>2. prev[p] = file[StatePath] /\ Chained(doc[p], prev[p])
    BY <2>1 DEF IInv, ComputePart, PC
  <2>3. pc'[p] = "readRecord"
    BY <2>1 DEF Goto, IInv, TypeInv, TypeOK
  <2>4. Published' = Published /\ doc[p].epoch = Published
    BY <2>1, DiskKept DEF Published
  <2>5. ASSUME NEW q \in Publisher PROVE ComputePart(q)' /\ AppendPart(q)'
    <3>1. q = p
      BY DEF SingleWriter
    <3>2. QED
      BY <3>1, <2>1, <2>2, <2>3, <2>4
      DEF ComputePart, AppendPart, disk, Chained, NextEpoch
  <2>6. QED
    BY <1>1, <2>1, <2>5, DiskKept DEF IInv
<1>4. QED
  BY <1>2, <1>3

\* Past the second check there is no record at that number.
LEMMA AppendReadRecordInv ==
    ASSUME IInv, SingleWriter, NEW p \in Publisher, AppendReadRecord(p)
    PROVE  IInv'
<1>1. TypeInv'
  BY AppendReadRecordTypes DEF IInv
<1>2. CASE \E why \in {"failed", "immutable"} : End(p, why)
  BY <1>1, <1>2, EndKeepsInv DEF AppendReadRecord
<1>3. CASE ~\E why \in {"failed", "immutable"} : End(p, why)
  <2>1. /\ pc[p] = "readRecord" /\ Goto(p, "open")
        /\ UNCHANGED <<disk, runs, now>>
        /\ target' = [target EXCEPT ![p] = doc[p].epoch]
        /\ UNCHANGED <<job, prev, doc, fd, outcome>>
        /\ file[doc[p].epoch] = Absent
    BY <1>3 DEF AppendReadRecord
  <2>2. prev[p] = file[StatePath] /\ Chained(doc[p], prev[p])
        /\ doc[p].epoch = Published
    BY <2>1 DEF IInv, ComputePart, AppendPart, PC
  <2>3. pc'[p] = "open" /\ target'[p] = doc[p].epoch
    BY <2>1 DEF Goto, IInv, TypeInv, TypeOK
  <2>4. Published' = Published
    BY <2>1, DiskKept
  <2>5. ASSUME NEW q \in Publisher PROVE ComputePart(q)' /\ AppendPart(q)'
    <3>1. q = p
      BY DEF SingleWriter
    <3>2. QED
      BY <3>1, <2>1, <2>2, <2>3, <2>4
      DEF ComputePart, AppendPart, disk, Chained, NextEpoch
  <2>6. QED
    BY <1>1, <2>1, <2>5, DiskKept DEF IInv
<1>4. QED
  BY <1>2, <1>3

\* Opening the .tmp touches no file at its final path.
LEMMA OpenTmpInv ==
    ASSUME IInv, SingleWriter, NEW p \in Publisher, OpenTmp(p)
    PROVE  IInv'
<1>1. TypeInv'
  BY OpenTmpTypes DEF IInv
<1>2. /\ pc[p] = "open" /\ pc'[p] = "write" /\ fd'[p] = "tmp"
      /\ UNCHANGED <<file, audit, prev, doc, target, now>>
  BY DEF OpenTmp, Goto, IInv, TypeInv, TypeOK
<1>3. target[p] \in Path /\ tmp'[target[p]] = Torn
  BY <1>2 DEF OpenTmp, IInv, TypeInv, TypeOK, LocalsOK
<1>4. LogPart' /\ StatePart' /\ AuditPart' /\ Published' = Published
  BY <1>2 DEF IInv, LogPart, StatePart, AuditPart, Published, Expected,
              Log!Follows
<1>5. ComputePart(p) /\ AppendPart(p)
  BY DEF IInv
<1>6. ComputePart(p)'
  BY <1>2, <1>5 DEF ComputePart, Chained, NextEpoch, PC, Log!Follows
<1>7. AppendPart(p)'
  BY <1>2, <1>3, <1>4, <1>5 DEF AppendPart
<1>8. QED
  BY <1>1, <1>4, <1>6, <1>7 DEF IInv, SingleWriter

\* With one writer a write goes to its own .tmp, and to nothing published.
LEMMA WriteTmpInv ==
    ASSUME IInv, SingleWriter, NEW p \in Publisher, WriteTmp(p)
    PROVE  IInv'
<1>1. TypeInv'
  BY WriteTmpTypes DEF IInv
<1>2. ComputePart(p) /\ AppendPart(p)
  BY DEF IInv
<1>3. /\ pc[p] = "write" /\ pc'[p] = "rename"
      /\ UNCHANGED <<audit, prev, doc, target, now>>
  BY DEF WriteTmp, Goto, IInv, TypeInv, TypeOK
<1>4. fd[p] = "tmp" /\ tmp[target[p]] = Torn /\ target[p] \in Path
  BY <1>2, <1>3 DEF AppendPart, IInv, TypeInv, LocalsOK
<1>5. UNCHANGED file /\ tmp'[target[p]] = doc[p]
  BY <1>4 DEF WriteTmp, Written, IInv, TypeInv, TypeOK
<1>6. LogPart' /\ StatePart' /\ AuditPart' /\ Published' = Published
  BY <1>3, <1>5 DEF IInv, LogPart, StatePart, AuditPart, Published, Expected,
                    Log!Follows
<1>7. ComputePart(p)'
  BY <1>2, <1>3, <1>5 DEF ComputePart, Chained, NextEpoch, PC, Log!Follows
<1>8. AppendPart(p)'
  BY <1>2, <1>3, <1>5, <1>6 DEF AppendPart
<1>9. QED
  BY <1>1, <1>6, <1>7, <1>8 DEF IInv, SingleWriter

\* What the rename of each of the three files does to the directory.
LEMMA RenameCases ==
    ASSUME IInv, NEW p \in Publisher, RenameTmp(p)
    PROVE  /\ file' = [file EXCEPT ![target[p]] = doc[p]]
           /\ doc[p] \in Doc /\ pc[p] = "rename" /\ target[p] \in Path
           /\ Chained(doc[p], prev[p]) /\ prev[p] = file[StatePath]
           /\ UNCHANGED <<audit, prev, doc, runs, now>>
           /\ \/ /\ target[p] = doc[p].epoch
                 /\ doc[p].epoch = Published /\ file[doc[p].epoch] = Absent
                 /\ pc'[p] = "open" /\ target'[p] = HeadPath
              \/ /\ target[p] = HeadPath
                 /\ doc[p].epoch = Published /\ file[doc[p].epoch] = doc[p]
                 /\ pc'[p] = "open" /\ target'[p] = StatePath
              \/ /\ target[p] = StatePath
                 /\ doc[p].epoch + 1 = Published /\ file[doc[p].epoch] = doc[p]
                 /\ pc'[p] = "openAudit"
<1>1. pc[p] = "rename"
  BY DEF RenameTmp
<1>2. /\ doc[p] \in Doc /\ target[p] \in Path
      /\ tmp[target[p]] = doc[p]
      /\ Chained(doc[p], prev[p]) /\ prev[p] = file[StatePath]
      /\ \/ /\ target[p] = doc[p].epoch
            /\ doc[p].epoch = Published /\ file[doc[p].epoch] = Absent
         \/ /\ target[p] = HeadPath
            /\ doc[p].epoch = Published /\ file[doc[p].epoch] = doc[p]
         \/ /\ target[p] = StatePath
            /\ doc[p].epoch + 1 = Published /\ file[doc[p].epoch] = doc[p]
  BY <1>1 DEF IInv, TypeInv, LocalsOK, ComputePart, AppendPart, PC
<1>3. tmp[target[p]] # Absent
  BY <1>2, ValueAssumption
<1>4. /\ file' = [file EXCEPT ![target[p]] = doc[p]]
      /\ AfterRename(p, target[p])
      /\ UNCHANGED <<audit, prev, doc, runs, now>>
  BY <1>2, <1>3 DEF RenameTmp
<1>5. doc[p].epoch \in Epochs
  BY <1>2 DEF Doc
<1>6. /\ target[p] \in Epochs => pc'[p] = "open" /\ target'[p] = HeadPath
      /\ target[p] = HeadPath => pc'[p] = "open" /\ target'[p] = StatePath
      /\ target[p] = StatePath => pc'[p] = "openAudit"
  BY <1>4, Paths DEF AfterRename, Goto, IInv, TypeInv, TypeOK
<1>7. QED
  BY <1>1, <1>2, <1>4, <1>5, <1>6

\* The new head continues the old: its basis is the run of the record below.
LEMMA RenameInv ==
    ASSUME IInv, SingleWriter, NEW p \in Publisher, RenameTmp(p)
    PROVE  IInv'
<1> DEFINE d == doc[p]
<1>1. TypeInv'
  BY RenameTmpTypes DEF IInv
<1>2. /\ file' = [file EXCEPT ![target[p]] = d]
      /\ d \in Doc /\ pc[p] = "rename" /\ target[p] \in Path
      /\ Chained(d, prev[p]) /\ prev[p] = file[StatePath]
      /\ UNCHANGED <<audit, prev, doc, runs, now>>
  BY RenameCases
<1>3. /\ d.epoch \in Epochs /\ d.epoch \in Nat /\ d # Torn /\ d # Absent
      /\ file \in [Path -> Doc \union {Absent, Torn}]
  BY <1>2, Paths, ValueAssumption DEF Doc, IInv, TypeInv, TypeOK
<1>4. Published \in Nat
  BY PublishedIsNat DEF IInv, TypeInv
<1>5. LogPart /\ StatePart /\ AuditPart
  BY DEF IInv
<1>6. ASSUME NEW q \in Publisher PROVE q = p
  BY DEF SingleWriter
<1>7. CASE /\ target[p] = d.epoch
           /\ d.epoch = Published /\ file[d.epoch] = Absent
           /\ pc'[p] = "open" /\ target'[p] = HeadPath
  <2>1. Published' = Published /\ file'[StatePath] = file[StatePath]
    BY <1>2, <1>3, <1>7, Paths DEF Published, Expected
  <2>2. file'[d.epoch] = d /\ \A x \in Path \ {d.epoch} : file'[x] = file[x]
    BY <1>2, <1>3, <1>7, Paths
  <2>3. LogPart'
    <3>1. ASSUME NEW e \in Epochs, e < Published
          PROVE  file'[e] = file[e] /\ (e > 0 => file'[e - 1] = file[e - 1])
      <4>1. file'[e] = file[e]
        BY <2>2, <3>1, <1>7, Paths
      <4>2. e > 0 => e - 1 \in Epochs /\ e - 1 # d.epoch
        BY <3>1, <1>7, BoundsAssumption DEF Epochs
      <4>3. QED
        BY <4>1, <4>2, <2>2, Paths
    <3>2. file'[HeadPath] # Torn
      BY <2>2, <1>5, <1>3, Paths DEF LogPart
    <3>3. ASSUME NEW e \in Epochs
          PROVE  /\ e < Published => file'[e] \in Doc
                 /\ e > Published => file'[e] = Absent
                 /\ file'[e] # Torn
                 /\ file'[e] \in Doc => file'[e].epoch = e
                 /\ e > 0 /\ e < Published =>
                       Log!Follows(file'[e], file'[e - 1])
      <4>1. CASE e = d.epoch
        BY <4>1, <2>2, <1>3, <1>4, <1>7, <1>2, Paths
      <4>2. CASE e # d.epoch
        BY <4>2, <2>2, <3>1, <1>4, <1>5, <1>7, Paths DEF LogPart, Log!Follows
      <4>3. QED
        BY <4>1, <4>2
    <3>4. QED
      BY <2>1, <3>2, <3>3 DEF LogPart, Log!Follows
  <2>4. StatePart'
    <3>1. file[StatePath] \in Doc => file[StatePath].epoch \in Path \ {d.epoch}
      BY <1>5, <1>7, <1>4, Paths, DocEpoch DEF StatePart
    <3>2. QED
      BY <2>1, <2>2, <3>1, <1>5 DEF StatePart
  <2>5. AuditPart'
    BY <2>1, <2>2, <1>2, <1>4, <1>5, <1>7, Paths DEF AuditPart
  <2>6. ComputePart(p)' /\ AppendPart(p)'
    BY <2>1, <2>2, <1>2, <1>7
    DEF ComputePart, AppendPart, Chained, NextEpoch, Log!Follows
  <2>7. QED
    BY <1>1, <1>6, <2>3, <2>4, <2>5, <2>6 DEF IInv
<1>8. CASE /\ target[p] = HeadPath
           /\ d.epoch = Published /\ file[d.epoch] = d
           /\ pc'[p] = "open" /\ target'[p] = StatePath
  <2>1. Published' = Published + 1
    BY <1>2, <1>3, <1>8, Paths DEF Published, Expected
  <2>2. \A x \in Path \ {HeadPath} : file'[x] = file[x]
    BY <1>2, <1>3, <1>8, Paths
  <2>3. d.epoch > 0 => Log!Follows(d, file[d.epoch - 1])
    <3>1. SUFFICES ASSUME d.epoch > 0 PROVE Log!Follows(d, file[d.epoch - 1])
      OBVIOUS
    <3>2. prev[p] # Absent /\ d.epoch = prev[p].epoch + 1
          /\ Log!Follows(d, prev[p])
      BY <3>1, <1>2 DEF Chained, NextEpoch
    <3>3. prev[p] \in Doc
      BY <3>2, <1>2, Paths, <1>5 DEF IInv, TypeInv, TypeOK
    <3>4. file[prev[p].epoch] = prev[p] /\ prev[p].epoch \in Nat
      BY <3>3, <1>2, <1>5, Paths DEF StatePart, Doc
    <3>5. prev[p].epoch = d.epoch - 1
      BY <3>2, <3>4, <1>3
    <3>6. QED
      BY <3>2, <3>4, <3>5
  <2>4. LogPart'
    <3>1. file'[HeadPath] # Torn
      BY <1>2, <1>3, <1>8, Paths
    <3>2. \A e \in Epochs : file'[e] = file[e] /\
                            (e > 0 => file'[e - 1] = file[e - 1])
      <4>1. ASSUME NEW e \in Epochs, e > 0 PROVE e - 1 \in Epochs
        BY <4>1, BoundsAssumption DEF Epochs
      <4>2. QED
        BY <4>1, <2>2, Paths
    <3>3. ASSUME NEW e \in Epochs
          PROVE  /\ e < Published + 1 => file[e] \in Doc
                 /\ e > Published + 1 => file[e] = Absent
                 /\ file[e] # Torn
                 /\ file[e] \in Doc => file[e].epoch = e
                 /\ e > 0 /\ e < Published + 1 => Log!Follows(file[e], file[e - 1])
      <4>1. CASE e = d.epoch
        BY <4>1, <1>2, <1>3, <1>8, <2>3
      <4>2. CASE e # d.epoch
        BY <4>2, <1>4, <1>5, <1>8, Paths DEF LogPart
      <4>3. QED
        BY <4>1, <4>2
    <3>4. QED
      BY <2>1, <3>1, <3>2, <3>3 DEF LogPart, Log!Follows
  <2>5. StatePart'
    <3>1. file[StatePath] \in Doc =>
            file[StatePath].epoch \in Path \ {HeadPath}
            /\ file[StatePath].epoch < Published + 1
      BY <1>4, <1>5, Paths, DocEpoch DEF StatePart
    <3>2. QED
      BY <2>1, <2>2, <3>1, <1>5, Paths DEF StatePart
  <2>6. AuditPart'
    BY <2>1, <2>2, <1>2, <1>4, <1>5, Paths DEF AuditPart
  <2>7. ComputePart(p)' /\ AppendPart(p)'
    BY <2>1, <2>2, <1>2, <1>3, <1>8, Paths
    DEF ComputePart, AppendPart, Chained, NextEpoch, Log!Follows
  <2>8. QED
    BY <1>1, <1>6, <2>4, <2>5, <2>6, <2>7 DEF IInv
<1>9. CASE /\ target[p] = StatePath
           /\ d.epoch + 1 = Published /\ file[d.epoch] = d
           /\ pc'[p] = "openAudit"
  <2>1. Published' = Published
    BY <1>2, <1>3, <1>9, Paths DEF Published, Expected
  <2>2. file'[StatePath] = d /\ \A x \in Path \ {StatePath} : file'[x] = file[x]
    BY <1>2, <1>3, <1>9, Paths
  <2>3. LogPart'
    <3>1. \A e \in Epochs : file'[e] = file[e] /\
                            (e > 0 => file'[e - 1] = file[e - 1])
      <4>1. ASSUME NEW e \in Epochs, e > 0 PROVE e - 1 \in Epochs
        BY <4>1, BoundsAssumption DEF Epochs
      <4>2. QED
        BY <4>1, <2>2, Paths
    <3>2. QED
      BY <2>1, <2>2, <3>1, <1>5, Paths DEF LogPart, Log!Follows
  <2>4. StatePart'
    BY <2>1, <2>2, <1>3, <1>4, <1>9, Paths DEF StatePart
  <2>5. AuditPart'
    BY <2>1, <2>2, <1>2, <1>5, Paths DEF AuditPart
  <2>6. ComputePart(p)' /\ AppendPart(p)'
    BY <2>1, <2>2, <1>2, <1>3, <1>4, <1>9, Paths DEF ComputePart, AppendPart
  <2>7. QED
    BY <1>1, <1>6, <2>3, <2>4, <2>5, <2>6 DEF IInv
<1>10. QED
  BY <1>7, <1>8, <1>9, RenameCases

\* An audit file is opened for a published epoch only.
LEMMA OpenAuditInv ==
    ASSUME IInv, SingleWriter, NEW p \in Publisher, OpenAudit(p)
    PROVE  IInv'
<1>1. TypeInv'
  BY OpenAuditTypes DEF IInv
<1>2. /\ pc[p] = "openAudit" /\ pc'[p] = "writeAudit"
      /\ UNCHANGED <<file, tmp, prev, doc, target, fd, now>>
      /\ audit' = [audit EXCEPT ![doc[p].epoch] = Torn]
  BY DEF OpenAudit, Goto, IInv, TypeInv, TypeOK
<1>3. doc[p].epoch \in Epochs /\ audit'[doc[p].epoch] = Torn
  BY <1>2, DocEpoch DEF IInv, TypeInv, TypeOK, LocalsOK
<1>4. LogPart' /\ StatePart' /\ Published' = Published
  BY <1>2 DEF IInv, LogPart, StatePart, Published, Expected, Log!Follows
<1>5. AuditPart'
  BY <1>2, <1>3, <1>4, ValueAssumption DEF IInv, AuditPart, TypeInv, TypeOK
<1>6. ComputePart(p)' /\ AppendPart(p)'
  BY <1>2, <1>3, <1>4 DEF IInv, ComputePart, AppendPart
<1>7. QED
  BY <1>1, <1>4, <1>5, <1>6 DEF IInv, SingleWriter

\* With one writer the audit file gets the published document whole.
LEMMA WriteAuditInv ==
    ASSUME IInv, SingleWriter, NEW p \in Publisher, WriteAudit(p)
    PROVE  IInv'
<1>1. TypeInv'
  BY WriteAuditTypes DEF IInv
<1>2. /\ pc[p] = "writeAudit" /\ UNCHANGED <<file, tmp>>
      /\ End(p, "published")
  BY DEF WriteAudit
<1>3. /\ audit[doc[p].epoch] = Torn /\ file[doc[p].epoch] = doc[p]
      /\ doc[p].epoch < Published
  BY <1>2 DEF IInv, AppendPart
<1>4. audit' = [audit EXCEPT ![doc[p].epoch] = doc[p]]
  BY <1>3 DEF WriteAudit, Written
<1>5. LogPart' /\ StatePart' /\ Published' = Published
  BY <1>2 DEF IInv, LogPart, StatePart, Published, Expected, Log!Follows
<1>6. AuditPart'
  BY <1>2, <1>3, <1>4, <1>5 DEF IInv, AuditPart, TypeInv, TypeOK
<1>7. \A q \in Publisher : ComputePart(q)' /\ AppendPart(q)'
  BY <1>2, EndClaims
<1>8. QED
  BY <1>1, <1>5, <1>6, <1>7 DEF IInv

\* The clock moving on makes a due epoch no less due.
LEMMA TickInv ==
    ASSUME IInv, SingleWriter, Tick
    PROVE  IInv'
<1>1. TypeInv'
  BY TickTypes DEF IInv
<1>2. now \in Nat /\ now' = now + 1 /\ UNCHANGED disk
      /\ UNCHANGED <<pc, job, prev, doc, target, fd>>
  BY BoundsAssumption DEF IInv, TypeInv, TypeOK, Tick
<1>3. LogPart' /\ StatePart' /\ AuditPart' /\ Published' = Published
  BY <1>2, DiskKept
<1>4. ASSUME NEW p \in Publisher PROVE ComputePart(p)' /\ AppendPart(p)'
  <2>1. prev[p] \in Doc => prev[p].at + Gate \in Nat
    BY BoundsAssumption DEF Doc
  <2>2. prev[p] \in Doc \union {Absent}
    BY DEF IInv, TypeInv, TypeOK
  <2>3. prev[p] # Absent /\ IsDue(prev[p]) => IsDue(prev[p])'
    BY <1>2, <2>1, <2>2 DEF IsDue
  <2>4. ComputePart(p) /\ AppendPart(p)
    BY DEF IInv
  <2>5. ComputePart(p)'
    BY <1>2, <2>3, <2>4 DEF ComputePart, disk, Chained, NextEpoch, Log!Follows
  <2>6. AppendPart(p)'
    BY <1>2, <1>3, <2>4 DEF AppendPart, disk
  <2>7. QED
    BY <2>5, <2>6
<1>5. QED
  BY <1>1, <1>3, <1>4 DEF IInv

\* A step that changes nothing keeps the invariant.
LEMMA StutterInv == IInv /\ UNCHANGED vars => IInv'
<1> SUFFICES ASSUME IInv, UNCHANGED vars PROVE IInv'
  OBVIOUS
<1>1. TypeInv'
  BY NextTypes DEF IInv
<1>2. LogPart' /\ StatePart' /\ AuditPart' /\ Published' = Published
  BY DiskKept DEF vars, disk
<1>3. ASSUME NEW p \in Publisher PROVE ComputePart(p)' /\ AppendPart(p)'
  <2>1. ComputePart(p) /\ AppendPart(p)
    BY DEF IInv
  <2>2. QED
    BY <1>2, <2>1 DEF vars, ComputePart, AppendPart, Chained, NextEpoch,
                      IsDue, Log!Follows
<1>4. QED
  BY <1>1, <1>2, <1>3 DEF IInv

\* With a single writer every step keeps the invariant.
LEMMA NextInv == SingleWriter /\ IInv /\ [Next]_vars => IInv'
<1> SUFFICES ASSUME SingleWriter, IInv, [Next]_vars PROVE IInv'
  OBVIOUS
<1>1. CASE UNCHANGED vars
  BY <1>1, StutterInv
<1>2. CASE Tick
  BY <1>2, TickInv
<1>3. ASSUME NEW p \in Publisher, Start(p) PROVE IInv'
  BY <1>3, StartInv
<1>4. ASSUME NEW p \in Publisher, Crash(p) PROVE IInv'
  <2>1. TypeInv' /\ End(p, "crashed") /\ UNCHANGED disk
    BY <1>4, CrashTypes DEF IInv, Crash
  <2>2. QED
    BY <2>1, EndKeepsInv
<1>5. ASSUME NEW p \in Publisher, Step(p) PROVE IInv'
  BY <1>5, CheckCadenceInv, ComputeInv, AppendReadHeadInv, AppendReadRecordInv,
     OpenTmpInv, WriteTmpInv, RenameInv, OpenAuditInv, WriteAuditInv DEF Step
<1>6. QED
  BY <1>1, <1>2, <1>3, <1>4, <1>5 DEF Next

\* With one writer the inductive invariant holds, whatever crashes.
THEOREM SingleWriterInvariant == SingleWriter /\ Spec => []IInv
<1>1. Init => IInv
  BY InitInv
<1>2. SingleWriter /\ IInv /\ [Next]_vars => IInv'
  BY NextInv
<1>3. ASSUME SingleWriter PROVE Spec => []IInv
  <2>1. IInv /\ [Next]_vars => IInv'
    BY <1>2, <1>3
  <2>2. QED
    BY <1>1, <2>1, PTL DEF Spec
<1>4. QED
  BY <1>3

-----------------------------------------------------------------------------
(* One writer: the properties *)

\* The head never points at a missing, torn or misnumbered record.
THEOREM HeadNeverDangles == SingleWriter /\ Spec => []HeadHasRecords
<1>1. IInv => HeadHasRecords
  <2>1. SUFFICES ASSUME IInv PROVE HeadHasRecords
    OBVIOUS
  <2>2. file[HeadPath] \in Doc => file[HeadPath].epoch \in Epochs
    BY DocEpoch
  <2>3. Published \in Nat /\ Published <= MaxEpoch + 1
    <3>1. CASE file[HeadPath] = Absent
      BY <3>1, BoundsAssumption, ValueAssumption DEF Published, Expected
    <3>2. CASE file[HeadPath] \in Doc
      BY <3>2, <2>2, BoundsAssumption, ValueAssumption
      DEF Published, Expected, Epochs
    <3>3. QED
      BY <2>1, <3>1, <3>2, Paths DEF IInv, TypeInv, TypeOK, LogPart
  <2>4. ASSUME NEW e \in 0..(Published - 1)
        PROVE  file[e] \in Doc /\ file[e].epoch = e
    <3>1. e \in Epochs /\ e < Published
      BY <2>3, BoundsAssumption DEF Epochs
    <3>2. QED
      BY <2>1, <3>1 DEF IInv, LogPart
  <2>5. QED
    BY <2>4 DEF HeadHasRecords
<1>2. QED
  BY <1>1, SingleWriterInvariant, PTL

\* No reader ever meets a truncated record, head pointer or state.
THEOREM FilesStayWhole == SingleWriter /\ Spec => []WholeFiles
<1>1. IInv => WholeFiles
  BY DEF IInv, LogPart, StatePart, WholeFiles, Path
<1>2. QED
  BY <1>1, SingleWriterInvariant, PTL

\* The continuity state is always that of a published epoch.
THEOREM StateIsPublished == SingleWriter /\ Spec => []StateMatchesRecord
<1>1. IInv => StateMatchesRecord
  BY Paths DEF IInv, StatePart, StateMatchesRecord, TypeInv, TypeOK
<1>2. QED
  BY <1>1, SingleWriterInvariant, PTL

\* A parseable audit record is of the published record.
THEOREM AuditIsOfRecord == SingleWriter /\ Spec => []AuditMatchesRecord
<1>1. IInv => AuditMatchesRecord
  BY DEF IInv, AuditPart, AuditMatchesRecord
<1>2. QED
  BY <1>1, SingleWriterInvariant, PTL

\* Only a rename changes a file at its final path.
LEMMA OnlyRenames ==
    ASSUME IInv, [Next]_vars
    PROVE  UNCHANGED file \/ \E p \in Publisher : RenameTmp(p)
<1>1. ASSUME NEW p \in Publisher, WriteTmp(p) PROVE UNCHANGED file
  <2>1. fd[p] = "tmp"
    BY <1>1 DEF WriteTmp, IInv, AppendPart
  <2>2. QED
    BY <1>1, <2>1 DEF WriteTmp
<1>2. QED
  BY <1>1 DEF Next, Step, vars, disk, Start, CheckCadence, Compute, Tick, Crash,
              AppendReadHead, AppendReadRecord, OpenTmp, OpenAudit, WriteAudit

\* A published record is never replaced: of the three renames only that of a
\* record touches one, and its path was found empty and stayed so.
THEOREM Immutability == SingleWriter /\ Spec => RecordsImmutable
<1>1. IInv /\ [Next]_vars =>
        [\A e \in Epochs : file[e] # Absent => file'[e] = file[e]]_vars
  <2>1. SUFFICES ASSUME IInv, NEW p \in Publisher, RenameTmp(p),
                        NEW e \in Epochs, file[e] # Absent
                 PROVE  file'[e] = file[e]
    BY OnlyRenames
  <2>2. e # target[p]
    BY <2>1, RenameCases, Paths
  <2>3. file' = [file EXCEPT ![target[p]] = doc[p]]
    BY <2>1, RenameCases
  <2>4. QED
    BY <2>2, <2>3, Paths DEF IInv, TypeInv, TypeOK
<1>2. QED
  BY <1>1, SingleWriterInvariant, PTL DEF Spec, RecordsImmutable

\* What a step does to what is published: nothing, or the rename of the head
\* pointer publishes the next epoch, chained from the state.
LEMMA PublishStep ==
    ASSUME IInv, [Next]_vars
    PROVE  \/ /\ Published' = Published /\ file'[HeadPath] = file[HeadPath]
              /\ \A e \in Epochs : e < Published => file'[e] = file[e]
           \/ \E p \in Publisher :
                 /\ target[p] = HeadPath /\ target'[p] = StatePath
                 /\ Published' = Published + 1
                 /\ \A e \in Epochs : file'[e] = file[e]
                 /\ doc[p] \in Doc /\ doc[p].epoch = Published
                 /\ file[doc[p].epoch] = doc[p]
                 /\ Chained(doc[p], file[StatePath])
<1>1. CASE UNCHANGED file
  BY <1>1 DEF Published, Expected
<1>2. ASSUME NEW p \in Publisher, RenameTmp(p)
      PROVE  \/ /\ Published' = Published /\ file'[HeadPath] = file[HeadPath]
                /\ \A e \in Epochs : e < Published => file'[e] = file[e]
             \/ /\ target[p] = HeadPath /\ target'[p] = StatePath
                /\ Published' = Published + 1
                /\ \A e \in Epochs : file'[e] = file[e]
                /\ doc[p] \in Doc /\ doc[p].epoch = Published
                /\ file[doc[p].epoch] = doc[p]
                /\ Chained(doc[p], file[StatePath])
  <2>1. /\ file' = [file EXCEPT ![target[p]] = doc[p]]
        /\ file \in [Path -> Doc \union {Absent, Torn}]
        /\ doc[p] \in Doc /\ doc[p].epoch \in Epochs /\ doc[p] # Torn
        /\ doc[p] # Absent /\ target[p] \in Path
        /\ Chained(doc[p], file[StatePath])
    BY <1>2, RenameCases, DocEpoch, ValueAssumption DEF IInv, TypeInv, TypeOK
  <2>2. CASE target[p] # HeadPath
    <3>1. target[p] = StatePath \/ target[p] = Published
      BY <1>2, <2>2, RenameCases
    <3>2. file'[HeadPath] = file[HeadPath]
      BY <2>1, <2>2, Paths
    <3>3. Published' = Published
      BY <3>2 DEF Published, Expected
    <3>4. \A e \in Epochs : e < Published => file'[e] = file[e]
      BY <2>1, <3>1, Paths
    <3>5. QED
      BY <3>2, <3>3, <3>4
  <2>3. CASE target[p] = HeadPath
    <3>1. /\ doc[p].epoch = Published /\ file[doc[p].epoch] = doc[p]
          /\ target'[p] = StatePath
      BY <1>2, <2>1, <2>3, RenameCases, Paths
    <3>2. file'[HeadPath] = doc[p] /\ \A e \in Epochs : file'[e] = file[e]
      BY <2>1, <2>3, Paths
    <3>3. Published' = Published + 1
      BY <2>1, <3>1, <3>2 DEF Published, Expected
    <3>4. QED
      BY <2>1, <2>3, <3>1, <3>2, <3>3
  <2>4. QED
    BY <2>2, <2>3
<1>3. QED
  BY <1>1, <1>2, OnlyRenames

\* Once a crash has left the state behind the head, nothing is published.
THEOREM DivergenceStopsPublication == SingleWriter /\ Spec => DivergenceIsLoud
<1>1. IInv /\ SingleWriter /\ [Next]_vars =>
        [Diverged => Diverged' /\ file'[HeadPath] = file[HeadPath]]_vars
  <2>1. SUFFICES ASSUME IInv, SingleWriter, [Next]_vars, Diverged
                 PROVE  Diverged' /\ file'[HeadPath] = file[HeadPath]
    OBVIOUS
  <2>2. ASSUME NEW p \in Publisher,
               doc[p].epoch = Published, Chained(doc[p], file[StatePath])
        PROVE  FALSE
    BY <2>1, <2>2, PublishedIsNat DEF Diverged, Chained, IInv, TypeInv
  <2>3. Published' = Published /\ file'[HeadPath] = file[HeadPath]
    BY <2>1, <2>2, PublishStep
  <2>4. file'[StatePath] = file[StatePath]
    <3>1. CASE UNCHANGED file
      BY <3>1
    <3>2. ASSUME NEW p \in Publisher, RenameTmp(p)
          PROVE  file'[StatePath] = file[StatePath]
      BY <2>1, <3>2, RenameCases, Paths DEF Diverged, IInv, TypeInv, TypeOK
    <3>3. QED
      BY <2>1, <3>1, <3>2, OnlyRenames
  <2>5. ASSUME NEW p \in Publisher PROVE target'[p] # StatePath
    <3>1. target[p] # StatePath /\ target \in [Publisher -> Path \union {Absent}]
      BY <2>1 DEF Diverged, IInv, TypeInv, TypeOK
    <3>2. CASE UNCHANGED target
      BY <3>1, <3>2
    <3>3. ASSUME NEW q \in Publisher, NEW why, End(q, why)
          PROVE  target'[p] # StatePath
      BY <3>1, <3>3, Paths, ValueAssumption DEF End
    <3>4. ASSUME NEW q \in Publisher, AppendReadRecord(q)
          PROVE  target'[p] # StatePath
      <4>1. \/ \E why : End(q, why)
            \/ target' = [target EXCEPT ![q] = doc[q].epoch]
        BY <3>4 DEF AppendReadRecord
      <4>2. doc[q].epoch \in Epochs
        BY <2>1, <3>4, DocEpoch DEF AppendReadRecord, IInv, TypeInv, LocalsOK
      <4>3. QED
        BY <3>1, <3>3, <4>1, <4>2, Paths
    <3>5. ASSUME NEW q \in Publisher, RenameTmp(q)
          PROVE  target'[p] # StatePath
      <4>1. target[q] # HeadPath
        BY <2>1, <2>2, <3>5, RenameCases, Paths, DocEpoch
      <4>2. p = q
        BY <2>1 DEF SingleWriter
      <4>3. target'[p] = HeadPath
        BY <2>1, <3>1, <3>5, <4>1, <4>2, RenameCases
      <4>4. QED
        BY <4>3, Paths
    <3>6. ASSUME NEW q \in Publisher, Start(q) PROVE target'[p] # StatePath
      BY <3>2, <3>3, <3>6 DEF Start
    <3>7. ASSUME NEW q \in Publisher, Step(q) PROVE target'[p] # StatePath
      BY <3>2, <3>3, <3>4, <3>5, <3>7
      DEF Step, CheckCadence, Compute, AppendReadHead, OpenTmp, WriteTmp,
          OpenAudit, WriteAudit
    <3>8. QED
      BY <2>1, <3>2, <3>3, <3>6, <3>7 DEF Next, Crash, Tick, vars
  <2>6. QED
    BY <2>1, <2>3, <2>4, <2>5 DEF Diverged, NextEpoch
<1>2. ASSUME SingleWriter PROVE Spec => DivergenceIsLoud
  <2>1. IInv /\ [Next]_vars =>
          [Diverged => Diverged' /\ file'[HeadPath] = file[HeadPath]]_vars
    BY <1>1, <1>2
  <2>2. Spec => []IInv
    BY <1>2, SingleWriterInvariant
  <2>3. QED
    BY <2>1, <2>2, PTL DEF Spec, DivergenceIsLoud
<1>3. QED
  BY <1>2

-----------------------------------------------------------------------------
(* One writer: the directory implements the append-only log *)

\* An empty directory is the empty log.
LEMMA LogInit == Init => Log!Init
<1> SUFFICES ASSUME Init PROVE Log!Init
  OBVIOUS
<1>1. Published = 0
  BY Paths, ValueAssumption DEF Init, Published, Expected
<1>2. 0..(Published - 1) = {}
  BY <1>1
<1>3. QED
  BY <1>1, <1>2 DEF Log!Init

\* Every step is a step of the log, the rename of the head, or a stutter.
LEMMA LogStep == IInv /\ [Next]_vars => [Log!Next]_(Log!logVars)
<1> SUFFICES ASSUME IInv, [Next]_vars PROVE [Log!Next]_(Log!logVars)
  OBVIOUS
<1> DEFINE N == Published
           log == [e \in 0..(N - 1) |-> file[e]]
<1>1. N \in Nat /\ 0..(N - 1) \subseteq Epochs
  <2>1. file[HeadPath] \in Doc => file[HeadPath].epoch \in Epochs
    BY DocEpoch
  <2>2. N \in Nat /\ N <= MaxEpoch + 1
    <3>1. CASE file[HeadPath] = Absent
      BY <3>1, BoundsAssumption, ValueAssumption DEF Published, Expected
    <3>2. CASE file[HeadPath] \in Doc
      BY <3>2, <2>1, BoundsAssumption, ValueAssumption
      DEF Published, Expected, Epochs
    <3>3. QED
      BY <3>1, <3>2, Paths DEF IInv, TypeInv, TypeOK, LogPart
  <2>3. QED
    BY <2>2, BoundsAssumption DEF Epochs
<1>2. CASE /\ N' = N
           /\ \A e \in Epochs : e < N => file'[e] = file[e]
  <2>1. log' = log
    BY <1>1, <1>2
  <2>2. QED
    BY <1>2, <2>1 DEF Log!logVars
<1>3. ASSUME NEW p \in Publisher,
             N' = N + 1,
             \A e \in Epochs : file'[e] = file[e],
             doc[p] \in Doc, doc[p].epoch = N, file[doc[p].epoch] = doc[p],
             Chained(doc[p], file[StatePath])
      PROVE  Log!Next
  <2>1. N > 0 => Log!Follows(doc[p], log[N - 1])
    <3>1. SUFFICES ASSUME N > 0 PROVE Log!Follows(doc[p], log[N - 1])
      OBVIOUS
    <3>2. file[StatePath] # Absent /\ N = file[StatePath].epoch + 1
          /\ Log!Follows(doc[p], file[StatePath])
      BY <3>1, <1>3 DEF Chained, NextEpoch
    <3>3. file[StatePath] \in Doc
      BY <3>2, Paths DEF IInv, StatePart, TypeInv, TypeOK
    <3>4. file[file[StatePath].epoch] = file[StatePath]
          /\ file[StatePath].epoch = N - 1
      BY <3>2, <3>3, <1>1, DocEpoch DEF IInv, StatePart
    <3>5. log[N - 1] = file[StatePath]
      BY <3>1, <3>4, <1>1
    <3>6. QED
      BY <3>2, <3>5
  <2>2. log' = [e \in 0..N |-> IF e = N THEN doc[p] ELSE log[e]]
    <3>1. N \in Epochs
      BY <1>3, DocEpoch
    <3>2. log' = [e \in 0..N |-> file[e]]
      BY <1>1, <1>3, <3>1
    <3>3. ASSUME NEW e \in 0..N
          PROVE  file[e] = IF e = N THEN doc[p] ELSE log[e]
      BY <1>1, <1>3
    <3>4. QED
      BY <3>2, <3>3
  <2>3. QED
    BY <1>3, <2>1, <2>2 DEF Log!Next, Log!Publish
<1>4. QED
  BY <1>2, <1>3, PublishStep

\* Every epoch up to the head was appended in order, chained from the run that
\* published the one below, in cadence unless forced, and is never edited.
THEOREM Refinement == SingleWriter /\ Spec => ImplementsLog
<1>1. Spec => Init /\ [][Next]_vars
  BY DEF Spec
<1>2. SingleWriter /\ Spec => []IInv
  BY SingleWriterInvariant
<1>3. QED
  BY <1>1, <1>2, LogInit, LogStep, PTL DEF ImplementsLog, Log!Spec

-----------------------------------------------------------------------------
(* Several writers: no gap *)

\* What a step can do to the file at a path and to its .tmp: no file is ever
\* removed, and what is new is torn, the .tmp's, or some writer's document.
LEMMA SharedFiles ==
    ASSUME TypeInv, [Next]_vars, NEW x \in Path
    PROVE  /\ file[x] # Absent => file'[x] # Absent
           /\ \/ file'[x] \in {file[x], tmp[x], Torn}
              \/ \E p \in Publisher : pc[p] = "write" /\ target[p] = x /\ file'[x] = doc[p]
           /\ \/ tmp'[x] \in {tmp[x], Absent, Torn}
              \/ \E p \in Publisher : pc[p] = "write" /\ target[p] = x /\ tmp'[x] = doc[p]
           /\ file'[x] # Absent \/ tmp'[x] # Absent =>
                 \/ file[x] # Absent \/ tmp[x] # Absent
                 \/ \E p \in Publisher : pc[p] \in {"open", "write"} /\ target[p] = x
<1>1. /\ file \in [Path -> Doc \union {Absent, Torn}]
      /\ tmp \in [Path -> Doc \union {Absent, Torn}]
      /\ Absent # Torn /\ Absent \notin Doc
  BY ValueAssumption DEF TypeInv, TypeOK
<1>2. CASE UNCHANGED <<file, tmp>>
  BY <1>2
<1>3. ASSUME NEW p \in Publisher, OpenTmp(p)
      PROVE  /\ UNCHANGED file /\ pc[p] = "open"
             /\ tmp'[x] = tmp[x] \/ (tmp'[x] = Torn /\ target[p] = x)
  BY <1>1, <1>3 DEF OpenTmp
<1>4. ASSUME NEW p \in Publisher, WriteTmp(p)
      PROVE  /\ pc[p] = "write"
             /\ file'[x] # file[x] => target[p] = x /\ file'[x] \in {doc[p], Torn}
             /\ tmp'[x] # tmp[x] => target[p] = x /\ tmp'[x] \in {doc[p], Torn}
             /\ doc[p] # Absent
  <2>1. pc[p] = "write" /\ doc[p] \in Doc
    BY <1>4 DEF WriteTmp, TypeInv, LocalsOK
  <2>2. \A content : Written(doc[p], content) \subseteq {doc[p], Torn}
    BY DEF Written
  <2>3. QED
    BY <1>1, <1>4, <2>1, <2>2 DEF WriteTmp
<1>5. ASSUME NEW p \in Publisher, RenameTmp(p)
      PROVE  /\ file'[x] = file[x] \/ (file'[x] = tmp[x] /\ tmp[x] # Absent)
             /\ tmp'[x] \in {tmp[x], Absent}
  BY <1>1, <1>5 DEF RenameTmp, disk
<1>6. \/ UNCHANGED <<file, tmp>>
      \/ \E p \in Publisher : OpenTmp(p) \/ WriteTmp(p) \/ RenameTmp(p)
  BY DEF Next, Step, vars, disk, Start, CheckCadence, Compute, Tick, Crash,
         AppendReadHead, AppendReadRecord, OpenAudit, WriteAudit
<1>7. ASSUME NEW p \in Publisher, OpenTmp(p) \/ WriteTmp(p) \/ RenameTmp(p)
      PROVE  /\ file[x] # Absent => file'[x] # Absent
             /\ \/ file'[x] \in {file[x], tmp[x], Torn}
                \/ pc[p] = "write" /\ target[p] = x /\ file'[x] = doc[p]
             /\ \/ tmp'[x] \in {tmp[x], Absent, Torn}
                \/ pc[p] = "write" /\ target[p] = x /\ tmp'[x] = doc[p]
             /\ file'[x] # Absent \/ tmp'[x] # Absent =>
                   \/ file[x] # Absent \/ tmp[x] # Absent
                   \/ pc[p] \in {"open", "write"} /\ target[p] = x
  BY <1>1, <1>3, <1>4, <1>5, <1>7
<1>8. QED
  BY <1>2, <1>6, <1>7

\* What is grounded in the directory stays so.
LEMMA GroundStays ==
    ASSUME TypeInv, [Next]_vars
    PROVE  /\ \A n : RecordsUpTo(file, n) => RecordsUpTo(file', n)
           /\ \A d, x : Grounded(file, d, x) => Grounded(file', d, x)
<1>1. \A e \in Epochs : file[e] # Absent => file'[e] # Absent
  BY SharedFiles, Paths
<1>2. \A n : RecordsUpTo(file, n) => RecordsUpTo(file', n)
  BY <1>1 DEF RecordsUpTo
<1>3. QED
  BY <1>2 DEF Grounded

\* What a process knows is its own affair.
LEMMA OthersKeep ==
    ASSUME TypeInv, NEW p \in Publisher, Start(p) \/ Step(p) \/ Crash(p),
           NEW q \in Publisher, q # p
    PROVE  pc'[q] = pc[q] /\ doc'[q] = doc[q] /\ prev'[q] = prev[q] /\ target'[q] = target[q]
  BY DEF TypeInv, TypeOK, Start, Step, Crash, End, Goto, CheckCadence, Compute, AppendReadHead,
         AppendReadRecord, OpenTmp, WriteTmp, RenameTmp, AfterRename, OpenAudit, WriteAudit

\* How a process comes by what it knows.
LEMMA OwnStep ==
    ASSUME TypeInv, NEW p \in Publisher, Start(p) \/ Step(p) \/ Crash(p)
    PROVE  /\ pc'[p] = "gate" => prev'[p] = file[StatePath] /\ file[StatePath] \in Doc
           /\ pc'[p] = "readRecord" =>
                 /\ pc[p] = "readHead" /\ doc'[p] = doc[p]
                 /\ file[HeadPath] # Torn /\ doc[p].epoch = Expected
           /\ pc'[p] \in {"open", "write", "rename"} =>
                 /\ doc'[p] = doc[p]
                 /\ \/ pc[p] \in {"open", "write", "rename"} /\ target'[p] = target[p]
                    \/ pc[p] = "readRecord" /\ target'[p] = doc[p].epoch
                    \/ /\ pc[p] = "rename" /\ target[p] \notin {HeadPath, StatePath}
                       /\ target'[p] = HeadPath /\ file'[target[p]] # Absent
                    \/ /\ pc[p] = "rename" /\ target[p] = HeadPath
                       /\ target'[p] = StatePath
<1>1. TypeOK /\ LocalsOK(p)
  BY DEF TypeInv
<1>2. ASSUME NEW why, End(p, why) PROVE pc'[p] = "idle"
  BY <1>1, <1>2 DEF TypeOK, End
<1>3. CASE \E why : End(p, why)
  BY <1>2, <1>3
<1>4. CASE ~\E why : End(p, why)
  <2>1. CASE Start(p)
    BY <1>1, <1>4, <2>1, Paths DEF TypeOK, Start, Goto
  <2>2. CASE CheckCadence(p) \/ Compute(p) \/ OpenAudit(p) \/ WriteAudit(p) \/ Crash(p)
    <3>1. pc'[p] \in {"compute", "readHead", "writeAudit"}
      BY <1>1, <1>4, <2>2
      DEF TypeOK, CheckCadence, Compute, OpenAudit, WriteAudit, Crash, Goto
    <3>2. QED
      BY <3>1
  <2>3. CASE AppendReadHead(p)
    BY <1>1, <1>4, <2>3 DEF TypeOK, AppendReadHead, Goto
  <2>4. CASE AppendReadRecord(p)
    BY <1>1, <1>4, <2>4 DEF TypeOK, AppendReadRecord, Goto
  <2>5. CASE OpenTmp(p) \/ WriteTmp(p)
    BY <1>1, <2>5 DEF TypeOK, OpenTmp, WriteTmp, Goto
  <2>6. CASE RenameTmp(p)
    <3>1. /\ pc[p] = "rename" /\ doc' = doc /\ tmp[target[p]] # Absent
          /\ file' = [file EXCEPT ![target[p]] = tmp[target[p]]]
          /\ AfterRename(p, target[p])
      BY <1>4, <2>6 DEF RenameTmp
    <3>2. target[p] \in Path
      BY <1>1, <3>1 DEF LocalsOK
    <3>3. file'[target[p]] # Absent
      BY <1>1, <3>1, <3>2 DEF TypeOK
    <3>4. QED
      BY <1>1, <3>1, <3>3, Paths DEF TypeOK, AfterRename, Goto
  <2>7. QED
    BY <2>1, <2>2, <2>3, <2>4, <2>5, <2>6 DEF Step
<1>5. QED
  BY <1>3, <1>4

\* Nothing is grounded in a gap at first.
LEMMA InitGap == Init => GapInv
<1> SUFFICES ASSUME Init PROVE GapInv
  OBVIOUS
<1>1. TypeInv
  BY InitTypes
<1>2. \A x \in Path : file[x] = Absent /\ tmp[x] = Absent
  BY DEF Init
<1>3. QED
  BY <1>1, <1>2, Paths, ValueAssumption DEF Init, GapInv

\* Every step of any number of publishers keeps the directory without a gap.
LEMMA NextGap == GapInv /\ [Next]_vars => GapInv'
<1> SUFFICES ASSUME GapInv, [Next]_vars PROVE GapInv'
  OBVIOUS
<1>1. TypeInv /\ TypeInv'
  BY NextTypes DEF GapInv
<1>2. /\ \A n : RecordsUpTo(file, n) => RecordsUpTo(file', n)
      /\ \A d, x : Grounded(file, d, x) => Grounded(file', d, x)
  BY <1>1, GroundStays
<1>3. Torn \notin Doc /\ Absent \notin Doc
  BY ValueAssumption
<1>4. ASSUME NEW x \in Path
      PROVE  /\ file'[x] \in Doc => Grounded(file', file'[x], x)
             /\ tmp'[x] \in Doc => Grounded(file', tmp'[x], x)
  <2>1. \A p \in Publisher : pc[p] = "write" /\ target[p] = x => Grounded(file, doc[p], x)
    BY DEF GapInv
  <2>2. /\ file[x] \in Doc => Grounded(file, file[x], x)
        /\ tmp[x] \in Doc => Grounded(file, tmp[x], x)
    BY DEF GapInv
  <2>3. file'[x] \in Doc => Grounded(file, file'[x], x)
    BY <1>1, <1>3, <2>1, <2>2, SharedFiles
  <2>4. tmp'[x] \in Doc => Grounded(file, tmp'[x], x)
    BY <1>1, <1>3, <2>1, <2>2, SharedFiles
  <2>5. QED
    BY <1>2, <2>3, <2>4
<1>5. ASSUME NEW e \in Epochs, file'[e] # Absent \/ tmp'[e] # Absent
      PROVE  RecordsUpTo(file', e - 1)
  <2>1. \/ file[e] # Absent \/ tmp[e] # Absent
        \/ \E p \in Publisher : pc[p] \in {"open", "write"} /\ target[p] = e
    BY <1>1, <1>5, SharedFiles, Paths
  <2>2. \A p \in Publisher : pc[p] \in {"open", "write"} => Grounded(file, doc[p], target[p])
    BY DEF GapInv
  <2>3. RecordsUpTo(file, e - 1)
    BY <2>1, <2>2 DEF GapInv, Grounded
  <2>4. QED
    BY <1>2, <2>3
<1>6. ASSUME NEW p \in Publisher
      PROVE  /\ pc'[p] = "gate" => RecordsUpTo(file', prev'[p].epoch)
             /\ pc'[p] = "readRecord" => RecordsUpTo(file', doc'[p].epoch - 1)
             /\ pc'[p] \in {"open", "write", "rename"} => Grounded(file', doc'[p], target'[p])
  <2>1. /\ pc[p] = "gate" => RecordsUpTo(file, prev[p].epoch)
        /\ pc[p] = "readRecord" => RecordsUpTo(file, doc[p].epoch - 1)
        /\ pc[p] \in {"open", "write", "rename"} => Grounded(file, doc[p], target[p])
    BY DEF GapInv
  <2>2. CASE /\ pc'[p] = pc[p] /\ doc'[p] = doc[p]
             /\ prev'[p] = prev[p] /\ target'[p] = target[p]
    BY <1>2, <2>1, <2>2
  <2>3. CASE Start(p) \/ Step(p) \/ Crash(p)
    <3>1. ASSUME pc'[p] = "gate" PROVE RecordsUpTo(file', prev'[p].epoch)
      <4>1. prev'[p] = file[StatePath] /\ file[StatePath] \in Doc
        BY <1>1, <2>3, <3>1, OwnStep
      <4>2. Grounded(file, file[StatePath], StatePath)
        BY <4>1, Paths DEF GapInv
      <4>3. QED
        BY <1>2, <4>1, <4>2 DEF Grounded
    <3>2. ASSUME pc'[p] = "readRecord" PROVE RecordsUpTo(file', doc'[p].epoch - 1)
      <4>1. /\ pc[p] = "readHead" /\ doc'[p] = doc[p]
            /\ file[HeadPath] # Torn /\ doc[p].epoch = Expected
        BY <1>1, <2>3, <3>2, OwnStep
      <4>2. CASE file[HeadPath] = Absent
        <5>1. doc'[p].epoch = 0
          BY <4>1, <4>2 DEF Expected
        <5>2. \A e \in Epochs : ~ (e <= 0 - 1)
          BY Paths
        <5>3. QED
          BY <5>1, <5>2 DEF RecordsUpTo
      <4>3. CASE file[HeadPath] # Absent
        <5>1. file[HeadPath] \in Doc
          BY <1>1, <4>1, <4>3, Paths DEF TypeInv, TypeOK
        <5>2. Grounded(file, file[HeadPath], HeadPath) /\ file[HeadPath].epoch \in Nat
          BY <5>1, Paths, DocEpoch DEF GapInv
        <5>3. doc'[p].epoch - 1 = file[HeadPath].epoch
          BY <4>1, <4>3, <5>2 DEF Expected
        <5>4. QED
          BY <1>2, <5>2, <5>3 DEF Grounded
      <4>4. QED
        BY <4>2, <4>3
    <3>3. ASSUME pc'[p] \in {"open", "write", "rename"}
          PROVE  Grounded(file', doc'[p], target'[p])
      <4>1. doc'[p] = doc[p] /\ doc[p] \in Doc /\ doc[p].epoch \in Epochs
        BY <1>1, <2>3, <3>3, OwnStep, DocEpoch DEF TypeInv, LocalsOK
      <4>2. CASE pc[p] \in {"open", "write", "rename"} /\ target'[p] = target[p]
        BY <1>2, <2>1, <4>1, <4>2
      <4>3. CASE pc[p] = "readRecord" /\ target'[p] = doc[p].epoch
        <5>1. Grounded(file, doc[p], target'[p])
          BY <2>1, <4>1, <4>3, Paths DEF Grounded
        <5>2. QED
          BY <1>2, <4>1, <5>1
      <4>4. CASE /\ pc[p] = "rename" /\ target[p] \notin {HeadPath, StatePath}
                 /\ target'[p] = HeadPath /\ file'[target[p]] # Absent
        <5>1. target[p] = doc[p].epoch /\ RecordsUpTo(file, doc[p].epoch - 1)
          BY <1>1, <2>1, <4>4 DEF TypeInv, LocalsOK, Path, Grounded
        <5>2. RecordsUpTo(file', doc[p].epoch)
          <6>1. RecordsUpTo(file', doc[p].epoch - 1) /\ file'[doc[p].epoch] # Absent
            BY <1>2, <4>4, <5>1
          <6>2. doc[p].epoch \in Nat /\ \A e \in Epochs : e \in Nat
            BY <4>1, Paths
          <6>3. \A e, n \in Nat : e <= n => e <= n - 1 \/ e = n
            OBVIOUS
          <6>4. QED
            BY <6>1, <6>2, <6>3 DEF RecordsUpTo
        <5>3. QED
          BY <4>1, <4>4, <5>2, Paths DEF Grounded
      <4>5. CASE pc[p] = "rename" /\ target[p] = HeadPath /\ target'[p] = StatePath
        <5>1. RecordsUpTo(file, doc[p].epoch)
          BY <2>1, <4>5 DEF Grounded
        <5>2. QED
          BY <1>2, <4>1, <4>5, <5>1, Paths DEF Grounded
      <4>6. QED
        BY <1>1, <2>3, <3>3, <4>2, <4>3, <4>4, <4>5, OwnStep
    <3>4. QED
      BY <3>1, <3>2, <3>3
  <2>4. \/ Start(p) \/ Step(p) \/ Crash(p)
        \/ /\ pc'[p] = pc[p] /\ doc'[p] = doc[p]
           /\ prev'[p] = prev[p] /\ target'[p] = target[p]
    BY <1>1, OthersKeep DEF Next, Tick, vars
  <2>5. QED
    BY <2>2, <2>3, <2>4
<1>7. QED
  BY <1>1, <1>4, <1>5, <1>6 DEF GapInv

\* The invariant of a directory that several processes write.
THEOREM SharedInvariant == Spec => []GapInv
  BY InitGap, NextGap, PTL DEF Spec

\* It says that there is no gap.
LEMMA GapInvMeans == GapInv => NoGap
<1> SUFFICES ASSUME GapInv PROVE NoGap
  OBVIOUS
<1>1. ASSUME NEW e \in Epochs, file[e] # Absent PROVE RecordsUpTo(file, e)
  <2>1. RecordsUpTo(file, e - 1)
    BY <1>1 DEF GapInv
  <2>2. QED
    BY <1>1, <2>1, Paths DEF RecordsUpTo
<1>2. ASSUME NEW x \in {HeadPath, StatePath}, file[x] \in Doc
      PROVE  RecordsUpTo(file, file[x].epoch)
  BY <1>2, Paths DEF GapInv, Grounded
<1>3. ASSUME NEW e \in Epochs, file[e] \in Doc PROVE file[e].epoch = e
  BY <1>3, Paths DEF GapInv, Grounded
<1>4. ASSUME NEW p \in Publisher, pc[p] = "gate" PROVE file[prev[p].epoch] # Absent
  <2>1. RecordsUpTo(file, prev[p].epoch) /\ prev[p].epoch \in Epochs /\ prev[p].epoch \in Nat
    BY <1>4, DocEpoch DEF GapInv, TypeInv, LocalsOK
  <2>2. QED
    BY <2>1 DEF RecordsUpTo
<1>5. QED
  BY <1>1, <1>2, <1>3, <1>4 DEF NoGap

\* However many processes write at once, and die, the directory has no gap.
THEOREM NoGapWhoeverWrites == Spec => []NoGap
  BY SharedInvariant, GapInvMeans, PTL

-----------------------------------------------------------------------------
(* Readers beside a single writer: the directory as they need it *)

\* The routes whose answer names an epoch with its record.
Named == {"tick", "latest", "constituents"}

\* What the store's invariant says of the files that the service reads.
LEMMA StoreFacts ==
    ASSUME IInv
    PROVE  /\ Published \in Nat
           /\ \A e \in Epochs :
                 /\ e < Published => file[e] \in Doc /\ file[e].epoch = e
                 /\ e > Published => file[e] = Absent
           /\ file[HeadPath] \in Doc \union {Absent}
           /\ file[HeadPath] = Absent => Published = 0
           /\ file[HeadPath] \in Doc =>
                 /\ file[HeadPath].epoch \in Epochs
                 /\ file[HeadPath].epoch + 1 = Published
           /\ file[StatePath] \in Doc =>
                 /\ file[StatePath].epoch \in Epochs
                 /\ file[StatePath].epoch < Published
                 /\ file[file[StatePath].epoch] = file[StatePath]
<1>1. Published \in Nat
  BY PublishedIsNat DEF IInv, TypeInv
<1>2. file[HeadPath] \in Doc \union {Absent}
  BY Paths DEF IInv, LogPart, TypeInv, TypeOK
<1>3. \A e \in Epochs :
         /\ e < Published => file[e] \in Doc /\ file[e].epoch = e
         /\ e > Published => file[e] = Absent
  BY DEF IInv, LogPart
<1>4. /\ file[HeadPath] = Absent => Published = 0
      /\ file[HeadPath] \in Doc =>
            /\ file[HeadPath].epoch \in Epochs
            /\ file[HeadPath].epoch + 1 = Published
  BY ValueAssumption, DocEpoch DEF Published, Expected
<1>5. file[StatePath] \in Doc =>
         /\ file[StatePath].epoch \in Epochs
         /\ file[StatePath].epoch < Published
         /\ file[file[StatePath].epoch] = file[StatePath]
  BY DocEpoch DEF IInv, StatePart
<1>6. QED
  BY <1>1, <1>2, <1>3, <1>4, <1>5

\* Epochs are only ever added to, and stay as they were published.
LEMMA StoreStep ==
    ASSUME IInv, [Next]_vars
    PROVE  /\ Published' \in Nat /\ Published <= Published'
           /\ \A e \in Epochs : e < Published => file'[e] = file[e]
<1>1. Published \in Nat
  BY StoreFacts
<1>2. QED
  BY <1>1, PublishStep

\* Runs are counted up.
LEMMA RunsGrow ==
    ASSUME TypeOK, [Next]_vars
    PROVE  runs \in Nat /\ runs' \in Nat /\ (runs' = runs \/ runs' = runs + 1)
<1>1. runs \in Nat
  BY BoundsAssumption DEF TypeOK
<1>2. runs' = runs \/ runs' = runs + 1
  BY DEF Next, Start, Step, CheckCadence, Compute, AppendReadHead,
         AppendReadRecord, OpenTmp, WriteTmp, RenameTmp, OpenAudit, WriteAudit,
         Crash, Tick, vars
<1>3. QED
  BY <1>1, <1>2

\* An invocation's number is that of a run.
LEMMA JobsKnown ==
    ASSUME IInv, RunsKnown, [Next]_vars, NEW p \in Publisher
    PROVE  job'[p].run <= runs'
<1>1. /\ job \in [Publisher -> [run : 0..MaxRuns, forced : BOOLEAN]]
      /\ job[p].run <= runs /\ job[p].run \in Nat
  BY BoundsAssumption DEF IInv, TypeInv, TypeOK, RunsKnown
<1>2. runs \in Nat /\ runs' \in Nat /\ (runs' = runs \/ runs' = runs + 1)
  BY RunsGrow DEF IInv, TypeInv
<1>3. CASE job' = job
  BY <1>1, <1>2, <1>3
<1>4. ASSUME NEW q \in Publisher, NEW why, End(q, why)
      PROVE  job'[p].run <= runs'
  BY <1>1, <1>2, <1>4 DEF End, NoJob
<1>5. ASSUME NEW q \in Publisher, Start(q)
      PROVE  job'[p].run <= runs'
  <2>1. CASE \E why : End(q, why)
    BY <1>4, <2>1
  <2>2. CASE ~\E why : End(q, why)
    <3>1. PICK force \in BOOLEAN :
            job' = [job EXCEPT ![q] = [run |-> runs', forced |-> force]]
      BY <1>5, <2>2 DEF Start
    <3>2. QED
      BY <1>1, <1>2, <3>1
  <2>3. QED
    BY <2>1, <2>2
<1>6. job' = job \/ \E q \in Publisher : Start(q) \/ \E why : End(q, why)
  BY DEF Next, Step, CheckCadence, Compute, AppendReadHead,
         AppendReadRecord, OpenTmp, WriteTmp, RenameTmp, OpenAudit, WriteAudit,
         Crash, Tick, vars
<1>7. QED
  BY <1>3, <1>4, <1>5, <1>6

\* A computed document bears the number of the run that computed it.
LEMMA DocsKnown ==
    ASSUME IInv, RunsKnown, [Next]_vars, NEW p \in Publisher, doc'[p] \in Doc
    PROVE  doc'[p].run <= runs'
<1>1. /\ doc \in [Publisher -> Doc \union {Absent}]
      /\ doc[p] \in Doc => doc[p].run <= runs /\ doc[p].run \in Nat
  BY BoundsAssumption DEF IInv, TypeInv, TypeOK, RunsKnown, Doc
<1>2. job[p].run <= runs /\ job[p].run \in Nat
  BY BoundsAssumption DEF IInv, TypeInv, TypeOK, RunsKnown
<1>3. runs \in Nat /\ runs' \in Nat /\ (runs' = runs \/ runs' = runs + 1)
  BY RunsGrow DEF IInv, TypeInv
<1>4. CASE doc'[p] = doc[p]
  BY <1>1, <1>3, <1>4
<1>5. ASSUME NEW q \in Publisher, NEW why, End(q, why)
      PROVE  doc'[p] = doc[p]
  BY <1>1, <1>5, ValueAssumption DEF End
<1>6. ASSUME NEW q \in Publisher, Compute(q)
      PROVE  doc'[p] = doc[p] \/ doc'[p].run = job[p].run
  <2>1. CASE \E why : End(q, why)
    BY <1>5, <2>1
  <2>2. CASE ~\E why : End(q, why)
    BY <1>1, <1>6, <2>2 DEF Compute
  <2>3. QED
    BY <2>1, <2>2
<1>7. doc' = doc \/ \E q \in Publisher : Compute(q) \/ \E why : End(q, why)
  BY DEF Next, Start, Step, CheckCadence, AppendReadHead,
         AppendReadRecord, OpenTmp, WriteTmp, RenameTmp, OpenAudit, WriteAudit,
         Crash, Tick, vars
<1>8. doc'[p] = doc[p] \/ doc'[p].run = job[p].run
  BY <1>5, <1>6, <1>7
<1>9. QED
  BY <1>2, <1>3, <1>4, <1>8

\* Only what a run computed ever reaches a file.
LEMMA RunsKnownStep == IInv /\ RunsKnown /\ [Next]_vars => RunsKnown'
<1> SUFFICES ASSUME IInv, RunsKnown, [Next]_vars PROVE RunsKnown'
  OBVIOUS
<1>1. runs \in Nat /\ runs' \in Nat /\ (runs' = runs \/ runs' = runs + 1)
  BY RunsGrow DEF IInv, TypeInv
<1>2. ASSUME NEW x \in Path, file'[x] \in Doc PROVE file'[x].run <= runs'
  <2>1. file'[x] = file[x] \/ \E p \in Publisher : doc[p] \in Doc /\ file'[x] = doc[p]
    BY OnlyRenames, RenameCases DEF IInv, TypeInv, TypeOK
  <2>2. file'[x].run <= runs
    BY <1>2, <2>1 DEF RunsKnown
  <2>3. file'[x].run \in Nat
    BY <1>2, BoundsAssumption DEF Doc
  <2>4. QED
    BY <1>1, <2>2, <2>3
<1>3. QED
  BY <1>2, JobsKnown, DocsKnown DEF RunsKnown

\* A process is where it may still compute only if it was, on the same
\* invocation, or has just been started.
LEMMA BeforeCompute ==
    ASSUME TypeOK, [Next]_vars, NEW p \in Publisher, pc'[p] \in {"gate", "compute"}
    PROVE  \/ pc[p] \in {"gate", "compute"} /\ job'[p] = job[p]
           \/ job'[p].run = runs + 1 /\ runs' = runs + 1
<1>1. /\ pc \in [Publisher -> PC]
      /\ job \in [Publisher -> [run : 0..MaxRuns, forced : BOOLEAN]]
  BY DEF TypeOK
<1>2. ASSUME NEW q \in Publisher, NEW why, End(q, why)
      PROVE  pc'[p] = pc[p] /\ job'[p] = job[p]
  BY <1>1, <1>2 DEF End
<1>3. ASSUME NEW q \in Publisher, Start(q)
      PROVE  \/ pc'[p] = pc[p] /\ job'[p] = job[p]
             \/ job'[p].run = runs + 1 /\ runs' = runs + 1
  <2>1. CASE \E why : End(q, why)
    BY <1>2, <2>1
  <2>2. CASE ~\E why : End(q, why)
    <3>1. PICK force \in BOOLEAN :
            /\ job' = [job EXCEPT ![q] = [run |-> runs', forced |-> force]]
            /\ Goto(q, IF file[StatePath] = Absent \/ force THEN "compute" ELSE "gate")
      BY <1>3, <2>2 DEF Start
    <3>2. runs' = runs + 1
      BY <1>3 DEF Start
    <3>3. QED
      BY <1>1, <3>1, <3>2 DEF Goto
  <2>3. QED
    BY <2>1, <2>2
<1>4. ASSUME NEW q \in Publisher, CheckCadence(q)
      PROVE  job'[p] = job[p] /\ (pc[p] \in {"gate", "compute"})
  <2>1. CASE \E why : End(q, why)
    BY <1>2, <2>1
  <2>2. CASE ~\E why : End(q, why)
    BY <1>1, <1>4, <2>2 DEF CheckCadence, Goto
  <2>3. QED
    BY <2>1, <2>2
<1>5. ASSUME NEW q \in Publisher, NEW where, Goto(q, where),
             where \notin {"gate", "compute"}
      PROVE  pc'[p] = pc[p]
  BY <1>1, <1>5 DEF Goto
<1>6. ASSUME NEW q \in Publisher, RenameTmp(q)
      PROVE  pc'[p] = pc[p] /\ job'[p] = job[p]
  <2>1. CASE \E why : End(q, why)
    BY <1>2, <2>1
  <2>2. CASE ~\E why : End(q, why)
    BY <1>5, <1>6, <2>2 DEF RenameTmp, AfterRename
  <2>3. QED
    BY <2>1, <2>2
<1>7. ASSUME NEW q \in Publisher,
             Compute(q) \/ AppendReadHead(q) \/ AppendReadRecord(q)
      PROVE  pc'[p] = pc[p] /\ job'[p] = job[p]
  <2>1. CASE \E why : End(q, why)
    BY <1>2, <2>1
  <2>2. CASE ~\E why : End(q, why)
    BY <1>5, <1>7, <2>2 DEF Compute, AppendReadHead, AppendReadRecord
  <2>3. QED
    BY <2>1, <2>2
<1>8. ASSUME NEW q \in Publisher, OpenTmp(q) \/ WriteTmp(q) \/ OpenAudit(q)
      PROVE  pc'[p] = pc[p] /\ job'[p] = job[p]
  BY <1>5, <1>8 DEF OpenTmp, WriteTmp, OpenAudit
<1>9. ASSUME NEW q \in Publisher, WriteAudit(q) \/ Crash(q)
      PROVE  pc'[p] = pc[p] /\ job'[p] = job[p]
  BY <1>2, <1>9 DEF WriteAudit, Crash
<1>10. CASE UNCHANGED vars \/ Tick
  BY <1>10 DEF vars, Tick
<1>11. QED
  BY <1>3, <1>4, <1>6, <1>7, <1>8, <1>9, <1>10 DEF Next, Step

\* A new document is computed by a run that had none, and is of that run.
LEMMA NewDocument ==
    ASSUME TypeOK, [Next]_vars, NEW p \in Publisher, doc'[p] \notin {doc[p], Absent}
    PROVE  /\ pc[p] = "compute" /\ pc'[p] = "readHead"
           /\ doc'[p].run = job[p].run
           /\ UNCHANGED <<file, runs>>
<1>1. doc \in [Publisher -> Doc \union {Absent}] /\ pc \in [Publisher -> PC]
  BY DEF TypeOK
<1>2. ASSUME NEW q \in Publisher, NEW why, End(q, why) PROVE FALSE
  BY <1>1, <1>2 DEF End
<1>3. PICK q \in Publisher : Compute(q)
  BY <1>2 DEF Next, Start, Step, CheckCadence, AppendReadHead,
         AppendReadRecord, OpenTmp, WriteTmp, RenameTmp, OpenAudit, WriteAudit,
         Crash, Tick, vars
<1>4. QED
  BY <1>1, <1>2, <1>3 DEF Compute, Goto, disk

\* A document's block is one that its run may have signed.
LEMMA BlockOfDoc ==
    ASSUME signer \in [1..MaxRuns -> Attestor], NEW d \in Doc, AttestedAs(d)
    PROVE  block[d.run] \in Block /\ block[d.run] # Absent
<1>1. signer[d.run] \in Attestor
  BY DEF Doc
<1>2. QED
  BY <1>1, AttestationAssumption DEF AttestedAs, Block

\* The block types, whoever writes: what is attested is a document.
LEMMA AttestTypes ==
    ASSUME TypeInv, [Next]_vars, signer \in [1..MaxRuns -> Attestor],
           block \in [1..MaxRuns -> Block \union {Absent}], AttestRecord
    PROVE  /\ signer' \in [1..MaxRuns -> Attestor]
           /\ block' \in [1..MaxRuns -> Block \union {Absent}]
<1>1. ASSUME NEW p \in Publisher, NEW k \in Attestor, doc'[p] \notin {doc[p], Absent}
      PROVE  attest(RecordPayload(doc'[p]), k) \in Block
  <2>1. doc'[p] \in Doc
    BY <1>1, NextTypes DEF TypeInv, TypeOK
  <2>2. QED
    BY <2>1 DEF Block
<1>2. QED
  BY <1>1 DEF AttestRecord

\* A run that computes attests what it computed under its own number, where no
\* document has a block yet; every other step moves documents that have theirs.
LEMMA BlocksKeptStep ==
    ASSUME SingleWriter, IInv, ReaderInv, [Next]_vars, AttestRecord,
           UNCHANGED answer
    PROVE  BlocksKept'
<1>1. /\ signer \in [1..MaxRuns -> Attestor]
      /\ block \in [1..MaxRuns -> Block \union {Absent}]
      /\ answer \in [Reader -> Answer]
      /\ BlocksKept /\ RunsKnown
  BY DEF ReaderInv, ReaderTypeOK
<1>2. /\ runs \in Nat /\ runs' \in 0..MaxRuns /\ MaxRuns \in Nat
      /\ (runs' = runs \/ runs' = runs + 1)
  BY RunsGrow, NextTypes, BoundsAssumption DEF IInv, TypeInv, TypeOK
<1>3. CASE /\ \A p \in Publisher : doc'[p] \in {doc[p], Absent}
           /\ UNCHANGED <<signer, block>>
  <2>1. ASSUME NEW x \in Path, file'[x] \in Doc PROVE AttestedAs(file'[x])
    <3>1. file'[x] = file[x] \/ \E p \in Publisher : doc[p] \in Doc /\ file'[x] = doc[p]
      BY <2>1, OnlyRenames, RenameCases DEF IInv, TypeInv, TypeOK
    <3>2. QED
      BY <1>1, <2>1, <3>1 DEF BlocksKept
  <2>2. ASSUME NEW p \in Publisher, doc'[p] \in Doc PROVE AttestedAs(doc'[p])
    BY <1>1, <1>3, <2>2, ValueAssumption DEF BlocksKept
  <2>3. ASSUME NEW p \in Publisher, pc'[p] \in {"gate", "compute"}
        PROVE  job'[p].run \in 1..MaxRuns /\ block[job'[p].run] = Absent
    <3>1. CASE pc[p] \in {"gate", "compute"} /\ job'[p] = job[p]
      BY <1>1, <3>1 DEF BlocksKept
    <3>2. CASE job'[p].run = runs + 1 /\ runs' = runs + 1
      BY <1>1, <1>2, <3>2 DEF BlocksKept
    <3>3. QED
      BY <2>3, <3>1, <3>2, BeforeCompute DEF IInv, TypeInv
  <2>4. ASSUME NEW i \in 1..MaxRuns, i > runs' PROVE block[i] = Absent
    <3>1. i > runs
      BY <1>2, <2>4
    <3>2. QED
      BY <1>1, <3>1 DEF BlocksKept
  <2>5. UNCHANGED <<signer, block, answer>>
    BY <1>3
  <2>6. QED
    BY <1>1, <2>1, <2>2, <2>3, <2>4, <2>5 DEF BlocksKept, AttestedAs
<1>4. ASSUME NEW p \in Publisher, NEW k \in Attestor,
             doc'[p] \notin {doc[p], Absent},
             signer' = [signer EXCEPT ![doc'[p].run] = k],
             block' = [block EXCEPT ![doc'[p].run] = attest(RecordPayload(doc'[p]), k)]
      PROVE  BlocksKept'
  <2> DEFINE i == job[p].run
  <2>1. /\ pc[p] = "compute" /\ pc'[p] = "readHead" /\ doc'[p].run = i
        /\ UNCHANGED <<file, runs>>
    BY <1>4, NewDocument DEF IInv, TypeInv
  <2>2. i \in 1..MaxRuns /\ block[i] = Absent /\ i <= runs
    BY <1>1, <2>1 DEF BlocksKept, RunsKnown
  <2>3. \A q \in Publisher : q = p
    BY DEF SingleWriter
  <2> HIDE DEF i
  <2>4. ASSUME NEW d \in Doc, AttestedAs(d)
        PROVE  block'[d.run] = attest(RecordPayload(d), signer'[d.run])
    <3>1. d.run # i /\ d.run \in 1..MaxRuns
      BY <1>1, <2>2, <2>4, BlockOfDoc DEF Doc
    <3>2. block'[d.run] = block[d.run] /\ signer'[d.run] = signer[d.run]
      BY <1>1, <1>4, <2>1, <3>1
    <3>3. QED
      BY <2>4, <3>2 DEF AttestedAs
  <2>5. \A x \in Path : file'[x] \in Doc =>
           block'[file'[x].run] = attest(RecordPayload(file'[x]), signer'[file'[x].run])
    BY <1>1, <2>1, <2>4 DEF BlocksKept
  <2>6. block'[doc'[p].run] = attest(RecordPayload(doc'[p]), signer'[doc'[p].run])
    BY <1>1, <1>4, <2>1, <2>2
  <2>7. \A r \in Reader : answer'[r].record # Absent =>
           block'[answer'[r].record.run] =
              attest(RecordPayload(answer'[r].record), signer'[answer'[r].record.run])
    BY <1>1, <2>4 DEF BlocksKept, Answer
  <2>8. \A j \in 1..MaxRuns : j > runs' => block'[j] = Absent
    BY <1>1, <1>2, <1>4, <2>1, <2>2 DEF BlocksKept
  <2>9. QED
    BY <2>1, <2>3, <2>5, <2>6, <2>7, <2>8 DEF BlocksKept, AttestedAs
<1>5. QED
  BY <1>3, <1>4 DEF AttestRecord

-----------------------------------------------------------------------------
(* Readers beside a single writer: what they hold and are answered *)

\* Nothing is held and nothing answered at first.
LEMMA ReaderInitInv == ServiceInit => ReaderInv
<1> SUFFICES ASSUME ServiceInit PROVE ReaderInv
  OBVIOUS
<1>1. NoAnswer \in Answer
  BY DEF NoAnswer, Answer
<1>2. ReaderTypeOK
  BY <1>1 DEF ServiceInit, ReaderInit, ReaderTypeOK, Attestor
<1>3. RunsKnown /\ BlocksKept
  BY ValueAssumption DEF ServiceInit, Init, RunsKnown, NoJob, BlocksKept,
                         ReaderInit, NoAnswer
<1>4. ListingIsContiguous /\ \A r \in Reader : HeldPart(r) /\ AnswerPart(r)
  BY DEF ServiceInit, ReaderInit, NoAnswer, ListingIsContiguous, HeldPart,
         AnswerPart
<1>5. QED
  BY <1>2, <1>3, <1>4 DEF ReaderInv

\* The publisher moves on: what was read stays true.
LEMMA PublisherStepInv ==
    ASSUME SingleWriter, IInv, ReaderInv, [Next]_vars, AttestRecord,
           UNCHANGED <<rpc, held, answer, serverKey>>
    PROVE  ReaderInv'
<1>1. RunsKnown' /\ BlocksKept'
  BY RunsKnownStep, BlocksKeptStep DEF ReaderInv
<1>2. ReaderTypeOK'
  BY AttestTypes DEF ReaderInv, ReaderTypeOK, IInv
<1>3. ListingIsContiguous'
  BY DEF ReaderInv, ListingIsContiguous
<1>4. /\ Published \in Nat /\ Published' \in Nat /\ Published <= Published'
      /\ \A e \in Epochs : e < Published => file'[e] = file[e]
  BY StoreFacts, StoreStep
<1>5. runs \in Nat /\ runs' \in Nat /\ runs <= runs'
  BY RunsGrow DEF IInv, TypeInv
<1>6. ASSUME NEW r \in Reader PROVE HeldPart(r)' /\ AnswerPart(r)'
  <2>1. HeldPart(r) /\ AnswerPart(r) /\ held[r] \in Answer /\ answer[r] \in Answer
    BY DEF ReaderInv, ReaderTypeOK
  <2>2. UNCHANGED <<rpc, held, answer>>
    OBVIOUS
  <2>3. ASSUME NEW e \in Epochs PROVE e \in Nat
    BY <2>3, Paths
  <2>4. HeldPart(r)'
    BY <1>4, <2>1, <2>2, <2>3 DEF HeldPart, Answer
  <2>5. answer[r].record # Absent => answer[r].record.run \in 1..runs'
    BY <1>5, <2>1 DEF AnswerPart
  <2>6. AnswerPart(r)'
    BY <1>4, <2>1, <2>2, <2>3, <2>5 DEF AnswerPart
  <2>7. QED
    BY <2>4, <2>6
<1>7. QED
  BY <1>1, <1>2, <1>3, <1>6 DEF ReaderInv

\* What an answer must be like when it is given.
GoodAnswer(a) ==
    /\ a \in Answer
    /\ a.route \in Named => a.head \in Epochs /\ a.head < Published
                            /\ a.record = file[a.head]
    /\ a.record # Absent => a.record.run \in 1..runs /\ AttestedAs(a.record)
    /\ a.route = "list" =>
          LET bound == IF a.head = Absent THEN 0 ELSE a.head + 1 IN
          \A e \in a.epochs : e <= bound /\ 0..e \subseteq a.epochs

\* A reader that is answered well keeps the invariant.
LEMMA ReplyInv ==
    ASSUME ReaderInv, NEW r \in Reader, NEW a, GoodAnswer(a), Reply(r, a),
           UNCHANGED <<vars, keyVars>>
    PROVE  ReaderInv'
<1>1. NoAnswer \in Answer
  BY DEF NoAnswer, Answer
<1>2. /\ rpc' = [rpc EXCEPT ![r] = "idle"]
      /\ held' = [held EXCEPT ![r] = NoAnswer]
      /\ answer' = [answer EXCEPT ![r] = a]
      /\ a \in Answer
  BY DEF Reply, GoodAnswer
<1>3. UNCHANGED <<file, runs, pc, job, doc, signer, block, serverKey, Published>>
  BY DEF vars, keyVars, Published, Expected
<1>4. ReaderTypeOK'
  BY <1>1, <1>2, <1>3 DEF ReaderInv, ReaderTypeOK
<1>5. RunsKnown' /\ BlocksKept'
  <2>1. \A q \in Reader : answer'[q].record # Absent => AttestedAs(answer'[q].record)
    BY <1>2 DEF ReaderInv, ReaderTypeOK, BlocksKept, GoodAnswer
  <2>2. QED
    BY <1>3, <2>1 DEF ReaderInv, RunsKnown, BlocksKept, AttestedAs
<1>6. ListingIsContiguous'
  BY <1>2 DEF ReaderInv, ReaderTypeOK, ListingIsContiguous, GoodAnswer
<1>7. ASSUME NEW q \in Reader PROVE HeldPart(q)' /\ AnswerPart(q)'
  <2>1. CASE q = r
    BY <1>2, <1>3, <2>1 DEF ReaderInv, ReaderTypeOK, HeldPart, AnswerPart,
                            GoodAnswer, Named
  <2>2. CASE q # r
    BY <1>2, <1>3, <2>2 DEF ReaderInv, ReaderTypeOK, HeldPart, AnswerPart
  <2>3. QED
    BY <2>1, <2>2
<1>8. QED
  BY <1>4, <1>5, <1>6, <1>7 DEF ReaderInv

\* What may be held between two reads.
GoodHold(r, where, a) ==
    /\ a \in Answer
    /\ where \in {"latestAt", "historyHead"}
    /\ where = "latestAt" =>
          /\ a.route \in {"latest", "constituents"}
          /\ a.head \in Epochs /\ a.head < Published
          /\ answer[r].route \in {"latest", "constituents"} =>
                answer[r].head <= a.head
    /\ where = "historyHead" =>
          /\ a.record = Absent
          /\ \A e \in a.epochs : e <= Published /\ 0..e \subseteq a.epochs

\* A reader that holds what is true keeps the invariant.
LEMMA HoldInv ==
    ASSUME ReaderInv, NEW r \in Reader, NEW where, NEW a,
           GoodHold(r, where, a), Hold(r, where, a), UNCHANGED <<vars, keyVars>>
    PROVE  ReaderInv'
<1>1. /\ rpc' = [rpc EXCEPT ![r] = where]
      /\ held' = [held EXCEPT ![r] = a]
      /\ answer' = answer
      /\ a \in Answer /\ where \in {"latestAt", "historyHead"}
  BY DEF Hold, GoodHold
<1>2. UNCHANGED <<file, runs, pc, job, doc, signer, block, serverKey, Published>>
  BY DEF vars, keyVars, Published, Expected
<1>3. ReaderTypeOK'
  BY <1>1, <1>2 DEF ReaderInv, ReaderTypeOK
<1>4. RunsKnown' /\ BlocksKept'
  BY <1>1, <1>2 DEF ReaderInv, RunsKnown, BlocksKept, AttestedAs
<1>5. ListingIsContiguous'
  BY <1>1 DEF ReaderInv, ListingIsContiguous
<1>6. ASSUME NEW q \in Reader PROVE HeldPart(q)' /\ AnswerPart(q)'
  <2>1. AnswerPart(q)'
    BY <1>1, <1>2 DEF ReaderInv, AnswerPart
  <2>2. CASE q = r
    BY <1>1, <1>2, <2>1, <2>2 DEF ReaderInv, ReaderTypeOK, HeldPart, GoodHold
  <2>3. CASE q # r
    BY <1>1, <1>2, <2>1, <2>3 DEF ReaderInv, ReaderTypeOK, HeldPart
  <2>4. QED
    BY <2>1, <2>2, <2>3
<1>7. QED
  BY <1>3, <1>4, <1>5, <1>6 DEF ReaderInv

\* An error names nothing.
LEMMA ErrorIsGood == GoodAnswer(NoAnswer)
  BY DEF GoodAnswer, NoAnswer, Answer, Named

\* A document on disk has the number of a run, and that run's block.
LEMMA RecordRun ==
    ASSUME IInv, ReaderInv, NEW x \in Path, file[x] \in Doc
    PROVE  file[x].run \in 1..runs /\ AttestedAs(file[x])
<1>1. file[x].run \in 1..MaxRuns /\ file[x].run <= runs /\ runs \in Nat
  BY BoundsAssumption DEF Doc, ReaderInv, RunsKnown, IInv, TypeInv, TypeOK
<1>2. QED
  BY <1>1, BoundsAssumption DEF ReaderInv, BlocksKept

\* tick: the state is that of a published epoch.
LEMMA TickRequestInv ==
    ASSUME IInv, ReaderInv, NEW r \in Reader, TickRequest(r),
           UNCHANGED <<vars, keyVars>>
    PROVE  ReaderInv'
<1>1. CASE file[StatePath] \in Doc
  <2> DEFINE a == [NoAnswer EXCEPT !.route = "tick",
                                   !.head = file[StatePath].epoch,
                                   !.record = file[StatePath]]
  <2>1. Reply(r, a)
    BY <1>1 DEF TickRequest
  <2>2. /\ a.route = "tick" /\ a.head = file[StatePath].epoch
        /\ a.record = file[StatePath] /\ a.epochs = {} /\ a \in Answer
    BY <1>1, StoreFacts DEF NoAnswer, Answer
  <2>3. file[StatePath].run \in 1..runs /\ AttestedAs(file[StatePath])
    BY <1>1, RecordRun, Paths
  <2>4. GoodAnswer(a)
    BY <1>1, <2>2, <2>3, StoreFacts DEF GoodAnswer
  <2> HIDE DEF a
  <2>5. QED
    BY <2>1, <2>4, ReplyInv
<1>2. CASE file[StatePath] \notin Doc
  BY <1>2, ErrorIsGood, ReplyInv DEF TickRequest
<1>3. QED
  BY <1>1, <1>2

\* The head that is held is published, and no older than the last answer's.
LEMMA LatestReadHeadInv ==
    ASSUME IInv, ReaderInv, NEW r \in Reader, LatestReadHead(r),
           UNCHANGED <<vars, keyVars>>
    PROVE  ReaderInv'
<1>1. CASE file[HeadPath] \in Doc
  <2>1. PICK route \in {"latest", "constituents"} :
          Hold(r, "latestAt", [NoAnswer EXCEPT !.route = route,
                                               !.head = file[HeadPath].epoch])
    BY <1>1 DEF LatestReadHead
  <2> DEFINE a == [NoAnswer EXCEPT !.route = route, !.head = file[HeadPath].epoch]
  <2>2. /\ a.route = route /\ a.head = file[HeadPath].epoch /\ a \in Answer
    BY <1>1, StoreFacts DEF NoAnswer, Answer
  <2>3. a.head \in Epochs /\ a.head + 1 = Published /\ Published \in Nat
    BY <1>1, <2>2, StoreFacts
  <2>4. answer[r].route \in {"latest", "constituents"} =>
           answer[r].head \in Nat /\ answer[r].head < Published
    BY Paths DEF ReaderInv, AnswerPart
  <2>5. a.head \in Nat /\ a.head < Published
    BY <2>3, Paths
  <2>6. GoodHold(r, "latestAt", a)
    BY <2>2, <2>3, <2>4, <2>5 DEF GoodHold
  <2>7. Hold(r, "latestAt", a)
    BY <2>1
  <2> HIDE DEF a
  <2>8. QED
    BY <2>6, <2>7, HoldInv
<1>2. CASE file[HeadPath] \notin Doc
  BY <1>2, ErrorIsGood, ReplyInv DEF LatestReadHead
<1>3. QED
  BY <1>1, <1>2

\* The record of the head that is held is there.
LEMMA LatestReadRecordInv ==
    ASSUME IInv, ReaderInv, NEW r \in Reader, LatestReadRecord(r),
           UNCHANGED <<vars, keyVars>>
    PROVE  ReaderInv'
<1>1. /\ held[r] \in Answer /\ held[r].route \in {"latest", "constituents"}
      /\ held[r].head \in Epochs /\ held[r].head < Published
  BY DEF LatestReadRecord, ReaderInv, ReaderTypeOK, HeldPart
<1>2. file[held[r].head] \in Doc /\ held[r].head \in Path
  BY <1>1, StoreFacts, Paths
<1> DEFINE a == [held[r] EXCEPT !.record = file[held[r].head]]
<1>3. Reply(r, a)
  BY <1>2 DEF LatestReadRecord
<1>4. /\ a.route = held[r].route /\ a.head = held[r].head
      /\ a.record = file[held[r].head] /\ a \in Answer
  BY <1>1, <1>2 DEF Answer
<1>5. file[held[r].head].run \in 1..runs /\ AttestedAs(file[held[r].head])
  BY <1>2, RecordRun
<1>6. GoodAnswer(a)
  BY <1>1, <1>4, <1>5 DEF GoodAnswer
<1> HIDE DEF a
<1>7. QED
  BY <1>3, <1>6, ReplyInv

\* The directory holds every epoch below the head, and at most one above.
LEMMA HistoryListInv ==
    ASSUME IInv, ReaderInv, NEW r \in Reader, HistoryList(r),
           UNCHANGED <<vars, keyVars>>
    PROVE  ReaderInv'
<1> DEFINE listed == {e \in Epochs : file[e] # Absent}
           a == [NoAnswer EXCEPT !.epochs = listed]
<1>1. a.route = "none" /\ a.record = Absent /\ a.epochs = listed /\ a \in Answer
  BY DEF NoAnswer, Answer
<1>2. ASSUME NEW e \in listed PROVE e <= Published /\ 0..e \subseteq listed
  <2>1. e \in Nat /\ e <= MaxEpoch /\ Published \in Nat /\ e <= Published
    BY StoreFacts, BoundsAssumption DEF Epochs
  <2>2. ASSUME NEW i \in 0..e PROVE i \in listed
    <3>1. i \in Epochs
      BY <2>1, BoundsAssumption DEF Epochs
    <3>2. CASE i = e
      BY <3>2
    <3>3. CASE i # e
      <4>1. i < Published
        BY <2>1, <3>3
      <4>2. QED
        BY <3>1, <4>1, StoreFacts, ValueAssumption
    <3>4. QED
      BY <3>2, <3>3
  <2>3. QED
    BY <2>1, <2>2
<1>3. GoodHold(r, "historyHead", a)
  BY <1>1, <1>2 DEF GoodHold
<1>4. Hold(r, "historyHead", a)
  BY DEF HistoryList
<1> HIDE DEF a, listed
<1>5. QED
  BY <1>3, <1>4, HoldInv

\* The head that is read after the listing is no older than the listing.
LEMMA HistoryReadHeadInv ==
    ASSUME IInv, ReaderInv, NEW r \in Reader, HistoryReadHead(r),
           UNCHANGED <<vars, keyVars>>
    PROVE  ReaderInv'
<1>1. /\ held[r] \in Answer /\ held[r].record = Absent
      /\ \A e \in held[r].epochs : e <= Published /\ 0..e \subseteq held[r].epochs
  BY DEF HistoryReadHead, ReaderInv, ReaderTypeOK, HeldPart
<1>2. file[HeadPath] # Torn
  BY StoreFacts, ValueAssumption
<1> DEFINE head == IF file[HeadPath] = Absent THEN Absent ELSE file[HeadPath].epoch
           a == [held[r] EXCEPT !.route = "list", !.head = head]
<1>3. Reply(r, a)
  BY <1>2 DEF HistoryReadHead
<1>4. head \in Epochs \union {Absent}
  BY StoreFacts
<1>5. /\ a.route = "list" /\ a.head = head /\ a.record = Absent
      /\ a.epochs = held[r].epochs /\ a \in Answer
  BY <1>1, <1>4 DEF Answer
<1>6. (IF head = Absent THEN 0 ELSE head + 1) = Published
  BY StoreFacts, ValueAssumption, Paths DEF Path
<1> HIDE DEF head
<1>7. GoodAnswer(a)
  BY <1>1, <1>5, <1>6 DEF GoodAnswer, Named
<1> HIDE DEF a
<1>8. QED
  BY <1>3, <1>7, ReplyInv

\* A record that is there was made by a run that there was.
LEMMA HistoryAtInv ==
    ASSUME IInv, ReaderInv, NEW r \in Reader, NEW e \in Epochs, HistoryAt(r, e),
           UNCHANGED <<vars, keyVars>>
    PROVE  ReaderInv'
<1> DEFINE record == IF file[e] \in Doc THEN file[e] ELSE Absent
           a == [NoAnswer EXCEPT !.route = "history", !.head = e, !.record = record]
<1>1. Reply(r, a)
  BY DEF HistoryAt
<1>2. /\ record \in Doc \union {Absent}
      /\ record # Absent => record.run \in 1..runs /\ AttestedAs(record)
  BY RecordRun, Paths
<1> HIDE DEF record
<1>3. a.route = "history" /\ a.record = record /\ a \in Answer
  BY <1>2 DEF NoAnswer, Answer
<1>4. GoodAnswer(a)
  BY <1>2, <1>3 DEF GoodAnswer, Named
<1> HIDE DEF a
<1>5. QED
  BY <1>1, <1>4, ReplyInv

-----------------------------------------------------------------------------
(* Readers beside a single writer: the invariant *)

ServiceInv == IInv /\ ReaderInv

\* With a single writer every step of it and of any reader keeps the invariant.
LEMMA ServiceNextInv ==
    SingleWriter /\ ServiceInv /\ [ServiceNext]_allVars => ServiceInv'
<1> SUFFICES ASSUME SingleWriter, ServiceInv, [ServiceNext]_allVars
             PROVE  ServiceInv'
  OBVIOUS
<1>1. [Next]_vars
  BY DEF ServiceNext, allVars
<1>2. IInv'
  BY <1>1, NextInv DEF ServiceInv
<1>3. CASE Next /\ AttestRecord /\ UNCHANGED <<readerVars, serverKey>>
  <2>1. UNCHANGED <<rpc, held, answer, serverKey>>
    BY <1>3 DEF readerVars
  <2>2. QED
    BY <1>1, <1>2, <1>3, <2>1, PublisherStepInv DEF ServiceInv
<1>4. ASSUME NEW r \in Reader, ReaderStep(r), UNCHANGED <<vars, keyVars>>
      PROVE  ReaderInv'
  BY <1>4, TickRequestInv, LatestReadHeadInv, LatestReadRecordInv,
     HistoryListInv, HistoryReadHeadInv, HistoryAtInv DEF ServiceInv, ReaderStep
<1>5. CASE UNCHANGED allVars
  <2>1. UNCHANGED <<rpc, held, answer, signer, block, serverKey, doc>>
    BY <1>5 DEF allVars, readerVars, keyVars, vars
  <2>2. AttestRecord
    BY <2>1 DEF AttestRecord
  <2>3. QED
    BY <1>1, <1>2, <2>1, <2>2, PublisherStepInv DEF ServiceInv
<1>6. QED
  BY <1>2, <1>3, <1>4, <1>5 DEF ServiceNext, ServiceInv

\* What readers hold and were told stays true of the directory, however far
\* the publisher gets between two of their reads.
THEOREM ReadersInvariant == SingleWriter /\ ServiceSpec => []ReaderInv
<1>1. ServiceInit => ServiceInv
  BY InitInv, ReaderInitInv DEF ServiceInit, ServiceInv
<1>2. ServiceInv => ReaderInv
  BY DEF ServiceInv
<1>3. ASSUME SingleWriter PROVE ServiceSpec => []ReaderInv
  <2>1. ServiceInv /\ [ServiceNext]_allVars => ServiceInv'
    BY <1>3, ServiceNextInv
  <2>2. QED
    BY <1>1, <1>2, <2>1, PTL DEF ServiceSpec
<1>4. QED
  BY <1>3

\* The store's invariant is not disturbed by its readers.
LEMMA StoreInvariant == SingleWriter /\ ServiceSpec => []ServiceInv
<1>1. ServiceInit => ServiceInv
  BY InitInv, ReaderInitInv DEF ServiceInit, ServiceInv
<1>2. ASSUME SingleWriter PROVE ServiceSpec => []ServiceInv
  <2>1. ServiceInv /\ [ServiceNext]_allVars => ServiceInv'
    BY <1>2, ServiceNextInv
  <2>2. QED
    BY <1>1, <2>1, PTL DEF ServiceSpec
<1>3. QED
  BY <1>2

-----------------------------------------------------------------------------
(* Readers beside a single writer: the properties *)

\* What the other steps of a reader answer.
LEMMA OtherAnswers ==
    ASSUME answer \in [Reader -> Answer], held \in [Reader -> Answer],
           NEW r \in Reader
    PROVE  /\ TickRequest(r) => answer'[r].route \in {"none", "tick"}
           /\ LatestReadHead(r) =>
                 answer'[r] = answer[r] \/ answer'[r].route = "none"
           /\ HistoryList(r) => answer'[r] = answer[r]
           /\ HistoryReadHead(r) => answer'[r].route \in {"none", "list"}
           /\ \A e \in Epochs : HistoryAt(r, e) => answer'[r].route = "history"
<1>1. NoAnswer.route = "none" /\ NoAnswer \in Answer
  BY DEF NoAnswer, Answer
<1>2. TickRequest(r) => answer'[r].route \in {"none", "tick"}
  BY <1>1 DEF TickRequest, Reply, Answer
<1>3. LatestReadHead(r) => answer'[r] = answer[r] \/ answer'[r].route = "none"
  BY <1>1 DEF LatestReadHead, Reply, Hold
<1>4. HistoryList(r) => answer'[r] = answer[r]
  BY DEF HistoryList, Hold
<1>5. HistoryReadHead(r) => answer'[r].route \in {"none", "list"}
  <2>1. SUFFICES ASSUME HistoryReadHead(r), file[HeadPath] # Torn
                 PROVE  answer'[r].route = "list"
    BY <1>1 DEF HistoryReadHead, Reply
  <2>2. QED
    BY <2>1 DEF HistoryReadHead, Reply, Answer
<1>6. \A e \in Epochs : HistoryAt(r, e) => answer'[r].route = "history"
  BY <1>1 DEF HistoryAt, Reply, Answer
<1>7. QED
  BY <1>2, <1>3, <1>4, <1>5, <1>6

\* The record of a head that was read is there when it is read.
THEOREM HeadLeadsToRecord == SingleWriter /\ ServiceSpec => []LatestFindsRecord
<1>1. ServiceInv => LatestFindsRecord
  <2>1. SUFFICES ASSUME ServiceInv, NEW r \in Reader,
                        answer[r].route \in {"latest", "constituents"}
                 PROVE  /\ answer[r].record # Absent
                        /\ answer[r].record.epoch = answer[r].head
    BY DEF LatestFindsRecord
  <2>2. /\ answer[r].head \in Epochs /\ answer[r].head < Published
        /\ answer[r].record = file[answer[r].head]
    BY <2>1 DEF ServiceInv, ReaderInv, AnswerPart
  <2>3. QED
    BY <2>1, <2>2, StoreFacts, ValueAssumption DEF ServiceInv
<1>2. QED
  BY <1>1, StoreInvariant, PTL

\* A listing has no gap and ends at most one past the head it is given with.
THEOREM ListingsHaveNoGap == SingleWriter /\ ServiceSpec => []ListingIsContiguous
<1>1. ReaderInv => ListingIsContiguous
  BY DEF ReaderInv
<1>2. QED
  BY <1>1, ReadersInvariant, PTL

\* What is received of a record or a listing is what was attested: no field of
\* either is undefined.
LEMMA NothingIsDropped ==
    ASSUME NEW a \in Answer
    PROVE  /\ stringify(ListingPayload(a)) = ListingPayload(a)
           /\ a.record # Absent =>
                 stringify(RecordPayload(a.record)) = RecordPayload(a.record)
<1>1. Undefined \notin Nat /\ Undefined # Absent
      /\ \A epochs \in SUBSET Epochs : epochs # Undefined
  BY AttestationAssumption
<1>2. stringify(ListingPayload(a)) = ListingPayload(a)
  <2>1. a.head # Undefined /\ a.epochs # Undefined
    BY <1>1, Paths DEF Answer
  <2>2. QED
    BY <2>1 DEF stringify, ListingPayload
<1>3. ASSUME NEW d \in Doc PROVE stringify(RecordPayload(d)) = RecordPayload(d)
  <2>1. d.run \in Nat /\ d.at \in Nat
    BY BoundsAssumption DEF Doc
  <2>2. d.epoch # Undefined /\ d.run # Undefined /\ d.at # Undefined
    BY <1>1, <2>1, DocEpoch
  <2>3. QED
    BY <2>2 DEF stringify, RecordPayload
<1>4. QED
  BY <1>2, <1>3 DEF Answer

\* The block in a record is still that of what it is served with, and the
\* listing's of what was read: the digest reproduces from the answer, and the
\* signature verifies under the advertised key exactly when that key made it.
THEOREM AnswersReproduce == SingleWriter /\ ServiceSpec => []RecordsReproduce
<1>1. ReaderInv => RecordsReproduce
  <2>1. SUFFICES ASSUME ReaderInv, NEW r \in Reader, IsAttested(answer[r]),
                        answer[r].route # "constituents"
                 PROVE  /\ Reproduces(Body(answer[r]), AttestationOf(answer[r]))
                        /\ verifyAttestation(AttestationOf(answer[r]), AdvertisedKey)
                             <=> /\ AdvertisedKey # NoKey
                                 /\ KeyBehind(answer[r]) = AdvertisedKey
    BY DEF RecordsReproduce
  <2> DEFINE a == answer[r]
  <2>2. a \in Answer
    BY <2>1 DEF ReaderInv, ReaderTypeOK
  <2>3. PICK payload : /\ Body(a) = payload
                       /\ AttestationOf(a) = attest(payload, KeyBehind(a))
    <3>1. CASE a.route = "list"
      BY <2>2, <3>1, NothingIsDropped DEF Body, AttestationOf, KeyBehind
    <3>2. CASE a.route # "list"
      <4>1. a.record # Absent /\ AttestedAs(a.record)
        BY <2>1, <3>2 DEF IsAttested, ReaderInv, BlocksKept
      <4>2. QED
        BY <2>1, <2>2, <3>2, <4>1, NothingIsDropped
           DEF Body, AttestationOf, KeyBehind, AttestedAs
    <3>3. QED
      BY <3>1, <3>2
  <2> HIDE DEF a
  <2>4. Reproduces(Body(a), AttestationOf(a))
    BY <2>3 DEF Reproduces, attest
  <2>5. verifyAttestation(AttestationOf(a), AdvertisedKey)
          <=> AdvertisedKey # NoKey /\ KeyBehind(a) = AdvertisedKey
    BY <2>3 DEF verifyAttestation, attest, sign
  <2>6. QED
    BY <2>4, <2>5 DEF a
<1>2. QED
  BY <1>1, ReadersInvariant, PTL

\* A poller of latest and constituents never sees the index go back.
THEOREM LatestNeverGoesBack == SingleWriter /\ ServiceSpec => LatestMonotone
<1>1. ServiceInv /\ [ServiceNext]_allVars =>
        [\A r \in Reader :
           /\ answer[r].route \in {"latest", "constituents"}
           /\ answer'[r].route \in {"latest", "constituents"}
           => answer'[r].head >= answer[r].head]_allVars
  <2>1. SUFFICES ASSUME ServiceInv, [ServiceNext]_allVars, NEW r \in Reader,
                        answer[r].route \in {"latest", "constituents"},
                        answer'[r].route \in {"latest", "constituents"}
                 PROVE  answer'[r].head >= answer[r].head
    OBVIOUS
  <2>2. answer[r].head \in Nat
    BY <2>1, Paths DEF ServiceInv, ReaderInv, AnswerPart
  <2>3. CASE answer'[r] = answer[r]
    BY <2>2, <2>3
  <2>4. CASE answer'[r] # answer[r]
    <3>1. PICK q \in Reader : ReaderStep(q)
      BY <2>1, <2>4 DEF ServiceNext, allVars, readerVars
    <3>2. answer \in [Reader -> Answer] /\ held \in [Reader -> Answer]
      BY <2>1 DEF ServiceInv, ReaderInv, ReaderTypeOK
    <3>3. q = r
      BY <2>4, <3>1, <3>2 DEF ReaderStep, TickRequest, LatestReadHead,
         LatestReadRecord, HistoryList, HistoryReadHead, HistoryAt, Reply, Hold
    <3>4. CASE LatestReadRecord(r)
      <4>1. /\ held[r] \in Answer /\ answer[r].head <= held[r].head
            /\ held[r].head \in Epochs /\ held[r].head < Published
        BY <2>1, <3>4 DEF ServiceInv, ReaderInv, ReaderTypeOK, HeldPart,
                          LatestReadRecord
      <4>2. file[held[r].head] \in Doc
        BY <2>1, <4>1, StoreFacts DEF ServiceInv
      <4>3. answer'[r].head = held[r].head
        BY <3>2, <3>4, <4>1, <4>2 DEF LatestReadRecord, Reply, Answer
      <4>4. QED
        BY <2>2, <4>1, <4>3, Paths
    <3>5. CASE ~LatestReadRecord(r)
      <4>1. answer'[r].route \in {"none", "tick", "list", "history"}
        BY <2>4, <3>1, <3>2, <3>3, <3>5, OtherAnswers DEF ReaderStep
      <4>2. QED
        BY <2>1, <4>1
    <3>6. QED
      BY <3>4, <3>5
  <2>5. QED
    BY <2>3, <2>4
<1>2. QED
  BY <1>1, StoreInvariant, PTL DEF ServiceSpec, LatestMonotone

\* What an answer named, the history serves next, and it is the same document.
THEOREM NamedIsServed == SingleWriter /\ ServiceSpec => NamedIsServable
<1>1. ServiceInv /\ [ServiceNext]_allVars =>
        [\A r \in Reader :
           /\ answer[r].route \in {"tick", "latest", "constituents"}
           /\ answer'[r].route = "history"
           /\ answer'[r].head = answer[r].head
           => answer'[r].record = answer[r].record]_allVars
  <2>1. SUFFICES ASSUME ServiceInv, [ServiceNext]_allVars, NEW r \in Reader,
                        answer[r].route \in {"tick", "latest", "constituents"},
                        answer'[r].route = "history",
                        answer'[r].head = answer[r].head
                 PROVE  answer'[r].record = answer[r].record
    OBVIOUS
  <2>2. answer'[r] # answer[r]
    BY <2>1
  <2>3. /\ answer[r].head \in Epochs /\ answer[r].head < Published
        /\ answer[r].record = file[answer[r].head]
    BY <2>1 DEF ServiceInv, ReaderInv, AnswerPart
  <2>4. PICK q \in Reader : ReaderStep(q)
    BY <2>1, <2>2 DEF ServiceNext, allVars, readerVars
  <2>5. answer \in [Reader -> Answer] /\ held \in [Reader -> Answer]
    BY <2>1 DEF ServiceInv, ReaderInv, ReaderTypeOK
  <2>6. q = r
    BY <2>2, <2>4, <2>5 DEF ReaderStep, TickRequest, LatestReadHead,
       LatestReadRecord, HistoryList, HistoryReadHead, HistoryAt, Reply, Hold
  <2>7. CASE \E e \in Epochs : HistoryAt(r, e)
    <3>1. PICK e \in Epochs : HistoryAt(r, e)
      BY <2>7
    <3>2. /\ answer'[r].head = e
          /\ answer'[r].record = IF file[e] \in Doc THEN file[e] ELSE Absent
      BY <2>5, <3>1 DEF HistoryAt, Reply, NoAnswer
    <3>3. file[e] \in Doc /\ e = answer[r].head
      BY <2>1, <2>3, <3>2, StoreFacts DEF ServiceInv
    <3>4. QED
      BY <2>3, <3>2, <3>3
  <2>8. CASE LatestReadRecord(r)
    <3>1. held[r].route \in {"latest", "constituents"} /\ held[r] \in Answer
      BY <2>1, <2>5, <2>8 DEF ServiceInv, ReaderInv, HeldPart, LatestReadRecord
    <3>2. answer'[r].route = held[r].route
      BY <2>5, <2>8, <3>1 DEF LatestReadRecord, Reply, NoAnswer, Answer
    <3>3. QED
      BY <2>1, <3>1, <3>2
  <2>9. CASE HistoryReadHead(r)
    <3>1. answer'[r].route \in {"none", "list"}
      BY <2>5, <2>9 DEF HistoryReadHead, Reply, NoAnswer, Answer
    <3>2. QED
      BY <2>1, <3>1
  <2>10. CASE TickRequest(r) \/ LatestReadHead(r) \/ HistoryList(r)
    <3>1. answer'[r] = answer[r] \/ answer'[r].route \in {"none", "tick"}
      BY <2>5, <2>10, OtherAnswers
    <3>2. QED
      BY <2>1, <2>2, <3>1
  <2>11. QED
    BY <2>4, <2>6, <2>7, <2>8, <2>9, <2>10 DEF ReaderStep
<1>2. QED
  BY <1>1, StoreInvariant, PTL DEF ServiceSpec, NamedIsServable

\* The readers and the attestor leave the directory to its publishers: the
\* service runs the store's own specification, whoever writes.
THEOREM ServiceRunsStore == ServiceSpec => Spec
<1>1. ServiceInit => Init
  BY DEF ServiceInit
<1>2. [ServiceNext]_allVars => [Next]_vars
  BY DEF ServiceNext, allVars, vars
<1>3. QED
  BY <1>1, <1>2, PTL DEF ServiceSpec, Spec

\* So with one publisher what requests find under them is the append-only log.
THEOREM ServiceImplementsLog == SingleWriter /\ ServiceSpec => ImplementsLog
  BY ServiceRunsStore, Refinement

-----------------------------------------------------------------------------
(* Readers beside several writers *)

\* Nothing is held and nothing answered at first.
LEMMA ReaderInitGap == ServiceInit => ReaderGapInv
<1> SUFFICES ASSUME ServiceInit PROVE ReaderGapInv
  OBVIOUS
<1>1. GapInv
  BY InitGap DEF ServiceInit
<1>2. NoAnswer \in Answer /\ HasNoGap(NoAnswer)
  BY ValueAssumption, Paths DEF NoAnswer, Answer, HasNoGap
<1>3. ReaderTypeOK
  BY <1>2 DEF ServiceInit, ReaderInit, ReaderTypeOK, Attestor
<1>4. QED
  BY <1>1, <1>2, <1>3 DEF ServiceInit, ReaderInit, ReaderGapInv

\* Whatever a request reads next is of a directory without a gap.
LEMMA ReadsHaveNoGap ==
    ASSUME ReaderGapInv, NEW r \in Reader, ReaderStep(r)
    PROVE  \E a \in Answer, where \in {"latestAt", "historyHead"} :
              HasNoGap(a) /\ (Reply(r, a) \/ Hold(r, where, a))
<1> DEFINE Fine(a) == a \in Answer /\ HasNoGap(a)
           Told(a) == Reply(r, a) \/ \E where \in {"latestAt", "historyHead"} : Hold(r, where, a)
<1>1. SUFFICES \E a : Fine(a) /\ Told(a)
  OBVIOUS
<1>2. NoGap /\ file \in [Path -> Doc \union {Absent, Torn}]
  BY GapInvMeans DEF ReaderGapInv, GapInv, TypeInv, TypeOK
<1>3. Fine(held[r]) /\ held[r].route \in {"none", "tick", "latest", "constituents", "history", "list"}
  BY DEF ReaderGapInv, ReaderTypeOK, Answer
<1>4. Absent \notin Epochs /\ Absent \notin Doc /\ Torn \notin Doc
  BY ValueAssumption, Paths
<1>5. Fine(NoAnswer) /\ Fine([NoAnswer EXCEPT !.route = held[r].route])
  BY <1>3, <1>4 DEF NoAnswer, Answer, HasNoGap
<1>6. ASSUME NEW x \in {HeadPath, StatePath}, file[x] \in Doc
      PROVE  file[x].epoch \in Epochs /\ RecordsUpTo(file, file[x].epoch)
  BY <1>2, <1>6, DocEpoch DEF NoGap
<1>7. CASE TickRequest(r)
  <2>1. CASE file[StatePath] \in Doc
    <3> DEFINE a == [NoAnswer EXCEPT !.route = "tick", !.head = file[StatePath].epoch,
                                     !.record = file[StatePath]]
    <3>1. Reply(r, a)
      BY <1>7, <2>1 DEF TickRequest
    <3>2. Fine(a)
      BY <1>4, <1>6, <2>1 DEF NoAnswer, Answer, HasNoGap
    <3>3. QED
      BY <3>1, <3>2
  <2>2. CASE file[StatePath] \notin Doc
    BY <1>5, <1>7, <2>2 DEF TickRequest
  <2>3. QED
    BY <2>1, <2>2
<1>8. CASE LatestReadHead(r)
  <2>1. CASE file[HeadPath] \in Doc
    <3>1. PICK route \in {"latest", "constituents"} :
            Hold(r, "latestAt", [NoAnswer EXCEPT !.route = route, !.head = file[HeadPath].epoch])
      BY <1>8, <2>1 DEF LatestReadHead
    <3> DEFINE a == [NoAnswer EXCEPT !.route = route, !.head = file[HeadPath].epoch]
    <3>2. Fine(a)
      BY <1>4, <1>6, <2>1 DEF NoAnswer, Answer, HasNoGap
    <3>3. QED
      BY <3>1, <3>2
  <2>2. CASE file[HeadPath] \notin Doc
    BY <1>5, <1>8, <2>2 DEF LatestReadHead
  <2>3. QED
    BY <2>1, <2>2
<1>9. CASE LatestReadRecord(r)
  <2>1. CASE file[held[r].head] \in Doc
    <3>1. Fine([held[r] EXCEPT !.record = file[held[r].head]])
      BY <1>3, <2>1 DEF Answer, HasNoGap
    <3>2. QED
      BY <1>9, <2>1, <3>1 DEF LatestReadRecord
  <2>2. CASE file[held[r].head] \notin Doc
    BY <1>5, <1>9, <2>2 DEF LatestReadRecord
  <2>3. QED
    BY <2>1, <2>2
<1>10. CASE HistoryList(r)
  <2> DEFINE a == [NoAnswer EXCEPT !.epochs = {e \in Epochs : file[e] # Absent}]
  <2>1. ASSUME NEW e \in Epochs, file[e] # Absent, NEW d \in 0..e
        PROVE  d \in Epochs /\ file[d] # Absent
    BY <1>2, <2>1, BoundsAssumption DEF NoGap, RecordsUpTo, Epochs
  <2>2. /\ a.route = "none" /\ a.head = Absent /\ a \in Answer
        /\ a.epochs = {e \in Epochs : file[e] # Absent}
    BY DEF NoAnswer, Answer
  <2>3. Hold(r, "historyHead", a)
    BY <1>10 DEF HistoryList
  <2> HIDE DEF a
  <2>4. Fine(a)
    BY <1>4, <2>1, <2>2 DEF HasNoGap
  <2>5. QED
    BY <2>3, <2>4
<1>11. CASE HistoryReadHead(r)
  <2>1. CASE file[HeadPath] = Torn
    BY <1>5, <1>11, <2>1 DEF HistoryReadHead
  <2>2. CASE file[HeadPath] # Torn
    <3> DEFINE h == IF file[HeadPath] = Absent THEN Absent ELSE file[HeadPath].epoch
               a == [held[r] EXCEPT !.route = "list", !.head = h]
    <3>1. h = Absent \/ (h \in Epochs /\ RecordsUpTo(file, h))
      BY <1>2, <2>2, Paths, DocEpoch DEF NoGap
    <3>2. Reply(r, a)
      BY <1>11, <2>2 DEF HistoryReadHead
    <3> HIDE DEF h
    <3>3. Fine(a)
      BY <1>3, <1>4, <3>1 DEF Answer, HasNoGap
    <3>4. QED
      BY <3>2, <3>3
  <2>3. QED
    BY <2>1, <2>2
<1>12. ASSUME NEW e \in Epochs, HistoryAt(r, e) PROVE \E a : Fine(a) /\ Told(a)
  <2> DEFINE d == IF file[e] \in Doc THEN file[e] ELSE Absent
             a == [NoAnswer EXCEPT !.route = "history", !.head = e, !.record = d]
  <2>1. d \in Doc \union {Absent}
    OBVIOUS
  <2>2. Reply(r, a)
    BY <1>12 DEF HistoryAt
  <2> HIDE DEF d
  <2>3. Fine(a)
    BY <2>1 DEF NoAnswer, Answer, HasNoGap
  <2>4. QED
    BY <2>2, <2>3
<1>13. QED
  BY <1>7, <1>8, <1>9, <1>10, <1>11, <1>12 DEF ReaderStep

\* Answers stay true of the directory, and new ones are.
LEMMA ServiceNextGap == ReaderGapInv /\ [ServiceNext]_allVars => ReaderGapInv'
<1> SUFFICES ASSUME ReaderGapInv, [ServiceNext]_allVars PROVE ReaderGapInv'
  OBVIOUS
<1>1. ReaderTypeOK /\ GapInv /\ \A r \in Reader : HasNoGap(answer[r]) /\ HasNoGap(held[r])
  BY DEF ReaderGapInv
<1>2. CASE UNCHANGED <<readerVars, serverKey>> /\ [Next]_vars /\ AttestRecord
  <2>1. GapInv'
    BY <1>1, <1>2, NextGap
  <2>2. \A n : RecordsUpTo(file, n) => RecordsUpTo(file', n)
    BY <1>1, <1>2, GroundStays DEF GapInv
  <2>3. ReaderTypeOK'
    BY <1>1, <1>2, AttestTypes DEF ReaderTypeOK, readerVars, GapInv
  <2>4. ASSUME NEW r \in Reader PROVE HasNoGap(answer[r])' /\ HasNoGap(held[r])'
    BY <1>1, <1>2, <2>2 DEF HasNoGap, readerVars
  <2>5. QED
    BY <2>1, <2>3, <2>4 DEF ReaderGapInv
<1>3. ASSUME NEW r \in Reader, ReaderStep(r), UNCHANGED <<vars, keyVars>>
      PROVE  ReaderGapInv'
  <2>1. PICK a \in Answer, where \in {"latestAt", "historyHead"} :
          HasNoGap(a) /\ (Reply(r, a) \/ Hold(r, where, a))
    BY <1>3, ReadsHaveNoGap
  <2>2. NoAnswer \in Answer /\ HasNoGap(NoAnswer)
    BY ValueAssumption, Paths DEF NoAnswer, Answer, HasNoGap
  <2>3. file' = file /\ GapInv'
    <3>1. [Next]_vars
      BY <1>3
    <3>2. QED
      BY <1>1, <1>3, <3>1, NextGap DEF vars
  <2>4. ReaderTypeOK'
    BY <1>1, <1>3, <2>1, <2>2 DEF ReaderTypeOK, Reply, Hold, keyVars
  <2>5. ASSUME NEW q \in Reader
        PROVE  /\ answer'[q] \in {answer[q], a}
               /\ held'[q] \in {held[q], a, NoAnswer}
    BY <1>1, <2>1 DEF ReaderTypeOK, Reply, Hold
  <2>6. ASSUME NEW q \in Reader PROVE HasNoGap(answer[q])' /\ HasNoGap(held[q])'
    BY <1>1, <2>1, <2>2, <2>3, <2>5 DEF HasNoGap
  <2>7. QED
    BY <2>3, <2>4, <2>6 DEF ReaderGapInv
<1>4. CASE UNCHANGED allVars
  <2>1. AttestRecord
    BY <1>4 DEF allVars, keyVars, vars, AttestRecord
  <2>2. QED
    BY <1>2, <1>4, <2>1 DEF allVars, keyVars
<1>5. QED
  BY <1>2, <1>3, <1>4 DEF ServiceNext

\* Whoever writes, no answer names an epoch without a record, and no listing
\* has a gap.
THEOREM NoGapWhoeverReads == ServiceSpec => []AnswersHaveNoGap
<1>1. ReaderGapInv => AnswersHaveNoGap
  BY DEF ReaderGapInv, AnswersHaveNoGap
<1>2. QED
  BY <1>1, ReaderInitGap, ServiceNextGap, PTL DEF ServiceSpec
=============================================================================
