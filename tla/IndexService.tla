---------------------------- MODULE IndexService ----------------------------
(***************************************************************************)
(* The readers of the epoch directory (packages/api/src/index-service.js   *)
(* over the readers of epochs.js and state.js): tick, latest, constituents *)
(* history and history/:epoch, answered while a publisher writes.  The     *)
(* service caches nothing: each await is one file operation, and the       *)
(* publisher may move between two of them.  The level of a tick is         *)
(* Rebalance's concern; here an answer is the document it was read from,   *)
(* and the attestation that the document or the server gives it.           *)
(***************************************************************************)
EXTENDS EpochStore, Attestation

CONSTANT Reader     \* clients, each with one request at a time

VARIABLES
    rpc,      \* where each reader's request is, between two file reads
    held,     \* what it read before: the head, or the listing
    answer,   \* its last answer
    signer,   \* the key each run of the publisher signed with
    block,    \* the `attestation` that each run put into its document
    serverKey \* the key the server was given, whose public half `/` shows

readerVars == <<rpc, held, answer>>
keyVars == <<signer, block, serverKey>>
allVars == <<vars, readerVars, keyVars>>

\* head: the epoch the answer names; record: the document served; epochs: the
\* listing.  An error answer (404, 502, 503) names nothing.
Answer == [route : {"none", "tick", "latest", "constituents", "history", "list"},
           head : Epochs \union {Absent},
           record : Doc \union {Absent},
           epochs : SUBSET Epochs]

NoAnswer == [route |-> "none", head |-> Absent, record |-> Absent, epochs |-> {}]

-----------------------------------------------------------------------------
(* Attestation *)

\* What a run attests, and what constituents() shows of it; the documents of
\* two runs differ in every field but the epoch.
RecordPayload(d) ==
    [epoch |-> d.epoch, publishedAt |-> d.at, level |-> d.run, constituents |-> d.run]
CompositionPayload(d) ==
    [epoch |-> d.epoch, publishedAt |-> d.at, constituents |-> d.run]

\* Mutant: a head that was never published is left undefined.
ListingPayload_NoNull(a) ==
    [head |-> IF a.head = Absent THEN Undefined ELSE a.head, epochs |-> a.epochs]

\* What the server attests, null standing for a head never published.
ListingPayload(a) == [head |-> a.head, epochs |-> a.epochs]

\* What a run may put into its document.
Block == {attest(RecordPayload(d), k) : d \in Doc, k \in Attestor}

ASSUME AttestationAssumption ==
    /\ Undefined \notin Nat /\ Undefined # Absent
    /\ \A epochs \in SUBSET Epochs : epochs # Undefined
    /\ Absent \notin Block

\* A run that computes its document attests it there and then, with the key
\* that its environment has, if any; nothing touches the block afterwards.
AttestRecord ==
    \/ /\ \A p \in Publisher : doc'[p] \in {doc[p], Absent}
       /\ UNCHANGED <<signer, block>>
    \/ \E p \in Publisher, k \in Attestor :
          /\ doc'[p] \notin {doc[p], Absent}
          /\ signer' = [signer EXCEPT ![doc'[p].run] = k]
          /\ block' = [block EXCEPT ![doc'[p].run] = attest(RecordPayload(doc'[p]), k)]

\* Answers that carry an attestation block.
IsAttested(a) == a.route = "list" \/ (a.record # Absent /\ a.route # "tick")

\* The body as it is received, without the block ...
Body(a) ==
    stringify(IF a.route = "list" THEN ListingPayload(a)
              ELSE IF a.route = "constituents" THEN CompositionPayload(a.record)
              ELSE RecordPayload(a.record))

\* ... and the block: the server attests the listing as it reads it; the others
\* carry the one that is in the record.
AttestationOf(a) ==
    IF a.route = "list" THEN attest(ListingPayload(a), serverKey)
    ELSE block[a.record.run]

-----------------------------------------------------------------------------
(* Requests, read by read *)

ReaderTypeOK ==
    /\ rpc \in [Reader -> {"idle", "latestAt", "historyHead"}]
    /\ held \in [Reader -> Answer]
    /\ answer \in [Reader -> Answer]
    /\ signer \in [1..MaxRuns -> Attestor]
    /\ block \in [1..MaxRuns -> Block \union {Absent}]
    /\ serverKey \in Attestor

ReaderInit ==
    /\ rpc = [r \in Reader |-> "idle"]
    /\ held = [r \in Reader |-> NoAnswer]
    /\ answer = [r \in Reader |-> NoAnswer]
    /\ signer = [i \in 1..MaxRuns |-> NoKey]
    /\ block = [i \in 1..MaxRuns |-> Absent]
    /\ serverKey \in Attestor

Reply(r, a) ==
    /\ answer' = [answer EXCEPT ![r] = a]
    /\ rpc' = [rpc EXCEPT ![r] = "idle"]
    /\ held' = [held EXCEPT ![r] = NoAnswer]

Hold(r, where, a) ==
    /\ held' = [held EXCEPT ![r] = a]
    /\ rpc' = [rpc EXCEPT ![r] = where]
    /\ UNCHANGED answer

\* tick: the state alone; none, or one that does not parse, is an error.
TickRequest(r) ==
    /\ rpc[r] = "idle"
    /\ Reply(r, IF file[StatePath] \in Doc
                THEN [NoAnswer EXCEPT !.route = "tick",
                                      !.head = file[StatePath].epoch,
                                      !.record = file[StatePath]]
                ELSE NoAnswer)

\* Mutant: latest() takes a file of the directory, unsorted, for the head.
LatestReadHead_FromList(r) ==
    /\ rpc[r] = "idle"
    /\ \E e \in {e \in Epochs : file[e] # Absent} :
          Hold(r, "latestAt", [NoAnswer EXCEPT !.route = "latest", !.head = e])

\* latest() and constituents(): the head pointer first, null answering
\* "unavailable" ...
LatestReadHead(r) ==
    /\ rpc[r] = "idle"
    /\ \/ /\ file[HeadPath] \notin Doc
          /\ Reply(r, NoAnswer)
       \/ /\ file[HeadPath] \in Doc
          /\ \E route \in {"latest", "constituents"} :
                Hold(r, "latestAt", [NoAnswer EXCEPT !.route = route,
                                        !.head = file[HeadPath].epoch])

\* ... and then the record it names.
LatestReadRecord(r) ==
    /\ rpc[r] = "latestAt"
    /\ Reply(r, IF file[held[r].head] \in Doc
                THEN [held[r] EXCEPT !.record = file[held[r].head]]
                ELSE [NoAnswer EXCEPT !.route = held[r].route])

\* Mutant: the listing takes every file of the directory for an epoch.
HistoryList_AnyFile(r) ==
    /\ rpc[r] = "idle"
    /\ Hold(r, "historyHead",
            [NoAnswer EXCEPT !.epochs = {x \in Path : file[x] # Absent}])

\* Mutant: epoch 0 is dropped from the listing as falsy.
HistoryList_Falsy(r) ==
    /\ rpc[r] = "idle"
    /\ Hold(r, "historyHead",
            [NoAnswer EXCEPT !.epochs = {e \in Epochs \ {0} : file[e] # Absent}])

\* history(): the directory listing first, whose regex passes no .tmp ...
HistoryList(r) ==
    /\ rpc[r] = "idle"
    /\ Hold(r, "historyHead",
            [NoAnswer EXCEPT !.epochs = {e \in Epochs : file[e] # Absent}])

\* ... and then the head pointer.
HistoryReadHead(r) ==
    /\ rpc[r] = "historyHead"
    /\ Reply(r, IF file[HeadPath] = Torn THEN NoAnswer
                ELSE [held[r] EXCEPT !.route = "list",
                         !.head = IF file[HeadPath] = Absent THEN Absent
                                  ELSE file[HeadPath].epoch])

\* history(e): at(e), whose null is a 404 and whose parse error a 502.
HistoryAt(r, e) ==
    /\ rpc[r] = "idle"
    /\ Reply(r, [NoAnswer EXCEPT !.route = "history", !.head = e,
                    !.record = IF file[e] \in Doc THEN file[e] ELSE Absent])

ReaderStep(r) ==
    \/ TickRequest(r) \/ LatestReadHead(r) \/ LatestReadRecord(r)
    \/ HistoryList(r) \/ HistoryReadHead(r)
    \/ \E e \in Epochs : HistoryAt(r, e)

ServiceInit == Init /\ ReaderInit

ServiceNext ==
    \/ Next /\ AttestRecord /\ UNCHANGED <<readerVars, serverKey>>
    \/ (\E r \in Reader : ReaderStep(r)) /\ UNCHANGED <<vars, keyVars>>

ServiceSpec == ServiceInit /\ [][ServiceNext]_allVars

\* Publishers that are not killed run on; nobody is obliged to ask.
FairServiceSpec ==
    /\ ServiceSpec
    /\ \A p \in Publisher : WF_allVars(Step(p) /\ UNCHANGED <<readerVars, keyVars>>)

-----------------------------------------------------------------------------
(* Correctness, with a single writer *)

\* latest() and constituents() never miss: once a head was read its record is there, however
\* far the publisher got between the two reads.
LatestFindsRecord ==
    \A r \in Reader : answer[r].route \in {"latest", "constituents"} =>
        /\ answer[r].record # Absent
        /\ answer[r].record.epoch = answer[r].head

\* A client that polls latest() and constituents(), in any mix, never sees the
\* index go back an epoch.
LatestMonotone ==
    [][\A r \in Reader :
         /\ answer[r].route \in {"latest", "constituents"}
         /\ answer'[r].route \in {"latest", "constituents"}
         => answer'[r].head >= answer[r].head]_allVars

\* Whatever tick(), latest() or constituents() named, history(e) serves next, and it is the
\* same publication: no answer ever leads a client to a 404.
NamedIsServable ==
    [][\A r \in Reader :
         /\ answer[r].route \in {"tick", "latest", "constituents"}
         /\ answer'[r].route = "history"
         /\ answer'[r].head = answer[r].head
         => answer'[r].record = answer[r].record]_allVars

\* The listing is gap-free, and reaches at most one past the head that the
\* same answer gives: the epoch being appended, or an orphan.
ListingIsContiguous ==
    \A r \in Reader : answer[r].route = "list" =>
        LET bound == IF answer[r].head = Absent THEN 0 ELSE answer[r].head + 1 IN
        \A e \in answer[r].epochs : e <= bound /\ 0..e \subseteq answer[r].epochs

\* service().attestation.publicKey, null without a key.
AdvertisedKey == serverKey

\* The key in the process that attested a.
KeyBehind(a) == IF a.route = "list" THEN serverKey ELSE signer[a.record.run]

\* A full record or the listing passes the documented check: its digest can be
\* reproduced from what was received, whichever run attested it, with or without
\* a key, and whenever it is read; and the signature verifies under the key that
\* `/` shows in exactly one case, that the process that attested it had that key.
RecordsReproduce ==
    \A r \in Reader :
        LET a == answer[r] IN
        IsAttested(a) /\ a.route # "constituents" =>
            /\ Reproduces(Body(a), AttestationOf(a))
            /\ verifyAttestation(AttestationOf(a), AdvertisedKey) <=>
                  AdvertisedKey # NoKey /\ KeyBehind(a) = AdvertisedKey

-----------------------------------------------------------------------------
(* The inductive invariant, over EpochStore's *)

\* Every document there is was made by a run that there was.
RunsKnown ==
    /\ \A x \in Path : file[x] \in Doc => file[x].run <= runs
    /\ \A p \in Publisher :
          job[p].run <= runs /\ (doc[p] \in Doc => doc[p].run <= runs)

\* The block of d's run was made of d.
AttestedAs(d) == block[d.run] = attest(RecordPayload(d), signer[d.run])

\* Every document, wherever it is by now, still has the block that was made of
\* it: a run that has computed nothing has none.
BlocksKept ==
    /\ \A x \in Path : file[x] \in Doc => AttestedAs(file[x])
    /\ \A p \in Publisher :
          /\ doc[p] \in Doc => AttestedAs(doc[p])
          /\ pc[p] \in {"gate", "compute"} =>
                job[p].run \in 1..MaxRuns /\ block[job[p].run] = Absent
    /\ \A r \in Reader : answer[r].record # Absent => AttestedAs(answer[r].record)
    /\ \A i \in 1..MaxRuns : i > runs => block[i] = Absent

\* What a request holds between two reads stays true of the directory.
HeldPart(r) ==
    /\ rpc[r] = "latestAt" =>
          /\ held[r].route \in {"latest", "constituents"}
          /\ held[r].head \in Epochs /\ held[r].head < Published
          /\ answer[r].route \in {"latest", "constituents"} =>
                answer[r].head <= held[r].head
    /\ rpc[r] = "historyHead" =>
          /\ held[r].record = Absent
          /\ \A e \in held[r].epochs : e <= Published /\ 0..e \subseteq held[r].epochs

\* A named head is published, and the answer has its record.
AnswerPart(r) ==
    /\ answer[r].route \in {"tick", "latest", "constituents"} =>
          /\ answer[r].head \in Epochs /\ answer[r].head < Published
          /\ answer[r].record = file[answer[r].head]
    /\ answer[r].record # Absent => answer[r].record.run \in 1..runs

ReaderInv ==
    /\ ReaderTypeOK /\ RunsKnown /\ BlocksKept /\ ListingIsContiguous
    /\ \A r \in Reader : HeldPart(r) /\ AnswerPart(r)

-----------------------------------------------------------------------------
(* What readers are told when several processes write *)

\* a names no missing record, and lists no epoch without those below it.
HasNoGap(a) ==
    /\ a.route # "history" /\ a.head \in Epochs => RecordsUpTo(file, a.head)
    /\ \A e \in a.epochs : 0..e \subseteq a.epochs

\* Whoever writes: an epoch that tick, latest, constituents or the listing names
\* has a record (readable or torn), and the listing has no gap.
AnswersHaveNoGap == \A r \in Reader : HasNoGap(answer[r])

\* What is held between two reads has none either.
ReaderGapInv ==
    /\ GapInv /\ ReaderTypeOK
    /\ \A r \in Reader : HasNoGap(answer[r]) /\ HasNoGap(held[r])

-----------------------------------------------------------------------------
(* What the documentation says and the code does not do *)

\* discovery.js:57: "Remove the `attestation` object, canonicalize the remainder
\* ...: that hex string is `attestation.digest`", and README.md:108-112.
ServedVerifies ==
    \A r \in Reader :
        IsAttested(answer[r]) => Reproduces(Body(answer[r]), AttestationOf(answer[r]))

\* discovery.js:44-48: `/` says whether epochs are signed, and "the key to check
\* them with".
SignedMeansSigned ==
    \A r \in Reader :
        IsAttested(answer[r]) /\ AdvertisedKey # NoKey =>
            verifyAttestation(AttestationOf(answer[r]), AdvertisedKey)

\* epochs.js:56: "A single published epoch, or null if it was never published".
OnlyPublishedIsServed ==
    \A r \in Reader : answer[r].route = "history" /\ answer[r].record # Absent =>
        answer[r].head < Published

\* routes.js:149: "Every published IFX20 epoch number with the current head".
HeadIsListed ==
    \A r \in Reader : answer[r].route = "list" /\ answer[r].head # Absent =>
        answer[r].head \in answer[r].epochs

\* index-service.js:24: the state is the "continuity state ... for the head
\* epoch", at the latest when the publication under way is over.
StateIsOfHead == []<>(NextEpoch(file[StatePath]) = Published)
=============================================================================
