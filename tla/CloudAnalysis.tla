--------------------------- MODULE CloudAnalysis ---------------------------
(***************************************************************************)
(* The cloud analysis: clients upload PDFs to presigned URLs and hand in   *)
(* jobs, a queue delivers the jobs to workers in batches, and a worker     *)
(* verifies and classifies every document of a job, stores the proposals   *)
(* in one transaction, writes the job's result artifact and, at the end of *)
(* the batch, reports the jobs that failed.  The queue deletes the others. *)
(* A job that is not deleted is delivered again, a bounded number of       *)
(* times, and then moved to the dead-letter queue.                         *)
(*                                                                         *)
(* A content stands for the bytes of a file and their SHA-256 digest.  A   *)
(* job has one message, so the message is named by the job.  A worker is   *)
(* an invocation of worker_handler; its time limit is below the queue's    *)
(* visibility timeout, so a message is delivered again only when its       *)
(* invocation has ended, except for the duplicates that a standard queue   *)
(* may deliver at any time (Duplicate).                                    *)
(***************************************************************************)
EXTENDS Naturals, Sequences, FiniteSets

CONSTANTS
    Workspaces,
    Keys,              \* object keys the API may sign
    WorkspaceOf,       \* the workspace in a key's prefix
    Contents,          \* of uploaded files
    Oversized,         \* those above DOCWEAVE_MAX_BEDROCK_DOCUMENT_BYTES
    Classes,           \* the model's answers
    Jobs,              \* job identifiers, a fresh one for every request
    Requests,          \* what clients may ask for
    Workers,
    MaxItems,          \* MAX_BATCH_ITEMS
    BatchSize,         \* of the event source mapping
    MaxReceives,       \* maxReceiveCount of the redrive policy
    MemoryConfigured,  \* whether DOCWEAVE_DATABASE_URL is set
    MaxPuts,           \* bound: uploads
    MaxTroubles,       \* bound: failing calls and invocations cut short
    MaxDuplicates,     \* bound: duplicate deliveries
    Nothing,           \* no object under a key, or an empty one
    NoRequest,         \* of a job that was not handed in
    NoRow,             \* no row for a content
    NoResult           \* no artifact for a job

ASSUME DataAssumption ==
    /\ WorkspaceOf \in [Keys -> Workspaces]
    /\ Oversized \subseteq Contents
    /\ Nothing \notin Contents
    /\ MemoryConfigured \in BOOLEAN
ASSUME RequestAssumption == Requests \subseteq [workspace : Workspaces, keys : Seq(Keys)]
ASSUME BoundsAssumption ==
    /\ MaxItems \in Nat \ {0}
    /\ BatchSize \in Nat \ {0}
    /\ MaxReceives \in Nat \ {0}
    /\ MaxPuts \in Nat
    /\ MaxTroubles \in Nat
    /\ MaxDuplicates \in Nat

VARIABLES
    urls,        \* the keys with a presigned URL
    objects,     \* the document bucket: the content under each key
    requests,    \* the bodies of the jobs' messages
    messages,    \* where each job's message is
    receives,    \* how often each message was received
    run,         \* what each worker is doing
    documents,   \* docweave.documents, by workspace and content
    proposals,   \* docweave.proposals (and agent_runs, with the same identity)
    results,     \* the result artifacts
    puts, troubles, duplicates

queueVars == <<messages, receives, duplicates>>
memoryVars == <<documents, proposals>>
clientVars == <<urls, objects, requests, puts>>
vars == <<clientVars, queueVars, run, memoryVars, results, troubles>>

----------------------------------------------------------------------------
\* The values.

MessageStates == {"none", "waiting", "inflight", "deleted", "dead"}

\* One entry of a job's classifications.
Readings == [key : Keys, content : Contents, class : Classes]

\* A row has the part of the key below "originals/": the upload's own uuid and
\* the file's name, which name one key.
DocumentRows == [original : Keys, current : Keys]

\* A proposal's identifier is a uuid5 of job, position in the job and digest.
Proposals == [job : Jobs, item : Nat \ {0}, content : Contents, class : Classes]

Results == [status : {"persisted", "pending"}, readings : Seq(Readings)]

\* An invocation: its records, the one it is at, those that failed, and of
\* the current record what head_object and the model said of the objects so far.
Invocations == [pc : {"idle", "verify", "classify", "persist", "publish", "answer"},
                batch : Seq(Jobs), at : Nat, failed : SUBSET Jobs,
                verified : Seq(Contents), readings : Seq(Readings)]

Idle == [pc |-> "idle", batch |-> <<>>, at |-> 0, failed |-> {},
         verified |-> <<>>, readings |-> <<>>]

ASSUME AbsenceAssumption ==
    /\ NoRequest \notin Requests
    /\ NoRow \notin DocumentRows
    /\ NoResult \notin Results

\* Mutant: any key is accepted.
ValidRequest_AnyKey(request) == Len(request.keys) \in 1..MaxItems

\* A job names at least one object and no object of another workspace.
ValidRequest(request) ==
    /\ Len(request.keys) \in 1..MaxItems
    /\ \A i \in DOMAIN request.keys : WorkspaceOf[request.keys[i]] = request.workspace

Analysable(content) == content \in Contents \ Oversized

----------------------------------------------------------------------------
Init ==
    /\ urls = {}
    /\ objects = [k \in Keys |-> Nothing]
    /\ requests = [j \in Jobs |-> NoRequest]
    /\ messages = [j \in Jobs |-> "none"]
    /\ receives = [j \in Jobs |-> 0]
    /\ run = [w \in Workers |-> Idle]
    /\ documents = [ws \in Workspaces |-> [c \in Contents |-> NoRow]]
    /\ proposals = {}
    /\ results = [j \in Jobs |-> NoResult]
    /\ puts = 0
    /\ troubles = 0
    /\ duplicates = 0

----------------------------------------------------------------------------
\* The clients and the API.

\* Every presigned URL is for a key of its own.
PresignUpload(k) ==
    /\ k \notin urls
    /\ urls' = urls \cup {k}
    /\ UNCHANGED <<objects, requests, puts, queueVars, run, memoryVars, results, troubles>>

\* While its URL is valid an object can be written again, with other bytes.
Upload(k, content) ==
    /\ k \in urls
    /\ puts < MaxPuts
    /\ puts' = puts + 1
    /\ objects' = [objects EXCEPT ![k] = content]
    /\ UNCHANGED <<urls, requests, queueVars, run, memoryVars, results, troubles>>

\* The client may or may not learn of the job: the call can fail after the
\* message was sent.
SubmitJob(j, request) ==
    /\ requests[j] = NoRequest
    /\ ValidRequest(request)
    /\ requests' = [requests EXCEPT ![j] = request]
    /\ messages' = [messages EXCEPT ![j] = "waiting"]
    /\ UNCHANGED <<urls, objects, puts, receives, duplicates, run, memoryVars, results, troubles>>

----------------------------------------------------------------------------
\* The queue.

Batches == UNION {[1..n -> Jobs] : n \in 1..BatchSize}

Starting(batch) == [pc |-> "verify", batch |-> batch, at |-> 1, failed |-> {},
                    verified |-> <<>>, readings |-> <<>>]

\* Mutant: receiving is not counted, so nothing is ever given up.
Receive_Uncounted(w, batch) ==
    /\ run[w].pc = "idle"
    /\ \A i \in DOMAIN batch : messages[batch[i]] = "waiting"
    /\ \A i, k \in DOMAIN batch : batch[i] = batch[k] => i = k
    /\ messages' = [j \in Jobs |->
           IF \E i \in DOMAIN batch : batch[i] = j THEN "inflight" ELSE messages[j]]
    /\ run' = [run EXCEPT ![w] = Starting(batch)]
    /\ UNCHANGED <<receives, clientVars, duplicates, memoryVars, results, troubles>>

\* The event source mapping invokes the worker with waiting messages.
Receive(w, batch) ==
    /\ run[w].pc = "idle"
    /\ \A i \in DOMAIN batch : messages[batch[i]] = "waiting"
    /\ \A i, k \in DOMAIN batch : batch[i] = batch[k] => i = k
    /\ messages' = [j \in Jobs |->
           IF \E i \in DOMAIN batch : batch[i] = j THEN "inflight" ELSE messages[j]]
    /\ receives' = [j \in Jobs |->
           IF \E i \in DOMAIN batch : batch[i] = j THEN receives[j] + 1 ELSE receives[j]]
    /\ run' = [run EXCEPT ![w] = Starting(batch)]
    /\ UNCHANGED <<clientVars, duplicates, memoryVars, results, troubles>>

\* A standard queue delivers a copy of a message that waits, is being worked
\* on, or was deleted.
Duplicate(w, j) ==
    /\ run[w].pc = "idle"
    /\ messages[j] \in {"waiting", "inflight", "deleted"}
    /\ duplicates < MaxDuplicates
    /\ duplicates' = duplicates + 1
    /\ run' = [run EXCEPT ![w] = Starting(<<j>>)]
    /\ UNCHANGED <<clientVars, messages, receives, memoryVars, results, troubles>>

Holds(w, j) == \E i \in DOMAIN run[w].batch : run[w].batch[i] = j

\* Mutant: there is no dead-letter queue.
BecomeVisible_Always(j) ==
    /\ messages[j] = "inflight"
    /\ \A w \in Workers : ~Holds(w, j)
    /\ messages' = [messages EXCEPT ![j] = "waiting"]
    /\ UNCHANGED <<clientVars, receives, duplicates, run, memoryVars, results, troubles>>

\* The visibility timeout of a message passes that no invocation will delete.
BecomeVisible(j) ==
    /\ messages[j] = "inflight"
    /\ \A w \in Workers : ~Holds(w, j)
    /\ messages' = [messages EXCEPT
           ![j] = IF receives[j] < MaxReceives THEN "waiting" ELSE "dead"]
    /\ UNCHANGED <<clientVars, receives, duplicates, run, memoryVars, results, troubles>>

----------------------------------------------------------------------------
\* The worker.

Current(w) == run[w].batch[run[w].at]
Request(w) == requests[Current(w)]

\* The loop goes on to the next record, or ends.
NextRecord(w, failed) ==
    [run[w] EXCEPT !.pc = IF run[w].at < Len(run[w].batch) THEN "verify" ELSE "answer",
                   !.at = IF run[w].at < Len(run[w].batch) THEN @ + 1 ELSE @,
                   !.failed = failed, !.verified = <<>>, !.readings = <<>>]

\* Mutants: a failure is forgotten; a failure ends the batch.
RecordFails_Silently(w) == run' = [run EXCEPT ![w] = NextRecord(w, run[w].failed)]
RecordFails_EndsBatch(w) ==
    run' = [run EXCEPT ![w] = [@ EXCEPT !.pc = "answer", !.verified = <<>>, !.readings = <<>>,
                !.failed = @ \cup {run[w].batch[i] : i \in run[w].at..Len(run[w].batch)}]]

\* The record's exception is caught and its message reported as failed.
RecordFails(w) ==
    run' = [run EXCEPT ![w] = NextRecord(w, run[w].failed \cup {Current(w)})]

\* The object under the key at position i of the job.
Object(w, i) == objects[Request(w).keys[i]]

\* head_object finds the next object of the job and its size.
VerifyObject(w) ==
    LET i == Len(run[w].verified) + 1
    IN  /\ run[w].pc = "verify"
        /\ ValidRequest(Request(w))
        /\ Object(w, i) # Nothing
        /\ run' = [run EXCEPT
               ![w].verified = Append(@, Object(w, i)),
               ![w].pc = IF i = Len(Request(w).keys) THEN "classify" ELSE @]
        /\ UNCHANGED <<clientVars, queueVars, memoryVars, results, troubles>>

RefuseObject(w) ==
    /\ run[w].pc = "verify"
    /\ \/ ~ValidRequest(Request(w))
       \/ Object(w, Len(run[w].verified) + 1) = Nothing
    /\ RecordFails(w)
    /\ UNCHANGED <<clientVars, queueVars, memoryVars, results, troubles>>

\* The object's verified size and its bytes, which may have been written since,
\* are both small enough.
Readable(w, i) == Analysable(run[w].verified[i]) /\ Analysable(Object(w, i))

\* The next object is read and the model proposes some class for it.
ClassifyObject(w, class) ==
    LET i == Len(run[w].readings) + 1
        reading == [key |-> Request(w).keys[i], content |-> Object(w, i), class |-> class]
    IN  /\ run[w].pc = "classify"
        /\ Readable(w, i)
        /\ run' = [run EXCEPT
               ![w].readings = Append(@, reading),
               ![w].pc = IF i = Len(Request(w).keys) THEN "persist" ELSE @]
        /\ UNCHANGED <<clientVars, queueVars, memoryVars, results, troubles>>

RefuseContent(w) ==
    /\ run[w].pc = "classify"
    /\ ~Readable(w, Len(run[w].readings) + 1)
    /\ RecordFails(w)
    /\ UNCHANGED <<clientVars, queueVars, memoryVars, results, troubles>>

\* The documents rows after the upserts of a job's readings in their order:
\* the first reading of a new content sets both paths, the last the current.
DocumentsUpserted(workspace, readings) ==
    LET At(c) == {i \in DOMAIN readings : readings[i].content = c}
    IN  \E first, last \in [Contents -> DOMAIN readings] :
          /\ \A c \in Contents : At(c) # {} =>
                /\ first[c] \in At(c) /\ \A i \in At(c) : first[c] <= i
                /\ last[c] \in At(c) /\ \A i \in At(c) : i <= last[c]
          /\ documents' = [documents EXCEPT ![workspace] = [c \in Contents |->
                IF At(c) = {} THEN documents[workspace][c]
                ELSE [original |-> IF documents[workspace][c] = NoRow
                                   THEN readings[first[c]].key
                                   ELSE documents[workspace][c].original,
                      current |-> readings[last[c]].key]]]

Known(j, item, content) ==
    \E p \in proposals : p.job = j /\ p.item = item /\ p.content = content

NewProposal(j, item, reading) ==
    [job |-> j, item |-> item, content |-> reading.content, class |-> reading.class]

\* Mutants: the identity of a proposal leaves out the job; a conflict
\* replaces the stored proposal.
ProposalsInserted_AnyJob(j, readings) ==
    proposals' = proposals \cup
        {NewProposal(j, i, readings[i]) : i \in {i \in DOMAIN readings :
            \A k \in Jobs : ~Known(k, i, readings[i].content)}}
ProposalsInserted_Replacing(j, readings) ==
    proposals' = {p \in proposals : ~(p.job = j /\ p.item \in DOMAIN readings)} \cup
        {NewProposal(j, i, readings[i]) : i \in DOMAIN readings}

\* ON CONFLICT (proposal_id) DO NOTHING.
ProposalsInserted(j, readings) ==
    proposals' = proposals \cup
        {NewProposal(j, i, readings[i]) : i \in {i \in DOMAIN readings :
            ~Known(j, i, readings[i].content)}}

\* The transaction of persist_classifications.
Stores(w) ==
    /\ MemoryConfigured
    /\ DocumentsUpserted(Request(w).workspace, run[w].readings)
    /\ ProposalsInserted(Current(w), run[w].readings)

\* Mutant: a failed transaction does not fail the record.
Persist_Optimistic(w) ==
    /\ run[w].pc = "persist"
    /\ \/ Stores(w)
       \/ UNCHANGED memoryVars
    /\ run' = [run EXCEPT ![w].pc = "publish"]
    /\ UNCHANGED <<clientVars, queueVars, results, troubles>>

Persist(w) ==
    /\ run[w].pc = "persist"
    /\ \/ Stores(w)
       \/ ~MemoryConfigured /\ UNCHANGED memoryVars
    /\ run' = [run EXCEPT ![w].pc = "publish"]
    /\ UNCHANGED <<clientVars, queueVars, results, troubles>>

\* The transaction commits and the worker is told that it failed.
PersistUnacknowledged(w) ==
    /\ run[w].pc = "persist"
    /\ troubles < MaxTroubles
    /\ troubles' = troubles + 1
    /\ Stores(w)
    /\ RecordFails(w)
    /\ UNCHANGED <<clientVars, queueVars, results>>

ResultOf(w) ==
    [status |-> IF MemoryConfigured THEN "persisted" ELSE "pending",
     readings |-> run[w].readings]

\* Mutant: the result is written under the first job of the batch.
WriteResult_FirstJob(w) ==
    /\ run[w].pc = "publish"
    /\ results' = [results EXCEPT ![run[w].batch[1]] = ResultOf(w)]
    /\ run' = [run EXCEPT ![w] = NextRecord(w, run[w].failed)]
    /\ UNCHANGED <<clientVars, queueVars, memoryVars, troubles>>

\* The artifact replaces one of an earlier delivery.
WriteResult(w) ==
    /\ run[w].pc = "publish"
    /\ results' = [results EXCEPT ![Current(w)] = ResultOf(w)]
    /\ run' = [run EXCEPT ![w] = NextRecord(w, run[w].failed)]
    /\ UNCHANGED <<clientVars, queueVars, memoryVars, troubles>>

WriteResultUnacknowledged(w) ==
    /\ run[w].pc = "publish"
    /\ troubles < MaxTroubles
    /\ troubles' = troubles + 1
    /\ results' = [results EXCEPT ![Current(w)] = ResultOf(w)]
    /\ RecordFails(w)
    /\ UNCHANGED <<clientVars, queueVars, memoryVars>>

\* A call to S3, the model or the database raises without an effect, or the
\* model's answer is not a valid classification.
CallFails(w) ==
    /\ run[w].pc \in {"verify", "classify", "persist", "publish"}
    /\ troubles < MaxTroubles
    /\ troubles' = troubles + 1
    /\ RecordFails(w)
    /\ UNCHANGED <<clientVars, queueVars, memoryVars, results>>

\* The invocation's answer: what it does not report as failed is deleted.
AnswerBatch(w) ==
    /\ run[w].pc = "answer"
    /\ messages' = [j \in Jobs |->
           IF messages[j] = "inflight" /\ Holds(w, j) /\ j \notin run[w].failed
           THEN "deleted" ELSE messages[j]]
    /\ run' = [run EXCEPT ![w] = Idle]
    /\ UNCHANGED <<clientVars, receives, duplicates, memoryVars, results, troubles>>

\* The time limit, a crash, or an answer that is lost: nothing is deleted.
Stop(w) ==
    /\ run[w].pc # "idle"
    /\ troubles < MaxTroubles
    /\ troubles' = troubles + 1
    /\ run' = [run EXCEPT ![w] = Idle]
    /\ UNCHANGED <<clientVars, queueVars, memoryVars, results>>

----------------------------------------------------------------------------
Work(w) ==
    \/ VerifyObject(w)
    \/ RefuseObject(w)
    \/ \E class \in Classes : ClassifyObject(w, class)
    \/ RefuseContent(w)
    \/ Persist(w)
    \/ WriteResult(w)
    \/ AnswerBatch(w)

Trouble(w) ==
    \/ PersistUnacknowledged(w)
    \/ WriteResultUnacknowledged(w)
    \/ CallFails(w)
    \/ Stop(w)

Next ==
    \/ \E k \in Keys : PresignUpload(k)
    \/ \E k \in Keys, c \in Contents \cup {Nothing} : Upload(k, c)
    \/ \E j \in Jobs, request \in Requests : SubmitJob(j, request)
    \/ \E w \in Workers, batch \in Batches : Receive(w, batch)
    \/ \E w \in Workers, j \in Jobs : Duplicate(w, j)
    \/ \E j \in Jobs : BecomeVisible(j)
    \/ \E w \in Workers : Work(w) \/ Trouble(w)

Spec == Init /\ [][Next]_vars

\* A delivery of a batch with job j.
Deliver(j) ==
    \E w \in Workers, batch \in Batches :
        /\ \E i \in DOMAIN batch : batch[i] = j
        /\ Receive(w, batch)

\* Lambda polls the queue and an invocation ends within its time limit.
Fairness ==
    /\ \A w \in Workers : WF_vars(Work(w))
    /\ \A j \in Jobs : WF_vars(BecomeVisible(j)) /\ WF_vars(Deliver(j))

FairSpec == Spec /\ Fairness

----------------------------------------------------------------------------
\* The tables, the queue, the artifacts and the workers hold values of their
\* types, and no message is received more often than the redrive policy says.
TypeOK ==
    /\ urls \in SUBSET Keys
    /\ objects \in [Keys -> Contents \cup {Nothing}]
    /\ requests \in [Jobs -> Requests \cup {NoRequest}]
    /\ messages \in [Jobs -> MessageStates]
    /\ receives \in [Jobs -> 0..MaxReceives]
    /\ run \in [Workers -> Invocations]
    /\ documents \in [Workspaces -> [Contents -> DocumentRows \cup {NoRow}]]
    /\ proposals \in SUBSET Proposals
    /\ results \in [Jobs -> Results \cup {NoResult}]
    /\ puts \in 0..MaxPuts
    /\ troubles \in 0..MaxTroubles
    /\ duplicates \in 0..MaxDuplicates

\* A result tells, for every object its job named and in that order, what it
\* was classified as, and nothing of the other records of the batch the
\* worker had the job in (worker_handler, _write_analysis_result_artifact).
ResultsAnswerTheirJob ==
    \A j \in Jobs : results[j] # NoResult =>
        /\ requests[j] # NoRequest
        /\ Len(results[j].readings) = Len(requests[j].keys)
        /\ \A i \in DOMAIN results[j].readings :
              results[j].readings[i].key = requests[j].keys[i]

\* The memory knows a workspace's documents by keys of that workspace only,
\* and every proposal is for a document it knows in the job's workspace
\* (_validate_analysis_job_payload, persist_classifications).
WorkspacesKeepApart ==
    /\ \A ws \in Workspaces, c \in Contents : documents[ws][c] # NoRow =>
          /\ WorkspaceOf[documents[ws][c].original] = ws
          /\ WorkspaceOf[documents[ws][c].current] = ws
    /\ \A p \in proposals :
          /\ requests[p.job] # NoRequest
          /\ documents[requests[p.job].workspace][p.content] # NoRow

\* What a result says of a job that was delivered once is what the memory
\* says of it.  (After a redelivery they can differ: the memory keeps the
\* first answer of the model and the artifact has the last.)
SingleDeliveriesAgree ==
    \A j \in Jobs :
        MemoryConfigured /\ duplicates = 0 /\ receives[j] = 1 /\ results[j] # NoResult =>
            \A i \in DOMAIN results[j].readings :
                NewProposal(j, i, results[j].readings[i]) \in proposals

\* What a client could be told of each job.
JobStatus == [j \in Jobs |->
    CASE messages[j] = "none" -> "unknown"
      [] messages[j] \in {"waiting", "inflight"} -> "pending"
      [] messages[j] = "deleted" -> "answered"
      [] messages[j] = "dead" -> "abandoned"]

Promise == INSTANCE AnalysisPromise WITH status <- JobStatus

\* The queue, the workers and their writes implement AnalysisPromise: a
\* message is deleted only when its job has a result, a result that says
\* "persisted" has a proposal for every reading, and a stored proposal
\* stands, through redeliveries, duplicates and failures after the commit.
KeepsPromise == Promise!Spec

\* Every job that was handed in is answered or given up.
JobsSettle ==
    \A j \in Jobs : messages[j] = "waiting" ~> messages[j] \in {"deleted", "dead"}

Sound(j) ==
    requests[j] # NoRequest =>
        \A i \in DOMAIN requests[j].keys : Analysable(objects[requests[j].keys[i]])

\* A job whose objects can be analysed from the start gets a result, whatever jobs it shares
\* a batch with, when fewer calls fail and invocations stop than the redrive
\* policy has receives (the exception handler and the batchItemFailures of
\* worker_handler keep a bad record from spoiling the others).
SoundJobsFinish ==
    MaxTroubles < MaxReceives =>
        \A j \in Jobs :
            (messages[j] = "waiting" /\ receives[j] = 0) ~>
                (results[j] # NoResult \/ ~Sound(j))
============================================================================
