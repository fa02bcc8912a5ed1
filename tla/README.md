# A TLA+ model of DocWeave

DocWeave proposes names and folders for PDF documents, lets a human approve or
reject each proposal, moves the files, and remembers every step in CockroachDB
so that a move can be undone.  This directory holds TLA+ modules that model the
parts of it that act on files and memory, TLC configurations that check them on
small instances, and TLAPS proofs about them.  Source paths below are relative
to the repository root; `operations/` stands for `src/docweave/operations/`.

## 1. The system

| component | state it keeps | operations | interacts with |
| --- | --- | --- | --- |
| batch operations (`operations/batch.py`) | none of its own: immutable batches, and the ledger and trail handed in | preview, approve, execute, reconcile | executor, ledger, trail, filesystem |
| executor (`operations/execution.py`) | the filesystem | preconditions, exclusive copy, verify, unlink | planning, approval |
| planning, approval (`operations/planning.py`, `approval.py`) | none | plan from the disk, approve for a time window | filesystem |
| ledger (`operations/results.py`) | open intents and terminal results, in memory | `result_for`, `is_in_progress`, `record_intent`, `record_result` | batch operations |
| audit trail (`operations/audit.py`) | events in time order, in memory | `append` | batch operations, restore |
| restore (`operations/restore.py`) | none: plans and approvals are values | plan, approve, execute copy and move restores, batch restore | executor, trail, filesystem |
| review (`operations/review.py`, `review_cli.py`) | none | decide on a proposal, persist the decision | memory repository |
| memory (`persistence/simple_memory_repository.py`, `migrations/`) | tables `documents`, `agent_runs`, `proposals`, `human_decisions`, `file_history` | persist an analysis, persist a decision | transaction runner |
| transaction runner (`persistence/transactions.py`) | none | run with bounded retries on fresh connections | CockroachDB |
| classification (`classification_cli.py`, `analysis/`, `extraction/`) | none | extract, ask Bedrock, validate, persist | memory |
| cockpit (`desktop/cockpit.py`) | table rows, restore memory, decisions of the session | scan, classify, approve, reject, restore | everything above, worker threads |
| scan and workspace (`desktop/scan.py`, `workspace.py`, `discovery/`, `intake/`) | discovered and inspected files | scan, cancel, stability check | cockpit through queued signals |
| cloud API and worker (`services/api/docweave_cloud_api/`) | S3 objects, SQS queue, memory | presign, submit a job, work on it, answer with the result | Bedrock, memory, S3, SQS |

What is hard in it:

- a file operation is several filesystem calls, and the process or one of the
  things it uses can stop between any two of them;
- the ledger's intents and results must explain, to a later call, a disk that
  may show any prefix of an interrupted operation;
- the owner of the files edits them while batches are planned, approved and
  executed;
- calls of the same batch may overlap;
- the desktop moves a file first and writes memory afterwards;
- memory is written by several programs (desktop, command line, cloud worker)
  with different identifiers for the same document;
- the analysis queue delivers jobs more than once, and each delivery writes to
  two stores that share no transaction.

What makes each component correct:

- *batch operations*: a recorded success is true of the disk; nothing is lost;
  a terminal result is final; ledger, trail and reports agree; approved items
  settle; only approved content is touched;
- *restore*: a restore undoes exactly the operation it was planned from or
  changes nothing; a partly failed batch restore leaves each file either
  restored or where it was;
- *memory*: an analysis or a decision is stored once however often it is
  retried; a document's origin is written once; every move in its history has an
  approval of its own and really happened; the last decision decides the status;
- *transaction runner*: the operation takes effect at most once per reported
  success, and a failure that may have committed is never reported as a success;
- *classification*: what is stored is an accepted answer about the text of the
  very document it is filed under; what an analyst is told was stored, was;
- *cockpit*: what the table shows belongs to the scan it shows, and progress to
  its row; a window that closes leaves no work behind; a decision and the move
  that follows it both happen or the difference is visible;
- *cloud worker*: every accepted job ends with a readable result or in the
  dead-letter queue; redelivery never changes an analysis that was stored.

`PROJECT.json` lists the hazards behind these properties, each at its line.

## 2. Plan

| order | module | content | status |
| --- | --- | --- | --- |
| 1 | `BatchExecution`, `BatchPromise` | preview, approval, execution and reconciliation of one batch; what all this promises | built, checked, proofs |
| 2 | `ReviewMemory` | the tables, `persist_analysis`, `persist_human_decision`, and the cockpit's scan, analyse, approve, reject and restore flows with crashes between move and commit | built, checked, proofs |
| 3 | `CloudAnalysis`, `AnalysisPromise` | API, queue, worker, artifact and memory writes; redelivery, dead letters; what all this promises | built, checked, proofs |
| 4 | `Restore` | copy and move restores, the batch restore and the cockpit's restore of a row, with overlapping and interrupted calls | built, checked, proofs |
| 5 | `ClassificationAnswer` | what a model's answer must satisfy and what is made of it, as operators | built, checked (through 6), proofs |
| 6 | `PdfAnalysis` | one analysis step by step: readings of the file, validation retries, transaction attempts; the batch command | built, checked (through 7), proofs |
| 7 | `DesktopSession` | the windows over `PdfAnalysis`: threads, queued signals, cancellation, the review table | built, checked, proofs |

`PdfAnalysis` EXTENDS `ClassificationAnswer`, `DesktopSession` EXTENDS
`PdfAnalysis`, `CloudAnalysis` has an INSTANCE of `AnalysisPromise` and
`BatchExecution` one of `BatchPromise`; the other modules stand alone and meet in
what they share with the code: `ReviewMemory` treats as one step what
`BatchExecution` (a file operation), `PdfAnalysis` (an analysis) and `Restore` (a
restore) take apart.

Abstract specifications: `AnalysisPromise`, which `CloudAnalysis` implements, and
`BatchPromise`, which `BatchExecution` implements (both checked and proved).

A theorem states each invariant and each action property of the passing runs,
and both refinements; others say under which conditions what the findings refute
does hold (`ApprovedUntilEdited`, `NoUnrecordedPlace`).  Worth proving next: the
same for `RestoreGoesHome` (a document restored before any other was moved to its
place) and for the property `desktop_stale` refutes.

## 3. The modules

### BatchExecution and BatchPromise

One batch of `N` items that share an operation (`operations/batch.py` requires
it), and `Runners`, the callers of `execute_operation_batch`.

| variable | in the code |
| --- | --- |
| `fs` | the filesystem; a content stands for the file and its SHA-256 digest, `Partial` for a file that is being written |
| `plan`, `itemState`, `expected`, `approval` | `FileOperationPlan.status`, `OperationBatchItem.state`, `expected_source_digest`, the approval window |
| `inProgress`, `result` | `InMemoryExecutionLedger._in_progress`, `_results`; keys are items, since `operation_execution_key` is injective on a batch |
| `audit`, `auditTime` | `AppendOnlyAuditTrail`: result events and the time of the last event |
| `pc`, `at`, `now`, `seen`, `pend`, `report` | of each call: the step, the item of the loop, `request.now_utc`, the last reading of the source, the result about to be recorded, the item states it will return |
| `edits`, `crashes`, `clock` | bounds and time |

Steps are as large as what the code does between two calls on something shared:
every ledger call, every audit append, and every filesystem call is a step of
its own, so that other calls, edits and crashes fall between any two of them.
`Crash` ends a call anywhere and keeps ledger and trail: an exception from a
hook, the ledger or the trail, or a process death under a durable ledger, which
`results.py:86` says must replace the in-memory one.  `LoseProcess` is the
process death the code has today: ledger, trail and batch are gone and the
items are planned again from the disk.  A failing disk is `DiskError`.

Deliberately left out: parent directories, lexical path rules and reserved
names; symbolic links; error texts and reasons; fingerprints of plans and
batches, which always match because both are immutable; approving the same
preview twice; the optional lifecycle recorder, which has no implementation in
the repository (its raising is a `Crash`).  Two readings of one file within a
single call of the hash function are one step.

`BatchPromise` says what remains when calls, times, plans and readings are hidden:
the life of each item.  An item is offered and approved, taken on, executed by
creating, filling and discarding files, settled once, told to the trail and
answered; all may be forgotten, and the owner may interfere.  Its guards are the
promise: files change only for items taken on, only `BLOCKED` settles an item that
was not, and until the owner interferes a destination is filled with what was
approved, a source is discarded only when that stands at the destination, and a
success is true.  `outcome` is what the ledger says of an item (`Outcomes`), and
`answers` what the calls that returned reported (`Answers`).

`MCBatchExecution` gives it instances: two items that compete for one
destination, two independent items, two items with one source, and one item.

### ReviewMemory

The cockpit, the review command and the cloud worker on one workspace and one
database.

| variable | in the code |
| --- | --- |
| `fs` | the files under the authorized root; a document is a content, the value its SHA-256 digest stands for |
| `documents` | `docweave.documents`, one row per content (`uq_documents_workspace_content`) |
| `proposals` | `docweave.proposals`; the identifier is a `uuid5` of workspace and digest, computed in a namespace of its own by each writer |
| `decisions`, `history` | `docweave.human_decisions` in commit order, `docweave.file_history` by `event_sequence` |
| `rows` | the cockpit's `Document` rows, with the paths of their lineage preview |
| `approving` | where `_record_selected_review_decision` stands: the file has moved and the decision is about to be recorded |
| `failures` | bound |

Actions are the cockpit's slots.  Scanning and opening the restore view read
`file_history` and replace rows (`Recalling`); restoring ends with that refresh.
An approval is two steps, the file operation and the transaction, because the
review command, the cloud worker and a crash can come between; the cockpit itself
cannot, since the slot runs to its end in the user interface's thread.  Every
other slot makes one change that others see and is one step.  A transaction
commits and is acknowledged, commits and is reported as failed (the connection
was lost), or fails; the transaction runner raises in the last two.

`PersistApprovedMove` changes nothing when the document's row has another
program's identifier: `_UPDATE_DOCUMENT_PATH` then matches no row and
`_INSERT_FILE_HISTORY` violates its foreign key.

Deliberately left out: agent runs, which have their proposal's identity; the
statuses that no writer of a document uses; `request_changes`, which neither the
cockpit nor the command offers; the review and audit ledgers of the cockpit's
session, which nothing reads back; failed classifications, which leave a row as
it was; files that are not PDFs.  A file operation is one step (its parts are
those of `BatchExecution`), and analysis is one step: the cockpit allows no scan
or second analysis while one runs, and interference between its result and a
decision on another row is `DesktopSession`'s.  Paths are equal or not:
the cockpit's match by path suffix, for a root that is a parent of the one the
history was written for, is not modelled.  Skipping a restore is not kept; a row
may be restored or not.

`MCReviewMemory` names two places that a scan finds, two that proposals point to
and two documents.

### CloudAnalysis and AnalysisPromise

The cloud API, the queue between it and the analysis worker, and the worker
(`handler.py` and `memory.py` of `src/services/api/docweave_cloud_api/`).

| variable | in the code |
| --- | --- |
| `urls`, `objects` | keys with a presigned URL and the document bucket under those keys; a content stands for the bytes and their SHA-256 digest |
| `requests`, `messages`, `receives` | the body of each job's message, where the message is (not sent, waiting, in flight, deleted, dead) and its receive count |
| `run` | the locals of each `worker_handler`: the records, the one it is at, `failed_items`, `verified_objects` and `record_classifications` |
| `documents`, `proposals` | the rows the worker writes; an agent run has its proposal's identity and is folded into it |
| `results` | the artifacts under `analysis-results/` |
| `puts`, `troubles`, `duplicates` | bounds |

`PresignUpload` and `SubmitJob` are the two handlers of the API that change
something.  The worker does one call on something shared per step: `head_object`
of one object, `get_object` and the model's answer for one object, the
transaction, `put_object`; so uploads, other workers and failures come between.
Reading an object and asking the model for a class are one step because nothing
that is shared depends on the time between them.  Every call can fail without an
effect (`CallFails`), the transaction and the artifact also with one
(`PersistUnacknowledged`, `WriteResultUnacknowledged`); an invocation can end
anywhere (`Stop`: the time limit, a crash or a lost answer).  A failed record goes
to `batchItemFailures` and the loop goes on (`RecordFails`); `AnswerBatch` is the
return, after which the queue deletes what was not reported.  `BecomeVisible` is
the visibility timeout with the redrive policy.  It exceeds the worker's time
limit (180 and 30 seconds in the template), so it passes only after the
invocation has ended; what a standard queue may do beyond that is `Duplicate`.

`AnalysisPromise` says what remains when queue and workers are hidden: a job is
submitted, remembered, published, possibly several times, and then answered, or
abandoned.  Only a job with a result is answered, a result that says `persisted`
has a proposal for every reading, and the memory keeps the first proposal for an
item.

Deliberately left out: reading a result, which changes nothing; an API answer that
is lost, after which the queue is the same; the configuration checks, which do
not change while the system runs; key syntax, sizes and content types beyond "can
be analysed"; expiring URLs, which only mean fewer uploads; the retention periods
of the queues; the human decisions on the proposals (`ReviewMemory`).  The job
identifier of a message comes from the API, which makes a new one each time.

`MCCloudAnalysis` names two keys in one or two workspaces, two jobs and two
workers.

### Restore

`N` recorded operations whose files may have been edited since, and `Calls`, the
callers of `plan_restore_batch` and `execute_restore_batch` or of the cockpit's
restore of one row, which builds the original operation from `file_history`.

| variable | in the code |
| --- | --- |
| `fs` | the files; as in `BatchExecution` a content stands for its digest |
| `recorded` | `destination_digest_after` of each original result, absent when the operation did not succeed |
| `approvals`, `trailTime` | `AppendOnlyAuditTrail`: the items with a `RESTORE_APPROVED` event and the time of the last event |
| `call` | of each call: the step, the item of the loop, the previews that are ready with their expected digests, `approved_at_utc`, `now_utc`, the digest the executor read, the result |
| `restored`, `late`, `altered`, `disturbed` | history the properties need: items reported `SUCCEEDED`; some file was edited while a call was between its recheck and its result; copies whose recheck passed although the original differed; items one of whose places was edited or whose move back a fault hit halfway |
| `clock`, `edits`, `faults` | time and bounds |

The two loops of `execute_restore_batch` are `ApproveReadyItems` (every approval
and its event, in one step because nothing but the trail is touched) and
`RecheckPlan` to `LogResult` for each item.  A copy is undone by `unlink` and a
look at both paths, a move by `execute_file_operation`, here in the steps of
`execution.py`: digest, exclusive create, copy, verification, unlink.  A call that
raises is `Abort`; the trail refuses an event older than its last one and then
leaves the result unrecorded.  The report of a batch goes with the preview, which
can be executed again.  The cockpit's row takes the digest of the file as it is
when the user clicks, so its approval is bound to nothing that was seen before.

Deliberately left out: fingerprints of plans and approvals beyond the plan's
reason, parent directories, the error texts, and which of two failing looks made a
verification fail.  `MCRestore` undoes a move from `a` to `x` and a copy of the
moved file to `y`, so that the undoing of one changes what the other needs.

### ClassificationAnswer

Operators without state.  `Fault` runs the checks of `decode_classification_v1`
(`analysis/validation.py`) in their order and answers with the code of the error
that would be raised first; `RetriedFaults` are those for which
`BedrockConverseGateway.classify` asks once more.  A string is told apart only by
what a check asks of it (blank, too long, no string), an answer's form by whether
it is an object with the right keys within its size.  `Score` is the
classification score of `compute_uncalibrated_confidence`, in ten-thousandths.
`StoredDestination` and `ShownDestination` are the destination of the proposal
and that of the command's result: the second is derived from the first `MaxShown`
metadata fields only (`classification_cli.py:696`), so the two can differ.

### PdfAnalysis

`_classify_pdf_once_with_runtime` for any number of analysts: the cockpit's worker
and the batch commands.

| variable | in the code |
| --- | --- |
| `disk` | the files under the root |
| `memory` | the proposal stored under each identity: the digest of the first reading and the idempotency key, which the batch command derives from the path |
| `job` | of each analyst: the step, the three readings of the file (fingerprint, digest of the extraction's parent, text of its worker process), validation retries, the reply, the transaction attempt, the result |
| `batch` | of each batch command: the list, `stop_on_failure`, the report |
| `edits` | bound |

Each reading is a step, so the owner can edit between any two.  `AskModel` is one
response with its validation; `ModelFails` every other failure of the gateway,
which has no effect.  `Commit`, `Conflict` and `StoreFails` are the transaction
runner's outcomes: committed and acknowledged, SQLSTATE 40001 with another attempt
up to the bound, and any other failure, before the commit or after it.

Deliberately left out: limits of pages, bytes and time (they are failures of
`Extract`), the delays between attempts, cancelling a run (no caller passes a
token), the wording of the request, the attempts inside boto3.

### DesktopSession

The cockpit or the read-only window (`desktop/main_window.py`) and its two worker
threads, over `PdfAnalysis`; without a window, batch commands.

| variable | in the code |
| --- | --- |
| `shell`, `closed`, `phase` | which window it is, whether `closeEvent` was accepted, the phase of `DesktopWorkspaceSession` |
| `rows`, `enabled` | the documents of the left panel with their lineage previews, the buttons `_set_busy` leaves enabled |
| `scan`, `cls` | each thread: whether the window holds it, how far it is (working, outcome emitted, quitting, finishing, stopped) and what its worker has still to do; the scan's cancellation flag and records |
| `posted` | the signals queued for the main thread, in order |
| `table`, `clicked`, `deciding` | the batch review table with the rows it was filled with, a click whose 140 ms timer runs, the decisions being executed |
| `history` | places that `file_history` says a file was moved to |
| `early` | history: work was started before the finished signal of the work before it was handled |

Every slot is an action that takes the head of `posted`; every user action is one
too, and falls between any two signals.  A worker emits its outcome, the main
thread handles it and only then asks the thread to quit; `QThread` posts `finished`
before the thread has stopped.  `Decide` executes the decisions one by one in the
main thread while the owner and the worker go on; signals wait until the decisions
are done, which is a simplification (section 6).  `Blocked` is
every way a decision ends without its record, also after the file has moved; an
error that is neither a configuration nor a value error leaves the loop with the
rest undone.

Deliberately left out: progress counts, widgets, wording, link targets; restores
from the window (`Restore` and `ReviewMemory`); request-changes; the decision's
own transaction (`ReviewMemory`).  The memory may answer a scan with its history
or not at all.  `MCDesktopSession` gives the model its answers: one that is
accepted, one that abstains, one without a citation for its metadata (asked again)
and one that cites another document (refused).

## 4. The runs

The `batch_`, `cloud_` and `desktop` runs set `CHECK_DEADLOCK FALSE`, because the
system really stops: with a batch that has no executable item or whose calls all
ended; when every job has settled and the uploads are used up; after a window was
closed.  The review of documents and restoring never do.

| run | instance | asks |
| --- | --- | --- |
| `batch_restart` | 1 caller, 2 independent moves, 2 crashes, 3 times | after any interruption and retry the source of a `BLOCKED` item is as approved and its destination empty |
| `batch_overlap` | 2 callers, 2 moves to one destination, 2 crashes, 2 times | recorded successes are true of the disk; ledger, trail and reports agree; results are final; no content disappears; the executor implements `BatchPromise` |
| `batch_settles` | 2 callers, 1 copy, 1 edit, 1 crash, fairness | every approved item settles; only intended files are touched; a complete file is never written over |
| `batch_late_edit` | 1 caller, 1 move, 1 edit | expected to fail, see below |
| `review_writers` | 3 places, 2 documents of which one is also analysed in the cloud, 3 decisions, 1 failure or crash | what several writers leave in the tables agrees: moves have approvals, statuses follow decisions, moved documents have history, origins stand; files survive and history is never ahead of the disk |
| `review_unrecorded` | 3 places, no failure | expected to fail, see below |
| `review_home` | 4 places, 3 decisions, no failure | expected to fail, see below |
| `cloud_deliveries` | 2 workspaces with a key each, 2 jobs of one object, 2 workers, 2 receives, 2 uploads, 1 failure, 1 duplicate | queue, workers and writes implement `AnalysisPromise`; workspaces keep apart; for a job delivered once, memory and artifact agree |
| `cloud_batches` | 1 workspace, 2 keys, jobs of one and two objects in batches of up to 2, no database, 3 receives, 2 failures, fairness | results answer their own job; every job settles; a sound job finishes whatever it shares a batch with |
| `restore` | 2 calls, a move and a copy of the moved file, 1 edit, 1 fault, 2 times | nothing is restored unapproved, twice, or at the price of a content; a success is true of the disk; a moved file is in one of its places, whatever edits and faults hit elsewhere |
| `desktop` | cockpit, read-only window, or 2 batch commands; 2 places, 2 documents, 1 added by the owner, 1 validation retry, 2 transaction attempts, fairness | what is stored quotes its document; what is reported was stored; progress lands on its row; closing leaves no thread; only whole scans are shown; work ends |
| `desktop_stale` | cockpit, 3 places, otherwise the same | expected to fail, see below |

Bounds of the `batch_` runs.  Two items are enough for every interaction the loop
has (an item before and after the current one, a shared source, a shared
destination).  Two callers show every pairwise interleaving.  Two crashes allow a
crash during the reconciliation of an earlier one.  One edit can separate any two
readings of a file.  A window of one tick and a clock that passes it let an
approval expire between two calls.

Bounds of the `review_` runs.  Two documents on two places can be distinct or
copies of one another, and compete for one destination.  Three decisions
let an approval meet two other decisions on the same proposal, or two documents
move one after the other.  One failure falls on any transaction or is a crash
between any two steps.  Symmetry exchanges the places a scan finds.  The proofs
(section 5) are about any number of all these.

Bounds of the `restore` run.  Two calls can be two batches, two rows of the
cockpit or one of each, with one or both operations on record.  The one edit and
the one fault (a crash, a lost process or a disk error) fall between any two
steps.  A clock of two times lets an approval be recorded with a time before
or after the trail's, and lapse.

Bounds of the `desktop` runs.  A session starts with one document, in the place
its proposal points to or in another, and the owner may add a second one, so that
rows, row numbers and destinations can shift under what is queued.  The answers
are divided among the analysts (`Offers`) so that each kind is given by one.  Two
bounds are about the user: no input during the 140 ms of a click, and none after
work was started `early`.  The second keeps the model to one thread of each kind:
the code would have two then, of which the window knows one.  A third document
and place is needed only for `desktop_stale`.

Bounds of the `cloud_` runs.  In `cloud_deliveries` two workers can have two
different jobs or the same one twice, a second upload can fall between any two
steps of a worker, and the one failure can be an unacknowledged commit that is
followed by a redelivery with another answer of the model.  In `cloud_batches` a
batch has a record before and after the bad one, its jobs share an object, and
three receives are those of the template.  `cloud_batches` runs without
`DOCWEAVE_DATABASE_URL`, the deployment without a secret in the template.

`SingleDeliveriesAgree` is about jobs that were delivered once, because otherwise
it does not hold: a redelivery asks the model again, the memory keeps the first
answer (`ON CONFLICT (proposal_id) DO NOTHING`) and the artifact has the last.
Nothing in the repository promises that they agree then.

`BlockedIsUntouched` asks for both ends of an operation: the source is the approved
content (`SourceStands`) and nothing is at the destination, not even the half of a
copy that was interrupted (`DestinationStands`).  Excepted is a path that another
item shares whose intent or result the ledger holds.  It is stated for one caller.  With two, a call can record
`BLOCKED` for an item because the other call has just moved it; the other call
then finds a different result in the ledger and raises (`results.py:123`).
`NothingLost`, `SuccessIsReal` and `BlockedIsUntouched` ask that the owner has
edited nothing: he may delete what was moved, and the window between verification
and unlink (`execution.py:163-178`) is open to an edit.  `SuccessIsReal` is about
complete files.  If a copy's source is one that another program is still writing,
or that an interrupted move left behind, the model has the one value `Partial` for
its digest and for that of any other half-written file; with two callers and three
copies in a row TLC then finds one half-written file taken for the other, which
two real digests would tell apart.

Fairness.  `FairSpec` assumes that a running call takes its next step (Python
runs it), that the preview is created and approved, and that whoever holds an
approved batch calls `execute_operation_batch` again after it raised; nothing is
assumed of edits, ticks, crashes and disk errors.  In `CloudAnalysis` it assumes
that an invocation takes its next step (it ends by its time limit at the latest,
which is `Stop`), that Lambda polls the queue, so every message that keeps waiting
is delivered in some batch, and that the visibility timeout passes; nothing is
assumed of clients, failures and duplicates.  `SoundJobsFinish` is about fewer
failures than receives: with as many, a job can be given up although nothing is
wrong with it.  In `DesktopSession` it assumes that threads are scheduled and
that a call of a worker ends, which its time limits ensure (weak fairness of each
thread), that a decision once begun goes on, and that Qt delivers posted signals:
strongly fair, because a decision or a click can put the main thread out of reach
for a while, again and again.  Nothing is assumed of the user, the owner or the
outcome of any call.

What the desktop properties are about.  `ProgressLandsOnItsRow` and `ClosingWaits`
except what follows a start made `early`: a click that Qt handles between the end
of a thread and its queued `finished` handler can start new work, which that
handler then forgets (`cockpit.py:3351`, `cockpit.py:3747`); a scan and a
classification can then run at once and the window can close under a thread.
`EvidenceIsOfTheDocument` excepts a proposal whose file was edited between the
fingerprint of its identity and the extraction (`classification_cli.py:413`): the
new content's proposal is then stored under the old digest.

What the properties of `Restore` except.  `late` holds once the owner changed a file
while some call was between its recheck and its result.  `altered` holds the copies
that a recheck passed although the original differed from them, whenever it was
changed: `_plan_copy_restore` only asks that an original is there.  Such a copy is
removed, reported `SUCCEEDED`, and the content it had may be gone.
`LossNeedsALateEdit` excepts both.  `SuccessIsRestored` excepts `late` only, and says
of an altered copy what is true of it: the copy is gone and its original is a file,
with another content.  `OnePlaceEach` is about each moved file by itself and holds
with edits and faults; `disturbed` excepts the files one of whose own places was
edited, or whose move back was hit by a crash, a lost process or a disk error after
it had created the original place and before it left the other.

Finding (`batch_late_edit`).  `_stale_source_result` compares the source with the
approved digest (`batch.py:674`), and `_perform_execution` then takes a digest of
its own (`execution.py:151`) which is the only one the copy is verified against.
An edit in between is moved and recorded as `SUCCEEDED` although the approval is,
in the words of `batch.py:112`, a "Human approval bound to the exact batch preview
and source identities."

Findings (`review_unrecorded`).  The cockpit moves the file (`cockpit.py:4202`) and
then records the decision (`cockpit.py:4233`), while `README.md:77` says "The
dashboard records approval/rejection before any rename or move."  The order alone
is harmless as long as the record succeeds; but it is refused, without any failure
of the database, for a document that the cloud worker stored first.  The worker
derives `document_id` in another namespace (`memory.py:19`) than the cockpit
(`classification_cli.py:45`), the row keeps the first writer's identifier, and the
history insert names the other one.  The file has moved, no table knows it, the
row stays in review, and a repeated approval finds no source.

Finding (`review_home`).  A restore writes nothing to `file_history`.  A restored
document therefore still has a latest history that leads to its old destination.
If another document is moved there afterwards, two histories lead to one path,
and `entries_by_selected_path` (`cockpit.py:3280`) keeps either; a rescanned row
may show the other document's origin, and restoring it takes the file to a place
where it never was.  `README.md:30` promises that `file_history` "lets the agent
answer the practical question a real user asks after cleanup: 'What was this file
called before, and where did it come from?'"

Finding (`desktop_stale`).  The review table is filled once and stays open while a
scan or a classification changes the rows.  APPROVE ALL then decides the rows that
are in review at that moment (`cockpit.py:3873`), so a document whose analysis
ended after the table was opened is moved although no row of the table shows its
proposal.  `README.md:8` lets the user "approve all proposals or only selected
files" after it "shows filename and folder proposals".  The progress signal that
puts the document in review also raises the analysis panel over the table's buttons
(`cockpit.py:1930`), which the model leaves out; they stay enabled, and in this
trace APPROVE ALL is pressed by keyboard.

`HistoryIsTrue` says that a file is where the history leads, not which: the
cockpit's approval is bound to paths, and nothing in it compares the content with
the analysed one.  As long as nothing failed, nobody else edits the files and no
document is also analysed in the cloud, it is the analysed one all the same
(theorem `ApprovedIsWhatMoved`).

## 5. The proofs

`BatchExecutionProofs` proves, for every number of items, callers, edits, crashes
and times, and for every choice of paths:

- `TypeCorrect`, `SettledOnce`, `AuditIsLedger`, `ReportIsLedger`: the invariants
  `TypeOK`, `IntentOrResult`, `AuditAgreesWithLedger`, `ReportAgreesWithLedger`;
- `ResultsAreFinal`, `MutationsAreIntended`, `CompleteFilesAreSafe`: the action
  properties `TerminalResultStable`, `MutationIsIntended`, `NeverOverwrites`.

Assumptions: those the module declares about its constants (sources and
destinations are paths, `Absent`, `Partial` and `NoResult` are not contents or
results, an operation is a copy or a move, bounds are naturals).

None of the invariants is inductive alone.  `AuditAgreesWithLedger` needs that a
call about to audit finds its own result in the ledger, which needs that results
are never replaced and that the call's item is an item of the batch; reports need
that every approved item behind the loop has its result; both need that the batch
cannot be previewed or approved again while a call runs.  `IInv` is the
conjunction of these parts.  Most steps of a call have one of three shapes: they
advance it at its item (`Advances`), move it on to the next item (`MovesOn`) or
end it by an exception (`Abort`); one lemma per shape shows that `IInv` survives,
and the proof of a step says which shape it has.  The action properties follow
from `IInv` and from `Mutations`, which says which steps change a file and how.

About the files, for any number of items that share sources and destinations:

- `SuccessesAreReal` (`SuccessIsReal`) and `ContentsSurvive` (`NothingLost`), for
  any number of callers;
- `BlockedMeansUntouched` (`BlockedIsUntouched`: source and destination), for one
  caller (`LoneCaller`), who may crash, lose the process and call again any number
  of times.

They rest on `FilesInv` (theorem `FilesInvariant`), which holds with `IInv` until
the first edit: no item's source is another's destination, since plans are made
from one reading of the disk (`SourcesApart`); a source is what was approved, or
gone (`SourcesKept`); and what each caller has read and verified is so
(`TrueCall`), also when another caller works on the same item, since a complete
file at a destination is never touched again (`FilesStand`).  Reconciliation is
the hard case: a source that is gone stays gone, so a destination with the
approved digest is the result of a move whoever made it.  For `NothingLost` the
step that matters is the unlink, and there `TrueCall` says that the copy at the
destination is the approved content.

`LoneInv` is what BLOCKED needs.  Until a batch is approved nothing is at its
destinations (`PlannedAreFree`); afterwards a source that is gone was moved, and a
file at a destination was put there, for an item that was begun (`GoneIsBegun`,
`MadeIsBegun`), that is, one with an open intent or a result other than BLOCKED.
The call's own part (`LoneCall`) is that it prepares only what nobody began and
carries an empty destination from there to its exclusive create, and that it means
to record BLOCKED only with both ends as they were.  An item that was begun before
a crash comes to BLOCKED only by way of a reconciliation that found no effect.

`PromiseKept` proves that `BatchExecution` implements `BatchPromise`, for any
number of callers and items and with any edits.  Most steps of a call are hidden
(`HiddenSteps`); one lemma each for files, ledger, ends of calls and surroundings
says which step of `BatchPromise` the others are.  What makes it true is `IInv`,
`FilesInv` until the first edit, and two facts about a call: what it records other
than `BLOCKED` has an intent or a result in the ledger (`Supported`), and it
creates only after it has read its source (`HasRead`).

`ApprovedUntilEdited` proves what finding `batch_late_edit` leaves of
`ApprovedContentOnly`: until the first edit a success is about the approved
content, for any number of callers.

Only model-checked: the liveness property `ApprovedItemsSettle`, which is out of
the prover's reach.

`ReviewMemoryProofs` proves, for every finite set of paths, every set of documents
and uploads and every bound, all eight properties of the passing `review_` runs:
`TypeCorrect`, `MovesHaveApprovals`, `TablesAgree`, `RestorableIsRemembered` and
`LastDecisionStands` are invariants, `HistoryNeverAhead`, `FilesSurvive` and
`OriginsStand` action properties.  The assumptions are again those the module
declares: destinations are paths, the cloud's key is not one, the absence values
are no documents or rows, paths are finitely many.

Alone, none of the invariants survives a step.  That a recorded move is true needs
that its row was complete and its proposal stored when the file moved, and that
no step between the two changed the row or the files (`ApprovedFileWaits`); that a
row the cockpit calls `MOVED` is in `file_history` needs the same of every row in
review (`RowOK`); that a document row exists for the transaction to update needs
that proposals are stored with their documents (`StoredTogether`).  `IInv` joins
these.  One lemma per repository method says what it leaves in the tables
(`AnalysisStores`, `DecisionStores`, `ApprovedMoveStores`); rows that are in order
stay so while the tables only grow (`RowsAge`), so a step's proof is about the row
it changes: `TableChanges` for steps that write no table, `MemoryChanges` for the
others.  `FilesSurvive` counts: a move to a free place takes one path out of the
set of a content's places and puts one in.  `LastDecisionStands` is inductive
together with `IInv`.

About the contents, until the first failure and without cloud analyses (`Uploaded
= {}`), two more theorems hold that no run states: `ApprovedIsWhatMoved`, an
approval moves and records the document that was analysed, whatever was scanned
and restored in between, and `NoUnrecordedPlace`, a file under the organized
folder lies at a place some approval on record led to.  They follow from
`Undisturbed`: a row that can still be analysed or approved is the only row of its
place, and its file is there unchanged (`OpenRowsAreTrue`).  Both conditions are
needed for it, since an approval whose record fails or is refused leaves a row in
review whose file is gone; TLC checked it on the instance of `review_home` before
it was proved.  `MovesAreRecorded` itself, which is about the file and not its
place, does not hold even then: with a third organized place and a fourth
decision, a restore from the stale memory of finding `review_home` takes one
document to an organized place that only the other one has a recorded move to.

`CloudAnalysisProofs` proves, for every number of workspaces, keys, jobs, workers,
batches and failures, `TypeCorrect` (`TypeOK`), `ResultsCorrect`
(`ResultsAnswerTheirJob`), `WorkspacesCorrect` (`WorkspacesKeepApart`) and
`SingleDeliveries` (`SingleDeliveriesAgree`), and
`CloudAnalysisRefinement` proves `PromiseKept`: `CloudAnalysis` implements
`AnalysisPromise`.  The assumptions are those of the module: every key has a
workspace, absence values are no contents, requests, rows or results, bounds are
naturals.

The inductive invariant `Inv` says of the queue that a job is known exactly when
its message is, that its request is valid, and that it waits only while it may be
received (so the receive count keeps its bound); and of a worker that it is at a
record of its batch, whose readings so far are those of the request's first
objects (`AtRecord`, `AtObject`).  One lemma says what a failed record leaves
(`FailureStep`), one what the transaction does (`DocumentsStored`), and
`StepEffects` which steps touch requests, memory and results at all; the two
properties then only need the few steps that do.  The refinement needs more: the
records behind a worker are reported as failed or have a result (`Done`), which is
why deleting the rest is sound, and the record it is about to publish has its
proposals in the memory (`Stored`), which holds although another delivery may have
stored other classes, since proposals are never removed.

`SingleDeliveries` follows a job through its life (`Single`): before it is received
it has left no trace; received once, it is in the hands of one worker at most
(`Holds`, in a batch without repetitions), and leaves no trace while its record is
ahead of that worker (`Ahead`), so the transaction finds nothing stored for it and
what the worker read is what the memory keeps; the artifact is made of the same
readings.  A duplicate or a second receive ends the argument, as it should.

Only model-checked: the liveness properties `JobsSettle` and `SoundJobsFinish`.

`RestoreProofs` proves, for every number of operations, callers, edits, faults and
times, `TypeCorrect` (`TypeOK`) and `ApprovedChanges` (`ChangesAreApproved`).  The
invariant adds to the types what a call in the middle of an item knows (`CallOK`):
its item is one of its ready ones, all of these are in the trail, and where it
acts the approval has not lapsed at the call's own time.  It survives
`LoseProcess`, which empties the trail, only because all calls end with it.

The other four properties of the `restore` run are about several calls on the same
files, and are proved by kinds of steps: every step of a call commits to an item
after its recheck, reads, creates, copies, verifies, removes, reports or stops
(`Kinds`), and the lemmas are about these.  They do not hold for arbitrary lists
of operations, so they state which:

| theorem | property | operations | why it needs them |
| --- | --- | --- | --- |
| `RestoredOnlyOnce` | `RestoredOnce` | `HomesFree`: no move leads back to a place where another operation put its file | otherwise undoing the one brings back what the other has to undo |
| `SuccessesAreRestored` | `SuccessIsRestored` | `HomesFree` | otherwise the recheck of the other operation can approve the file this one is still writing |
| `NoLossOnTime` | `LossNeedsALateEdit` | `HomesFree` and `Forward(rank)`: every operation leads from a lower rank to a higher, so they form no circle | in a circle of copies two calls can each rely on the copy that the other removes |
| `MovedFilesStayWhole` | `OnePlaceEach` | `HomesFree` and `PlacesApart`: moves share no place with each other, nor a destination with a copy | a shared place holds the other operation's file |

TLC finds a counterexample to the first three where the hypothesis fails: moves
from `a` to `x` and from `x` to `a` are undone in turn for ever; of moves from `a`
to `x` and from `x` to `y`, undone by two calls, the first is approved when the
file undone by the second is half written at `x`; copies from `a` to `x` and from
`x` to `a` are both removed when a disk error interrupts a call.  The successful
operations of one batch that nobody interfered with meet all of these (no
source is a destination, each destination and each moved source is used once), and
so does the chain of a move and a copy of the `restore` run; a list put together
from several batches need not.

`Placed` says that a call's steps fit its item and that the places files are
restored from hold complete files or none.  `Once`: what is restored, or in the
middle of being verified, is no longer at the place it was restored from, and two
calls do not verify one place.  `OnTime`, which holds until a change falls between
a recheck and its result: what a call approved is at the place it restores from or
gone, and where its step says so, at home (`TrueCall`).  `AllBacked`: a file that
a call is about to remove is also at an earlier place that no call is about to
empty; by induction along the chain this is why two calls cannot remove each
other's originals.  `OneMoveEach`, for each item that is not in `disturbed`: at most
one call is busy with the move, because the second finds the home taken, and its
step tells what is in the two places.  After its create a call gives up without a
fault only where a place is not as it left it (`GivesUp`), which only the owner can
bring about; a fault in between puts the item in `disturbed`.

`ClassificationProofs` proves of the operators, for every text and answer, that an
accepted answer quotes: it has evidence, and its first citation, which is stored,
is of a span of the text (`AcceptedAnswersQuote`), and that the score is a
ten-thousandth between 0 and 1 (`ScoreIsBounded`).  The first shows that
`decode_classification_v1` needs no check that the list of evidence is not empty:
the rationale has to refer to evidence of the same answer.

`DesktopProofs` proves, for every number of commands, files, documents, answers,
retries and attempts, `TypeCorrect`, `EvidenceCorrect` (`EvidenceIsOfTheDocument`)
and `SuccessIsInMemory` (`SuccessIsStored`); `DesktopThreadProofs` proves
`ProgressIsPlaced` (`ProgressLandsOnItsRow`), `ClosingIsSafe` (`ClosingWaits`) and
`ScansAreWhole` (`PublishedScansAreWhole`).  Assumptions: those of the three
modules, the main ones that the directory order names every path, that
destinations lead to paths, that every response holds an answer of the described
form, and that a run has at least one transaction attempt.

The invariant of an analysis (`PdfInv`) says of each job which of its readings are
made at each step, that a read text is that of the digest the parent took, and
that a reply about to be stored was accepted for it (`Sound`).  With
`AcceptedAnswersQuote` this gives the stored quote.  The steps of an analyst have
few shapes (a job moves on, fails, is taken or dropped, a proposal is stored if
none was), and one lemma per shape serves commands and the cockpit's worker alike.

The window's properties are about what is queued.  `ScanThread` and `ClsThread`
say which signals can be in the queue at which stage of their thread, that an
outcome is queued once and after all progress, and that the window lets go of a
thread only when it has nothing left to send.  This needs the order of the code: a
thread is asked to quit by the slot of its outcome, so `finished` is behind
everything it sent.  `NoScan` says that no scan is running, queued or startable
while a classification runs, which the buttons ensure; hence rows keep their
numbers, and `Pending` that each document still to be analysed or reported is
ready in a row of its own.  Each of these holds only while no work was started
`early`; the counterexamples otherwise are those of section 4.  `TLC` checks the
parts as invariants before they are proved.

Only model-checked of the `desktop` run: the liveness property `WorkEnds`.

## 6. Not modelled

Runtime configuration, preflight, schema and evidence reports only read.  Widgets,
previews and link rendering hold no state that other parts depend on.  The lexical
rules for paths and names, the text of the request to the model and the attempts
inside boto3 depend on no state.  Nothing writes `document_relationships`, and
nothing implements the lifecycle recorder.

The main thread of `DesktopSession` handles one event at a time.  The code calls
`QApplication.processEvents()` in a row's click (`cockpit.py:1671`) and in each
decision, between the approval of its plan and the move (`cockpit.py:2026`, called at
`cockpit.py:4201`), and there Qt can deliver signals and clicks, those for another
decision included, that the model makes wait.  The model abstracts from this
nesting.  Rows are empty from the start of a scan until its result is handled and,
nothing started `early`, no scan starts while a classification runs, so to put a
decision on another document's row a new scan would have to be asked for, run and be
published within one such call.

Some things the code does are in the models, contradict nothing the repository
says, and are worth knowing:

- the cockpit's cancel button cannot be used: it is enabled only where a scan's
  thread runs already, and `start_scan` asks before it makes the thread
  (`cockpit.py:3171`, `cockpit.py:4321`); only the read-only window cancels;
- a cancellation that comes after the worker has emitted its result is ignored and
  the scan is published as complete;
- the destination a result shows, and the cockpit moves to, is derived from the
  first six metadata fields (`classification_cli.py:696`), the stored proposal's
  from all (`classification_cli.py:733`); and when an analysis finds its proposal
  stored, the memory keeps the first answer and the cockpit shows the new one;
- a decision whose error is neither a configuration nor a value error leaves APPROVE ALL
  after its file has moved, and the rest is not decided;
- rows that were skipped for restoring are remembered by row number and not
  forgotten by the next scan (`cockpit.py:3950`).
