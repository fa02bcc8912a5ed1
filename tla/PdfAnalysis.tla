----------------------------- MODULE PdfAnalysis -----------------------------
(* The analysis of one PDF, _classify_pdf_once_with_runtime: fingerprint,       *)
(* bounded extraction in a worker process, the model with its validation        *)
(* retries, and the proposal stored in one serializable transaction. Analysts   *)
(* run it at the same time: the cockpit's worker thread, whose driver is in     *)
(* DesktopSession, and batch commands, whose driver is at the end. The owner    *)
(* edits files between any two steps.                                           *)
EXTENDS ClassificationAnswer

CONSTANTS Commands,      \* runs of the batch command
          Paths,         \* places of files under the authorized root
          Order,         \* the paths in the order a directory is listed
          Contents, Pdfs, \* contents; those with a PDF signature
          Absent,        \* no file
          Reading,       \* what the extraction finds in each content
          NoText,        \* nothing to classify (encrypted, malformed, no text)
          Replies,       \* responses of the model
          Offered,       \* the answer in each of them
          Nothing,       \* no proposal stored, no result yet
          MaxTries,      \* validation retries (2 in the code)
          MaxAttempts,   \* attempts of a transaction (4 in the code)
          Limit,         \* PDFs a batch command may take (1000 in the code)
          Offers,        \* bound: the responses each analyst may get
          Disks,         \* the files a session starts with
          Revisions,     \* bound: the contents the owner may give a file
          MaxEdits       \* bound: edits by the owner

Analysts == {"worker"} \cup Commands
Keys == {"default"} \cup Paths

ASSUME PathsAssumption ==
    /\ Order \in Seq(Paths)
    /\ \A p \in Paths : \E i \in DOMAIN Order : Order[i] = p
    /\ Paths \cap {"default"} = {}
ASSUME CommandsAssumption == "worker" \notin Commands
ASSUME ContentsAssumption ==
    /\ Pdfs \subseteq Contents /\ Absent \notin Contents
    /\ Disks \subseteq [Paths -> Contents \cup {Absent}]
    /\ Revisions \in [Paths -> SUBSET (Contents \cup {Absent})]
    /\ NoText \notin Texts /\ Reading \in [Contents -> Texts \cup {NoText}]
ASSUME OfferedAssumption ==
    /\ Offered \in [Replies -> Answers] /\ Nothing \notin Replies
    /\ Offers \in [Analysts -> SUBSET Replies]
ASSUME BoundsAssumption ==
    MaxTries \in Nat /\ MaxAttempts \in Nat \ {0} /\ Limit \in Nat /\ MaxEdits \in Nat

VARIABLES disk,     \* the files
          memory,   \* document_proposals, by content analysed and idempotency key
          job,      \* the document each analyst is at
          batch,    \* the list and the report of each batch command
          edits

pdfVars == <<disk, memory, job, batch, edits>>

Identities == Contents \X Keys

Destinations == [folder : Classes, parts : SUBSET ((1 .. MaxParts) \X (Values \cup {Missing})),
                 source : Paths \cup {"renamed"}]

Proposals == [class : Classes, destination : Destinations, quote : Quotes,
              score : 0 .. Certain,
              verified : Contents]   \* history: the content the parent process digested

ASSUME NothingAssumption == Nothing \notin Proposals

\* What the command returns of a run; "all" is history: nothing was left out of it.
Results == [id : Identities, class : Classes, destination : Destinations,
            replayed : BOOLEAN, all : BOOLEAN]

Steps == {"idle", "fingerprint", "validate", "extract", "ask", "store", "report"}

Jobs == [pc : Steps, file : Paths \cup {Nothing}, digest : Contents \cup {Nothing},
         expected : Contents \cup {Nothing}, read : Contents \cup {Nothing}, tries : 0 .. MaxTries,
         reply : Replies \cup {Nothing}, attempt : 1 .. MaxAttempts,
         result : Results \cup {Nothing}]

IdleJob == [pc |-> "idle", file |-> Nothing, digest |-> Nothing, expected |-> Nothing,
            read |-> Nothing, tries |-> 0, reply |-> Nothing, attempt |-> 1, result |-> Nothing]

\* build_content_addressed_identity: the command's key names the path as well.
Identity(a) == <<job[a].digest, IF a \in Commands THEN job[a].file ELSE "default">>

\* The files in the order they are listed.
Position(p) == CHOOSE i \in DOMAIN Order : Order[i] = p
Present == {p \in Paths : disk[p] # Absent}
IsFirst(p, files) == \A q \in files : Position(p) <= Position(q)

Text(a) == Reading[job[a].read]
Answer(a) == Offered[job[a].reply]

\* What the validation says of every reply to every text.
Judgement == [c \in {c \in Contents : Reading[c] # NoText} |->
                 [reply \in Replies |-> Fault(Reading[c], Offered[reply])]]
------------------------------------------------------------------------------
Begin(a, p) == job' = [job EXCEPT ![a] = [IdleJob EXCEPT !.pc = "fingerprint", !.file = p]]

Finish(a, result) ==
    job' = [job EXCEPT ![a] = [IdleJob EXCEPT !.pc = "report", !.file = job[a].file,
                                              !.result = result]]

Fail(a) == Finish(a, Nothing) /\ UNCHANGED memory

Fingerprint(a) ==
    /\ job[a].pc = "fingerprint"
    /\ IF disk[job[a].file] = Absent
       THEN Fail(a)
       ELSE /\ job' = [job EXCEPT ![a].digest = disk[job[a].file], ![a].pc = "validate"]
            /\ UNCHANGED memory
    /\ UNCHANGED <<disk, batch, edits>>

\* extract_pdf_text in the parent process: the source is validated and digested.
Validate(a) ==
    /\ job[a].pc = "validate"
    /\ IF disk[job[a].file] \in Pdfs
       THEN /\ job' = [job EXCEPT ![a].expected = disk[job[a].file], ![a].pc = "extract"]
            /\ UNCHANGED memory
       ELSE Fail(a)
    /\ UNCHANGED <<disk, batch, edits>>

\* Mutant: the worker does not compare digests.
Extract_Unchecked(a) ==
    /\ job[a].pc = "extract"
    /\ IF disk[job[a].file] # Absent /\ Reading[disk[job[a].file]] # NoText
       THEN /\ job' = [job EXCEPT ![a].read = disk[job[a].file], ![a].pc = "ask"]
            /\ UNCHANGED memory
       ELSE Fail(a)
    /\ UNCHANGED <<disk, batch, edits>>

\* The worker process reads the file again and refuses another content.
Extract(a) ==
    /\ job[a].pc = "extract"
    /\ \/ /\ disk[job[a].file] = job[a].expected /\ Reading[disk[job[a].file]] # NoText
          /\ job' = [job EXCEPT ![a].read = disk[job[a].file], ![a].pc = "ask"]
          /\ UNCHANGED memory
       \/ Fail(a)   \* another content, no text, a limit, a timeout, a broken worker
    /\ UNCHANGED <<disk, batch, edits>>

\* Mutant: nothing bounds the validation retries.
AskModel_Unbounded(a) ==
    /\ job[a].pc = "ask"
    /\ \E reply \in Offers[a] :
          LET fault == Judgement[job[a].read][reply]
          IN  \/ /\ fault = "none"
                 /\ job' = [job EXCEPT ![a].reply = reply, ![a].pc = "store"]
                 /\ UNCHANGED memory
              \/ /\ fault \in RetriedFaults
                 /\ job' = [job EXCEPT ![a].tries = (@ + 1) % (MaxTries + 1)]
                 /\ UNCHANGED memory
              \/ /\ fault \notin RetriedFaults \cup {"none"}
                 /\ Fail(a)
    /\ UNCHANGED <<disk, batch, edits>>

\* One response of BedrockConverseGateway.classify; a rejected one is asked again.
AskModel(a) ==
    /\ job[a].pc = "ask"
    /\ \E reply \in Offers[a] :
          LET fault == Judgement[job[a].read][reply]
              again == fault \in RetriedFaults /\ job[a].tries < MaxTries
          IN  \/ /\ fault = "none"
                 /\ job' = [job EXCEPT ![a].reply = reply, ![a].pc = "store"]
                 /\ UNCHANGED memory
              \/ /\ again
                 /\ job' = [job EXCEPT ![a].tries = @ + 1]
                 /\ UNCHANGED memory
              \/ /\ fault # "none" /\ ~again
                 /\ Fail(a)
    /\ UNCHANGED <<disk, batch, edits>>

\* A transport, credential, stop-reason or envelope error, or malformed usage.
ModelFails(a) ==
    /\ job[a].pc = "ask"
    /\ Fail(a)
    /\ UNCHANGED <<disk, batch, edits>>
------------------------------------------------------------------------------
(* _persist_simple_analysis in CockroachTransactionRunner.run.                  *)

Proposal(a) ==
    [class |-> Answer(a).class,
     destination |-> StoredDestination(Text(a), Answer(a), job[a].file),
     quote |-> EvidenceSummary(Text(a), Answer(a)),
     score |-> Score(Answer(a)),
     verified |-> job[a].expected]

Result(a) ==
    [id |-> Identity(a), class |-> Answer(a).class,
     destination |-> ShownDestination(Text(a), Answer(a), job[a].file),
     replayed |-> memory[Identity(a)] # Nothing,
     all |-> Shown(Text(a), Answer(a)) = Known(Text(a), Answer(a))]

Storing(a) == job[a].pc = "store" /\ disk[job[a].file] # Absent

\* Mutant: a proposal that is already there is replaced.
Insert_Replaces(a) == memory' = [memory EXCEPT ![Identity(a)] = Proposal(a)]

\* INSERT ... ON CONFLICT (proposal_id) DO NOTHING.
Insert(a) ==
    memory' = [memory EXCEPT ![Identity(a)] = IF @ = Nothing THEN Proposal(a) ELSE @]

Commit(a) ==
    /\ Storing(a)
    /\ Insert(a)
    /\ Finish(a, Result(a))
    /\ UNCHANGED <<disk, batch, edits>>

\* Mutant: one attempt too many.
Conflict_OneMore(a) ==
    /\ Storing(a)
    /\ IF job[a].attempt <= MaxAttempts
       THEN job' = [job EXCEPT ![a].attempt = @ + 1] /\ UNCHANGED memory
       ELSE Fail(a)
    /\ UNCHANGED <<disk, batch, edits>>

\* SQLSTATE 40001: a new connection and attempt, up to the bound.
Conflict(a) ==
    /\ Storing(a)
    /\ IF job[a].attempt < MaxAttempts
       THEN job' = [job EXCEPT ![a].attempt = @ + 1] /\ UNCHANGED memory
       ELSE Fail(a)
    /\ UNCHANGED <<disk, batch, edits>>

\* Any other database error, before the commit or after it; a source that is gone.
StoreFails(a) ==
    /\ job[a].pc = "store"
    /\ Finish(a, Nothing)
    /\ (disk[job[a].file] # Absent /\ Insert(a)) \/ UNCHANGED memory
    /\ UNCHANGED <<disk, batch, edits>>

AnalystStep(a) ==
    Fingerprint(a) \/ Validate(a) \/ Extract(a) \/ AskModel(a) \/ ModelFails(a)
        \/ Commit(a) \/ Conflict(a) \/ StoreFails(a)
------------------------------------------------------------------------------
(* classify_pdf_batch                                                           *)

Reports == [file : Paths, classified : BOOLEAN]

Batches == [state : {"none", "running", "done"}, todo : SUBSET Paths, stopOnFailure : BOOLEAN,
            report : Seq(Reports)]

\* discover_batch_pdfs: the first files, up to the limit.
Discovered ==
    {p \in Present : Cardinality({q \in Present : Position(q) <= Position(p)}) <= Limit}

StartBatch(m) ==
    /\ batch[m].state = "none"
    /\ \E stop \in BOOLEAN :
          batch' = [batch EXCEPT ![m].state = "running", ![m].todo = Discovered,
                                 ![m].stopOnFailure = stop]
    /\ UNCHANGED <<disk, memory, job, edits>>

NextPdf(m) ==
    /\ batch[m].state = "running" /\ job[m].pc = "idle"
    /\ \/ /\ batch[m].todo = {}
          /\ batch' = [batch EXCEPT ![m].state = "done"]
          /\ UNCHANGED job
       \/ \E p \in batch[m].todo :
             /\ IsFirst(p, batch[m].todo)
             /\ batch' = [batch EXCEPT ![m].todo = @ \ {p}]
             /\ Begin(m, p)
    /\ UNCHANGED <<disk, memory, edits>>

ReportPdf(m) ==
    /\ job[m].pc = "report"
    /\ LET result == job[m].result
       IN  batch' = [batch EXCEPT
                        ![m].report = Append(@, [file |-> job[m].file, classified |-> result # Nothing]),
                        ![m].todo = IF result = Nothing /\ batch[m].stopOnFailure
                                    THEN {} ELSE @]
    /\ job' = [job EXCEPT ![m] = IdleJob]
    /\ UNCHANGED <<disk, memory, edits>>

Command(m) == StartBatch(m) \/ NextPdf(m) \/ ReportPdf(m) \/ AnalystStep(m)

Edit(p) ==
    /\ edits < MaxEdits
    /\ \E c \in Revisions[p] \ {disk[p]} : disk' = [disk EXCEPT ![p] = c]
    /\ edits' = edits + 1
    /\ UNCHANGED <<memory, job, batch>>

PdfInit ==
    /\ disk \in Disks
    /\ memory = [id \in Identities |-> Nothing]
    /\ job = [a \in Analysts |-> IdleJob]
    /\ batch = [m \in Commands |->
                  [state |-> "none", todo |-> {}, stopOnFailure |-> FALSE, report |-> <<>>]]
    /\ edits = 0

PdfTypeOK ==
    /\ disk \in [Paths -> Contents \cup {Absent}]
    /\ memory \in [Identities -> Proposals \cup {Nothing}]
    /\ job \in [Analysts -> Jobs]
    /\ batch \in [Commands -> Batches]
    /\ edits \in 0 .. MaxEdits
==============================================================================
