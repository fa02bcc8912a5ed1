--------------------------- MODULE DesktopSession ---------------------------
(* The desktop window and its two worker threads, over the analysis pipeline    *)
(* of PdfAnalysis. The main thread handles one user action or one posted signal *)
(* at a time; a worker's signals reach it through its queue, in order, and the  *)
(* thread is asked to quit only after its last signal was handled. QThread says *)
(* it has finished before it stops running. Two windows share the workspace     *)
(* and the scan worker: the cockpit, and the read-only DocWeaveMainWindow.      *)
(* Without a window, the batch commands run.                                    *)
EXTENDS PdfAnalysis

CONSTANTS Shells,         \* windows: subset of {"cockpit", "main_window", "none"}
          Place(_)        \* where in the root a destination leads

ASSUME PlaceAssumption == \A d \in Destinations : Place(d) \in Paths
ASSUME ShellsAssumption == Shells \subseteq {"cockpit", "main_window", "none"}

VARIABLES shell,     \* which window this session has
          closed,    \* closeEvent was accepted
          phase,     \* DesktopWorkspaceSession
          rows,      \* the documents of the left panel
          enabled,   \* the buttons that are enabled
          scan,      \* the scan's thread and worker
          cls,       \* the classification's thread; its worker's job is job["worker"]
          posted,    \* signals queued for the main thread
          table,     \* the batch review table
          clicked,   \* a click on the table whose 140 ms timer has not fired
          deciding,  \* decisions the main thread is executing
          history,   \* places file_history says a file was moved to
          early      \* history: work started before an earlier finished signal was handled

uiVars == <<shell, closed, phase, rows, enabled, scan, cls, posted, table, clicked,
            deciding, history, early>>
vars == <<pdfVars, uiVars>>

ThreadStates == {"none", "working", "emitted", "quitting", "finishing", "stopped"}

\* What the cockpit keeps of a proposal: the source and where it may go.
Previews == [from : Paths, to : Paths \cup {Nothing}]

Rows == [file : Paths, status : {"READY", "ATTENTION", "REVIEW", "MOVED", "REJECTED"},
         preview : Previews \cup {Nothing}]

Records == [file : Paths, ready : BOOLEAN]

Entries == [row : Nat, preview : Previews]

Decisions == [row : Nat, action : {"approve", "reject"}]

SignalKinds == {"scanCompleted", "scanCancelled", "scanFailed", "scanFinished", "progressed",
                "itemFailed", "classified", "clsFinished"}

Signals == [kind : SignalKinds, row : Nat, preview : Previews \cup {Nothing}]

Signal(kind) == [kind |-> kind, row |-> 0, preview |-> Nothing]

Post(signal) == posted' = Append(posted, signal)

\* scan_in_progress and classification_in_progress: the window holds a running thread.
InProgress(thread) ==
    thread.held /\ thread.run \in {"working", "emitted", "quitting", "finishing"}

\* Mutant: a classification does not keep the buttons blocked.
Buttons_ScanOnly(busy, docs, scanning, classifying) ==
    LET blocked == busy \/ scanning
        hasReview == \E i \in DOMAIN docs : docs[i].status = "REVIEW"
    IN  {b \in {"folder", "scan"} : ~blocked}
          \cup {b \in {"cancel"} : IF shell = "main_window" THEN busy ELSE scanning}
          \cup {b \in {"analyze"} : ~blocked /\ docs # <<>>}
          \cup {b \in {"review"} : ~blocked /\ hasReview}

\* _set_busy: the cockpit's cancel button asks whether a scan's thread is running.
Buttons(busy, docs, scanning, classifying) ==
    LET blocked == busy \/ scanning \/ classifying
        hasReview == \E i \in DOMAIN docs : docs[i].status = "REVIEW"
    IN  {b \in {"folder", "scan"} : ~blocked}
          \cup {b \in {"cancel"} : IF shell = "main_window" THEN busy ELSE scanning}
          \cup {b \in {"analyze"} : ~blocked /\ docs # <<>> /\ shell = "cockpit"}
          \cup {b \in {"review"} : ~blocked /\ hasReview}

IdleScan == [held |-> FALSE, run |-> "none", listed |-> FALSE, todo |-> {},
             records |-> <<>>, cancel |-> FALSE]
IdleCls == [held |-> FALSE, run |-> "none", todo |-> {}]

Active == phase \in {"SCANNING", "CANCELLING"}

\* The main thread takes signals and user input between two handlers; that it also
\* does so in the processEvents of a click and of a decision is abstracted from.
\* Bounds: no input in the 140 ms of a click, nor after work was started early.
MainThread == ~closed /\ deciding = {}
Input == MainThread /\ clicked = {} /\ ~early
------------------------------------------------------------------------------
(* Choosing a folder, scanning, cancelling, closing.                            *)

ChooseFolder ==
    /\ Input /\ "folder" \in enabled
    /\ ~InProgress(scan) /\ ~InProgress(cls) /\ ~Active
    /\ phase' = "READY"
    /\ rows' = <<>>
    /\ enabled' = IF shell = "main_window" THEN enabled \cup {"scan"} ELSE enabled
    /\ UNCHANGED <<pdfVars, shell, closed, scan, cls, posted, table, clicked, deciding,
                   history, early>>

\* A worker that was forgotten is not replaced: the model holds one of each kind.
StartScan ==
    /\ Input /\ "scan" \in enabled
    /\ phase # "EMPTY" /\ ~InProgress(scan) /\ scan.run \notin {"working", "emitted"}
    /\ rows' = <<>>
    /\ IF Active
       THEN UNCHANGED <<phase, enabled, scan, early>>   \* the workspace raises
       ELSE /\ phase' = "SCANNING"
            /\ enabled' = Buttons(TRUE, <<>>, InProgress(scan), InProgress(cls))
            /\ scan' = [IdleScan EXCEPT !.held = TRUE, !.run = "working"]
            /\ early' = \E i \in DOMAIN posted : posted[i].kind = "scanFinished"
    /\ UNCHANGED <<pdfVars, shell, closed, cls, posted, table, clicked, deciding, history>>

CancelScan ==
    /\ Input /\ "cancel" \in enabled /\ InProgress(scan)
    /\ phase' = IF phase = "SCANNING" THEN "CANCELLING" ELSE phase
    /\ scan' = [scan EXCEPT !.cancel = TRUE]
    /\ enabled' = enabled \ {"cancel"}
    /\ UNCHANGED <<pdfVars, shell, closed, rows, cls, posted, table, clicked, deciding,
                   history, early>>

\* closeEvent is refused while a thread runs; after it nothing of the window is left.
Close ==
    /\ Input /\ ~InProgress(scan) /\ ~InProgress(cls)
    /\ closed' = TRUE
    /\ phase' = "EMPTY" /\ rows' = <<>> /\ enabled' = {} /\ posted' = <<>>
    /\ table' = [shown |-> FALSE, entries |-> {}]
    /\ scan' = IdleScan /\ cls' = IdleCls
    /\ UNCHANGED <<pdfVars, shell, clicked, deciding, history, early>>
------------------------------------------------------------------------------
(* ScanWorker: discover_files, then build_intake_records file by file.          *)

Emit(signal) == scan' = [scan EXCEPT !.run = "emitted"] /\ Post(signal)

ScanRuns == ~closed /\ scan.run = "working"

OnlyTheScan == UNCHANGED <<pdfVars, shell, closed, phase, rows, enabled, cls, table, clicked,
                           deciding, history, early>>

DiscoverFiles ==
    /\ ScanRuns /\ ~scan.listed /\ ~scan.cancel
    /\ scan' = [scan EXCEPT !.listed = TRUE, !.todo = Present]
    /\ UNCHANGED posted
    /\ OnlyTheScan

InspectFile ==
    /\ ScanRuns /\ scan.listed /\ ~scan.cancel
    /\ \E p \in scan.todo :
          /\ IsFirst(p, scan.todo)
          /\ scan' = [scan EXCEPT !.todo = @ \ {p},
                                  !.records = Append(@, [file |-> p, ready |-> disk[p] \in Pdfs])]
    /\ UNCHANGED posted
    /\ OnlyTheScan

\* Mutant: a cancelled scan delivers what it has.
StopScan_Partial ==
    /\ ScanRuns /\ scan.cancel
    /\ Emit(Signal("scanCompleted"))
    /\ OnlyTheScan

\* raise_if_cancelled, at every file and before the result is emitted.
StopScan ==
    /\ ScanRuns /\ scan.cancel
    /\ Emit(Signal("scanCancelled"))
    /\ OnlyTheScan

EndScan ==
    /\ ScanRuns /\ scan.listed /\ scan.todo = {} /\ ~scan.cancel
    /\ Emit(Signal("scanCompleted"))
    /\ OnlyTheScan

ScanFails ==
    /\ ScanRuns
    /\ Emit(Signal("scanFailed"))
    /\ OnlyTheScan

ScanStep == DiscoverFiles \/ InspectFile \/ StopScan \/ EndScan \/ ScanFails
------------------------------------------------------------------------------
(* The classification's thread.                                                 *)

\* _classification_batch_items
ReadyItems == {[row |-> i, file |-> rows[i].file] :
                  i \in {j \in DOMAIN rows : rows[j].status = "READY" /\ disk[rows[j].file] \in Pdfs}}

Analyze ==
    /\ Input /\ "analyze" \in enabled
    /\ rows # <<>> /\ ~InProgress(scan) /\ ~InProgress(cls)
    /\ cls.run \notin {"working", "emitted"}   \* as in StartScan
    /\ ReadyItems # {}
    /\ cls' = [held |-> TRUE, run |-> "working", todo |-> ReadyItems]
    /\ enabled' = Buttons(TRUE, rows, InProgress(scan), FALSE)
    /\ early' = \E i \in DOMAIN posted : posted[i].kind = "clsFinished"
    /\ UNCHANGED <<pdfVars, shell, closed, phase, rows, scan, posted, table, clicked,
                   deciding, history>>

ClsRuns == ~closed /\ cls.run = "working"

OnlyTheWorker == UNCHANGED <<disk, memory, batch, edits, shell, closed, phase, rows, enabled,
                             scan, table, clicked, deciding, history, early>>

\* Rows are taken in their order.
Foremost(item, items) == \A other \in items : item.row <= other.row

NextItem ==
    /\ ClsRuns /\ job["worker"].pc = "idle"
    /\ \E item \in cls.todo : Foremost(item, cls.todo) /\ Begin("worker", item.file)
    /\ UNCHANGED <<cls, posted>>
    /\ OnlyTheWorker

\* _organization_preview_for runs in the handler; what it names is fixed here.
PreviewOf(result, p) == [from |-> p, to |-> Place(result.destination)]

\* ClassificationWorker.run: progressed with the result, or item_failed.
ReportItem ==
    /\ ClsRuns /\ job["worker"].pc = "report"
    /\ \E item \in cls.todo :
          /\ Foremost(item, cls.todo)
          /\ cls' = [cls EXCEPT !.todo = @ \ {item}]
          /\ Post(IF job["worker"].result = Nothing
                  THEN Signal("itemFailed")
                  ELSE [kind |-> "progressed", row |-> item.row,
                        preview |-> PreviewOf(job["worker"].result, item.file)])
    /\ job' = [job EXCEPT !["worker"] = IdleJob]
    /\ OnlyTheWorker

EndItems ==
    /\ ClsRuns /\ job["worker"].pc = "idle" /\ cls.todo = {}
    /\ cls' = [cls EXCEPT !.run = "emitted"]
    /\ Post(Signal("classified"))
    /\ UNCHANGED job
    /\ OnlyTheWorker

WorkerStep ==
    \/ NextItem \/ ReportItem \/ EndItems
    \/ ~closed /\ AnalystStep("worker") /\ UNCHANGED uiVars
------------------------------------------------------------------------------
(* A thread that was asked to quit posts finished, then stops.                  *)

QuitScan ==
    /\ ~closed
    /\ \/ /\ scan.run = "quitting"
          /\ scan' = [scan EXCEPT !.run = "finishing"]
          /\ Post(Signal("scanFinished"))
       \/ /\ scan.run = "finishing"
          /\ scan' = [scan EXCEPT !.run = "stopped"]
          /\ UNCHANGED posted
    /\ OnlyTheScan

QuitCls ==
    /\ ~closed
    /\ \/ /\ cls.run = "quitting"
          /\ cls' = [cls EXCEPT !.run = "finishing"]
          /\ Post(Signal("clsFinished"))
       \/ /\ cls.run = "finishing"
          /\ cls' = [cls EXCEPT !.run = "stopped"]
          /\ UNCHANGED posted
    /\ UNCHANGED job
    /\ OnlyTheWorker
------------------------------------------------------------------------------
(* The slots of the main thread.                                                *)

Receive(kind) ==
    /\ MainThread /\ posted # <<>> /\ Head(posted).kind = kind
    /\ posted' = Tail(posted)
    /\ UNCHANGED <<pdfVars, shell, closed, table, clicked, deciding, history, early>>

\* The rows of a scan; _rehydrate_restore_memory marks the files moved here.
RowsOf(records, moved) ==
    [i \in DOMAIN records |->
        [file |-> records[i].file,
         status |-> IF records[i].file \in moved THEN "MOVED"
                    ELSE IF records[i].ready THEN "READY" ELSE "ATTENTION",
         preview |-> Nothing]]

HandleScanCompleted ==
    /\ Receive("scanCompleted")
    /\ scan' = [scan EXCEPT !.run = "quitting"]
    /\ phase' = IF Active THEN "COMPLETE" ELSE phase
    /\ \E moved \in {history, {}} :   \* the memory may not answer
          rows' = IF Active THEN RowsOf(scan.records, IF shell = "cockpit" THEN moved ELSE {})
                            ELSE rows
    /\ UNCHANGED <<enabled, cls>>

HandleScanCancelled ==
    /\ Receive("scanCancelled")
    /\ scan' = [scan EXCEPT !.run = "quitting"]
    /\ phase' = IF Active THEN "CANCELLED" ELSE phase
    /\ rows' = IF Active THEN <<>> ELSE rows
    /\ UNCHANGED <<enabled, cls>>

HandleScanFailed ==
    /\ Receive("scanFailed")
    /\ scan' = [scan EXCEPT !.run = "quitting"]
    /\ phase' = IF Active THEN "FAILED" ELSE phase
    /\ UNCHANGED <<rows, enabled, cls>>

HandleScanFinished ==
    /\ Receive("scanFinished")
    /\ scan' = [scan EXCEPT !.held = FALSE]
    /\ enabled' = Buttons(FALSE, rows, FALSE, InProgress(cls))
    /\ UNCHANGED <<phase, rows, cls>>

\* mark_document_for_review: the row is found by its number, whatever its status.
\* That the analysis panel is raised, over the table's buttons, is left out: they
\* stay enabled and can be pressed by keyboard.
HandleProgress ==
    /\ Receive("progressed")
    /\ LET signal == Head(posted)
           \* the preview needs the source; without it there is no lineage
           preview == IF disk[signal.preview.from] = Absent
                      THEN [signal.preview EXCEPT !.to = Nothing] ELSE signal.preview
       IN  rows' = IF signal.row \in DOMAIN rows
                   THEN [rows EXCEPT ![signal.row].status = "REVIEW",
                                     ![signal.row].preview = preview]
                   ELSE rows
    /\ UNCHANGED <<phase, enabled, scan, cls>>

HandleItemFailed ==
    /\ Receive("itemFailed")
    /\ UNCHANGED <<phase, rows, enabled, scan, cls>>

\* Mutant: the window lets go of the thread with its summary.
HandleClassified_LetsGo ==
    /\ Receive("classified")
    /\ cls' = [cls EXCEPT !.run = "quitting", !.held = FALSE]
    /\ UNCHANGED <<phase, rows, enabled, scan>>

HandleClassified ==
    /\ Receive("classified")
    /\ cls' = [cls EXCEPT !.run = "quitting"]
    /\ UNCHANGED <<phase, rows, enabled, scan>>

HandleClsFinished ==
    /\ Receive("clsFinished")
    /\ cls' = [cls EXCEPT !.held = FALSE]
    /\ enabled' = Buttons(FALSE, rows, InProgress(scan), FALSE)
    /\ UNCHANGED <<phase, rows, scan>>

HandleSignal ==
    HandleScanCompleted \/ HandleScanCancelled \/ HandleScanFailed \/ HandleScanFinished
        \/ HandleProgress \/ HandleItemFailed \/ HandleClassified \/ HandleClsFinished
------------------------------------------------------------------------------
(* The review table and the decisions made from it.                             *)

\* _open_document_row: a preview replaces the table.
OpenRow ==
    /\ Input /\ shell = "cockpit"
    /\ \E i \in DOMAIN rows :
          /\ rows[i].status \in {"READY", "REVIEW", "MOVED"} /\ disk[rows[i].file] \in Pdfs
    /\ table' = [table EXCEPT !.shown = FALSE]
    /\ enabled' = Buttons(FALSE, rows, InProgress(scan), InProgress(cls))
    /\ UNCHANGED <<pdfVars, shell, closed, phase, rows, scan, cls, posted, clicked, deciding,
                   history, early>>

\* _batch_review_rows
ReviewEntries(docs) ==
    {[row |-> i, preview |-> docs[i].preview] : i \in {j \in DOMAIN docs : docs[j].status = "REVIEW"}}

\* _open_batch_review: with nothing in review an open table stays as it is.
Reopened(docs) ==
    IF ReviewEntries(docs) = {} THEN table
    ELSE [shown |-> TRUE, entries |-> ReviewEntries(docs)]

OpenReview ==
    /\ Input /\ "review" \in enabled
    /\ table' = Reopened(rows)
    /\ UNCHANGED <<pdfVars, shell, closed, phase, rows, enabled, scan, cls, posted, clicked,
                   deciding, history, early>>

CloseReview ==
    /\ Input /\ table.shown
    /\ table' = [table EXCEPT !.shown = FALSE]
    /\ UNCHANGED <<pdfVars, shell, closed, phase, rows, enabled, scan, cls, posted, clicked,
                   deciding, history, early>>

\* A click on a row of the table: the decision is made 140 ms later, by row number.
ClickRow ==
    /\ Input /\ table.shown
    /\ \E entry \in table.entries, action \in {"approve", "reject"} :
          clicked' = {[row |-> entry.row, action |-> action]}
    /\ UNCHANGED <<pdfVars, shell, closed, phase, rows, enabled, scan, cls, posted, table,
                   deciding, history, early>>

ClickFires ==
    /\ MainThread /\ clicked # {}
    /\ deciding' = clicked
    /\ clicked' = {}
    /\ UNCHANGED <<pdfVars, shell, closed, phase, rows, enabled, scan, cls, posted, table,
                   history, early>>

\* _approve_all_review_rows: the rows in review now, whatever the table shows.
ApproveAll ==
    /\ Input /\ table.shown /\ ReviewEntries(rows) # {}
    /\ deciding' = {[row |-> entry.row, action |-> "approve"] : entry \in ReviewEntries(rows)}
    /\ UNCHANGED <<pdfVars, shell, closed, phase, rows, enabled, scan, cls, posted, table,
                   clicked, history, early>>

\* The row a decision is about, when it is in review.
InReview(d) == d.row \in DOMAIN rows /\ rows[d.row].status = "REVIEW"

\* The move is planned now, from the paths of the preview.
CanMove(preview) ==
    preview.to # Nothing /\ disk[preview.from] # Absent /\ disk[preview.to] = Absent

Moved(preview) == [disk EXCEPT ![preview.to] = disk[preview.from], ![preview.from] = Absent]

\* The rest of the decisions; after the last one the table is filled again.
DecideNext(d, docs) ==
    /\ deciding' = deciding \ {d}
    /\ table' = IF deciding = {d} THEN Reopened(docs) ELSE table

Undecided == UNCHANGED <<memory, job, batch, edits, shell, closed, phase, scan, cls, posted,
                         clicked, early>>

\* _record_selected_review_decision, approved, moved and recorded.
Approve(d) ==
    /\ d.action = "approve" /\ InReview(d)
    /\ LET preview == rows[d.row].preview
       IN  /\ CanMove(preview)
           /\ disk' = Moved(preview)
           /\ history' = history \cup {preview.to}
           /\ rows' = [rows EXCEPT ![d.row].status = "MOVED", ![d.row].file = preview.to]
    /\ enabled' = Buttons(FALSE, rows', InProgress(scan), InProgress(cls))
    /\ DecideNext(d, rows')
    /\ Undecided

Reject(d) ==
    /\ d.action = "reject" /\ InReview(d)
    /\ rows' = [rows EXCEPT ![d.row].status = "REJECTED"]
    /\ enabled' = Buttons(FALSE, rows', InProgress(scan), InProgress(cls))
    /\ DecideNext(d, rows')
    /\ UNCHANGED <<disk, history>>
    /\ Undecided

\* A guard, the plan, the move or the memory stops the decision.
Blocked(d) ==
    /\ UNCHANGED <<rows, enabled, history>>
    /\ \/ /\ DecideNext(d, rows)
          /\ UNCHANGED disk
       \/ /\ InReview(d) /\ d.action = "approve"
          /\ CanMove(rows[d.row].preview)
          /\ disk' = Moved(rows[d.row].preview)
          /\ \/ DecideNext(d, rows)
             \/ deciding' = {} /\ UNCHANGED table   \* the database error is not caught
    /\ Undecided

Decide ==
    /\ ~closed
    /\ \E d \in deciding :
          Foremost(d, deciding) /\ (Approve(d) \/ Reject(d) \/ Blocked(d))
------------------------------------------------------------------------------
RunCommand(m) == shell = "none" /\ Command(m) /\ UNCHANGED uiVars

Owner ==
    /\ ~closed \/ shell = "none"
    /\ \E p \in Paths : Edit(p)
    /\ UNCHANGED uiVars

Init ==
    /\ PdfInit
    /\ shell \in Shells
    /\ closed = (shell = "none")
    /\ phase = "EMPTY"
    /\ rows = <<>>
    /\ enabled = IF shell = "cockpit" THEN {"folder", "scan", "cancel"} ELSE {"folder"}
    /\ scan = IdleScan
    /\ cls = IdleCls
    /\ posted = <<>>
    /\ table = [shown |-> FALSE, entries |-> {}]
    /\ clicked = {}
    /\ deciding = {}
    /\ history = {}
    /\ early = FALSE

Next ==
    \/ ChooseFolder \/ StartScan \/ CancelScan \/ Close
    \/ ScanStep \/ Analyze \/ WorkerStep \/ QuitScan \/ QuitCls
    \/ HandleSignal
    \/ OpenRow \/ OpenReview \/ CloseReview \/ ClickRow \/ ClickFires \/ ApproveAll \/ Decide
    \/ Owner \/ \E m \in Commands : RunCommand(m)

Spec == Init /\ [][Next]_vars

\* The threads are scheduled, calls to Bedrock, the worker process and the
\* database have timeouts, and Qt delivers posted signals before new input.
Fairness ==
    /\ WF_vars(ScanStep \/ QuitScan)
    /\ WF_vars(WorkerStep \/ QuitCls)
    /\ SF_vars(HandleSignal) /\ WF_vars(Decide)

FairSpec == Spec /\ Fairness
------------------------------------------------------------------------------
WindowTypeOK ==
    /\ shell \in Shells /\ closed \in BOOLEAN /\ early \in BOOLEAN
    /\ phase \in {"EMPTY", "READY", "SCANNING", "CANCELLING", "COMPLETE", "CANCELLED", "FAILED"}
    /\ rows \in Seq(Rows)
    /\ enabled \subseteq {"folder", "scan", "cancel", "analyze", "review"}
    /\ scan \in [held : BOOLEAN, run : ThreadStates, listed : BOOLEAN, todo : SUBSET Paths,
                 records : Seq(Records), cancel : BOOLEAN]
    /\ cls \in [held : BOOLEAN, run : ThreadStates,
                todo : SUBSET [row : Nat, file : Paths]]
    /\ posted \in Seq(Signals)
    /\ table \in [shown : BOOLEAN, entries : SUBSET Entries]
    /\ clicked \subseteq Decisions /\ deciding \subseteq Decisions
    /\ history \subseteq Paths

TypeOK == PdfTypeOK /\ WindowTypeOK

\* A stored proposal quotes the very content it is filed under, whoever analysed
\* it and whatever was edited meanwhile, unless the file was edited between the
\* fingerprint of the identity and the digest of the extraction.
EvidenceIsOfTheDocument ==
    \A id \in Identities :
        memory[id] # Nothing /\ memory[id].verified = id[1] =>
            \E s \in DOMAIN Reading[id[1]].segments :
                memory[id].quote = Reading[id[1]].segments[s]

Backed(result) ==
    /\ memory[result.id] # Nothing
    /\ ~result.replayed => memory[result.id].class = result.class
    /\ ~result.replayed /\ result.all => memory[result.id].destination = result.destination

\* What an analyst is told of a document is in memory, and the first to store a
\* proposal is told what the memory holds, through retried transactions, lost
\* acknowledgements and another analyst of the same content.
SuccessIsStored ==
    \A a \in Analysts : job[a].result # Nothing => Backed(job[a].result)

\* Progress lands on the row of the file it is about: rows do not move under a
\* running classification, unless it was started before the previous one's
\* finished signal was handled.
ProgressLandsOnItsRow ==
    ~early => \A i \in DOMAIN rows :
        rows[i].preview # Nothing /\ rows[i].status # "MOVED" =>
            rows[i].preview.from = rows[i].file

\* A window that closes leaves no thread behind, with the same exception.
ClosingWaits ==
    [][closed' # closed /\ ~early =>
         {scan.run, cls.run} \cap {"working", "emitted", "quitting"} = {}]_vars

\* Rows appear only from a scan that inspected every file it had listed: nothing
\* of a scan that was stopped before its end is published.
PublishedScansAreWhole ==
    [][rows = <<>> /\ rows' # <<>> => scan.listed /\ scan.todo = {}]_vars

\* Whatever fails, a scan or an analysis ends and the window takes commands again.
WorkEnds == (scan.held \/ cls.held) ~> (closed \/ "folder" \in enabled)

\* A decision made in the review table moves only a file the table names.
\* README.md: "approve all proposals or only selected files".
ApprovedAsShown ==
    [][disk' # disk /\ edits' = edits =>
         \E d \in deciding, entry \in table.entries :
             /\ Foremost(d, deciding)
             /\ entry.row = d.row /\ entry.preview = rows[d.row].preview]_vars
==============================================================================
