--------------------------- MODULE ReviewMemory ---------------------------
(***************************************************************************)
(* The review loop of the desktop cockpit and the memory it writes: a scan *)
(* fills the table, an analysis stores a proposal, an approval moves the   *)
(* file and then stores the decision with the file's history, a rejection  *)
(* stores a decision, a restore moves the file back.  The review command   *)
(* and the cloud worker write to the same tables.                          *)
(*                                                                         *)
(* A document is the content of a file: documents, runs and proposals have *)
(* identifiers derived from its SHA-256 digest, and one that a program     *)
(* computes in its own way for each program (Writers).  An analysis run    *)
(* has its proposal's identity and is not modelled apart.  The steps of    *)
(* one file operation are those of BatchExecution; here it either happens  *)
(* or does not.  Every transaction is serializable, so it is one step; the *)
(* caller may learn of its commit, of its failure, or be told of a failure *)
(* although it committed.                                                  *)
(***************************************************************************)
EXTENDS Naturals, Sequences, FiniteSets

CONSTANTS
    Paths,         \* places in the authorized root
    Organized,     \* those under the organized folder, where proposals point
    Documents,     \* file contents
    Uploaded,      \* the documents that are also analysed in the cloud
    MaxDecisions,  \* bound: rows of human_decisions
    MaxFailures,   \* bound: failed or unacknowledged transactions, crashes
    NoFile,        \* nothing at a path
    NoRow,         \* no row in a table
    CloudKey       \* the path the cloud worker knows a document by

Writers == {"desktop", "cloud"}
ProposalIds == Writers \X Documents

ASSUME PathsAssumption ==
    /\ Organized \subseteq Paths
    /\ CloudKey \notin Paths
    /\ Uploaded \subseteq Documents
    /\ IsFiniteSet(Paths)
ASSUME AbsenceAssumption ==
    /\ NoFile \notin Documents
    /\ NoRow \notin Documents \cup Paths
ASSUME BoundsAssumption ==
    /\ MaxDecisions \in Nat
    /\ MaxFailures \in Nat

VARIABLES
    fs,          \* the content at each path
    documents,   \* docweave.documents, one row per content
    proposals,   \* docweave.proposals
    decisions,   \* docweave.human_decisions in the order of their commits
    history,     \* docweave.file_history of each document
    rows,        \* the cockpit's table, by the path a scan found
    approving,   \* the row whose file was moved and whose decision is due
    failures

memoryVars == <<documents, proposals, decisions, history>>
vars == <<fs, memoryVars, rows, approving, failures>>

----------------------------------------------------------------------------
\* The values the tables hold.

Places == Paths \cup {CloudKey}

DocumentRows == [id : Writers, original : Places, current : Places,
                 status : {"proposed", "moved"}]
ProposalRows == [status : {"needs_review", "approved", "rejected"},
                 destination : Places]
Actions == {"approve", "reject"}
DecisionRows == [proposal : ProposalIds, action : Actions]
Moves == [decision : 1..MaxDecisions, proposal : ProposalIds,
          previous : Paths, next : Paths]

RowStatuses == {"READY", "REVIEW", "MOVED", "REJECTED", "RESTORED"}
TableRows == [status : RowStatuses, path : Paths,
              document : Documents \cup {NoRow},
              previous : Paths \cup {NoRow}, next : Paths \cup {NoRow}]

ASSUME RowsAssumption == NoRow \notin DocumentRows \cup ProposalRows \cup TableRows

\* The latest row of file_history for document d.
LatestMove(d) == history[d][Len(history[d])]

\* Mutant: the action is stored as the status.
ProposalStatus_Unmapped(action) == action

ProposalStatus(action) == IF action = "approve" THEN "approved" ELSE "rejected"

\* Mutant: an existing destination is no collision.
Movable_Overwrites(from, to) == fs[from] # NoFile /\ from # to

\* plan_file_operation says READY and execute_file_operation succeeds.
Movable(from, to) == fs[from] # NoFile /\ from # to /\ fs[to] = NoFile

Moved(from, to) == [fs EXCEPT ![from] = NoFile, ![to] = fs[from]]

----------------------------------------------------------------------------
Init ==
    /\ fs \in [Paths -> Documents \cup {NoFile}]
    /\ \A p \in Organized : fs[p] = NoFile
    /\ documents = [d \in Documents |-> NoRow]
    /\ proposals = [q \in ProposalIds |-> NoRow]
    /\ decisions = <<>>
    /\ history = [d \in Documents |-> <<>>]
    /\ rows = [p \in Paths |-> NoRow]
    /\ approving = NoRow
    /\ failures = 0

----------------------------------------------------------------------------
\* Scanning, and what the table remembers from file_history.

ReadyRow(p) == [status |-> "READY", path |-> p, document |-> NoRow,
                previous |-> NoRow, next |-> NoRow]

\* The documents whose latest file_history row leads to path p.
LedTo(p) == {d \in Documents : history[d] # <<>> /\ LatestMove(d).next = p}

\* A row that _rehydrate_restore_memory replaces by the memory of document d.
Recalled(row, d) ==
    [row EXCEPT !.status = "MOVED", !.document = d,
                !.previous = LatestMove(d).previous,
                !.next = LatestMove(d).next]

\* Every row whose file is among the files and where some history leads to is
\* replaced.  If several
\* histories lead to one path, the mapping built from the query's unordered
\* rows keeps any one of them.
Recalling(files, table, newTable) ==
    LET Known(p) == /\ table[p] # NoRow
                    /\ files[table[p].path] # NoFile
                    /\ LedTo(table[p].path) # {}
    IN  \E entry \in [Paths -> Documents] :
           /\ \A p \in Paths : LedTo(p) # {} => entry[p] \in LedTo(p)
           /\ newTable = [p \in Paths |->
                  IF Known(p) THEN Recalled(table[p], entry[table[p].path])
                  ELSE table[p]]

\* A completed scan.  Without memory the rows are those of the files alone.
Scan ==
    /\ approving = NoRow
    /\ LET found == [p \in Paths |-> IF fs[p] = NoFile THEN NoRow ELSE ReadyRow(p)]
       IN  \/ rows' = found
           \/ Recalling(fs, found, rows')
    /\ UNCHANGED <<fs, memoryVars, approving, failures>>

\* A scan empties the table when it starts; one that is cancelled or fails
\* leaves it empty.
ScanCancelled ==
    /\ approving = NoRow
    /\ rows' = [p \in Paths |-> NoRow]
    /\ UNCHANGED <<fs, memoryVars, approving, failures>>

\* Opening the restore view refreshes the visible rows from memory.
OpenRestore ==
    /\ approving = NoRow
    /\ Recalling(fs, rows, rows')
    /\ UNCHANGED <<fs, memoryVars, approving, failures>>

----------------------------------------------------------------------------
\* The two repository methods, as state transformers.

\* Mutant: the last writer's path becomes the original path.
UpsertDocument_Overwrites(w, d, p) ==
    documents' = [documents EXCEPT ![d] =
        [id |-> w, original |-> p, current |-> p, status |-> "proposed"]]

\* Mutant: a known document keeps its status.
UpsertDocument_KeepsStatus(w, d, p) ==
    documents' = [documents EXCEPT ![d] =
        IF @ = NoRow
        THEN [id |-> w, original |-> p, current |-> p, status |-> "proposed"]
        ELSE [@ EXCEPT !.current = p]]

\* _UPSERT_DOCUMENT of a writer that found document d at place p.
UpsertDocument(w, d, p) ==
    documents' = [documents EXCEPT ![d] =
        IF @ = NoRow
        THEN [id |-> w, original |-> p, current |-> p, status |-> "proposed"]
        ELSE [@ EXCEPT !.current = p, !.status = "proposed"]]

\* Mutant: ON CONFLICT DO UPDATE, a repeated analysis starts over.
InsertProposal_Resets(w, d, destination) ==
    proposals' = [proposals EXCEPT ![<<w, d>>] =
        [status |-> "needs_review", destination |-> destination]]

InsertProposal(w, d, destination) ==
    proposals' = [proposals EXCEPT ![<<w, d>>] =
        IF @ = NoRow THEN [status |-> "needs_review", destination |-> destination]
        ELSE @]

PersistAnalysis(w, d, p, destination) ==
    /\ UpsertDocument(w, d, p)
    /\ InsertProposal(w, d, destination)
    /\ UNCHANGED <<decisions, history>>

\* Mutant: the status is updated before the replay is noticed.
PersistDecision_ReplayApplies(id, q, action) ==
    /\ decisions' = IF id <= Len(decisions) THEN decisions
                    ELSE Append(decisions, [proposal |-> q, action |-> action])
    /\ proposals' = [proposals EXCEPT ![q].status = ProposalStatus(action)]
    /\ UNCHANGED <<documents, history>>

\* persist_human_decision without file history.  An identifier that is known
\* is a replay and changes nothing.
PersistDecision(id, q, action) ==
    /\ IF id <= Len(decisions)
       THEN UNCHANGED <<decisions, proposals>>
       ELSE /\ decisions' = Append(decisions, [proposal |-> q, action |-> action])
            /\ proposals' = [proposals EXCEPT ![q].status = ProposalStatus(action)]
    /\ UNCHANGED <<documents, history>>

\* Mutant: the history is written under the latest decision there is.
PersistApprovedMove_WrongDecision(d, from, to) ==
    LET q == <<"desktop", d>>
    IN  IF documents[d].id = "desktop" /\ decisions # <<>>
        THEN /\ proposals' = [proposals EXCEPT ![q].status = "approved"]
             /\ documents' = [documents EXCEPT ![d].current = to, ![d].status = "moved"]
             /\ history' = [history EXCEPT ![d] = Append(@,
                    [decision |-> Len(decisions), proposal |-> q,
                     previous |-> from, next |-> to])]
             /\ UNCHANGED decisions
        ELSE UNCHANGED memoryVars

\* persist_human_decision with file history: an approval under a new id.
\* _UPDATE_DOCUMENT_PATH and _INSERT_FILE_HISTORY use the document id the
\* cockpit computed; without a document of that id the insert violates its
\* foreign key and nothing commits.
PersistApprovedMove(d, from, to) ==
    LET q == <<"desktop", d>>
    IN  IF documents[d].id = "desktop"
        THEN /\ decisions' = Append(decisions, [proposal |-> q, action |-> "approve"])
             /\ proposals' = [proposals EXCEPT ![q].status = "approved"]
             /\ documents' = [documents EXCEPT ![d].current = to, ![d].status = "moved"]
             /\ history' = [history EXCEPT ![d] = Append(@,
                    [decision |-> Len(decisions) + 1, proposal |-> q,
                     previous |-> from, next |-> to])]
        ELSE UNCHANGED memoryVars

Fails == failures < MaxFailures /\ failures' = failures + 1

----------------------------------------------------------------------------
\* Analysis: the model's answer decides the destination.

Analyze(p, destination) ==
    /\ approving = NoRow
    /\ rows[p] # NoRow /\ rows[p].status = "READY"
    /\ fs[rows[p].path] # NoFile
    /\ LET d == fs[rows[p].path]
       IN  /\ PersistAnalysis("desktop", d, rows[p].path, destination)
           /\ \/ /\ rows' = [rows EXCEPT ![p].status = "REVIEW", ![p].document = d,
                                          ![p].previous = rows[p].path,
                                          ![p].next = destination]
                 /\ UNCHANGED failures
              \/ /\ Fails
                 /\ UNCHANGED rows
    /\ UNCHANGED <<fs, approving>>

\* The cloud worker's analysis of an uploaded document, delivered any number
\* of times.
CloudAnalyze(d) ==
    /\ d \in Uploaded
    /\ PersistAnalysis("cloud", d, CloudKey, CloudKey)
    /\ UNCHANGED <<fs, rows, approving, failures>>

----------------------------------------------------------------------------
\* Decisions.

Reviewable(p) ==
    /\ approving = NoRow
    /\ rows[p] # NoRow /\ rows[p].status = "REVIEW"
    /\ Len(decisions) < MaxDecisions

\* Mutant: the execution's outcome is not looked at.
ApproveMove_Unchecked(p) ==
    /\ Reviewable(p)
    /\ fs' = IF Movable(rows[p].previous, rows[p].next)
             THEN Moved(rows[p].previous, rows[p].next) ELSE fs
    /\ approving' = p
    /\ UNCHANGED <<memoryVars, rows, failures>>

\* The first half of an approval: the file operation.  One that is blocked
\* leaves everything as it was.
ApproveMove(p) ==
    /\ Reviewable(p)
    /\ Movable(rows[p].previous, rows[p].next)
    /\ fs' = Moved(rows[p].previous, rows[p].next)
    /\ approving' = p
    /\ UNCHANGED <<memoryVars, rows, failures>>

\* Mutant: the row is MOVED whatever became of the transaction.
ApproveRecord_Optimistic ==
    /\ approving # NoRow
    /\ LET p == approving
           d == rows[p].document
       IN  /\ \/ /\ PersistApprovedMove(d, rows[p].previous, rows[p].next)
                 /\ UNCHANGED failures
              \/ /\ Fails
                 /\ UNCHANGED memoryVars
           /\ rows' = [rows EXCEPT ![p].status = "MOVED", ![p].path = rows[p].next]
    /\ approving' = NoRow
    /\ UNCHANGED fs

\* The second half: the transaction, and the row if it was acknowledged.
ApproveRecord ==
    /\ approving # NoRow
    /\ LET p == approving
           d == rows[p].document
       IN  \/ /\ PersistApprovedMove(d, rows[p].previous, rows[p].next)
              /\ rows' = IF documents[d].id = "desktop"
                         THEN [rows EXCEPT ![p].status = "MOVED",
                                           ![p].path = rows[p].next]
                         ELSE rows
              /\ UNCHANGED failures
           \/ /\ PersistApprovedMove(d, rows[p].previous, rows[p].next)
              /\ Fails
              /\ UNCHANGED rows
           \/ /\ Fails
              /\ UNCHANGED <<memoryVars, rows>>
    /\ approving' = NoRow
    /\ UNCHANGED fs

Reject(p) ==
    /\ Reviewable(p)
    /\ PersistDecision(Len(decisions) + 1, <<"desktop", rows[p].document>>, "reject")
    /\ \/ /\ rows' = [rows EXCEPT ![p].status = "REJECTED"]
          /\ UNCHANGED failures
       \/ /\ Fails
          /\ UNCHANGED rows
    /\ UNCHANGED <<fs, approving>>

\* The review command: any proposal, and any decision id the operator gives.
CommandDecides(q, action, id) ==
    /\ proposals[q] # NoRow
    /\ id <= Len(decisions)
       \/ Len(decisions) + (IF approving = NoRow THEN 1 ELSE 2) <= MaxDecisions
    /\ PersistDecision(id, q, action)
    /\ UNCHANGED <<fs, rows, approving, failures>>

----------------------------------------------------------------------------
\* Restoring a row moves the file at its path back, tells no table, and opens
\* the restore view again; of several restored together only after the last.

Restore(p) ==
    /\ approving = NoRow
    /\ rows[p] # NoRow /\ rows[p].status = "MOVED"
    /\ Movable(rows[p].path, rows[p].previous)
    /\ fs' = Moved(rows[p].path, rows[p].previous)
    /\ LET restored == [rows EXCEPT ![p].status = "RESTORED",
                                    ![p].path = rows[p].previous]
       IN  rows' = restored \/ Recalling(fs', restored, rows')
    /\ UNCHANGED <<memoryVars, approving, failures>>

\* The cockpit's process dies; the files and the tables stay.
Crash ==
    /\ \E p \in Paths : rows[p] # NoRow
    /\ Fails
    /\ rows' = [p \in Paths |-> NoRow]
    /\ approving' = NoRow
    /\ UNCHANGED <<fs, memoryVars>>

Next ==
    \/ Scan
    \/ ScanCancelled
    \/ OpenRestore
    \/ \E p \in Paths, t \in Organized : Analyze(p, t)
    \/ \E d \in Documents : CloudAnalyze(d)
    \/ \E p \in Paths : ApproveMove(p)
    \/ ApproveRecord
    \/ \E p \in Paths : Reject(p)
    \/ \E q \in ProposalIds, action \in Actions, id \in 1..(Len(decisions) + 1) :
           CommandDecides(q, action, id)
    \/ \E p \in Paths : Restore(p)
    \/ Crash

Spec == Init /\ [][Next]_vars

----------------------------------------------------------------------------
(***************************************************************************)
(* Properties.                                                             *)
(***************************************************************************)

\* The tables, the cockpit's rows and the files hold values of their types.
TypeOK ==
    /\ fs \in [Paths -> Documents \cup {NoFile}]
    /\ documents \in [Documents -> DocumentRows \cup {NoRow}]
    /\ proposals \in [ProposalIds -> ProposalRows \cup {NoRow}]
    /\ decisions \in Seq(DecisionRows)
    /\ history \in [Documents -> Seq(Moves)]
    /\ rows \in [Paths -> TableRows \cup {NoRow}]
    /\ approving \in Paths \cup {NoRow}
    /\ failures \in 0..MaxFailures

Copies(files, d) == {p \in Paths : files[p] = d}

\* Approvals, restores, crashes and failed transactions move files about and
\* never lose, duplicate or overwrite one (the plans' collision checks).
NothingLost ==
    [][\A d \in Documents :
          Cardinality(Copies(fs', d)) = Cardinality(Copies(fs, d))]_vars

\* Memory is never ahead of the disk: when a move enters file_history, a file
\* is where the row says it went and none is where it was, because the file
\* operation precedes the transaction and the cockpit does nothing in between.
HistoryIsTrue ==
    [][\A d \in Documents : history'[d] # history[d] =>
          LET move == history'[d][Len(history'[d])]
          IN  fs[move.next] # NoFile /\ fs[move.previous] = NoFile]_vars

\* Every recorded move is backed by an approval of that document's proposal
\* of its own, and the moves of a document follow the order of their approvals.
MovesAreApproved ==
    \A d \in Documents : \A k \in DOMAIN history[d] :
        LET move == history[d][k]
        IN  /\ move.decision \in DOMAIN decisions
            /\ decisions[move.decision] = [proposal |-> <<"desktop", d>>,
                                           action |-> "approve"]
            /\ \A j \in 1..(k - 1) : history[d][j].decision < move.decision

\* A row the cockpit shows as MOVED, and offers to restore, is a row of
\* file_history with the same paths, after any crash or lost acknowledgement.
MovedRowsAreRemembered ==
    \A p \in Paths : rows[p] # NoRow /\ rows[p].status = "MOVED" =>
        /\ rows[p].path = rows[p].next
        /\ \E k \in DOMAIN history[rows[p].document] :
              /\ history[rows[p].document][k].previous = rows[p].previous
              /\ history[rows[p].document][k].next = rows[p].next

DecisionsOn(q) == {k \in DOMAIN decisions : decisions[k].proposal = q}

\* A proposal's status is its last decision, whatever is analysed or replayed
\* afterwards, and every decision is about a stored proposal.
StatusFollowsDecisions ==
    \A q \in ProposalIds :
        \/ DecisionsOn(q) = {} /\ (proposals[q] # NoRow =>
                                     proposals[q].status = "needs_review")
        \/ /\ proposals[q] # NoRow
           /\ \E k \in DecisionsOn(q) :
                 /\ \A j \in DecisionsOn(q) : j <= k
                 /\ proposals[q].status = ProposalStatus(decisions[k].action)

\* What memory once says of a document's identity and origin, of a proposal's
\* destination and of a decision stays, whoever analyses or decides again.
OriginStands ==
    [][/\ \A d \in Documents : documents[d] # NoRow =>
             /\ documents'[d].id = documents[d].id
             /\ documents'[d].original = documents[d].original
       /\ \A q \in ProposalIds : proposals[q] # NoRow =>
             proposals'[q].destination = proposals[q].destination
       /\ \A k \in DOMAIN decisions : decisions'[k] = decisions[k]]_vars

\* The document table and file_history agree on a document that counts as
\* moved, although both are written by several programs.
MovedMeansHistory ==
    \A d \in Documents : documents[d] # NoRow /\ documents[d].status = "moved" =>
        /\ documents[d].id = "desktop"
        /\ history[d] # <<>>
        /\ documents[d].current = LatestMove(d).next

\* Between approvals, every file under the organized folder is there by a
\* recorded move: "Six judge-visible tables store the full document lifecycle"
\* (README.md:78).  The code breaks it.
MovesAreRecorded ==
    approving = NoRow => \A p \in Organized : fs[p] # NoFile =>
        \E k \in DOMAIN history[fs[p]] : history[fs[p]][k].next = p

\* A file that returns to a place is one that once left it: file_history knows
\* "where did it come from" (README.md:31).  The code breaks it.
RestoreGoesHome ==
    [][\A p \in Paths \ Organized : fs'[p] \notin {fs[p], NoFile} =>
          \E k \in DOMAIN history[fs'[p]] : history[fs'[p]][k].previous = p]_vars
============================================================================
