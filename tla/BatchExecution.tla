-------------------------- MODULE BatchExecution --------------------------
(***************************************************************************)
(* The approved-batch executor of src/docweave/operations: one batch is    *)
(* previewed, approved and then executed by calls of                       *)
(* execute_operation_batch that share an execution ledger, an audit trail  *)
(* and the filesystem.  A call may be interrupted at any point (a crash or *)
(* an exception), may be repeated, and may overlap another call.  Files    *)
(* may be edited by their owner at any time.                               *)
(*                                                                         *)
(* A SHA-256 digest stands for the content it identifies, so a digest is   *)
(* modelled as the content itself.  A path is a comparison key: two names  *)
(* that differ only in case are one path.                                  *)
(***************************************************************************)
EXTENDS Naturals, FiniteSets

CONSTANTS
    N,           \* number of items of the batch
    Runners,     \* concurrent callers of execute_operation_batch
    Paths,       \* the files the batch can touch
    Contents,    \* complete file contents, one per digest
    Src, Dst,    \* source and destination path of each item
    Op,          \* the batch's one operation, "COPY" or "MOVE"
    Window,      \* how long an approval stays valid
    MaxClock,    \* bound: the clock stops here
    MaxEdits,    \* bound: edits by the files' owner
    MaxCrashes,  \* bound: interrupted calls and lost processes
    Absent,      \* no file at a path (also: no digest)
    Partial,     \* a file that is only partly written
    NoResult     \* no terminal result

Items == 1..N

ASSUME ItemsAssumption ==
    /\ N \in Nat \ {0}
    /\ Src \in [Items -> Paths]
    /\ Dst \in [Items -> Paths]
ASSUME ContentsAssumption ==
    /\ Absent # Partial
    /\ Absent \notin Contents
    /\ Partial \notin Contents
ASSUME BoundsAssumption ==
    /\ Op \in {"COPY", "MOVE"}
    /\ Window \in Nat \ {0}
    /\ MaxClock \in Nat
    /\ MaxEdits \in Nat
    /\ MaxCrashes \in Nat

VARIABLES
    fs,          \* the filesystem: what is at each path
    plan,        \* status of each item's FileOperationPlan
    itemState,   \* OperationBatchItem.state of the batch handed to callers
    expected,    \* expected_source_digest of each item
    approval,    \* <<approved_at, expires_at>>
    clock,
    inProgress,  \* ledger: intents without a terminal result
    result,      \* ledger: terminal result of each item
    audit,       \* audit trail: <<item, new state>> of the result events
    auditTime,   \* time of the trail's last event
    pc, at, now, \* of each call: step, current item, request.now_utc
    seen,        \* of each call: the last reading of the source
    pend,        \* of each call: the result about to be recorded
    report,      \* of each call: item states of the batch it returns
    edits, crashes

ledgerVars == <<inProgress, result>>
auditVars  == <<audit, auditTime>>
batchVars  == <<plan, itemState, expected, approval>>
runVars    == <<pc, at, now, seen, pend, report>>
boundVars  == <<clock, edits, crashes>>
vars == <<fs, batchVars, ledgerVars, auditVars, runVars, boundVars>>

----------------------------------------------------------------------------
\* Pure rules: planning, aggregate state, approval, result mapping.

Exists(content) == content # Absent

SourceMissing(f, i) == ~Exists(f[Src[i]])
DestinationCollides(f, i) == Exists(f[Dst[i]])

\* plan_file_operation on filesystem f.
PlanStatus(f, i) ==
    IF SourceMissing(f, i) THEN "BLOCKED"
    ELSE IF Src[i] = Dst[i] THEN "NO_OP"
    ELSE IF DestinationCollides(f, i) THEN "COLLISION"
    ELSE "READY"

FailureStates  == {"BLOCKED", "FAILED", "VERIFICATION_FAILED"}
TerminalStates == FailureStates \cup {"SUCCEEDED", "SKIPPED"}

DeriveBatchState(states) ==
    IF states = {} THEN "DRAFT"
    ELSE IF states \subseteq TerminalStates
         THEN IF states \cap FailureStates = {}
              THEN "COMPLETED" ELSE "COMPLETED_WITH_FAILURES"
    ELSE IF "EXECUTING" \in states THEN "EXECUTING"
    ELSE IF "APPROVED" \in states THEN "APPROVED"
    ELSE IF "PLANNED" \in states THEN "READY_FOR_APPROVAL"
    ELSE "DRAFT"

StatesOf(items) == {items[i] : i \in Items}

ApprovalValid(time) == approval[1] <= time /\ time < approval[2]

Statuses == {"SUCCEEDED", "BLOCKED", "FAILED", "VERIFICATION_FAILED"}
Dispositions == {"EXECUTED", "RECONCILED", "PRECONDITION_BLOCKED"}
FileStates == Contents \cup {Absent, Partial}

Results == [status : Statuses, disposition : Dispositions,
            source : FileStates, sourceAfter : BOOLEAN,
            destinationAfter : BOOLEAN, time : 0..MaxClock]

ASSUME NoResultAssumption == NoResult \notin Results

\* OperationResultRecord of call r for its current item.
Outcome(r, status, disposition, source) ==
    [status |-> status, disposition |-> disposition, source |-> source,
     sourceAfter |-> Exists(fs[Src[at[r]]]),
     destinationAfter |-> Exists(fs[Dst[at[r]]]),
     time |-> now[r]]

----------------------------------------------------------------------------
\* Preview and approval.

Init ==
    /\ fs \in [Paths -> Contents \cup {Absent}]
    /\ plan = [i \in Items |-> PlanStatus(fs, i)]
    /\ itemState = [i \in Items |-> "NEW"]
    /\ expected = [i \in Items |-> Absent]
    /\ approval = <<0, 0>>
    /\ clock = 0
    /\ inProgress = {}
    /\ result = [i \in Items |-> NoResult]
    /\ audit = {}
    /\ auditTime = 0
    /\ pc = [r \in Runners |-> "idle"]
    /\ at = [r \in Runners |-> 1]
    /\ now = [r \in Runners |-> 0]
    /\ seen = [r \in Runners |-> Absent]
    /\ pend = [r \in Runners |-> NoResult]
    /\ report = [r \in Runners |-> [i \in Items |-> "NEW"]]
    /\ edits = 0
    /\ crashes = 0

\* create_operation_batch: an item is PLANNED with the digest its source has
\* now, or BLOCKED when its plan is not READY or the source cannot be read.
CreateBatch ==
    /\ StatesOf(itemState) = {"NEW"}
    /\ expected' = [i \in Items |->
                      IF plan[i] = "READY" THEN fs[Src[i]] ELSE Absent]
    /\ itemState' = [i \in Items |->
                      IF Exists(expected'[i]) THEN "PLANNED" ELSE "BLOCKED"]
    /\ auditTime' = clock
    /\ UNCHANGED <<fs, plan, approval, ledgerVars, audit, runVars, boundVars>>

\* approve_operation_batch.
ApproveBatch ==
    /\ DeriveBatchState(StatesOf(itemState)) = "READY_FOR_APPROVAL"
    /\ itemState' = [i \in Items |-> IF itemState[i] = "PLANNED"
                                     THEN "APPROVED" ELSE itemState[i]]
    /\ approval' = <<clock, clock + Window>>
    /\ auditTime' = clock
    /\ UNCHANGED <<fs, plan, expected, ledgerVars, audit, runVars, boundVars>>

Tick ==
    /\ clock < MaxClock
    /\ clock' = clock + 1
    /\ UNCHANGED <<fs, batchVars, ledgerVars, auditVars, runVars, edits, crashes>>

\* The files' owner replaces, creates or deletes a file.
Edit ==
    /\ edits < MaxEdits
    /\ edits' = edits + 1
    /\ \E p \in Paths, c \in Contents \cup {Absent} :
          /\ c # fs[p]
          /\ fs' = [fs EXCEPT ![p] = c]
    /\ UNCHANGED <<batchVars, ledgerVars, auditVars, runVars, clock, crashes>>

----------------------------------------------------------------------------
\* One call of execute_operation_batch.

Goto(r, step) == pc' = [pc EXCEPT ![r] = step]

\* The call ends: it returned ("done") or raised ("idle").
End(r, step) ==
    /\ Goto(r, step)
    /\ at' = [at EXCEPT ![r] = 1]
    /\ now' = [now EXCEPT ![r] = 0]
    /\ seen' = [seen EXCEPT ![r] = Absent]
    /\ pend' = [pend EXCEPT ![r] = NoResult]

Abort(r) ==
    /\ End(r, "idle")
    /\ report' = [report EXCEPT ![r] = [i \in Items |-> "NEW"]]

Start(r) ==
    /\ pc[r] \in {"idle", "done"}
    /\ DeriveBatchState(StatesOf(itemState)) = "APPROVED"
    /\ Goto(r, "lookup")
    /\ now' = [now EXCEPT ![r] = clock]
    /\ report' = [report EXCEPT ![r] = itemState]
    /\ UNCHANGED <<fs, batchVars, ledgerVars, auditVars, at, seen, pend, boundVars>>

\* The loop of the call stands before an approved item of the batch.
Facing(r) == pc[r] = "lookup" /\ at[r] \in Items /\ itemState[at[r]] = "APPROVED"

\* The loop moves on, with the current item in the state the call reports.
NextItem(r, state) ==
    /\ Goto(r, "lookup")
    /\ at' = [at EXCEPT ![r] = @ + 1]
    /\ report' = [report EXCEPT ![r][at[r]] = state]
    /\ seen' = [seen EXCEPT ![r] = Absent]
    /\ pend' = [pend EXCEPT ![r] = NoResult]
    /\ UNCHANGED now

SkipItem(r) ==
    /\ pc[r] = "lookup"
    /\ at[r] \in Items
    /\ itemState[at[r]] # "APPROVED"
    /\ NextItem(r, itemState[at[r]])
    /\ UNCHANGED <<fs, batchVars, ledgerVars, auditVars, boundVars>>

\* AppendOnlyAuditTrail.append of the call's events: refused when time would
\* move backward.
Append(r, entries) ==
    /\ now[r] >= auditTime
    /\ audit' = audit \cup entries
    /\ auditTime' = now[r]

\* A key with a terminal result: the result is returned, nothing executed.
ReplayItem(r) ==
    /\ Facing(r)
    /\ result[at[r]] # NoResult
    /\ Append(r, {})
    /\ NextItem(r, result[at[r]].status)
    /\ UNCHANGED <<fs, batchVars, ledgerVars, boundVars>>

\* ledger.result_for finds nothing ...
LookupItem(r) ==
    /\ Facing(r)
    /\ result[at[r]] = NoResult
    /\ Goto(r, "progress")
    /\ UNCHANGED <<fs, batchVars, ledgerVars, auditVars, at, now, seen, pend,
                   report, boundVars>>

\* Mutant: the open intent is never looked up.
CheckInProgress_Forgotten(r) ==
    /\ pc[r] = "progress"
    /\ Goto(r, "stale")
    /\ UNCHANGED <<fs, batchVars, ledgerVars, auditVars, at, now, seen, pend,
                   report, boundVars>>

\* Mutant: an open intent counts as a call that is still running.
CheckInProgress_Busy(r) ==
    /\ pc[r] = "progress"
    /\ \/ at[r] \notin inProgress /\ Goto(r, "stale")
          /\ UNCHANGED <<at, now, seen, pend, report>>
       \/ at[r] \in inProgress /\ Abort(r)
    /\ UNCHANGED <<fs, batchVars, ledgerVars, auditVars, boundVars>>

\* ... and ledger.is_in_progress, another call, picks the branch.
CheckInProgress(r) ==
    /\ pc[r] = "progress"
    /\ Goto(r, IF at[r] \in inProgress THEN "observeSource" ELSE "stale")
    /\ UNCHANGED <<fs, batchVars, ledgerVars, auditVars, at, now, seen, pend,
                   report, boundVars>>

\* The call has settled on a result and goes on to record it.
Settle(r, status, disposition, source) ==
    /\ pend' = [pend EXCEPT ![r] = Outcome(r, status, disposition, source)]
    /\ Goto(r, "record")

\* _stale_source_result.
CheckStale(r) ==
    /\ pc[r] = "stale"
    /\ \/ /\ fs[Src[at[r]]] = expected[at[r]]
          /\ Goto(r, "intent")
          /\ UNCHANGED pend
       \/ /\ fs[Src[at[r]]] # expected[at[r]]
          /\ Settle(r, "BLOCKED", "PRECONDITION_BLOCKED", Absent)
    /\ UNCHANGED <<fs, batchVars, ledgerVars, auditVars, at, now, seen, report,
                   boundVars>>

\* Mutant: the intent is only audited.
RecordIntent_Unlogged(r) ==
    /\ pc[r] = "intent"
    /\ Goto(r, "auditIntent")
    /\ UNCHANGED <<fs, batchVars, ledgerVars, auditVars, at, now, seen, pend,
                   report, boundVars>>

\* Mutant: a settled key can be opened again.
RecordIntent_Unchecked(r) ==
    /\ pc[r] = "intent"
    /\ inProgress' = inProgress \cup {at[r]}
    /\ Goto(r, "auditIntent")
    /\ UNCHANGED <<fs, batchVars, result, auditVars, at, now, seen, pend, report,
                   boundVars>>

\* ledger.record_intent raises on a key that has a terminal result.
RecordIntent(r) ==
    /\ pc[r] = "intent"
    /\ \/ /\ result[at[r]] = NoResult
          /\ inProgress' = inProgress \cup {at[r]}
          /\ Goto(r, "auditIntent")
          /\ UNCHANGED <<at, now, seen, pend, report>>
       \/ /\ result[at[r]] # NoResult
          /\ Abort(r)
          /\ UNCHANGED inProgress
    /\ UNCHANGED <<fs, batchVars, result, auditVars, boundVars>>

\* The intent's event, and the event of a reconciliation that found no effect.
AuditIntent(r) ==
    /\ pc[r] = "auditIntent"
    /\ Append(r, {})
    /\ Goto(r, "preflight")
    /\ UNCHANGED <<fs, batchVars, ledgerVars, at, now, seen, pend, report, boundVars>>

\* audit_trail.append raises, wherever the call was about to append.
AuditRefuses(r) ==
    /\ now[r] < auditTime
    /\ \/ pc[r] \in {"auditIntent", "auditResult"}
       \/ pc[r] = "lookup" /\ at[r] = N + 1
       \/ Facing(r) /\ result[at[r]] # NoResult
    /\ Abort(r)
    /\ UNCHANGED <<fs, batchVars, ledgerVars, auditVars, boundVars>>

----------------------------------------------------------------------------
\* _reconcile_interrupted_item: an intent without a result was found.

ObserveSource(r) ==
    /\ pc[r] = "observeSource"
    /\ seen' = [seen EXCEPT ![r] = fs[Src[at[r]]]]
    /\ Goto(r, "observeDestination")
    /\ UNCHANGED <<fs, batchVars, ledgerVars, auditVars, at, now, pend, report,
                   boundVars>>

\* A reconciled result carries what was observed, not what is there now.
SettleObserved(r, status, found) ==
    /\ pend' = [pend EXCEPT ![r] =
                   [Outcome(r, status, "RECONCILED", expected[at[r]])
                      EXCEPT !.sourceAfter = Exists(seen[r]),
                             !.destinationAfter = Exists(found)]]
    /\ Goto(r, "record")

\* Mutant: the source of an interrupted move is not looked at.
ObserveDestination_SourceIgnored(r) ==
    /\ pc[r] = "observeDestination"
    /\ LET found == fs[Dst[at[r]]]
       IN  \/ /\ Exists(found) /\ found = expected[at[r]]
              /\ SettleObserved(r, "SUCCEEDED", found)
           \/ /\ ~Exists(found)
              /\ Goto(r, "recheck")
              /\ UNCHANGED pend
    /\ UNCHANGED <<fs, batchVars, ledgerVars, auditVars, at, now, seen, report,
                   boundVars>>

ObserveDestination(r) ==
    /\ pc[r] = "observeDestination"
    /\ LET i == at[r]
           found == fs[Dst[i]]
           postcondition == /\ found = expected[i]
                            /\ Exists(seen[r]) <=> Op = "COPY"
       IN  \/ /\ postcondition
              /\ SettleObserved(r, "SUCCEEDED", found)
           \/ /\ ~postcondition /\ ~Exists(found) /\ Exists(seen[r])
              /\ Goto(r, "recheck")
              /\ UNCHANGED pend
           \/ /\ ~postcondition /\ (Exists(found) \/ ~Exists(seen[r]))
              /\ SettleObserved(r, "VERIFICATION_FAILED", found)
    /\ UNCHANGED <<fs, batchVars, ledgerVars, auditVars, at, now, seen, report,
                   boundVars>>

\* _source_still_matches: nothing happened yet, so execute under the old intent.
RecheckSource(r) ==
    /\ pc[r] = "recheck"
    /\ \/ /\ fs[Src[at[r]]] = expected[at[r]]
          /\ Goto(r, "auditIntent")
          /\ UNCHANGED pend
       \/ /\ fs[Src[at[r]]] # expected[at[r]]
          /\ SettleObserved(r, "VERIFICATION_FAILED", Absent)
    /\ UNCHANGED <<fs, batchVars, ledgerVars, auditVars, at, now, seen, report,
                   boundVars>>

----------------------------------------------------------------------------
\* execute_file_operation.

\* _pre_execution_blocker: the approval, then a fresh plan.
Preflight(r) ==
    /\ pc[r] = "preflight"
    /\ \/ /\ ApprovalValid(now[r])
          /\ PlanStatus(fs, at[r]) = "READY"
          /\ Goto(r, "readSource")
          /\ UNCHANGED pend
       \/ /\ ~ApprovalValid(now[r]) \/ PlanStatus(fs, at[r]) # "READY"
          /\ Settle(r, "BLOCKED", "EXECUTED", Absent)
    /\ UNCHANGED <<fs, batchVars, ledgerVars, auditVars, at, now, seen, report,
                   boundVars>>

\* source_digest_before.
ReadSource(r) ==
    /\ pc[r] = "readSource"
    /\ LET found == fs[Src[at[r]]]
       IN  \/ /\ Exists(found)
              /\ seen' = [seen EXCEPT ![r] = found]
              /\ Goto(r, "create")
              /\ UNCHANGED pend
           \/ /\ ~Exists(found)
              /\ Settle(r, "BLOCKED", "EXECUTED", Absent)
              /\ UNCHANGED seen
    /\ UNCHANGED <<fs, batchVars, ledgerVars, auditVars, at, now, report, boundVars>>

\* An OSError other than FileExistsError, which a file's disappearance causes
\* and which the disk may cause at any step: what the call reports depends on
\* whether there is a destination.
Fails(r) ==
    Settle(r, IF Exists(fs[Dst[at[r]]]) THEN "VERIFICATION_FAILED" ELSE "FAILED",
           "EXECUTED", seen[r])

DiskError(r) ==
    /\ pc[r] \in {"create", "copy", "verifyCopy", "unlink"}
    /\ Fails(r)
    /\ UNCHANGED <<fs, batchVars, ledgerVars, auditVars, at, now, seen, report,
                   boundVars>>

\* Mutant: the destination is opened with "wb".
CreateDestination_Overwrite(r) ==
    /\ pc[r] = "create"
    /\ Exists(fs[Src[at[r]]])
    /\ fs' = [fs EXCEPT ![Dst[at[r]]] = Partial]
    /\ Goto(r, "copy")
    /\ UNCHANGED <<batchVars, ledgerVars, auditVars, at, now, seen, pend, report,
                   boundVars>>

\* _copy_file_exclusively opens the source, then the destination with "xb".
CreateDestination(r) ==
    /\ pc[r] = "create"
    /\ LET i == at[r]
       IN  \/ /\ ~Exists(fs[Src[i]])
              /\ Fails(r)
              /\ UNCHANGED fs
           \/ /\ Exists(fs[Src[i]]) /\ Exists(fs[Dst[i]])
              /\ Settle(r, "BLOCKED", "EXECUTED", seen[r])
              /\ UNCHANGED fs
           \/ /\ Exists(fs[Src[i]]) /\ ~Exists(fs[Dst[i]])
              /\ fs' = [fs EXCEPT ![Dst[i]] = Partial]
              /\ Goto(r, "copy")
              /\ UNCHANGED pend
    /\ UNCHANGED <<batchVars, ledgerVars, auditVars, at, now, seen, report, boundVars>>

\* What the open source file yields: its content, or a mixture if it was
\* replaced since the digest was taken.
Copied(r) ==
    LET found == fs[Src[at[r]]]
    IN  IF found = seen[r] THEN {seen[r]} ELSE {seen[r], found, Partial} \ {Absent}

\* copyfileobj and copystat.  The destination may have been replaced meanwhile
\* (it keeps the replacement) or removed, or the open source may have been
\* removed (copystat fails, with the destination written in full or not).
CopyContent(r) ==
    /\ pc[r] = "copy"
    /\ LET i == at[r]
       IN  \/ /\ fs[Dst[i]] = Partial /\ Exists(fs[Src[i]])
              /\ \E c \in Copied(r) : fs' = [fs EXCEPT ![Dst[i]] = c]
              /\ Goto(r, "verifyCopy")
              /\ UNCHANGED pend
           \/ /\ fs[Dst[i]] \in Contents /\ Exists(fs[Src[i]])
              /\ Goto(r, "verifyCopy")
              /\ UNCHANGED <<fs, pend>>
           \/ /\ fs[Dst[i]] = Partial /\ ~Exists(fs[Src[i]])
              /\ \E c \in {seen[r], Partial} : fs' = [fs EXCEPT ![Dst[i]] = c]
              /\ Fails(r)
           \/ /\ fs[Dst[i]] # Partial
              /\ ~Exists(fs[Dst[i]]) \/ ~Exists(fs[Src[i]])
              /\ Fails(r)
              /\ UNCHANGED fs
    /\ UNCHANGED <<batchVars, ledgerVars, auditVars, at, now, seen, report, boundVars>>

\* destination_digest_after against source_digest_before.
VerifyCopy(r) ==
    /\ pc[r] = "verifyCopy"
    /\ LET found == fs[Dst[at[r]]]
       IN  \/ /\ found = seen[r]
              /\ Goto(r, IF Op = "MOVE" THEN "unlink" ELSE "verifyResult")
              /\ UNCHANGED <<fs, pend>>
           \/ /\ Exists(found) /\ found # seen[r]
              /\ Settle(r, "VERIFICATION_FAILED", "EXECUTED", seen[r])
              /\ UNCHANGED fs
           \/ /\ ~Exists(found)
              /\ Fails(r)
              /\ UNCHANGED fs
    /\ UNCHANGED <<batchVars, ledgerVars, auditVars, at, now, seen, report, boundVars>>

UnlinkSource(r) ==
    /\ pc[r] = "unlink"
    /\ \/ /\ Exists(fs[Src[at[r]]])
          /\ fs' = [fs EXCEPT ![Src[at[r]]] = Absent]
          /\ Goto(r, "verifyResult")
          /\ UNCHANGED pend
       \/ /\ ~Exists(fs[Src[at[r]]])
          /\ Fails(r)
          /\ UNCHANGED fs
    /\ UNCHANGED <<batchVars, ledgerVars, auditVars, at, now, seen, report, boundVars>>

\* _verify_result.
VerifyResult(r) ==
    /\ pc[r] = "verifyResult"
    /\ LET verified == /\ Exists(fs[Src[at[r]]]) <=> Op = "COPY"
                       /\ Exists(fs[Dst[at[r]]])
       IN  Settle(r, IF verified THEN "SUCCEEDED" ELSE "VERIFICATION_FAILED",
                  "EXECUTED", seen[r])
    /\ UNCHANGED <<fs, batchVars, ledgerVars, auditVars, at, now, seen, report,
                   boundVars>>

----------------------------------------------------------------------------
\* The result: ledger first, then the audit trail.

\* Mutant: a second result is dropped without a word.
RecordResult_Silent(r) ==
    /\ pc[r] = "record"
    /\ result' = [result EXCEPT ![at[r]] = IF @ = NoResult THEN pend[r] ELSE @]
    /\ inProgress' = inProgress \ {at[r]}
    /\ Goto(r, "auditResult")
    /\ UNCHANGED <<fs, batchVars, auditVars, at, now, seen, pend, report, boundVars>>

\* Mutant: the last result wins.
RecordResult_LastWins(r) ==
    /\ pc[r] = "record"
    /\ result' = [result EXCEPT ![at[r]] = pend[r]]
    /\ inProgress' = inProgress \ {at[r]}
    /\ Goto(r, "auditResult")
    /\ UNCHANGED <<fs, batchVars, auditVars, at, now, seen, pend, report, boundVars>>

\* ledger.record_result raises on a key that has a different result.
RecordResult(r) ==
    /\ pc[r] = "record"
    /\ LET i == at[r]
       IN  \/ /\ result[i] \in {NoResult, pend[r]}
              /\ result' = [result EXCEPT ![i] = pend[r]]
              /\ inProgress' = inProgress \ {i}
              /\ Goto(r, "auditResult")
              /\ UNCHANGED <<at, now, seen, pend, report>>
           \/ /\ result[i] \notin {NoResult, pend[r]}
              /\ Abort(r)
              /\ UNCHANGED ledgerVars
    /\ UNCHANGED <<fs, batchVars, auditVars, boundVars>>

\* Mutant: the event carries the disposition instead of the new state.
AuditResult_Disposition(r) ==
    /\ pc[r] = "auditResult"
    /\ Append(r, {<<at[r], pend[r].disposition>>})
    /\ NextItem(r, pend[r].status)
    /\ UNCHANGED <<fs, batchVars, ledgerVars, boundVars>>

AuditResult(r) ==
    /\ pc[r] = "auditResult"
    /\ Append(r, {<<at[r], pend[r].status>>})
    /\ NextItem(r, pend[r].status)
    /\ UNCHANGED <<fs, batchVars, ledgerVars, boundVars>>

\* The call returns its BatchExecutionReport.
FinishRun(r) ==
    /\ pc[r] = "lookup"
    /\ at[r] = N + 1
    /\ Append(r, {})
    /\ End(r, "done")
    /\ UNCHANGED <<fs, batchVars, ledgerVars, report, boundVars>>

\* The call is cut short: something it uses raises.  The same happens when the
\* process dies and a durable ledger and trail outlive it.
Crash(r) ==
    /\ crashes < MaxCrashes
    /\ pc[r] \notin {"idle", "done"}
    /\ crashes' = crashes + 1
    /\ Abort(r)
    /\ UNCHANGED <<fs, batchVars, ledgerVars, auditVars, clock, edits>>

\* The process dies and takes InMemoryExecutionLedger, AppendOnlyAuditTrail and
\* the batch with it; the items are planned again from what the disk holds.
LoseProcess ==
    /\ crashes < MaxCrashes
    /\ crashes' = crashes + 1
    /\ plan' = [i \in Items |-> PlanStatus(fs, i)]
    /\ itemState' = [i \in Items |-> "NEW"]
    /\ expected' = [i \in Items |-> Absent]
    /\ approval' = <<0, 0>>
    /\ inProgress' = {}
    /\ result' = [i \in Items |-> NoResult]
    /\ audit' = {}
    /\ auditTime' = 0
    /\ pc' = [r \in Runners |-> "idle"]
    /\ at' = [r \in Runners |-> 1]
    /\ now' = [r \in Runners |-> 0]
    /\ seen' = [r \in Runners |-> Absent]
    /\ pend' = [r \in Runners |-> NoResult]
    /\ report' = [r \in Runners |-> [i \in Items |-> "NEW"]]
    /\ UNCHANGED <<fs, clock, edits>>

----------------------------------------------------------------------------
Step(r) ==
    \/ SkipItem(r) \/ ReplayItem(r) \/ LookupItem(r) \/ CheckInProgress(r)
    \/ CheckStale(r) \/ RecordIntent(r) \/ AuditIntent(r) \/ AuditRefuses(r)
    \/ ObserveSource(r) \/ ObserveDestination(r) \/ RecheckSource(r)
    \/ Preflight(r) \/ ReadSource(r) \/ CreateDestination(r) \/ CopyContent(r)
    \/ VerifyCopy(r) \/ UnlinkSource(r) \/ VerifyResult(r) \/ DiskError(r)
    \/ RecordResult(r) \/ AuditResult(r) \/ FinishRun(r)

Next ==
    \/ CreateBatch \/ ApproveBatch \/ Tick \/ Edit \/ LoseProcess
    \/ \E r \in Runners : Start(r) \/ Step(r) \/ Crash(r)

Spec == Init /\ [][Next]_vars
\* The files' owner is under no obligation, and nobody has to crash.  A call
\* that started runs on, and whoever holds an approved batch calls
\* execute_operation_batch again until it returns.
FairSpec ==
    /\ Spec
    /\ WF_vars(CreateBatch)
    /\ WF_vars(ApproveBatch)
    /\ \A r \in Runners : WF_vars(Start(r)) /\ WF_vars(Step(r))

----------------------------------------------------------------------------
\* Properties.

Labels == {"idle", "done", "lookup", "progress", "stale", "intent",
           "auditIntent", "observeSource", "observeDestination", "recheck",
           "preflight", "readSource", "create", "copy", "verifyCopy", "unlink",
           "verifyResult", "record", "auditResult"}

ItemStates == {"NEW", "PLANNED", "BLOCKED", "APPROVED"} \cup Statuses

\* Every variable stays in its type.
TypeOK ==
    /\ fs \in [Paths -> FileStates]
    /\ plan \in [Items -> {"READY", "NO_OP", "COLLISION", "BLOCKED"}]
    /\ itemState \in [Items -> {"NEW", "PLANNED", "BLOCKED", "APPROVED"}]
    /\ expected \in [Items -> FileStates]
    /\ approval \in (0..MaxClock) \X (0..(MaxClock + Window))
    /\ clock \in 0..MaxClock
    /\ inProgress \subseteq Items
    /\ result \in [Items -> Results \cup {NoResult}]
    /\ audit \subseteq Items \X Statuses
    /\ auditTime \in 0..MaxClock
    /\ pc \in [Runners -> Labels]
    /\ at \in [Runners -> 1..(N + 1)]
    /\ now \in [Runners -> 0..MaxClock]
    /\ seen \in [Runners -> FileStates]
    /\ pend \in [Runners -> Results \cup {NoResult}]
    /\ report \in [Runners -> [Items -> ItemStates]]
    /\ edits \in 0..MaxEdits
    /\ crashes \in 0..MaxCrashes

Moved(p) == fs'[p] # fs[p] /\ edits' = edits

\* The executor touches a file only for an approved item whose intent (or
\* result) is in the ledger: _record_intent_event precedes the filesystem.
MutationIsIntended ==
    [][\A p \in Paths : Moved(p) =>
          \E i \in Items : /\ p \in {Src[i], Dst[i]}
                           /\ itemState[i] = "APPROVED"
                           /\ i \in inProgress \/ result[i] # NoResult]_vars

\* The executor never writes over a complete file: it creates a destination
\* only where nothing is, and writes only to a file it is still writing.
NeverOverwrites ==
    [][\A p \in Paths : Moved(p) =>
          \/ fs[p] \in {Absent, Partial}
          \/ fs'[p] = Absent /\ Op = "MOVE"]_vars

Held(files) == {files[p] : p \in Paths} \cap Contents

\* Unless the files' owner has been at work, the executor makes no content
\* disappear: a move deletes its source only after the verified copy exists,
\* whatever was interrupted, repeated or run at the same time.
NothingLost == [][edits' = 0 => Held(fs) \subseteq Held(fs')]_vars

\* What a success of item i promises.
Real(i) == fs[Dst[i]] = expected[i] /\ (Op = "MOVE" => ~Exists(fs[Src[i]]))

\* A recorded success is true of the disk, unless the files' owner has been at
\* work: the destination holds what was approved and a moved source is gone.
\* Only of complete files: all half-written ones are the one value Partial.
SuccessIsReal ==
    edits = 0 =>
    \A i \in Items : /\ result[i] # NoResult /\ result[i].status = "SUCCEEDED"
                     /\ expected[i] \in Contents
                     => Real(i)

\* The executor may have touched item j's files: its intent is open, or it has
\* a result other than BLOCKED.
Began(j) ==
    \/ j \in inProgress
    \/ result[j] # NoResult /\ result[j].status # "BLOCKED"

\* Another item was begun that has the same source (or destination) as item i.
SharedWithBegun(end, i) == \E j \in Items \ {i} : end[j] = end[i] /\ Began(j)

\* The source of item i is the approved one, unless another item moved it.
SourceStands(i) == fs[Src[i]] = expected[i] \/ SharedWithBegun(Src, i)

\* Nothing is at the destination of item i, as when it was approved, unless
\* another item put it there.
DestinationStands(i) == ~Exists(fs[Dst[i]]) \/ SharedWithBegun(Dst, i)

\* BLOCKED promises a lone caller that nothing was done for the item, whatever
\* was interrupted before: its source is still the approved one and nothing,
\* not even a half-written file of its own, is at its destination.  What other
\* items that were begun did to a path they share with it is excepted.
BlockedIsUntouched ==
    edits = 0 =>
    \A i \in Items : result[i] # NoResult /\ result[i].status = "BLOCKED" =>
        SourceStands(i) /\ DestinationStands(i)

\* As long as the batch lives, a terminal result is never replaced by another:
\* ledger.record_result completes an intent exactly once.
TerminalResultStable ==
    [][\A i \in Items : result[i] # NoResult /\ itemState'[i] = itemState[i]
                         => result'[i] = result[i]]_vars

\* What the audit trail says of an item is what the ledger says: an event is
\* never appended for an outcome the ledger did not accept.
AuditAgreesWithLedger ==
    \A e \in audit : result[e[1]] # NoResult /\ result[e[1]].status = e[2]

\* A batch report that was returned agrees with the ledger on every approved
\* item, also when two calls overlapped.
ReportAgreesWithLedger ==
    \A r \in Runners : pc[r] = "done" =>
        \A i \in Items : itemState[i] = "APPROVED" =>
            result[i] # NoResult /\ report[r][i] = result[i].status

\* An intent never outlives its result, so a key is never reconciled after it
\* is settled.
IntentOrResult == \A i \in inProgress : result[i] = NoResult

\* Every approved item ends with a terminal result, whatever interrupts the
\* calls, unless the batch itself is lost with the process.
ApprovedItemsSettle ==
    \A i \in Items : itemState[i] = "APPROVED" ~>
                        result[i] # NoResult \/ itemState[i] # "APPROVED"

\* What the ledger says of each item: nothing, an intent, or its result.
Outcomes == [i \in Items |-> IF result[i] # NoResult THEN result[i].status
                             ELSE IF i \in inProgress THEN "EXECUTING" ELSE "OPEN"]

\* What the calls that returned said of the approved items.
Answers == [r \in Runners |->
               IF pc[r] = "done"
               THEN [i \in {k \in Items : itemState[k] = "APPROVED"} |-> report[r][i]]
               ELSE NoResult]

Promise == INSTANCE BatchPromise
           WITH outcome <- Outcomes, trail <- audit, answers <- Answers,
                edited <- edits > 0, NoAnswer <- NoResult

\* Overlapping, interrupted and repeated calls, with their ledger and their
\* trail, implement BatchPromise: to the files, the trail and whoever gets an
\* answer it looks as if every item had been taken on, executed and settled
\* once, by somebody who does nothing else.
KeepsPromise == Promise!Spec

\* A success moved or copied the content that was approved.
ApprovedContentOnly ==
    \A i \in Items : result[i] # NoResult /\ result[i].status = "SUCCEEDED" =>
        result[i].source = expected[i]
============================================================================
