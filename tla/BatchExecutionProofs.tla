----------------------- MODULE BatchExecutionProofs -----------------------
(***************************************************************************)
(* Proofs about BatchExecution, for every batch, every number of           *)
(* concurrent callers and every number of edits and crashes.               *)
(*                                                                         *)
(* IInv is inductive.  Most steps of a call either advance it at its item  *)
(* (Advances), move it on to the next item (MovesOn) or end it (Aborts);   *)
(* one lemma for each of the three shows that IInv survives, and a step's  *)
(* proof says which of them it is.                                         *)
(*                                                                         *)
(* FilesInv is inductive with IInv as long as the owner edits no file, and *)
(* says what callers' steps and results mean for the files; LoneInv adds   *)
(* what a caller that is alone may conclude from them.  With both, each    *)
(* step is one of BatchPromise or hidden from it.                          *)
(***************************************************************************)
EXTENDS BatchExecution, TLAPS

\* Where a call is in the middle of an item.
AtItem == Labels \ {"idle", "done", "lookup"}

\* Where a call has an intent behind it.
Intent == AtItem \ {"progress", "stale", "intent", "record", "auditResult"}

\* A call runs only while the batch has an approved item.
RunsApproved ==
    \A r \in Runners : pc[r] # "idle" =>
        \E i \in Items : itemState[i] = "APPROVED"

\* A call works on approved items of the batch.
WorksOnApproved ==
    \A r \in Runners : pc[r] \in AtItem =>
        at[r] \in Items /\ itemState[at[r]] = "APPROVED"

\* A call that is about to record or audit has a result.
HasOutcome ==
    \A r \in Runners : pc[r] \in {"record", "auditResult"} => pend[r] \in Results

\* A call whose intent is recorded finds it in the ledger, or its result.
HasIntent ==
    \A r \in Runners : pc[r] \in Intent =>
        at[r] \in inProgress \/ result[at[r]] # NoResult

\* What a call audits is what the ledger holds.
AuditsRecorded ==
    \A r \in Runners : pc[r] = "auditResult" => result[at[r]] = pend[r]

\* Only approved items have results.
ResultsAreApproved ==
    \A i \in Items : result[i] # NoResult => itemState[i] = "APPROVED"

\* A running call has the ledger's result for every approved item behind it.
ReportsRecorded ==
    \A r \in Runners : pc[r] \notin {"idle", "done"} =>
        \A i \in Items : i < at[r] /\ itemState[i] = "APPROVED" =>
            result[i] # NoResult /\ report[r][i] = result[i].status

\* A call that is not running will start with the first item.
StartsAtFirst == \A r \in Runners : pc[r] \in {"idle", "done"} => at[r] = 1

\* Only a move deletes.
OnlyMovesUnlink == \A r \in Runners : pc[r] = "unlink" => Op = "MOVE"

IInv ==
    /\ TypeOK
    /\ RunsApproved
    /\ WorksOnApproved
    /\ HasOutcome
    /\ HasIntent
    /\ AuditsRecorded
    /\ ResultsAreApproved
    /\ ReportsRecorded
    /\ OnlyMovesUnlink
    /\ StartsAtFirst
    /\ IntentOrResult
    /\ AuditAgreesWithLedger
    /\ ReportAgreesWithLedger

----------------------------------------------------------------------------
\* The pure rules.

\* plan_file_operation returns one of its four statuses.
LEMMA PlanStatusType ==
    ASSUME NEW f, NEW i
    PROVE  PlanStatus(f, i) \in {"READY", "NO_OP", "COLLISION", "BLOCKED"}
  BY DEF PlanStatus

\* A batch that can be executed has an approved item, and a batch that can be
\* approved has none.
LEMMA ApprovedBatch ==
    ASSUME NEW S
    PROVE  /\ DeriveBatchState(S) = "APPROVED" => "APPROVED" \in S
           /\ DeriveBatchState(S) = "READY_FOR_APPROVAL" => "APPROVED" \notin S
  BY DEF DeriveBatchState

\* The records a call builds are results.
LEMMA OutcomeType ==
    ASSUME TypeOK, NEW r \in Runners,
           NEW status \in Statuses, NEW disposition \in Dispositions,
           NEW source \in FileStates
    PROVE  Outcome(r, status, disposition, source) \in Results
  BY DEF Outcome, Results, TypeOK, Exists

\* A step of call r at its item, which leaves the batch, the ledger and what
\* the trail says as they are and goes on to another step at the same item.
Advances(r, step) ==
    /\ pc[r] \in AtItem \/ Facing(r)
    /\ Goto(r, step)
    /\ step \in AtItem \ {"auditResult"}
    /\ step = "unlink" => Op = "MOVE"
    /\ step \in Intent => at[r] \in inProgress \/ result[at[r]] # NoResult
    /\ step = "record" => pend'[r] \in Results
    /\ pend' \in [Runners -> Results \cup {NoResult}]
    /\ \A q \in Runners \ {r} : pend'[q] = pend[q]
    /\ fs' \in [Paths -> FileStates]
    /\ seen' \in [Runners -> FileStates]
    /\ auditTime' \in 0..MaxClock
    /\ UNCHANGED <<batchVars, ledgerVars, audit, at, now, report, boundVars>>

\* Such a step keeps the invariant.
LEMMA AdvancesKeepsIInv ==
    ASSUME IInv, NEW r \in Runners, NEW step, Advances(r, step)
    PROVE  IInv'
<1> USE DEF IInv
<1>0. /\ pc' = [pc EXCEPT ![r] = step]
      /\ pc[r] \notin {"idle", "done"}
      /\ at[r] \in Items /\ itemState[at[r]] = "APPROVED"
  BY DEF Advances, Goto, Facing, AtItem, WorksOnApproved
<1>1. TypeOK'
  BY <1>0 DEF TypeOK, Advances, AtItem, batchVars, ledgerVars, boundVars
<1>2. RunsApproved' /\ WorksOnApproved' /\ HasOutcome'
  BY <1>0 DEF TypeOK, RunsApproved, WorksOnApproved, HasOutcome, Advances,
              batchVars, ledgerVars
<1>3. HasIntent' /\ AuditsRecorded' /\ OnlyMovesUnlink' /\ StartsAtFirst'
  BY <1>0 DEF TypeOK, HasIntent, AuditsRecorded, OnlyMovesUnlink,
              StartsAtFirst, Advances, AtItem, batchVars, ledgerVars
<1>4. ResultsAreApproved' /\ IntentOrResult' /\ AuditAgreesWithLedger'
  BY DEF ResultsAreApproved, IntentOrResult, AuditAgreesWithLedger, Advances,
         batchVars, ledgerVars
<1>5. ReportsRecorded' /\ ReportAgreesWithLedger'
  BY <1>0 DEF TypeOK, ReportsRecorded, ReportAgreesWithLedger, Advances,
              AtItem, batchVars, ledgerVars
<1> QED
  BY <1>1, <1>2, <1>3, <1>4, <1>5

\* A step of call r that leaves its item, in the state it will report, for the
\* next one, and appends what the ledger says of the item.
MovesOn(r, state) ==
    /\ pc[r] \in {"lookup", "auditResult"}
    /\ at[r] \in Items
    /\ state \in ItemStates
    /\ itemState[at[r]] = "APPROVED" =>
          result[at[r]] # NoResult /\ state = result[at[r]].status
    /\ NextItem(r, state)
    /\ audit' \in {audit, audit \cup {<<at[r], state>>}}
    /\ audit' # audit => itemState[at[r]] = "APPROVED"
    /\ auditTime' \in 0..MaxClock
    /\ UNCHANGED <<fs, batchVars, ledgerVars, boundVars>>

\* Such a step keeps the invariant.
LEMMA MovesOnKeepsIInv ==
    ASSUME IInv, NEW r \in Runners, NEW state, MovesOn(r, state)
    PROVE  IInv'
<1> USE DEF IInv
<1> USE ItemsAssumption, NoResultAssumption
<1>0. /\ pc' = [pc EXCEPT ![r] = "lookup"]
      /\ at' = [at EXCEPT ![r] = at[r] + 1]
      /\ report' = [report EXCEPT ![r] = [report[r] EXCEPT ![at[r]] = state]]
      /\ seen' = [seen EXCEPT ![r] = Absent]
      /\ pend' = [pend EXCEPT ![r] = NoResult]
      /\ at[r] \in Items
      /\ UNCHANGED <<fs, plan, itemState, expected, approval, clock, inProgress,
                     result, now, edits, crashes>>
  BY DEF MovesOn, NextItem, Goto, TypeOK, batchVars, ledgerVars, boundVars
<1>1. TypeOK'
  <2>1. audit' \subseteq Items \X Statuses
    BY <1>0 DEF MovesOn, TypeOK, Results
  <2>2. at' \in [Runners -> 1..(N + 1)]
    BY <1>0 DEF TypeOK, Items
  <2>3. report' \in [Runners -> [Items -> ItemStates]]
    BY <1>0 DEF TypeOK, MovesOn
  <2> QED
    BY <1>0, <2>1, <2>2, <2>3 DEF TypeOK, MovesOn, FileStates, Labels
<1>2. RunsApproved' /\ WorksOnApproved' /\ HasOutcome'
  BY <1>0 DEF TypeOK, RunsApproved, WorksOnApproved, HasOutcome, MovesOn,
              AtItem
<1>3. HasIntent' /\ AuditsRecorded' /\ OnlyMovesUnlink' /\ StartsAtFirst'
  BY <1>0 DEF TypeOK, HasIntent, AuditsRecorded, OnlyMovesUnlink,
              StartsAtFirst, Intent, AtItem
<1>4. ResultsAreApproved' /\ IntentOrResult'
  BY <1>0 DEF ResultsAreApproved, IntentOrResult
<1>5. AuditAgreesWithLedger'
  BY <1>0 DEF AuditAgreesWithLedger, MovesOn, TypeOK
<1>6. ReportsRecorded'
  <2> SUFFICES ASSUME NEW q \in Runners, pc'[q] \notin {"idle", "done"},
                      NEW i \in Items, i < at'[q], itemState[i] = "APPROVED"
               PROVE  result[i] # NoResult /\ report'[q][i] = result[i].status
    BY <1>0 DEF ReportsRecorded
  <2>1. CASE q # r
    BY <1>0, <2>1 DEF ReportsRecorded, TypeOK
  <2>2. CASE q = r /\ i = at[r]
    BY <1>0, <2>2 DEF MovesOn, TypeOK
  <2>3. CASE q = r /\ i # at[r]
    <3>1. i < at[r]
      BY <1>0, <2>3 DEF TypeOK, Items
    <3> QED
      BY <1>0, <2>3, <3>1 DEF ReportsRecorded, TypeOK, MovesOn
  <2> QED
    BY <2>1, <2>2, <2>3
<1>7. ReportAgreesWithLedger'
  BY <1>0 DEF TypeOK, ReportAgreesWithLedger
<1> QED
  BY <1>1, <1>2, <1>3, <1>4, <1>5, <1>6, <1>7

\* A call that raises, or is cut short, keeps the invariant.
LEMMA AbortKeepsIInv ==
    ASSUME IInv, NEW r \in Runners, Abort(r), crashes' \in 0..MaxCrashes,
           UNCHANGED <<fs, batchVars, ledgerVars, auditVars, clock, edits>>
    PROVE  IInv'
<1> USE DEF IInv
<1> USE ItemsAssumption, NoResultAssumption
<1>0. /\ pc' = [pc EXCEPT ![r] = "idle"]
      /\ at' = [at EXCEPT ![r] = 1]
      /\ now' = [now EXCEPT ![r] = 0]
      /\ seen' = [seen EXCEPT ![r] = Absent]
      /\ pend' = [pend EXCEPT ![r] = NoResult]
      /\ report' = [report EXCEPT ![r] = [i \in Items |-> "NEW"]]
      /\ UNCHANGED <<fs, plan, itemState, expected, approval, clock, inProgress,
                     result, audit, auditTime, edits>>
  BY DEF Abort, End, Goto, batchVars, ledgerVars, auditVars
<1>1. TypeOK'
  <2>1. /\ [i \in Items |-> "NEW"] \in [Items -> ItemStates]
        /\ 1 \in 1..(N + 1) /\ 0 \in 0..MaxClock
    BY BoundsAssumption DEF ItemStates
  <2> QED
    BY <1>0, <2>1 DEF TypeOK, FileStates, Labels
<1>2. RunsApproved' /\ WorksOnApproved' /\ HasOutcome'
  BY <1>0 DEF TypeOK, RunsApproved, WorksOnApproved, HasOutcome, AtItem
<1>3. HasIntent' /\ AuditsRecorded' /\ OnlyMovesUnlink' /\ StartsAtFirst'
  BY <1>0 DEF TypeOK, HasIntent, AuditsRecorded, OnlyMovesUnlink,
              StartsAtFirst, Intent, AtItem
<1>4. ResultsAreApproved' /\ IntentOrResult' /\ AuditAgreesWithLedger'
  BY <1>0 DEF ResultsAreApproved, IntentOrResult, AuditAgreesWithLedger
<1>5. ReportsRecorded' /\ ReportAgreesWithLedger'
  BY <1>0 DEF TypeOK, ReportsRecorded, ReportAgreesWithLedger
<1> QED
  BY <1>1, <1>2, <1>3, <1>4, <1>5

\* A call that settles on an outcome has a result to record.
LEMMA SettleType ==
    ASSUME TypeOK, NEW r \in Runners,
           NEW status \in Statuses, NEW disposition \in Dispositions,
           NEW source \in FileStates, Settle(r, status, disposition, source)
    PROVE  /\ Goto(r, "record")
           /\ pend'[r] \in Results
           /\ pend' \in [Runners -> Results \cup {NoResult}]
           /\ \A q \in Runners \ {r} : pend'[q] = pend[q]
  BY OutcomeType DEF Settle, TypeOK

LEMMA SettleObservedType ==
    ASSUME TypeOK, NEW r \in Runners, at[r] \in Items,
           NEW status \in Statuses, NEW found, SettleObserved(r, status, found)
    PROVE  /\ Goto(r, "record")
           /\ pend'[r] \in Results
           /\ pend' \in [Runners -> Results \cup {NoResult}]
           /\ \A q \in Runners \ {r} : pend'[q] = pend[q]
<1> DEFINE o == Outcome(r, status, "RECONCILED", expected[at[r]])
<1>1. o \in Results
  BY OutcomeType DEF TypeOK, Dispositions
<1>2. [o EXCEPT !.sourceAfter = Exists(seen[r]), !.destinationAfter = Exists(found)]
        \in Results
  BY <1>1 DEF Results, Exists
<1> QED
  BY <1>2 DEF SettleObserved, TypeOK

LEMMA FailsType ==
    ASSUME TypeOK, NEW r \in Runners, Fails(r)
    PROVE  /\ Goto(r, "record")
           /\ pend'[r] \in Results
           /\ pend' \in [Runners -> Results \cup {NoResult}]
           /\ \A q \in Runners \ {r} : pend'[q] = pend[q]
<1>1. seen[r] \in FileStates
  BY DEF TypeOK
<1>2. /\ "VERIFICATION_FAILED" \in Statuses /\ "FAILED" \in Statuses
      /\ "EXECUTED" \in Dispositions
  BY DEF Statuses, Dispositions
<1> QED
  BY <1>1, <1>2, SettleType DEF Fails

----------------------------------------------------------------------------
\* The invariant holds initially and after every step.

LEMMA InitIInv == Init => IInv
<1> SUFFICES ASSUME Init PROVE IInv
  OBVIOUS
<1>1. TypeOK
  BY PlanStatusType, ItemsAssumption, BoundsAssumption
  DEF Init, TypeOK, FileStates, Labels, ItemStates
<1> QED
  BY <1>1, NoResultAssumption
  DEF Init, IInv, RunsApproved, WorksOnApproved, HasOutcome, HasIntent,
      AuditsRecorded, ResultsAreApproved, ReportsRecorded, OnlyMovesUnlink,
      StartsAtFirst, IntentOrResult, AuditAgreesWithLedger,
      ReportAgreesWithLedger, AtItem, Intent

\* Preview, approval, time, edits and the loss of the process.
LEMMA EnvironmentKeepsIInv ==
    ASSUME IInv, CreateBatch \/ ApproveBatch \/ Tick \/ Edit \/ LoseProcess
    PROVE  IInv'
<1> USE ItemsAssumption, BoundsAssumption, NoResultAssumption
<1> USE DEF IInv, batchVars, ledgerVars, auditVars, runVars, boundVars
<1>1. CASE CreateBatch
  <2>1. \A r \in Runners : pc[r] = "idle"
    BY <1>1 DEF CreateBatch, RunsApproved, StatesOf
  <2>2. \A i \in Items : result[i] = NoResult
    BY <1>1 DEF CreateBatch, ResultsAreApproved, StatesOf
  <2>3. TypeOK'
    BY <1>1 DEF CreateBatch, TypeOK, FileStates
  <2> QED
    BY <1>1, <2>1, <2>2, <2>3
    DEF CreateBatch, RunsApproved, WorksOnApproved, HasOutcome, HasIntent,
        AuditsRecorded, ResultsAreApproved, ReportsRecorded, OnlyMovesUnlink,
        StartsAtFirst, IntentOrResult, AuditAgreesWithLedger,
        ReportAgreesWithLedger, AtItem, Intent
<1>2. CASE ApproveBatch
  <2>1. \A i \in Items : itemState[i] # "APPROVED"
    BY <1>2, ApprovedBatch DEF ApproveBatch, StatesOf
  <2>2. \A r \in Runners : pc[r] = "idle"
    BY <2>1 DEF RunsApproved
  <2>3. TypeOK'
    BY <1>2 DEF ApproveBatch, TypeOK
  <2> QED
    BY <1>2, <2>1, <2>2, <2>3
    DEF ApproveBatch, RunsApproved, WorksOnApproved, HasOutcome, HasIntent,
        AuditsRecorded, ResultsAreApproved, ReportsRecorded, OnlyMovesUnlink,
        StartsAtFirst, IntentOrResult, AuditAgreesWithLedger,
        ReportAgreesWithLedger, AtItem, Intent
<1>3. CASE Tick
  <2>1. TypeOK'
    BY <1>3 DEF Tick, TypeOK
  <2> QED
    BY <1>3, <2>1
    DEF Tick, RunsApproved, WorksOnApproved, HasOutcome, HasIntent,
        AuditsRecorded, ResultsAreApproved, ReportsRecorded, OnlyMovesUnlink,
        StartsAtFirst, IntentOrResult, AuditAgreesWithLedger,
        ReportAgreesWithLedger
<1>4. CASE Edit
  <2>1. TypeOK'
    BY <1>4 DEF Edit, TypeOK, FileStates
  <2> QED
    BY <1>4, <2>1
    DEF Edit, RunsApproved, WorksOnApproved, HasOutcome, HasIntent,
        AuditsRecorded, ResultsAreApproved, ReportsRecorded, OnlyMovesUnlink,
        StartsAtFirst, IntentOrResult, AuditAgreesWithLedger,
        ReportAgreesWithLedger
<1>5. CASE LoseProcess
  <2>1. TypeOK'
    BY <1>5, PlanStatusType
    DEF LoseProcess, TypeOK, FileStates, Labels, ItemStates
  <2> QED
    BY <1>5, <2>1
    DEF LoseProcess, RunsApproved, WorksOnApproved, HasOutcome, HasIntent,
        AuditsRecorded, ResultsAreApproved, ReportsRecorded, OnlyMovesUnlink,
        StartsAtFirst, IntentOrResult, AuditAgreesWithLedger,
        ReportAgreesWithLedger, AtItem, Intent
<1> QED
  BY <1>1, <1>2, <1>3, <1>4, <1>5

\* A call that starts, and the steps of a call that is between two items.
LEMMA LoopKeepsIInv ==
    ASSUME IInv, NEW r \in Runners,
           Start(r) \/ SkipItem(r) \/ ReplayItem(r) \/ LookupItem(r) \/ FinishRun(r)
    PROVE  IInv'
<1> USE ItemsAssumption, BoundsAssumption, NoResultAssumption
<1> USE DEF batchVars, ledgerVars, auditVars, boundVars
<1>0. TypeOK
  BY DEF IInv
<1>1. CASE Start(r)
  <2>1. \E i \in Items : itemState[i] = "APPROVED"
    BY <1>1, ApprovedBatch DEF Start, StatesOf
  <2>2. TypeOK'
    BY <1>0, <1>1 DEF Start, Goto, TypeOK, Labels, ItemStates
  <2>3. at[r] = 1
    BY <1>1 DEF Start, IInv, StartsAtFirst
  <2>4. /\ pc' = [pc EXCEPT ![r] = "lookup"]
        /\ report' = [report EXCEPT ![r] = itemState]
        /\ UNCHANGED <<fs, plan, itemState, expected, approval, inProgress, result,
                       audit, at, pend>>
    BY <1>1 DEF Start, Goto
  <2>5. RunsApproved' /\ WorksOnApproved' /\ HasOutcome'
    BY <1>0, <2>1, <2>4
    DEF IInv, TypeOK, RunsApproved, WorksOnApproved, HasOutcome, AtItem
  <2>6. HasIntent' /\ AuditsRecorded' /\ OnlyMovesUnlink' /\ StartsAtFirst'
    BY <1>0, <2>4
    DEF IInv, TypeOK, HasIntent, AuditsRecorded, OnlyMovesUnlink,
        StartsAtFirst, Intent, AtItem
  <2>7. ResultsAreApproved' /\ IntentOrResult' /\ AuditAgreesWithLedger'
    BY <2>4 DEF IInv, ResultsAreApproved, IntentOrResult,
                AuditAgreesWithLedger
  <2>8. ReportsRecorded' /\ ReportAgreesWithLedger'
    BY <1>0, <2>3, <2>4
    DEF IInv, TypeOK, ReportsRecorded, ReportAgreesWithLedger, Items
  <2> QED
    BY <2>2, <2>5, <2>6, <2>7, <2>8 DEF IInv
<1>2. CASE SkipItem(r)
  <2>1. MovesOn(r, itemState[at[r]])
    BY <1>0, <1>2 DEF SkipItem, MovesOn, TypeOK, ItemStates
  <2> QED
    BY <2>1, MovesOnKeepsIInv
<1>3. CASE ReplayItem(r)
  <2>1. MovesOn(r, result[at[r]].status)
    BY <1>0, <1>3
    DEF ReplayItem, Facing, Append, MovesOn, TypeOK, ItemStates, Results
  <2> QED
    BY <2>1, MovesOnKeepsIInv
<1>4. CASE LookupItem(r)
  <2>1. Advances(r, "progress")
    BY <1>0, <1>4 DEF LookupItem, Advances, AtItem, Labels, Intent, TypeOK
  <2> QED
    BY <2>1, AdvancesKeepsIInv
<1>5. CASE FinishRun(r)
  <2>1. TypeOK'
    BY <1>0, <1>5
    DEF FinishRun, Append, End, Goto, TypeOK, FileStates, Labels
  <2>2. \A i \in Items : i < at[r]
    BY <1>5 DEF FinishRun, Items
  <2>3. ReportAgreesWithLedger'
    BY <1>0, <1>5, <2>2
    DEF IInv, FinishRun, End, Goto, TypeOK, ReportsRecorded,
        ReportAgreesWithLedger
  <2>4. /\ pc' = [pc EXCEPT ![r] = "done"]
        /\ at' = [at EXCEPT ![r] = 1]
        /\ pend' = [pend EXCEPT ![r] = NoResult]
        /\ audit' = audit
        /\ pc[r] = "lookup"
        /\ UNCHANGED <<itemState, inProgress, result, report>>
    BY <1>5 DEF FinishRun, Append, End, Goto
  <2>5. RunsApproved' /\ WorksOnApproved' /\ HasOutcome'
    BY <1>0, <2>4
    DEF IInv, TypeOK, RunsApproved, WorksOnApproved, HasOutcome, AtItem
  <2>6. HasIntent' /\ AuditsRecorded' /\ OnlyMovesUnlink' /\ StartsAtFirst'
    BY <1>0, <2>4
    DEF IInv, TypeOK, HasIntent, AuditsRecorded, OnlyMovesUnlink,
        StartsAtFirst, Intent, AtItem
  <2>7. ResultsAreApproved' /\ IntentOrResult' /\ AuditAgreesWithLedger'
    BY <2>4 DEF IInv, ResultsAreApproved, IntentOrResult,
                AuditAgreesWithLedger
  <2>8. ReportsRecorded'
    BY <1>0, <2>4 DEF IInv, TypeOK, ReportsRecorded
  <2> QED
    BY <2>1, <2>3, <2>5, <2>6, <2>7, <2>8 DEF IInv
<1> QED
  BY <1>1, <1>2, <1>3, <1>4, <1>5

\* The steps before anything is executed: the lookups, the stale check, the
\* intent and its event, and a reconciliation.
LEMMA PreparationKeepsIInv ==
    ASSUME IInv, NEW r \in Runners,
           \/ CheckInProgress(r) \/ CheckStale(r) \/ RecordIntent(r)
           \/ AuditIntent(r) \/ ObserveSource(r) \/ ObserveDestination(r)
           \/ RecheckSource(r)
    PROVE  IInv'
<1> USE ItemsAssumption, BoundsAssumption, NoResultAssumption
<1> USE DEF batchVars, ledgerVars, auditVars, boundVars
<1>0. TypeOK /\ WorksOnApproved /\ HasIntent
  BY DEF IInv
<1> USE <1>0
<1>a. /\ {"BLOCKED", "SUCCEEDED", "VERIFICATION_FAILED"} \subseteq Statuses
      /\ {"EXECUTED", "RECONCILED", "PRECONDITION_BLOCKED"} \subseteq Dispositions
      /\ Absent \in FileStates
  BY DEF Statuses, Dispositions, FileStates
<1>1. CASE CheckInProgress(r)
  <2>1. Advances(r, IF at[r] \in inProgress THEN "observeSource" ELSE "stale")
    BY <1>1 DEF CheckInProgress, Advances, AtItem, Labels, Intent, TypeOK
  <2> QED
    BY <2>1, AdvancesKeepsIInv
<1>2. CASE CheckStale(r)
  <2>1. CASE Goto(r, "intent") /\ UNCHANGED pend
    <3>1. Advances(r, "intent")
      BY <1>2, <2>1 DEF CheckStale, Advances, AtItem, Labels, Intent, TypeOK
    <3> QED
      BY <3>1, AdvancesKeepsIInv
  <2>2. CASE Settle(r, "BLOCKED", "PRECONDITION_BLOCKED", Absent)
    <3>1. Advances(r, "record")
      BY <1>2, <1>a, <2>2, SettleType
      DEF CheckStale, Advances, AtItem, Labels, Intent, TypeOK
    <3> QED
      BY <3>1, AdvancesKeepsIInv
  <2> QED
    BY <1>2, <2>1, <2>2 DEF CheckStale
<1>3. CASE RecordIntent(r)
  <2>1. CASE result[at[r]] = NoResult
    <3>1. /\ at[r] \in Items
          /\ pc' = [pc EXCEPT ![r] = "auditIntent"]
          /\ inProgress' = inProgress \cup {at[r]}
          /\ UNCHANGED <<fs, batchVars, result, auditVars, at, now, seen, pend,
                         report, boundVars>>
      BY <1>3, <2>1 DEF RecordIntent, Goto, WorksOnApproved, AtItem, Labels
    <3>2. TypeOK'
      BY <3>1 DEF TypeOK, Labels
    <3> QED
      BY <1>3, <2>1, <3>1, <3>2
      DEF IInv, RecordIntent, TypeOK, RunsApproved, WorksOnApproved,
          HasOutcome, HasIntent, AuditsRecorded, ResultsAreApproved,
          ReportsRecorded, OnlyMovesUnlink, StartsAtFirst, IntentOrResult,
          AuditAgreesWithLedger, ReportAgreesWithLedger, AtItem, Intent,
          Labels
  <2>2. CASE result[at[r]] # NoResult
    BY <1>3, <2>2, AbortKeepsIInv DEF RecordIntent, TypeOK
  <2> QED
    BY <2>1, <2>2
<1>4. CASE AuditIntent(r)
  <2>1. Advances(r, "preflight")
    BY <1>4
    DEF AuditIntent, Append, Advances, AtItem, Labels, Intent, HasIntent,
        TypeOK
  <2> QED
    BY <2>1, AdvancesKeepsIInv
<1>5. CASE ObserveSource(r)
  <2>1. at[r] \in Items
    BY <1>5 DEF ObserveSource, WorksOnApproved, AtItem, Labels
  <2>2. Advances(r, "observeDestination")
    BY <1>5, <2>1
    DEF ObserveSource, Advances, AtItem, Labels, Intent, HasIntent, TypeOK
  <2> QED
    BY <2>2, AdvancesKeepsIInv
<1>6. CASE ObserveDestination(r)
  <2>1. at[r] \in Items
    BY <1>6 DEF ObserveDestination, WorksOnApproved, AtItem, Labels
  <2>2. CASE Goto(r, "recheck") /\ UNCHANGED pend
    <3>1. Advances(r, "recheck")
      BY <1>6, <2>2
      DEF ObserveDestination, Advances, AtItem, Labels, Intent, HasIntent,
          TypeOK
    <3> QED
      BY <3>1, AdvancesKeepsIInv
  <2>3. ASSUME NEW status \in Statuses,
               SettleObserved(r, status, fs[Dst[at[r]]])
        PROVE  IInv'
    <3>1. Advances(r, "record")
      BY <1>6, <2>1, <2>3, SettleObservedType
      DEF ObserveDestination, Advances, AtItem, Labels, Intent, TypeOK
    <3> QED
      BY <3>1, AdvancesKeepsIInv
  <2> QED
    BY <1>6, <1>a, <2>2, <2>3 DEF ObserveDestination
<1>7. CASE RecheckSource(r)
  <2>1. at[r] \in Items
    BY <1>7 DEF RecheckSource, WorksOnApproved, AtItem, Labels
  <2>2. CASE Goto(r, "auditIntent") /\ UNCHANGED pend
    <3>1. Advances(r, "auditIntent")
      BY <1>7, <2>2
      DEF RecheckSource, Advances, AtItem, Labels, Intent, HasIntent, TypeOK
    <3> QED
      BY <3>1, AdvancesKeepsIInv
  <2>3. CASE SettleObserved(r, "VERIFICATION_FAILED", Absent)
    <3>1. Advances(r, "record")
      BY <1>7, <1>a, <2>1, <2>3, SettleObservedType
      DEF RecheckSource, Advances, AtItem, Labels, Intent, TypeOK
    <3> QED
      BY <3>1, AdvancesKeepsIInv
  <2> QED
    BY <1>7, <2>2, <2>3 DEF RecheckSource
<1> QED
  BY <1>1, <1>2, <1>3, <1>4, <1>5, <1>6, <1>7

\* The steps of execute_file_operation.
LEMMA ExecutionKeepsIInv ==
    ASSUME IInv, NEW r \in Runners,
           \/ Preflight(r) \/ ReadSource(r) \/ DiskError(r)
           \/ CreateDestination(r) \/ CopyContent(r) \/ VerifyCopy(r)
           \/ UnlinkSource(r) \/ VerifyResult(r)
    PROVE  IInv'
<1> USE ItemsAssumption
<1> USE DEF batchVars, ledgerVars, auditVars, boundVars
<1>0. TypeOK /\ WorksOnApproved /\ HasIntent /\ OnlyMovesUnlink
  BY DEF IInv
<1> USE <1>0
<1>a. /\ {"BLOCKED", "SUCCEEDED", "VERIFICATION_FAILED"} \subseteq Statuses
      /\ "EXECUTED" \in Dispositions
      /\ Absent \in FileStates /\ Partial \in FileStates
  BY DEF Statuses, Dispositions, FileStates
<1>b. /\ pc[r] \in Intent /\ pc[r] \in AtItem
      /\ at[r] \in Items
      /\ at[r] \in inProgress \/ result[at[r]] # NoResult
      /\ seen[r] \in FileStates
      /\ Src[at[r]] \in Paths /\ Dst[at[r]] \in Paths
  <2>1. pc[r] \in Intent /\ pc[r] \in AtItem
    BY DEF Preflight, ReadSource, DiskError, CreateDestination, CopyContent,
           VerifyCopy, UnlinkSource, VerifyResult, Intent, AtItem, Labels
  <2> QED
    BY <2>1 DEF WorksOnApproved, HasIntent, TypeOK
<1>c. /\ fs' \in [Paths -> FileStates]
      /\ seen' \in [Runners -> FileStates]
      /\ UNCHANGED <<batchVars, ledgerVars, auditVars, at, now, report, boundVars>>
  <2>1. CASE Preflight(r) \/ ReadSource(r) \/ DiskError(r) \/ VerifyResult(r)
    BY <2>1, <1>b DEF Preflight, ReadSource, DiskError, VerifyResult, TypeOK
  <2>2. CASE CreateDestination(r)
    BY <2>2, <1>a, <1>b DEF CreateDestination, TypeOK
  <2>3. CASE CopyContent(r)
    <3>1. Copied(r) \subseteq FileStates
      BY <1>a, <1>b DEF Copied, TypeOK
    <3> QED
      BY <2>3, <3>1, <1>a, <1>b DEF CopyContent, TypeOK
  <2>4. CASE VerifyCopy(r)
    BY <2>4 DEF VerifyCopy, TypeOK
  <2>5. CASE UnlinkSource(r)
    BY <2>5, <1>a, <1>b DEF UnlinkSource, TypeOK
  <2> QED
    BY <2>1, <2>2, <2>3, <2>4, <2>5
\* The call either goes on, or settles on a result.
<1>1. ASSUME NEW step \in {"readSource", "create", "copy", "verifyCopy", "unlink",
                           "verifyResult"},
             Goto(r, step), UNCHANGED pend, step = "unlink" => Op = "MOVE"
      PROVE  IInv'
  <2>1. Advances(r, step)
    BY <1>1, <1>b, <1>c DEF Advances, AtItem, Intent, Labels, TypeOK
  <2> QED
    BY <2>1, AdvancesKeepsIInv
<1>2. ASSUME NEW status \in Statuses, NEW source \in FileStates,
             Settle(r, status, "EXECUTED", source)
      PROVE  IInv'
  <2>1. Advances(r, "record")
    BY <1>2, <1>a, <1>b, <1>c, SettleType
    DEF Advances, AtItem, Intent, Labels, TypeOK
  <2> QED
    BY <2>1, AdvancesKeepsIInv
<1>3. ASSUME Fails(r) PROVE IInv'
  <2>1. Advances(r, "record")
    BY <1>3, <1>b, <1>c, FailsType DEF Advances, AtItem, Intent, Labels, TypeOK
  <2> QED
    BY <2>1, AdvancesKeepsIInv
<1>4. CASE Preflight(r)
  BY <1>1, <1>2, <1>4, <1>a DEF Preflight
<1>5. CASE ReadSource(r)
  BY <1>1, <1>2, <1>5, <1>a DEF ReadSource
<1>6. CASE DiskError(r)
  BY <1>3, <1>6 DEF DiskError
<1>7. CASE CreateDestination(r)
  BY <1>1, <1>2, <1>3, <1>7, <1>a, <1>b DEF CreateDestination
<1>8. CASE CopyContent(r)
  BY <1>1, <1>3, <1>8 DEF CopyContent
<1>9. CASE VerifyCopy(r)
  BY <1>1, <1>2, <1>3, <1>9, <1>a, <1>b DEF VerifyCopy
<1>10. CASE UnlinkSource(r)
  BY <1>1, <1>3, <1>10 DEF UnlinkSource
<1>11. CASE VerifyResult(r)
  BY <1>2, <1>11, <1>a, <1>b DEF VerifyResult
<1> QED
  BY <1>4, <1>5, <1>6, <1>7, <1>8, <1>9, <1>10, <1>11

\* The result is recorded and audited, or something raises.
LEMMA RecordingKeepsIInv ==
    ASSUME IInv, NEW r \in Runners,
           RecordResult(r) \/ AuditResult(r) \/ AuditRefuses(r) \/ Crash(r)
    PROVE  IInv'
<1> USE ItemsAssumption, BoundsAssumption, NoResultAssumption
<1> USE DEF batchVars, ledgerVars, auditVars, boundVars
<1>0. TypeOK /\ WorksOnApproved /\ HasOutcome /\ AuditsRecorded
  BY DEF IInv
<1> USE <1>0
<1>1. CASE RecordResult(r)
  <2>0. at[r] \in Items /\ itemState[at[r]] = "APPROVED" /\ pend[r] \in Results
    BY <1>1 DEF RecordResult, WorksOnApproved, HasOutcome, AtItem, Labels
  <2>1. CASE result[at[r]] \in {NoResult, pend[r]}
    <3>1. /\ pc[r] = "record"
          /\ pc' = [pc EXCEPT ![r] = "auditResult"]
          /\ result' = [result EXCEPT ![at[r]] = pend[r]]
          /\ inProgress' = inProgress \ {at[r]}
          /\ UNCHANGED <<fs, batchVars, auditVars, at, now, seen, pend, report,
                         boundVars>>
      BY <1>1, <2>1 DEF RecordResult, Goto
    <3>2. \A i \in Items : result[i] # NoResult => result'[i] = result[i]
      BY <2>0, <2>1, <3>1 DEF TypeOK
    <3>3. TypeOK'
      BY <2>0, <3>1 DEF TypeOK, Labels
    <3>4. RunsApproved' /\ WorksOnApproved' /\ HasOutcome'
      BY <2>0, <3>1
      DEF IInv, TypeOK, RunsApproved, WorksOnApproved, HasOutcome
    <3>5. HasIntent' /\ AuditsRecorded'
      <4>1. ASSUME NEW q \in Runners, pc'[q] = "auditResult"
            PROVE  result'[at[q]] = pend[q]
        <5>1. CASE q = r
          BY <2>0, <3>1, <5>1 DEF TypeOK
        <5>2. CASE q # r
          <6>1. /\ pc[q] = "auditResult" /\ at[q] \in Items
                /\ result[at[q]] = pend[q] /\ pend[q] \in Results
            BY <3>1, <4>1, <5>2
            DEF TypeOK, WorksOnApproved, HasOutcome, AuditsRecorded, AtItem, Labels
          <6> QED
            BY <3>2, <6>1
        <5> QED
          BY <5>1, <5>2
      <4>2. ASSUME NEW q \in Runners, pc'[q] \in Intent
            PROVE  at[q] \in inProgress' \/ result'[at[q]] # NoResult
        <5>1. pc[q] \in Intent /\ at[q] \in Items
          BY <3>1, <4>2 DEF TypeOK, WorksOnApproved, Intent, AtItem, Labels
        <5>2. at[q] \in inProgress \/ result[at[q]] # NoResult
          BY <5>1 DEF IInv, HasIntent
        <5> QED
          BY <2>0, <3>1, <5>1, <5>2 DEF TypeOK
      <4> QED
        BY <3>1, <4>1, <4>2 DEF HasIntent, AuditsRecorded
    <3>6. OnlyMovesUnlink' /\ StartsAtFirst'
      BY <3>1 DEF IInv, TypeOK, OnlyMovesUnlink, StartsAtFirst
    <3>7. ResultsAreApproved' /\ IntentOrResult'
      BY <2>0, <3>1 DEF IInv, TypeOK, ResultsAreApproved, IntentOrResult
    <3>8. AuditAgreesWithLedger'
      BY <3>1, <3>2 DEF IInv, TypeOK, AuditAgreesWithLedger
    <3>9. ReportsRecorded' /\ ReportAgreesWithLedger'
      BY <3>1, <3>2 DEF IInv, TypeOK, ReportsRecorded, ReportAgreesWithLedger
    <3> QED
      BY <3>3, <3>4, <3>5, <3>6, <3>7, <3>8, <3>9 DEF IInv
  <2>2. CASE result[at[r]] \notin {NoResult, pend[r]}
    BY <1>1, <2>2, AbortKeepsIInv DEF RecordResult, TypeOK
  <2> QED
    BY <2>1, <2>2
<1>2. CASE AuditResult(r)
  <2>1. at[r] \in Items /\ pend[r] \in Results /\ result[at[r]] = pend[r]
        /\ itemState[at[r]] = "APPROVED" /\ now[r] \in 0..MaxClock
    BY <1>2
    DEF AuditResult, WorksOnApproved, HasOutcome, AuditsRecorded, AtItem, Labels,
        TypeOK
  <2>2. MovesOn(r, pend[r].status)
    BY <1>2, <2>1 DEF AuditResult, Append, MovesOn, ItemStates, Results
  <2> QED
    BY <2>2, MovesOnKeepsIInv
<1>3. CASE AuditRefuses(r)
  BY <1>3, AbortKeepsIInv DEF AuditRefuses, TypeOK
<1>4. CASE Crash(r)
  BY <1>4, AbortKeepsIInv DEF Crash, TypeOK
<1> QED
  BY <1>1, <1>2, <1>3, <1>4

LEMMA NextKeepsIInv == IInv /\ [Next]_vars => IInv'
<1> SUFFICES ASSUME IInv, [Next]_vars PROVE IInv'
  OBVIOUS
<1>1. CASE UNCHANGED vars
  BY <1>1
  DEF vars, batchVars, ledgerVars, auditVars, runVars, boundVars, IInv, TypeOK,
      RunsApproved, WorksOnApproved, HasOutcome, HasIntent, AuditsRecorded,
      ResultsAreApproved, ReportsRecorded, OnlyMovesUnlink, StartsAtFirst,
      IntentOrResult, AuditAgreesWithLedger, ReportAgreesWithLedger
<1>2. ASSUME NEW r \in Runners, Step(r) PROVE IInv'
  BY <1>2, LoopKeepsIInv, PreparationKeepsIInv, ExecutionKeepsIInv,
     RecordingKeepsIInv
  DEF Step
<1> QED
  BY <1>1, <1>2, EnvironmentKeepsIInv, LoopKeepsIInv, RecordingKeepsIInv DEF Next

----------------------------------------------------------------------------
\* What follows for every behavior.

\* The invariant holds in every reachable state.
THEOREM InvariantHolds == Spec => []IInv
<1> QED
  BY InitIInv, NextKeepsIInv, PTL DEF Spec

\* Every variable of the executor stays in its type, whatever is edited,
\* interrupted, repeated or run at the same time.
THEOREM TypeCorrect == Spec => []TypeOK
<1>1. IInv => TypeOK
  BY DEF IInv
<1> QED
  BY <1>1, InvariantHolds, PTL

\* The ledger never holds an intent beside a result for the same key: an item
\* that is settled is never reconciled or executed again.
THEOREM SettledOnce == Spec => []IntentOrResult
<1>1. IInv => IntentOrResult
  BY DEF IInv
<1> QED
  BY <1>1, InvariantHolds, PTL

\* The audit trail never says of an item what the ledger does not say.
THEOREM AuditIsLedger == Spec => []AuditAgreesWithLedger
<1>1. IInv => AuditAgreesWithLedger
  BY DEF IInv
<1> QED
  BY <1>1, InvariantHolds, PTL

\* A batch report agrees with the ledger on every approved item, however many
\* calls overlapped and however many were interrupted before.
THEOREM ReportIsLedger == Spec => []ReportAgreesWithLedger
<1>1. IInv => ReportAgreesWithLedger
  BY DEF IInv
<1> QED
  BY <1>1, InvariantHolds, PTL

\* record_result never replaces the terminal result of a living batch.
THEOREM ResultsAreFinal == Spec => TerminalResultStable
<1> DEFINE Stable == \A i \in Items : result[i] # NoResult
                        /\ itemState'[i] = itemState[i] => result'[i] = result[i]
<1>1. IInv /\ [Next]_vars => [Stable]_vars
  <2> SUFFICES ASSUME IInv, [Next]_vars,
                      NEW i \in Items, result[i] # NoResult,
                      itemState'[i] = itemState[i]
               PROVE  result'[i] = result[i]
    OBVIOUS
  <2>0. TypeOK /\ itemState[i] = "APPROVED"
    BY DEF IInv, ResultsAreApproved
  <2>1. CASE LoseProcess
    BY <2>0, <2>1 DEF LoseProcess
  <2>2. CASE \E r \in Runners : RecordResult(r)
    BY <2>0, <2>2 DEF RecordResult, TypeOK, ledgerVars
  <2>3. CASE /\ ~LoseProcess
             /\ \A r \in Runners : ~RecordResult(r)
    <3>1. UNCHANGED result
      BY <2>3
      DEF Next, Step, CreateBatch, ApproveBatch, Tick, Edit, Start, Crash,
          SkipItem, ReplayItem, LookupItem, CheckInProgress, CheckStale,
          RecordIntent, AuditIntent, AuditRefuses, ObserveSource,
          ObserveDestination, RecheckSource, Preflight, ReadSource,
          CreateDestination, CopyContent, VerifyCopy, UnlinkSource, VerifyResult,
          DiskError, AuditResult, FinishRun, vars, ledgerVars
    <3> QED
      BY <3>1
  <2> QED
    BY <2>1, <2>2, <2>3
<1> QED
  BY <1>1, InvariantHolds, PTL DEF Spec, TerminalResultStable

\* Only a call that creates a destination, writes to it or unlinks a source
\* changes a file, and only in these ways.
LEMMA Mutations ==
    ASSUME IInv, [Next]_vars, NEW p \in Paths, Moved(p)
    PROVE  \E r \in Runners :
              /\ pc[r] \in {"create", "copy", "unlink"}
              /\ \/ p = Dst[at[r]] /\ fs[p] \in {Absent, Partial}
                 \/ /\ pc[r] = "unlink"
                    /\ p = Src[at[r]] /\ fs'[p] = Absent /\ Op = "MOVE"
<1>0. TypeOK /\ OnlyMovesUnlink /\ fs'[p] # fs[p] /\ edits' = edits
  BY DEF IInv, Moved
<1>1. CASE Edit
  <2>1. edits' = edits + 1 /\ edits \in Nat
    BY <1>0, <1>1, BoundsAssumption DEF Edit, TypeOK
  <2> QED
    BY <1>0, <2>1
<1>2. CASE \E r \in Runners : CreateDestination(r)
  <2>1. PICK r \in Runners : CreateDestination(r)
    BY <1>2
  <2>2. p = Dst[at[r]] /\ fs[p] = Absent
    BY <1>0, <2>1 DEF CreateDestination, Exists, TypeOK
  <2> QED
    BY <2>1, <2>2 DEF CreateDestination
<1>3. CASE \E r \in Runners : CopyContent(r)
  <2>1. PICK r \in Runners : CopyContent(r)
    BY <1>3
  <2>2. p = Dst[at[r]] /\ fs[p] = Partial
    BY <1>0, <2>1 DEF CopyContent, TypeOK
  <2> QED
    BY <2>1, <2>2 DEF CopyContent
<1>4. CASE \E r \in Runners : UnlinkSource(r)
  <2>1. PICK r \in Runners : UnlinkSource(r)
    BY <1>4
  <2>2. p = Src[at[r]] /\ fs'[p] = Absent
    BY <1>0, <2>1 DEF UnlinkSource, TypeOK
  <2> QED
    BY <1>0, <2>1, <2>2 DEF UnlinkSource, OnlyMovesUnlink
<1>5. CASE /\ ~Edit
           /\ \A r \in Runners :
                 ~CreateDestination(r) /\ ~CopyContent(r) /\ ~UnlinkSource(r)
  <2>1. UNCHANGED fs
    BY <1>5
    DEF Next, Step, CreateBatch, ApproveBatch, Tick, LoseProcess, Start, Crash,
        SkipItem, ReplayItem, LookupItem, CheckInProgress, CheckStale,
        RecordIntent, AuditIntent, AuditRefuses, ObserveSource,
        ObserveDestination, RecheckSource, Preflight, ReadSource, VerifyCopy,
        VerifyResult, DiskError, RecordResult, AuditResult, FinishRun, vars
  <2> QED
    BY <1>0, <2>1
<1> QED
  BY <1>1, <1>2, <1>3, <1>4, <1>5

\* The executor touches only the two files of an approved item whose intent, or
\* result, is in the ledger.
THEOREM MutationsAreIntended == Spec => MutationIsIntended
<1> DEFINE Intended ==
             \A p \in Paths : Moved(p) =>
                \E i \in Items : /\ p \in {Src[i], Dst[i]}
                                 /\ itemState[i] = "APPROVED"
                                 /\ i \in inProgress \/ result[i] # NoResult
<1>1. IInv /\ [Next]_vars => [Intended]_vars
  <2> SUFFICES ASSUME IInv, [Next]_vars, NEW p \in Paths, Moved(p)
               PROVE  \E i \in Items :
                         /\ p \in {Src[i], Dst[i]}
                         /\ itemState[i] = "APPROVED"
                         /\ i \in inProgress \/ result[i] # NoResult
    OBVIOUS
  <2>1. PICK r \in Runners : /\ pc[r] \in {"create", "copy", "unlink"}
                             /\ p \in {Src[at[r]], Dst[at[r]]}
    BY Mutations
  <2>2. pc[r] \in AtItem /\ pc[r] \in Intent
    BY <2>1 DEF AtItem, Intent, Labels
  <2> QED
    BY <2>1, <2>2 DEF IInv, WorksOnApproved, HasIntent
<1> QED
  BY <1>1, InvariantHolds, PTL DEF Spec, MutationIsIntended

\* The executor never writes over a complete file, also when a file appears at
\* the destination after the plan was checked.
THEOREM CompleteFilesAreSafe == Spec => NeverOverwrites
<1> DEFINE Safe == \A p \in Paths : Moved(p) =>
                      \/ fs[p] \in {Absent, Partial}
                      \/ fs'[p] = Absent /\ Op = "MOVE"
<1>1. IInv /\ [Next]_vars => [Safe]_vars
  BY Mutations
<1> QED
  BY <1>1, InvariantHolds, PTL DEF Spec, NeverOverwrites

----------------------------------------------------------------------------
\* The files, as long as their owner leaves them alone.

\* Items the executor may still touch.
Live(i) == itemState[i] \in {"PLANNED", "APPROVED"}

\* A batch that was not created yet is created from what the disk holds.
PlansAreTrue ==
    \A i, k \in Items : itemState[i] = "NEW" =>
        itemState[k] = "NEW" /\ plan[i] = PlanStatus(fs, i)

\* All items of a batch are approved together.
ApprovedTogether ==
    \A i, k \in Items : itemState[i] = "PLANNED" => itemState[k] # "APPROVED"

\* No item's source is another's destination: the one was there, the other not.
SourcesApart ==
    \A i \in Items : Live(i) =>
        expected[i] # Absent /\ \A k \in Items : Live(k) => Src[i] # Dst[k]

\* A source is as it was approved, or gone.
SourcesKept ==
    \A i \in Items :
        /\ itemState[i] = "PLANNED" => fs[Src[i]] = expected[i]
        /\ itemState[i] = "APPROVED" => fs[Src[i]] \in {expected[i], Absent}

\* What a call read of a source is what was approved, and a source it found
\* gone stays away; a complete copy stays what it was verified to be; a success
\* it is about to record is real.
TrueCall(r) ==
    /\ pc[r] \in {"create", "copy", "verifyCopy", "unlink", "verifyResult"}
          => seen[r] = expected[at[r]]
    /\ pc[r] = "observeDestination" /\ ~Exists(seen[r]) => fs[Src[at[r]]] = Absent
    /\ pc[r] \in {"unlink", "verifyResult"} /\ expected[at[r]] \in Contents
          => fs[Dst[at[r]]] = expected[at[r]]
    /\ /\ pc[r] \in {"record", "auditResult"}
       /\ pend[r].status = "SUCCEEDED"
       /\ expected[at[r]] \in Contents
       => Real(at[r])

CallsAreTrue == \A r \in Runners : TrueCall(r)

FilesInv ==
    /\ PlansAreTrue
    /\ ApprovedTogether
    /\ SourcesApart
    /\ SourcesKept
    /\ CallsAreTrue
    /\ SuccessIsReal

\* A call in the middle of an item works on a live one.
LEMMA CallsAreLive ==
    ASSUME IInv, NEW r \in Runners, pc[r] \in AtItem
    PROVE  at[r] \in Items /\ itemState[at[r]] = "APPROVED" /\ Live(at[r])
  BY DEF IInv, WorksOnApproved, Live

\* While nobody edits, a step leaves an item's source as it is or removes it,
\* and leaves a complete file at its destination alone.
LEMMA FilesStand ==
    ASSUME IInv, SourcesApart, [Next]_vars, edits' = edits,
           NEW i \in Items, Live(i)
    PROVE  /\ fs'[Src[i]] \in {fs[Src[i]], Absent}
           /\ fs[Dst[i]] \in Contents => fs'[Dst[i]] = fs[Dst[i]]
<1>0. Src[i] \in Paths /\ Dst[i] \in Paths
  BY ItemsAssumption
<1>1. ASSUME NEW p \in Paths, Moved(p)
      PROVE  \E k \in Items :
                /\ Live(k)
                /\ \/ p = Dst[k] /\ fs[p] \in {Absent, Partial}
                   \/ p = Src[k] /\ fs'[p] = Absent
  <2>1. PICK r \in Runners :
           /\ pc[r] \in {"create", "copy", "unlink"}
           /\ \/ p = Dst[at[r]] /\ fs[p] \in {Absent, Partial}
              \/ p = Src[at[r]] /\ fs'[p] = Absent /\ Op = "MOVE"
    BY <1>1, Mutations
  <2>2. pc[r] \in AtItem
    BY <2>1 DEF AtItem, Labels
  <2> QED
    BY <2>1, <2>2, CallsAreLive
<1>2. fs'[Src[i]] \in {fs[Src[i]], Absent}
  <2> SUFFICES ASSUME fs'[Src[i]] # fs[Src[i]] PROVE fs'[Src[i]] = Absent
    OBVIOUS
  <2> QED
    BY <1>0, <1>1 DEF Moved, SourcesApart
<1>3. ASSUME fs[Dst[i]] \in Contents, fs'[Dst[i]] # fs[Dst[i]] PROVE FALSE
  BY <1>0, <1>1, <1>3, ContentsAssumption DEF Moved, SourcesApart
<1> QED
  BY <1>2, <1>3

\* So a success that was real stays real.
LEMMA RealStands ==
    ASSUME IInv, SourcesApart, [Next]_vars, edits' = edits, UNCHANGED expected,
           NEW i \in Items, Live(i), expected[i] \in Contents, Real(i)
    PROVE  Real(i)'
  BY FilesStand DEF Real, Exists

\* A step of a call keeps FilesInv, if what it says of the call itself is true
\* and it records no result but the one it settled on.
LEMMA CallKeepsFilesInv ==
    ASSUME IInv, FilesInv, edits = 0, [Next]_vars, edits' = edits,
           UNCHANGED batchVars,
           NEW r \in Runners, pc[r] # "idle" \/ UNCHANGED fs,
           \A q \in Runners \ {r} : /\ pc'[q] = pc[q] /\ at'[q] = at[q]
                                    /\ seen'[q] = seen[q] /\ pend'[q] = pend[q],
           \A i \in Items : \/ result'[i] = result[i]
                            \/ pc[r] = "record" /\ i = at[r] /\ result'[i] = pend[r],
           TrueCall(r)'
    PROVE  FilesInv'
<1>0. UNCHANGED <<plan, itemState, expected>>
  BY DEF batchVars
<1>1. PlansAreTrue'
  <2>1. CASE UNCHANGED fs
    BY <1>0, <2>1 DEF FilesInv, PlansAreTrue, PlanStatus, SourceMissing,
                      DestinationCollides
  <2>2. CASE pc[r] # "idle"
    BY <1>0, <2>2 DEF FilesInv, PlansAreTrue, IInv, RunsApproved
  <2> QED
    BY <2>1, <2>2
<1>2. ApprovedTogether' /\ SourcesApart'
  BY <1>0 DEF FilesInv, ApprovedTogether, SourcesApart, Live
<1>3. SourcesKept'
  <2> SUFFICES ASSUME NEW i \in Items
               PROVE  /\ itemState[i] = "PLANNED" => fs'[Src[i]] = expected[i]
                      /\ itemState[i] = "APPROVED" =>
                            fs'[Src[i]] \in {expected[i], Absent}
    BY <1>0 DEF SourcesKept
  <2>1. CASE itemState[i] = "APPROVED"
    BY <2>1, FilesStand DEF FilesInv, SourcesKept, Live
  <2>2. CASE itemState[i] = "PLANNED"
    <3>1. UNCHANGED fs
      BY <2>2 DEF FilesInv, ApprovedTogether, IInv, RunsApproved
    <3> QED
      BY <2>2, <3>1 DEF FilesInv, SourcesKept
  <2> QED
    BY <2>1, <2>2
<1>4. CallsAreTrue'
  <2> SUFFICES ASSUME NEW q \in Runners \ {r} PROVE TrueCall(q)'
    BY DEF CallsAreTrue
  <2>1. TrueCall(q)
    BY DEF FilesInv, CallsAreTrue
  <2>2. CASE pc[q] \in AtItem
    <3>1. at[q] \in Items /\ Live(at[q])
      BY <2>2, CallsAreLive
    <3>2. fs'[Src[at[q]]] \in {fs[Src[at[q]]], Absent}
      BY <3>1, FilesStand DEF FilesInv
    <3>3. fs[Dst[at[q]]] \in Contents => fs'[Dst[at[q]]] = fs[Dst[at[q]]]
      BY <3>1, FilesStand DEF FilesInv
    <3>4. expected[at[q]] \in Contents /\ Real(at[q]) => Real(at[q])'
      BY <1>0, <3>1, RealStands DEF FilesInv
    <3> QED
      BY <1>0, <2>1, <3>2, <3>3, <3>4 DEF TrueCall, Real
  <2>3. CASE pc[q] \notin AtItem
    BY <2>3 DEF TrueCall, AtItem, Labels
  <2> QED
    BY <2>2, <2>3
<1>5. SuccessIsReal'
  <2> SUFFICES ASSUME NEW i \in Items, result'[i] # NoResult,
                      result'[i].status = "SUCCEEDED", expected[i] \in Contents
               PROVE  Real(i)'
    BY <1>0 DEF SuccessIsReal
  <2>1. Live(i) /\ Real(i)
    <3>1. CASE result'[i] = result[i]
      BY <3>1 DEF FilesInv, SuccessIsReal, IInv, ResultsAreApproved, Live
    <3>2. CASE pc[r] = "record" /\ i = at[r] /\ result'[i] = pend[r]
      BY <3>2, CallsAreLive DEF FilesInv, CallsAreTrue, TrueCall, AtItem, Labels
    <3> QED
      BY <3>1, <3>2
  <2> QED
    BY <1>0, <2>1, RealStands DEF FilesInv
<1> QED
  BY <1>1, <1>2, <1>3, <1>4, <1>5 DEF FilesInv

LEMMA InitFilesInv == Init => FilesInv
  BY DEF Init, FilesInv, PlansAreTrue, ApprovedTogether, SourcesApart, Live,
         SourcesKept, CallsAreTrue, TrueCall, SuccessIsReal

\* Preview, approval, time and the loss of the process keep it too.
LEMMA EnvironmentKeepsFilesInv ==
    ASSUME IInv, FilesInv, edits = 0,
           CreateBatch \/ ApproveBatch \/ Tick \/ LoseProcess
    PROVE  FilesInv'
<1> USE DEF batchVars, ledgerVars, auditVars, runVars, boundVars
<1>1. CASE CreateBatch
  <2>1. \A i \in Items : itemState[i] = "NEW" /\ plan[i] = PlanStatus(fs, i)
    BY <1>1 DEF CreateBatch, StatesOf, FilesInv, PlansAreTrue
  <2>2. /\ \A r \in Runners : pc[r] = "idle"
        /\ \A i \in Items : result[i] = NoResult
    BY <2>1 DEF IInv, RunsApproved, ResultsAreApproved
  <2>3. ASSUME NEW i \in Items, itemState'[i] \in {"PLANNED", "APPROVED", "NEW"}
        PROVE  /\ itemState'[i] = "PLANNED"
               /\ expected'[i] = fs[Src[i]] /\ expected'[i] # Absent
               /\ fs[Src[i]] # Absent /\ fs[Dst[i]] = Absent
    <3>1. itemState'[i] = IF Exists(expected'[i]) THEN "PLANNED" ELSE "BLOCKED"
      BY <1>1 DEF CreateBatch
    <3>2. itemState'[i] = "PLANNED" /\ expected'[i] # Absent
      BY <2>3, <3>1 DEF Exists
    <3>3. expected'[i] = IF plan[i] = "READY" THEN fs[Src[i]] ELSE Absent
      BY <1>1 DEF CreateBatch
    <3> QED
      BY <2>1, <3>2, <3>3
      DEF PlanStatus, SourceMissing, DestinationCollides, Exists
  <2>4. PlansAreTrue' /\ ApprovedTogether' /\ SourcesApart' /\ SourcesKept'
    BY <1>1, <2>3
    DEF CreateBatch, PlansAreTrue, ApprovedTogether, SourcesApart, SourcesKept, Live
  <2>5. CallsAreTrue' /\ SuccessIsReal'
    BY <1>1, <2>2 DEF CreateBatch, CallsAreTrue, TrueCall, SuccessIsReal
  <2> QED
    BY <2>4, <2>5 DEF FilesInv
<1>2. CASE ApproveBatch
  <2>1. \A i \in Items : itemState[i] # "APPROVED"
    BY <1>2, ApprovedBatch DEF ApproveBatch, StatesOf
  <2>2. /\ \A r \in Runners : pc[r] = "idle"
        /\ \A i \in Items : result[i] = NoResult
    BY <2>1 DEF IInv, RunsApproved, ResultsAreApproved
  <2>3. \A i \in Items : itemState'[i] = IF itemState[i] = "PLANNED"
                                         THEN "APPROVED" ELSE itemState[i]
    BY <1>2 DEF ApproveBatch
  <2>4. UNCHANGED <<fs, plan, expected, pc, result>>
    BY <1>2 DEF ApproveBatch
  <2>5. \E i \in Items : itemState[i] = "PLANNED"
    BY <1>2 DEF ApproveBatch, DeriveBatchState, StatesOf
  <2>6. PlansAreTrue' /\ ApprovedTogether' /\ SourcesApart' /\ SourcesKept'
    BY <2>1, <2>3, <2>4, <2>5
    DEF FilesInv, PlansAreTrue, ApprovedTogether, SourcesApart, SourcesKept,
        Live, PlanStatus, SourceMissing, DestinationCollides
  <2>7. CallsAreTrue' /\ SuccessIsReal'
    BY <2>2, <2>4 DEF CallsAreTrue, TrueCall, SuccessIsReal
  <2> QED
    BY <2>6, <2>7 DEF FilesInv
<1>3. CASE Tick
  BY <1>3
  DEF Tick, FilesInv, PlansAreTrue, ApprovedTogether, SourcesApart, Live,
      SourcesKept, CallsAreTrue, TrueCall, SuccessIsReal, Real, PlanStatus,
      SourceMissing, DestinationCollides
<1>4. CASE LoseProcess
  BY <1>4
  DEF LoseProcess, FilesInv, PlansAreTrue, ApprovedTogether, SourcesApart, Live,
      SourcesKept, CallsAreTrue, TrueCall, SuccessIsReal, PlanStatus,
      SourceMissing, DestinationCollides
<1> QED
  BY <1>1, <1>2, <1>3, <1>4

\* What a step of call r says of call r.
LEMMA CallTellsTruth ==
    ASSUME IInv, FilesInv, edits = 0, [Next]_vars, edits' = edits,
           NEW r \in Runners, Step(r)
    PROVE  TrueCall(r)'
<1> USE DEF batchVars, ledgerVars, auditVars, boundVars
<1>0. TypeOK /\ SourcesApart /\ SourcesKept /\ TrueCall(r)
  BY DEF IInv, FilesInv, CallsAreTrue
<1>a. pc[r] \in AtItem =>
        /\ at[r] \in Items /\ Live(at[r])
        /\ fs[Src[at[r]]] \in {expected[at[r]], Absent} /\ expected[at[r]] # Absent
        /\ fs'[Src[at[r]]] \in {fs[Src[at[r]]], Absent}
        /\ fs[Dst[at[r]]] \in Contents => fs'[Dst[at[r]]] = fs[Dst[at[r]]]
  BY <1>0, CallsAreLive, FilesStand DEF SourcesKept, SourcesApart
<1>1. CASE pc'[r] \notin {"create", "copy", "verifyCopy", "unlink", "verifyResult",
                          "observeDestination", "record", "auditResult"}
  BY <1>1 DEF TrueCall
<1>2. CASE pc'[r] = "record" /\ pend'[r].status # "SUCCEEDED"
  BY <1>2 DEF TrueCall
<1>3. CASE ObserveSource(r)
  BY <1>0, <1>3 DEF ObserveSource, Goto, TypeOK, TrueCall, Exists
<1>4. CASE ObserveDestination(r)
  <2>1. CASE Goto(r, "recheck")
    BY <1>0, <1>1, <2>1 DEF Goto, TypeOK
  <2>2. CASE SettleObserved(r, "VERIFICATION_FAILED", fs[Dst[at[r]]])
    BY <1>0, <1>2, <2>2 DEF SettleObserved, Outcome, Goto, TypeOK
  <2>3. CASE /\ fs[Dst[at[r]]] = expected[at[r]]
             /\ Exists(seen[r]) <=> Op = "COPY"
             /\ Goto(r, "record")
    <3>1. Op = "MOVE" => fs[Src[at[r]]] = Absent
      BY <1>0, <1>4, <2>3 DEF ObserveDestination, TrueCall, Exists
    <3>2. Real(at[r])'
      BY <1>4, <2>3, <3>1 DEF ObserveDestination, Real, Exists
    <3> QED
      BY <1>0, <2>3, <3>2 DEF Goto, TypeOK, TrueCall
  <2> QED
    BY <1>4, <2>1, <2>2, <2>3 DEF ObserveDestination, SettleObserved
<1>5. CASE ReadSource(r)
  BY <1>0, <1>1, <1>2, <1>5, <1>a
  DEF ReadSource, Settle, Outcome, Goto, TypeOK, TrueCall, Exists, AtItem, Labels
<1>6. CASE CreateDestination(r)
  BY <1>0, <1>1, <1>2, <1>6
  DEF CreateDestination, Fails, Settle, Outcome, Goto, TypeOK, TrueCall
<1>7. CASE CopyContent(r)
  BY <1>0, <1>1, <1>2, <1>7
  DEF CopyContent, Fails, Settle, Outcome, Goto, TypeOK, TrueCall
<1>8. CASE VerifyCopy(r)
  BY <1>0, <1>1, <1>2, <1>8
  DEF VerifyCopy, Fails, Settle, Outcome, Goto, TypeOK, TrueCall
<1>9. CASE UnlinkSource(r)
  BY <1>0, <1>1, <1>2, <1>9, <1>a
  DEF UnlinkSource, Fails, Settle, Outcome, Goto, TypeOK, TrueCall, AtItem, Labels
<1>10. CASE VerifyResult(r)
  BY <1>0, <1>1, <1>2, <1>10, <1>a
  DEF VerifyResult, Settle, Outcome, Goto, TypeOK, TrueCall, AtItem, Labels,
      Real, Exists
<1>11. CASE RecordResult(r)
  <2>1. CASE Goto(r, "auditResult") /\ UNCHANGED <<pend, at>>
    BY <1>0, <1>11, <2>1 DEF RecordResult, Goto, TypeOK, TrueCall, Real
  <2>2. CASE Abort(r)
    BY <1>0, <1>1, <2>2 DEF Abort, End, Goto, TypeOK
  <2> QED
    BY <1>11, <2>1, <2>2 DEF RecordResult
<1>12. CASE CheckStale(r) \/ RecheckSource(r) \/ Preflight(r) \/ DiskError(r)
  <2>1. CASE CheckStale(r) \/ Preflight(r)
    <3>1. CASE pc'[r] \in {"intent", "readSource"}
      BY <1>1, <3>1
    <3>2. CASE \E how \in Dispositions : Settle(r, "BLOCKED", how, Absent)
      BY <1>0, <1>2, <3>2 DEF Settle, Outcome, Goto, TypeOK
    <3> QED
      BY <1>0, <2>1, <3>1, <3>2
      DEF CheckStale, Preflight, Goto, TypeOK, Dispositions
  <2>2. CASE RecheckSource(r)
    <3>1. CASE Goto(r, "auditIntent")
      BY <1>0, <1>1, <3>1 DEF Goto, TypeOK
    <3>2. CASE SettleObserved(r, "VERIFICATION_FAILED", Absent)
      BY <1>0, <1>2, <3>2 DEF SettleObserved, Outcome, Goto, TypeOK
    <3> QED
      BY <2>2, <3>1, <3>2 DEF RecheckSource
  <2>3. CASE DiskError(r)
    BY <1>0, <1>1, <1>2, <2>3
    DEF DiskError, Fails, Settle, Outcome, Goto, TypeOK
  <2> QED
    BY <1>12, <2>1, <2>2, <2>3
<1>13. CASE \/ SkipItem(r) \/ ReplayItem(r) \/ LookupItem(r) \/ CheckInProgress(r)
            \/ RecordIntent(r) \/ AuditIntent(r) \/ AuditRefuses(r)
            \/ AuditResult(r) \/ FinishRun(r)
  BY <1>0, <1>1, <1>13
  DEF SkipItem, ReplayItem, LookupItem, CheckInProgress, RecordIntent,
      AuditIntent, AuditRefuses, AuditResult, FinishRun, NextItem, Abort, End,
      Goto, TypeOK
<1> QED
  BY <1>3, <1>4, <1>5, <1>6, <1>7, <1>8, <1>9, <1>10, <1>11, <1>12, <1>13 DEF Step

\* A step of a call touches the batch not at all, other calls not at all, and
\* no result but its own.
LEMMA StepFrame ==
    ASSUME TypeOK, NEW r \in Runners, Start(r) \/ Step(r) \/ Crash(r)
    PROVE  /\ UNCHANGED batchVars /\ edits' = edits
           /\ pc[r] # "idle" \/ UNCHANGED fs
           /\ \A q \in Runners \ {r} : /\ pc'[q] = pc[q] /\ at'[q] = at[q]
                                       /\ seen'[q] = seen[q] /\ pend'[q] = pend[q]
           /\ \A i \in Items :
                 \/ result'[i] = result[i]
                 \/ pc[r] = "record" /\ i = at[r] /\ result'[i] = pend[r]
<1> USE DEF ledgerVars, boundVars
<1>1. CASE Start(r)
  BY <1>1 DEF Start, Goto, TypeOK
<1>2. CASE Crash(r)
  BY <1>2 DEF Crash, Abort, End, Goto, TypeOK
<1>3. CASE \/ SkipItem(r) \/ ReplayItem(r) \/ LookupItem(r) \/ CheckInProgress(r)
           \/ RecordIntent(r) \/ AuditIntent(r) \/ AuditRefuses(r)
           \/ AuditResult(r) \/ FinishRun(r) \/ CheckStale(r)
  BY <1>3
  DEF SkipItem, ReplayItem, LookupItem, CheckInProgress, RecordIntent,
      AuditIntent, AuditRefuses, AuditResult, FinishRun, CheckStale, NextItem,
      Abort, End, Settle, Goto, TypeOK
<1>4. CASE \/ ObserveSource(r) \/ ObserveDestination(r) \/ RecheckSource(r)
           \/ Preflight(r) \/ ReadSource(r) \/ VerifyResult(r) \/ DiskError(r)
  BY <1>4
  DEF ObserveSource, ObserveDestination, RecheckSource, Preflight, ReadSource,
      VerifyResult, DiskError, Fails, Settle, SettleObserved, Goto, TypeOK
<1>5. CASE \/ CreateDestination(r) \/ CopyContent(r) \/ VerifyCopy(r)
           \/ UnlinkSource(r)
  BY <1>5
  DEF CreateDestination, CopyContent, VerifyCopy, UnlinkSource, Fails, Settle,
      Goto, TypeOK
<1>6. CASE RecordResult(r)
  BY <1>6 DEF RecordResult, Abort, End, Goto, TypeOK
<1> QED
  BY <1>1, <1>2, <1>3, <1>4, <1>5, <1>6 DEF Step

\* Every step of the system that is no edit keeps FilesInv.
LEMMA NextKeepsFilesInv ==
    ASSUME IInv, FilesInv, edits = 0, [Next]_vars, edits' = 0
    PROVE  FilesInv'
<1>0. TypeOK
  BY DEF IInv
<1>1. CASE UNCHANGED vars
  BY <1>1
  DEF vars, batchVars, ledgerVars, runVars, boundVars, FilesInv, PlansAreTrue,
      ApprovedTogether, SourcesApart, Live, SourcesKept, CallsAreTrue, TrueCall,
      SuccessIsReal, Real, PlanStatus, SourceMissing, DestinationCollides
<1>2. ASSUME NEW r \in Runners, Start(r) \/ Step(r) \/ Crash(r)
      PROVE  FilesInv'
  <2>1. TrueCall(r)'
    <3>1. CASE Start(r)
      BY <1>0, <3>1 DEF Start, Goto, TypeOK, TrueCall
    <3>2. CASE Crash(r)
      BY <1>0, <3>2 DEF Crash, Abort, End, Goto, TypeOK, TrueCall
    <3> QED
      BY <1>2, <3>1, <3>2, CallTellsTruth
  <2> QED
    BY <1>0, <1>2, <2>1, StepFrame, CallKeepsFilesInv
<1>3. CASE Edit
  BY <1>3 DEF Edit
<1> QED
  BY <1>1, <1>2, <1>3, EnvironmentKeepsFilesInv DEF Next

\* The files' owner cannot undo an edit.
LEMMA EditsGrow == IInv /\ [Next]_vars => (edits' = 0 => edits = 0)
<1> SUFFICES ASSUME IInv, [Next]_vars, edits' = 0 PROVE edits = 0
  OBVIOUS
<1>0. TypeOK
  BY DEF IInv
<1>1. CASE \E r \in Runners : Start(r) \/ Step(r) \/ Crash(r)
  BY <1>0, <1>1, StepFrame
<1>2. CASE Edit
  BY <1>0, <1>2, BoundsAssumption DEF Edit, TypeOK
<1>3. CASE CreateBatch \/ ApproveBatch \/ Tick \/ LoseProcess \/ UNCHANGED vars
  BY <1>3 DEF CreateBatch, ApproveBatch, Tick, LoseProcess, vars, boundVars
<1> QED
  BY <1>1, <1>2, <1>3 DEF Next

\* The files are as the executor left them until their owner edits one.
THEOREM FilesInvariant == Spec => [](edits = 0 => FilesInv)
<1>1. IInv /\ (edits = 0 => FilesInv) /\ [Next]_vars => (edits = 0 => FilesInv)'
  BY EditsGrow, NextKeepsFilesInv
<1>2. Init => (edits = 0 => FilesInv)
  BY InitFilesInv
<1> QED
  BY <1>1, <1>2, InvariantHolds, PTL DEF Spec

\* A recorded success is true of the disk, however many calls overlapped, were
\* interrupted and were repeated, and whatever was reconciled.
THEOREM SuccessesAreReal == Spec => []SuccessIsReal
<1>1. (edits = 0 => FilesInv) => SuccessIsReal
  BY DEF FilesInv, SuccessIsReal
<1> QED
  BY <1>1, FilesInvariant, PTL

\* No content disappears by what the executor does.
THEOREM ContentsSurvive == Spec => NothingLost
<1> DEFINE Kept == edits' = 0 => Held(fs) \subseteq Held(fs')
<1>1. IInv /\ (edits = 0 => FilesInv) /\ [Next]_vars => [Kept]_vars
  <2> SUFFICES ASSUME IInv, FilesInv, edits = 0, [Next]_vars, edits' = 0,
                      NEW p \in Paths, fs[p] \in Contents
               PROVE  \E q \in Paths : fs'[q] = fs[p]
    BY EditsGrow DEF Held
  <2>1. CASE fs'[p] = fs[p]
    BY <2>1
  <2>2. CASE fs'[p] # fs[p]
    <3>1. PICK r \in Runners : pc[r] = "unlink" /\ p = Src[at[r]]
      BY <2>2, Mutations, ContentsAssumption DEF Moved
    <3>2. /\ at[r] \in Items /\ Live(at[r])
          /\ TrueCall(r) /\ SourcesKept /\ SourcesApart
      BY <3>1, CallsAreLive DEF FilesInv, CallsAreTrue, AtItem, Labels
    <3>3. fs[p] = expected[at[r]]
      BY <3>1, <3>2, CallsAreLive, ContentsAssumption
      DEF SourcesKept, AtItem, Labels
    <3>4. fs[Dst[at[r]]] = fs[p]
      BY <3>1, <3>2, <3>3 DEF TrueCall
    <3>5. fs'[Dst[at[r]]] = fs[p]
      BY <3>2, <3>4, FilesStand
    <3> QED
      BY <3>2, <3>5, ItemsAssumption
  <2> QED
    BY <2>1, <2>2
<1> QED
  BY <1>1, InvariantHolds, FilesInvariant, PTL DEF Spec, NothingLost
----------------------------------------------------------------------------
\* What BLOCKED promises a lone caller.

\* The caller of a batch is alone: two that share a ledger can reconcile what
\* the other is still doing.
LoneCaller == \A r, q \in Runners : r = q

\* Nothing was done for item i.
Untouched(i) == SourceStands(i) /\ DestinationStands(i)

\* A lone caller works on items without a result, prepares only what nobody
\* began, executes only what is still as approved, over no file of its own, and
\* settles on BLOCKED only where nothing was done.
LoneCall(r) ==
    /\ pc[r] \in AtItem \ {"auditResult"} => result[at[r]] = NoResult
    /\ pc[r] \in {"stale", "intent"} => at[r] \notin inProgress
    /\ pc[r] \in {"intent", "auditIntent", "preflight", "readSource", "create"}
          => fs[Src[at[r]]] = expected[at[r]]
    /\ pc[r] \in {"recheck", "auditIntent", "preflight", "readSource", "create"}
          => DestinationStands(at[r])
    /\ pc[r] \in {"record", "auditResult"} /\ pend[r].status = "BLOCKED"
          => Untouched(at[r])

\* Nothing is at the destination of an item that is not approved yet.
PlannedAreFree == \A i \in Items : itemState[i] = "PLANNED" => ~Exists(fs[Dst[i]])

\* A source that is gone was moved for an item that was begun ...
GoneIsBegun ==
    \A i \in Items : itemState[i] = "APPROVED" /\ ~Exists(fs[Src[i]]) =>
        \E j \in Items : Src[j] = Src[i] /\ Began(j)

\* ... and a file at a destination was put there for one.
MadeIsBegun ==
    \A i \in Items : itemState[i] = "APPROVED" /\ Exists(fs[Dst[i]]) =>
        \E j \in Items : Dst[j] = Dst[i] /\ Began(j)

LoneInv ==
    /\ \A r \in Runners : LoneCall(r)
    /\ PlannedAreFree
    /\ GoneIsBegun
    /\ MadeIsBegun

\* An item is begun for good, unless it is settled as BLOCKED.
LEMMA BegunStands ==
    ASSUME IInv, NEW r \in Runners, Start(r) \/ Step(r) \/ Crash(r),
           NEW j \in Items, Began(j),
           pc[r] = "record" /\ at[r] = j => pend[r].status # "BLOCKED"
    PROVE  Began(j)'
<1> USE NoResultAssumption DEF ledgerVars
<1>0. TypeOK
  BY DEF IInv
<1>1. CASE RecordResult(r)
  <2>1. pend[r] \in Results /\ at[r] \in Items
    BY <1>1 DEF RecordResult, IInv, HasOutcome, WorksOnApproved, AtItem, Labels
  <2>2. CASE at[r] = j
    BY <1>0, <1>1, <2>1, <2>2 DEF RecordResult, TypeOK, Began
  <2>3. CASE at[r] # j
    BY <1>0, <1>1, <2>1, <2>3 DEF RecordResult, TypeOK, Began
  <2> QED
    BY <2>2, <2>3
<1>2. CASE ~RecordResult(r)
  <2>1. UNCHANGED result /\ inProgress \subseteq inProgress'
    <3>1. CASE RecordIntent(r)
      BY <3>1 DEF RecordIntent
    <3>2. CASE ~RecordIntent(r)
      BY <1>2, <3>2
      DEF Start, Crash, Step, SkipItem, ReplayItem, LookupItem, CheckInProgress,
          CheckStale, AuditIntent, AuditRefuses, ObserveSource,
          ObserveDestination, RecheckSource, Preflight, ReadSource,
          CreateDestination, CopyContent, VerifyCopy, UnlinkSource,
          VerifyResult, DiskError, AuditResult, FinishRun
    <3> QED
      BY <3>1, <3>2
  <2> QED
    BY <2>1 DEF Began
<1> QED
  BY <1>1, <1>2

\* Only a call that works for an item with the same source, or with the same
\* destination, makes the file at that path come or go.
LEMMA TouchedForSuch ==
    ASSUME IInv, SourcesApart, [Next]_vars, edits' = edits,
           NEW i \in Items, Live(i), NEW end \in {Src, Dst},
           fs'[end[i]] # fs[end[i]]
    PROVE  \E q \in Runners : /\ pc[q] \in {"create", "copy", "unlink"}
                              /\ at[q] \in Items /\ end[at[q]] = end[i]
<1>1. PICK q \in Runners :
         /\ pc[q] \in {"create", "copy", "unlink"}
         /\ \/ end[i] = Dst[at[q]]
            \/ end[i] = Src[at[q]]
  BY ItemsAssumption, Mutations DEF Moved
<1>2. at[q] \in Items /\ Live(at[q])
  BY <1>1, CallsAreLive DEF AtItem, Labels
<1> QED
  BY <1>1, <1>2 DEF SourcesApart

\* An item that nobody began is untouched.
LEMMA NotBegunIsUntouched ==
    ASSUME LoneInv, FilesInv, NEW i \in Items, itemState[i] = "APPROVED", ~Began(i)
    PROVE  Untouched(i)
<1>1. SourceStands(i)
  BY DEF LoneInv, GoneIsBegun, FilesInv, SourcesKept, SourceStands,
         SharedWithBegun, Exists
<1>2. DestinationStands(i)
  BY DEF LoneInv, MadeIsBegun, DestinationStands, SharedWithBegun
<1> QED
  BY <1>1, <1>2 DEF Untouched

\* What a step of a lone call leaves true of the call.
LEMMA LoneCallGoesOn ==
    ASSUME IInv, FilesInv, LoneInv, edits = 0, [Next]_vars, edits' = edits,
           NEW r \in Runners, Step(r)
    PROVE  LoneCall(r)'
<1> USE DEF batchVars, ledgerVars, auditVars, boundVars
<1>0. TypeOK /\ LoneCall(r)
  BY DEF IInv, LoneInv
<1>a. pc[r] \in AtItem =>
        at[r] \in Items /\ itemState[at[r]] = "APPROVED"
  BY CallsAreLive
<1>b. UNCHANGED expected
  BY <1>0, StepFrame
\* The call settles on something, at an item without a result.
<1>c. ASSUME NEW status, pc[r] \in AtItem \ {"auditResult"}, Goto(r, "record"),
             pend'[r].status = status, UNCHANGED <<ledgerVars, at>>,
             status = "BLOCKED" => UNCHANGED fs /\ Untouched(at[r])
      PROVE  LoneCall(r)'
  BY <1>0, <1>b, <1>c
  DEF Goto, TypeOK, LoneCall, Untouched, SourceStands, DestinationStands,
      SharedWithBegun, Began
\* What others began stays so, and with it a destination this call left alone.
<1>d. ASSUME pc[r] \in AtItem, UNCHANGED <<fs, at>>
      PROVE  /\ SourceStands(at[r]) => SourceStands(at[r])'
             /\ DestinationStands(at[r]) => DestinationStands(at[r])'
  <2>1. \A j \in Items \ {at[r]} : Began(j) => Began(j)'
    BY BegunStands
  <2> QED
    BY <1>b, <1>d, <2>1 DEF SourceStands, DestinationStands, SharedWithBegun
\* An item that is looked at for the first time is untouched.
<1>e. pc[r] \in {"stale", "intent"} => Untouched(at[r])
  BY <1>0, <1>a, NotBegunIsUntouched DEF LoneCall, Began, AtItem, Labels
<1>1. CASE pc'[r] \notin AtItem
  BY <1>1 DEF LoneCall, AtItem, Labels
<1>2. CASE CheckStale(r)
  <2>1. CASE Goto(r, "intent") /\ fs[Src[at[r]]] = expected[at[r]]
    BY <1>0, <1>2, <2>1 DEF CheckStale, Goto, TypeOK, LoneCall, AtItem, Labels
  <2>2. CASE Settle(r, "BLOCKED", "PRECONDITION_BLOCKED", Absent)
             /\ fs[Src[at[r]]] # expected[at[r]]
    <3>1. pend'[r].status = "BLOCKED"
      BY <1>0, <2>2 DEF Settle, Outcome, TypeOK
    <3> QED
      BY <1>2, <1>c, <1>e, <2>2, <3>1 DEF CheckStale, Settle, AtItem, Labels
  <2> QED
    BY <1>2, <2>1, <2>2 DEF CheckStale
<1>3. CASE LookupItem(r) \/ CheckInProgress(r)
  BY <1>0, <1>3
  DEF LookupItem, CheckInProgress, Goto, TypeOK, LoneCall, AtItem, Labels
<1>4. CASE RecordIntent(r)
  <2>1. CASE Goto(r, "auditIntent") /\ UNCHANGED at
    <3>1. DestinationStands(at[r])'
      BY <1>4, <1>d, <1>e, <2>1 DEF RecordIntent, Untouched, AtItem, Labels
    <3> QED
      BY <1>0, <1>4, <2>1, <3>1
      DEF RecordIntent, Goto, TypeOK, LoneCall, AtItem, Labels
  <2>2. CASE Abort(r)
    BY <1>0, <1>1, <2>2 DEF Abort, End, Goto, TypeOK, AtItem
  <2> QED
    BY <1>4, <2>1, <2>2 DEF RecordIntent
<1>5. CASE AuditIntent(r) \/ ObserveSource(r)
  BY <1>0, <1>5, <1>d
  DEF AuditIntent, ObserveSource, Goto, TypeOK, LoneCall, AtItem, Labels
<1>6. CASE ObserveDestination(r) \/ RecheckSource(r)
  <2>0. pc[r] \in AtItem \ {"auditResult"} /\ UNCHANGED <<fs, ledgerVars, at>>
    BY <1>6 DEF ObserveDestination, RecheckSource, AtItem, Labels
  <2>1. CASE Goto(r, "recheck") /\ ~Exists(fs[Dst[at[r]]])
    BY <1>0, <1>d, <2>0, <2>1 DEF Goto, TypeOK, LoneCall, DestinationStands
  <2>2. CASE /\ pc[r] = "recheck" /\ Goto(r, "auditIntent")
             /\ fs[Src[at[r]]] = expected[at[r]]
    BY <1>0, <1>b, <1>d, <2>0, <2>2 DEF Goto, TypeOK, LoneCall
  <2>3. ASSUME NEW status \in {"SUCCEEDED", "VERIFICATION_FAILED"}, NEW found,
               SettleObserved(r, status, found)
        PROVE  LoneCall(r)'
    <3>1. Goto(r, "record") /\ pend'[r].status = status
      BY <1>0, <2>3 DEF SettleObserved, Outcome, TypeOK
    <3> QED
      BY <1>c, <2>0, <3>1
  <2> QED
    BY <1>6, <2>1, <2>2, <2>3 DEF ObserveDestination, RecheckSource
<1>7. CASE Preflight(r) \/ ReadSource(r) \/ CreateDestination(r)
  <2>0. /\ pc[r] \in AtItem \ {"auditResult"} /\ UNCHANGED <<ledgerVars, at>>
        /\ Untouched(at[r])
    BY <1>0, <1>7
    DEF Preflight, ReadSource, CreateDestination, AtItem, Labels, LoneCall,
        Untouched, SourceStands
  <2>1. CASE /\ Goto(r, "readSource") \/ Goto(r, "create")
             /\ UNCHANGED fs
    BY <1>0, <1>7, <1>b, <1>d, <2>0, <2>1
    DEF Preflight, ReadSource, CreateDestination, Goto, TypeOK, LoneCall
  <2>2. CASE Goto(r, "copy")
    BY <1>0, <2>0, <2>2 DEF Goto, TypeOK, LoneCall
  <2>3. ASSUME NEW source, Settle(r, "BLOCKED", "EXECUTED", source), UNCHANGED fs
        PROVE  LoneCall(r)'
    <3>1. Goto(r, "record") /\ pend'[r].status = "BLOCKED"
      BY <1>0, <2>3 DEF Settle, Outcome, TypeOK
    <3> QED
      BY <1>c, <2>0, <2>3, <3>1
  <2>4. ASSUME Fails(r) PROVE LoneCall(r)'
    <3>1. Goto(r, "record") /\ pend'[r].status \in {"FAILED", "VERIFICATION_FAILED"}
      BY <1>0, <2>4 DEF Fails, Settle, Outcome, TypeOK
    <3> QED
      BY <1>c, <2>0, <3>1
  <2> QED
    BY <1>7, <2>1, <2>2, <2>3, <2>4 DEF Preflight, ReadSource, CreateDestination
<1>8. CASE \/ CopyContent(r) \/ VerifyCopy(r) \/ UnlinkSource(r)
           \/ VerifyResult(r) \/ DiskError(r)
  <2>0. pc[r] \in AtItem \ {"auditResult"} /\ UNCHANGED <<ledgerVars, at>>
    BY <1>8
    DEF CopyContent, VerifyCopy, UnlinkSource, VerifyResult, DiskError, AtItem,
        Labels
  <2>1. CASE Goto(r, "verifyCopy") \/ Goto(r, "unlink") \/ Goto(r, "verifyResult")
    BY <1>0, <2>0, <2>1 DEF Goto, TypeOK, LoneCall
  <2>2. ASSUME NEW status \in {"SUCCEEDED", "VERIFICATION_FAILED"}, NEW source,
               Settle(r, status, "EXECUTED", source)
        PROVE  LoneCall(r)'
    <3>1. Goto(r, "record") /\ pend'[r].status = status
      BY <1>0, <2>2 DEF Settle, Outcome, TypeOK
    <3> QED
      BY <1>c, <2>0, <3>1
  <2>3. ASSUME Fails(r) PROVE LoneCall(r)'
    <3>1. Goto(r, "record") /\ pend'[r].status \in {"FAILED", "VERIFICATION_FAILED"}
      BY <1>0, <2>3 DEF Fails, Settle, Outcome, TypeOK
    <3> QED
      BY <1>c, <2>0, <3>1
  <2> QED
    BY <1>8, <2>1, <2>2, <2>3
    DEF CopyContent, VerifyCopy, UnlinkSource, VerifyResult, DiskError
<1>9. CASE RecordResult(r)
  <2>1. CASE Goto(r, "auditResult") /\ UNCHANGED <<pend, at>>
    <3>0. pc[r] = "record" /\ pc'[r] = "auditResult" /\ UNCHANGED fs
      BY <1>0, <1>9, <2>1 DEF RecordResult, Goto, TypeOK
    <3>1. pend[r].status = "BLOCKED" => Untouched(at[r])'
      BY <1>0, <1>d, <2>1, <3>0 DEF LoneCall, Untouched, AtItem, Labels
    <3> QED
      BY <1>0, <2>1, <3>0, <3>1 DEF LoneCall
  <2>2. CASE Abort(r)
    BY <1>0, <1>1, <2>2 DEF Abort, End, Goto, TypeOK, AtItem
  <2> QED
    BY <1>9, <2>1, <2>2 DEF RecordResult
<1>10. CASE \/ SkipItem(r) \/ ReplayItem(r) \/ AuditRefuses(r) \/ AuditResult(r)
            \/ FinishRun(r)
  BY <1>0, <1>1, <1>10
  DEF SkipItem, ReplayItem, AuditRefuses, AuditResult, FinishRun, NextItem,
      Abort, End, Goto, TypeOK, AtItem
<1> QED
  BY <1>2, <1>3, <1>4, <1>5, <1>6, <1>7, <1>8, <1>9, <1>10 DEF Step

\* A step of the one call keeps LoneInv.
LEMMA CallKeepsLoneInv ==
    ASSUME IInv, FilesInv, LoneInv, LoneCaller, edits = 0, [Next]_vars,
           NEW r \in Runners, Start(r) \/ Step(r) \/ Crash(r)
    PROVE  LoneInv'
<1>0. /\ TypeOK /\ SourcesApart /\ LoneCall(r)
      /\ UNCHANGED <<plan, itemState, expected>> /\ edits' = edits
  BY StepFrame DEF IInv, FilesInv, LoneInv, batchVars
<1>1. \A q \in Runners : LoneCall(q)'
  <2>1. CASE Start(r)
    BY <1>0, <2>1 DEF Start, Goto, TypeOK, LoneCall, LoneCaller, AtItem
  <2>2. CASE Crash(r)
    BY <1>0, <2>2 DEF Crash, Abort, End, Goto, TypeOK, LoneCall, LoneCaller, AtItem
  <2>3. CASE Step(r)
    BY <1>0, <2>3, LoneCallGoesOn DEF LoneCaller
  <2> QED
    BY <2>1, <2>2, <2>3
\* The item the call works for is begun before it touches a file.
<1>2. ASSUME pc[r] \in {"create", "copy", "unlink"}
      PROVE  \E k \in Items : k = at[r] /\ Began(k)'
  <2>1. pc[r] \in Intent /\ pc[r] \in AtItem \ {"auditResult"}
    BY <1>2 DEF Intent, AtItem, Labels
  <2>2. at[r] \in Items /\ Began(at[r])
    BY <1>0, <2>1, CallsAreLive DEF IInv, HasIntent, LoneCall, Began
  <2>3. PICK k \in Items : k = at[r] /\ Began(k)
    BY <2>2
  <2>4. Began(k)'
    BY <1>2, <2>3, BegunStands
  <2> QED
    BY <2>3, <2>4
\* What was begun stays so, unless it is settled as BLOCKED and so untouched.
<1>3. ASSUME NEW j \in Items, Began(j), ~Began(j)'
      PROVE  itemState[j] = "APPROVED" /\ Live(j) /\ Untouched(j) /\ j = at[r]
  BY <1>0, <1>3, BegunStands, CallsAreLive DEF LoneCall, AtItem, Labels
<1>4. \A j, k \in Items : Began(j) /\ ~Began(j)' /\ Began(k) /\ k # j => Began(k)'
  BY <1>3
<1>5. PlannedAreFree'
  <2> SUFFICES ASSUME NEW i \in Items, itemState[i] = "PLANNED"
               PROVE  ~Exists(fs'[Dst[i]])
    BY <1>0 DEF PlannedAreFree
  <2>1. pc[r] = "idle"
    BY DEF IInv, RunsApproved, FilesInv, ApprovedTogether
  <2> QED
    BY <1>0, <2>1, StepFrame DEF LoneInv, PlannedAreFree
<1>6. GoneIsBegun'
  <2> SUFFICES ASSUME NEW i \in Items, itemState[i] = "APPROVED", ~Exists(fs'[Src[i]])
               PROVE  \E j \in Items : Src[j] = Src[i] /\ Began(j)'
    BY <1>0 DEF GoneIsBegun
  <2>1. CASE fs'[Src[i]] # fs[Src[i]]
    <3>1. PICK q \in Runners : /\ pc[q] \in {"create", "copy", "unlink"}
                               /\ Src[at[q]] = Src[i]
      BY <1>0, <2>1, TouchedForSuch DEF Live
    <3>2. q = r
      BY DEF LoneCaller
    <3> QED
      BY <1>2, <3>1, <3>2
  <2>2. CASE fs'[Src[i]] = fs[Src[i]]
    <3>1. PICK j \in Items : Src[j] = Src[i] /\ Began(j)
      BY <2>2 DEF LoneInv, GoneIsBegun
    <3>2. CASE ~Began(j)'
      <4>1. SharedWithBegun(Src, j)
        BY <1>0, <1>3, <2>2, <3>1, <3>2
        DEF Untouched, SourceStands, SourcesApart, Exists
      <4> QED
        BY <1>4, <3>1, <3>2, <4>1 DEF SharedWithBegun
    <3> QED
      BY <3>1, <3>2
  <2> QED
    BY <2>1, <2>2
<1>7. MadeIsBegun'
  <2> SUFFICES ASSUME NEW i \in Items, itemState[i] = "APPROVED", Exists(fs'[Dst[i]])
               PROVE  \E j \in Items : Dst[j] = Dst[i] /\ Began(j)'
    BY <1>0 DEF MadeIsBegun
  <2>1. CASE fs'[Dst[i]] # fs[Dst[i]]
    <3>1. PICK q \in Runners : /\ pc[q] \in {"create", "copy", "unlink"}
                               /\ Dst[at[q]] = Dst[i]
      BY <1>0, <2>1, TouchedForSuch DEF Live
    <3>2. q = r
      BY DEF LoneCaller
    <3> QED
      BY <1>2, <3>1, <3>2
  <2>2. CASE fs'[Dst[i]] = fs[Dst[i]]
    <3>1. PICK j \in Items : Dst[j] = Dst[i] /\ Began(j)
      BY <2>2 DEF LoneInv, MadeIsBegun
    <3>2. CASE ~Began(j)'
      <4>1. SharedWithBegun(Dst, j)
        BY <1>3, <2>2, <3>1, <3>2 DEF Untouched, DestinationStands
      <4> QED
        BY <1>4, <3>1, <3>2, <4>1 DEF SharedWithBegun
    <3> QED
      BY <3>1, <3>2
  <2> QED
    BY <2>1, <2>2
<1> QED
  BY <1>1, <1>5, <1>6, <1>7 DEF LoneInv

\* So does every other step that is no edit.
LEMMA NextKeepsLoneInv ==
    ASSUME IInv, FilesInv, LoneInv, LoneCaller, edits = 0, [Next]_vars, edits' = 0
    PROVE  LoneInv'
<1> USE DEF batchVars, ledgerVars, auditVars, runVars, boundVars
<1>1. CASE Tick \/ UNCHANGED vars
  BY <1>1
  DEF Tick, vars, LoneInv, LoneCall, PlannedAreFree, GoneIsBegun, MadeIsBegun,
      Untouched, SourceStands, DestinationStands, SharedWithBegun, Began
<1>2. CASE CreateBatch \/ ApproveBatch
  <2>1. \A i \in Items : itemState[i] # "APPROVED"
    BY <1>2, ApprovedBatch DEF CreateBatch, ApproveBatch, StatesOf
  <2>2. \A r \in Runners : pc[r] = "idle"
    BY <2>1 DEF IInv, RunsApproved
  <2>3. UNCHANGED <<fs, pc>>
    BY <1>2 DEF CreateBatch, ApproveBatch
  <2>4. CASE CreateBatch
    <3>1. \A i \in Items : itemState'[i] # "APPROVED"
      BY <2>4 DEF CreateBatch
    <3>2. ASSUME NEW i \in Items, itemState'[i] = "PLANNED"
          PROVE  ~Exists(fs[Dst[i]])
      <4>1. itemState[i] = "NEW" /\ plan[i] = "READY"
        BY <2>4, <3>2 DEF CreateBatch, StatesOf, Exists
      <4>2. PlanStatus(fs, i) = "READY"
        BY <4>1 DEF FilesInv, PlansAreTrue
      <4> QED
        BY <4>2 DEF PlanStatus, DestinationCollides
    <3> QED
      BY <2>2, <2>3, <3>1, <3>2
      DEF LoneInv, LoneCall, PlannedAreFree, GoneIsBegun, MadeIsBegun, AtItem
  <2>5. CASE ApproveBatch
    <3>1. \A i \in Items : /\ itemState'[i] # "PLANNED"
                           /\ itemState'[i] = "APPROVED" => itemState[i] = "PLANNED"
      BY <2>1, <2>5 DEF ApproveBatch
    <3>2. \A i \in Items : itemState[i] = "PLANNED" =>
             Exists(fs[Src[i]]) /\ ~Exists(fs[Dst[i]])
      BY DEF FilesInv, SourcesKept, SourcesApart, Live, Exists, LoneInv,
             PlannedAreFree
    <3> QED
      BY <2>2, <2>3, <3>1, <3>2
      DEF LoneInv, LoneCall, PlannedAreFree, GoneIsBegun, MadeIsBegun, AtItem
  <2> QED
    BY <1>2, <2>4, <2>5
<1>3. CASE LoseProcess
  BY <1>3
  DEF LoseProcess, LoneInv, LoneCall, PlannedAreFree, GoneIsBegun, MadeIsBegun,
      AtItem
<1>4. CASE Edit
  BY <1>4 DEF Edit
<1> QED
  BY <1>1, <1>2, <1>3, <1>4, CallKeepsLoneInv DEF Next

\* BLOCKED tells a lone caller that nothing was done for the item: its source is
\* as approved and nothing is at its destination, unless another item that was
\* begun shares that path.
THEOREM BlockedMeansUntouched ==
    ASSUME LoneCaller
    PROVE  Spec => []BlockedIsUntouched
<1> DEFINE Lone == edits = 0 => LoneInv
<1>1. IInv /\ (edits = 0 => FilesInv) /\ Lone /\ [Next]_vars => Lone'
  BY EditsGrow, NextKeepsLoneInv
<1>2. Init => Lone
  BY DEF Init, LoneInv, LoneCall, PlannedAreFree, GoneIsBegun, MadeIsBegun, AtItem
<1>3. IInv /\ (edits = 0 => FilesInv) /\ Lone => BlockedIsUntouched
  <2> SUFFICES ASSUME IInv, FilesInv, LoneInv, NEW i \in Items,
                      result[i] # NoResult, result[i].status = "BLOCKED"
               PROVE  Untouched(i)
    BY DEF BlockedIsUntouched, Untouched
  <2>1. ~Began(i) /\ itemState[i] = "APPROVED"
    BY DEF Began, IInv, IntentOrResult, ResultsAreApproved
  <2> QED
    BY <2>1, NotBegunIsUntouched
<1> QED
  BY <1>1, <1>2, <1>3, InvariantHolds, FilesInvariant, PTL DEF Spec
----------------------------------------------------------------------------
\* The refinement: what each step is in BatchPromise.

\* The ledger knows item j.
TakenOn(j) == j \in inProgress \/ result[j] # NoResult

\* An item that was taken on stays so: a result replaces its intent.
LEMMA TakenOnStands ==
    ASSUME IInv, NEW r \in Runners, Start(r) \/ Step(r) \/ Crash(r),
           NEW j \in Items, TakenOn(j)
    PROVE  TakenOn(j)'
<1> USE NoResultAssumption DEF ledgerVars
<1>0. TypeOK
  BY DEF IInv
<1>1. CASE RecordResult(r)
  <2>1. pend[r] \in Results
    BY <1>1 DEF RecordResult, IInv, HasOutcome
  <2> QED
    BY <1>0, <1>1, <2>1 DEF RecordResult, TypeOK, TakenOn
<1>2. CASE ~RecordResult(r)
  <2>1. UNCHANGED result /\ inProgress \subseteq inProgress'
    <3>1. CASE RecordIntent(r)
      BY <3>1 DEF RecordIntent
    <3>2. CASE ~RecordIntent(r)
      BY <1>2, <3>2
      DEF Start, Crash, Step, SkipItem, ReplayItem, LookupItem, CheckInProgress,
          CheckStale, AuditIntent, AuditRefuses, ObserveSource,
          ObserveDestination, RecheckSource, Preflight, ReadSource,
          CreateDestination, CopyContent, VerifyCopy, UnlinkSource,
          VerifyResult, DiskError, AuditResult, FinishRun
    <3> QED
      BY <3>1, <3>2
  <2> QED
    BY <2>1 DEF TakenOn
<1> QED
  BY <1>1, <1>2

\* A call that is about to record anything but BLOCKED has its intent, or a
\* result, in the ledger.
Supported ==
    \A r \in Runners : pc[r] = "record" /\ pend[r].status # "BLOCKED" =>
        TakenOn(at[r])

\* A call settles its own item, on BLOCKED or under an intent.
LEMMA SettlesUnderIntent ==
    ASSUME IInv, NEW r \in Runners, Start(r) \/ Step(r) \/ Crash(r),
           pc'[r] = "record"
    PROVE  /\ at'[r] = at[r] /\ pc[r] \in AtItem
           /\ pc[r] \in Intent \/ pend'[r].status = "BLOCKED"
<1>0. TypeOK
  BY DEF IInv
<1>1. CASE CheckStale(r)
  BY <1>0, <1>1 DEF CheckStale, Settle, Outcome, Goto, TypeOK, AtItem, Labels
<1>2. CASE \/ ObserveDestination(r) \/ RecheckSource(r) \/ Preflight(r)
           \/ ReadSource(r) \/ CreateDestination(r) \/ CopyContent(r)
           \/ VerifyCopy(r) \/ UnlinkSource(r) \/ VerifyResult(r) \/ DiskError(r)
  BY <1>2
  DEF ObserveDestination, RecheckSource, Preflight, ReadSource,
      CreateDestination, CopyContent, VerifyCopy, UnlinkSource, VerifyResult,
      DiskError, AtItem, Intent, Labels
<1>3. CASE \/ Start(r) \/ SkipItem(r) \/ ReplayItem(r) \/ LookupItem(r)
           \/ CheckInProgress(r) \/ RecordIntent(r) \/ AuditIntent(r)
           \/ AuditRefuses(r) \/ ObserveSource(r) \/ AuditResult(r)
           \/ FinishRun(r) \/ RecordResult(r) \/ Crash(r)
  BY <1>0, <1>3
  DEF Start, SkipItem, ReplayItem, LookupItem, CheckInProgress, RecordIntent,
      AuditIntent, AuditRefuses, ObserveSource, AuditResult, FinishRun,
      RecordResult, Crash, NextItem, Abort, End, Goto, TypeOK
<1> QED
  BY <1>1, <1>2, <1>3 DEF Step

LEMMA NextKeepsSupported == IInv /\ Supported /\ [Next]_vars => Supported'
<1> SUFFICES ASSUME IInv, Supported, [Next]_vars,
                    NEW q \in Runners, pc'[q] = "record", pend'[q].status # "BLOCKED"
             PROVE  TakenOn(at[q])'
  BY DEF Supported
<1>1. CASE CreateBatch \/ ApproveBatch \/ Tick \/ Edit \/ UNCHANGED vars
  BY <1>1
  DEF CreateBatch, ApproveBatch, Tick, Edit, vars, ledgerVars, runVars,
      Supported, TakenOn
<1>2. CASE LoseProcess
  BY <1>2 DEF LoseProcess
<1>3. ASSUME NEW r \in Runners, Start(r) \/ Step(r) \/ Crash(r)
      PROVE  TakenOn(at[q])'
  <2>1. at'[q] = at[q] /\ pc[q] \in AtItem /\ TakenOn(at[q])
    <3>1. CASE q = r
      <4>1. /\ at'[q] = at[q] /\ pc[q] \in AtItem /\ pc[q] \in Intent
        BY <1>3, <3>1, SettlesUnderIntent
      <4> QED
        BY <4>1 DEF IInv, HasIntent, TakenOn
    <3>2. CASE q # r
      BY <1>3, <3>2, StepFrame DEF IInv, Supported, AtItem, Labels
    <3> QED
      BY <3>1, <3>2
  <2>2. PICK j \in Items : j = at[q]
    BY <2>1 DEF IInv, WorksOnApproved
  <2>3. TakenOn(j)'
    BY <1>3, <2>1, <2>2, TakenOnStands
  <2> QED
    BY <2>1, <2>2, <2>3 DEF TakenOn
<1> QED
  BY <1>1, <1>2, <1>3 DEF Next
\* A call that is about to create and to fill a file has read its source.
HasRead == \A r \in Runners : pc[r] \in {"create", "copy"} => Exists(seen[r])

LEMMA NextKeepsHasRead == IInv /\ HasRead /\ [Next]_vars => HasRead'
<1> SUFFICES ASSUME IInv, HasRead, [Next]_vars,
                    NEW q \in Runners, pc'[q] \in {"create", "copy"}
             PROVE  Exists(seen[q])'
  BY DEF HasRead
<1>0. TypeOK
  BY DEF IInv
<1>1. CASE CreateBatch \/ ApproveBatch \/ Tick \/ Edit \/ LoseProcess \/ UNCHANGED vars
  BY <1>1
  DEF CreateBatch, ApproveBatch, Tick, Edit, LoseProcess, vars, runVars, HasRead,
      Exists
<1>2. ASSUME NEW r \in Runners, Start(r) \/ Step(r) \/ Crash(r), q # r
      PROVE  Exists(seen[q])'
  BY <1>0, <1>2, StepFrame DEF HasRead, Exists
<1>3. CASE ReadSource(q) \/ CreateDestination(q)
  BY <1>0, <1>3
  DEF ReadSource, CreateDestination, Fails, Settle, Goto, TypeOK, HasRead, Exists
<1>4. ASSUME Start(q) \/ Step(q) \/ Crash(q), ~ReadSource(q), ~CreateDestination(q)
      PROVE  FALSE
  BY <1>0, <1>4
  DEF Start, Crash, Step, SkipItem, ReplayItem, LookupItem, CheckInProgress,
      CheckStale, RecordIntent, AuditIntent, AuditRefuses, ObserveSource,
      ObserveDestination, RecheckSource, Preflight, CopyContent, VerifyCopy,
      UnlinkSource, VerifyResult, DiskError, RecordResult, AuditResult,
      FinishRun, Fails, Settle, SettleObserved, NextItem, Abort, End, Goto, TypeOK
<1> QED
  BY <1>1, <1>2, <1>3, <1>4 DEF Next

\* What a call that returned said.
Reply(r) == [i \in {k \in Items : itemState[k] = "APPROVED"} |-> report[r][i]]

\* What BatchPromise sees of a step of a call that stays within its loop: no
\* answer is given or withdrawn.
LEMMA AnswersStand ==
    ASSUME TypeOK, NEW r \in Runners, UNCHANGED itemState,
           pc[r] # "done", pc'[r] # "done",
           \A q \in Runners \ {r} : pc'[q] = pc[q] /\ report'[q] = report[q]
    PROVE  Answers' = Answers
<1>1. \A q \in Runners : pc[q] = "done" => Reply(q)' = Reply(q)
  BY DEF Reply
<1>2. \A q \in Runners : pc'[q] = "done" <=> pc[q] = "done"
  OBVIOUS
<1>3. /\ Answers = [q \in Runners |-> IF pc[q] = "done" THEN Reply(q) ELSE NoResult]
      /\ Answers' = [q \in Runners |-> IF pc'[q] = "done" THEN Reply(q)' ELSE NoResult]
  BY DEF Answers, Reply
<1> QED
  BY <1>1, <1>2, <1>3

\* A call's answer is given when it returns, and withdrawn when it is called
\* again.
LEMMA AnswerChanges ==
    ASSUME TypeOK, NEW r \in Runners, UNCHANGED itemState,
           \A q \in Runners \ {r} : pc'[q] = pc[q] /\ report'[q] = report[q]
    PROVE  Answers' = [Answers EXCEPT ![r] = IF pc'[r] = "done" THEN Reply(r)' ELSE NoResult]
<1>1. \A q \in Runners \ {r} : Reply(q)' = Reply(q)
  BY DEF Reply
<1>2. /\ Answers = [q \in Runners |-> IF pc[q] = "done" THEN Reply(q) ELSE NoResult]
      /\ Answers' = [q \in Runners |-> IF pc'[q] = "done" THEN Reply(q)' ELSE NoResult]
  BY DEF Answers, Reply
<1> QED
  BY <1>1, <1>2

\* What a step of call r does, as BatchPromise sees it.
Hidden(r) ==
    /\ UNCHANGED <<fs, inProgress, result, audit>>
    /\ pc[r] # "done" /\ pc'[r] # "done"

\* All but a few steps of a call are hidden.
LEMMA HiddenSteps ==
    ASSUME TypeOK, NEW r \in Runners, Step(r) \/ Crash(r),
           ~RecordIntent(r), ~CreateDestination(r), ~CopyContent(r),
           ~UnlinkSource(r), ~RecordResult(r), ~AuditResult(r), ~FinishRun(r)
    PROVE  Hidden(r)
<1> USE DEF ledgerVars, auditVars
<1>1. CASE \/ SkipItem(r) \/ ReplayItem(r) \/ LookupItem(r) \/ CheckInProgress(r)
           \/ CheckStale(r) \/ AuditIntent(r) \/ AuditRefuses(r) \/ Crash(r)
  BY <1>1
  DEF SkipItem, ReplayItem, LookupItem, CheckInProgress, CheckStale, AuditIntent,
      AuditRefuses, Crash, Facing, Append, NextItem, Settle, Abort, End, Goto,
      TypeOK, Hidden
<1>2. CASE \/ ObserveSource(r) \/ ObserveDestination(r) \/ RecheckSource(r)
           \/ Preflight(r) \/ ReadSource(r) \/ VerifyCopy(r) \/ VerifyResult(r)
           \/ DiskError(r)
  BY <1>2
  DEF ObserveSource, ObserveDestination, RecheckSource, Preflight, ReadSource,
      VerifyCopy, VerifyResult, DiskError, Fails, Settle, SettleObserved, Goto,
      TypeOK, Hidden
<1> QED
  BY <1>1, <1>2 DEF Step
\* A step of a call leaves what other calls report alone.
LEMMA ReportFrame ==
    ASSUME TypeOK, NEW r \in Runners, Start(r) \/ Step(r) \/ Crash(r)
    PROVE  \A q \in Runners \ {r} : report'[q] = report[q]
<1>1. CASE \/ Start(r) \/ Crash(r) \/ SkipItem(r) \/ ReplayItem(r) \/ RecordIntent(r)
           \/ AuditRefuses(r) \/ RecordResult(r) \/ AuditResult(r)
  BY <1>1
  DEF Start, Crash, SkipItem, ReplayItem, RecordIntent, AuditRefuses,
      RecordResult, AuditResult, NextItem, Abort, TypeOK
<1>2. CASE ~(\/ Start(r) \/ Crash(r) \/ SkipItem(r) \/ ReplayItem(r)
             \/ RecordIntent(r) \/ AuditRefuses(r) \/ RecordResult(r)
             \/ AuditResult(r))
  BY <1>2
  DEF Step, LookupItem, CheckInProgress, CheckStale, AuditIntent, ObserveSource,
      ObserveDestination, RecheckSource, Preflight, ReadSource,
      CreateDestination, CopyContent, VerifyCopy, UnlinkSource, VerifyResult,
      DiskError, FinishRun
<1> QED
  BY <1>1, <1>2

\* Files and audit trail belong to the batch's item a call is at.
LEMMA ActsOnApproved ==
    ASSUME IInv, NEW r \in Runners, pc[r] \in Intent
    PROVE  /\ at[r] \in Items /\ itemState[at[r]] = "APPROVED"
           /\ Promise!TakenOn(at[r])
<1>1. at[r] \in Items /\ itemState[at[r]] = "APPROVED" /\ TakenOn(at[r])
  BY DEF IInv, WorksOnApproved, HasIntent, Intent, TakenOn
<1>2. Outcomes[at[r]] # "OPEN"
  BY <1>1 DEF IInv, TypeOK, Outcomes, TakenOn, Results, Statuses
<1> QED
  BY <1>1, <1>2 DEF Promise!TakenOn, Promise!Approved

\* The steps that change files.
LEMMA FileStepsSimulated ==
    ASSUME IInv, HasRead, edits = 0 => FilesInv, [Next]_vars, NEW r \in Runners,
           CreateDestination(r) \/ CopyContent(r) \/ UnlinkSource(r)
    PROVE  [Promise!Next]_(Promise!vars)
<1> DEFINE i == at[r]
<1>0. /\ TypeOK /\ pc[r] \in {"create", "copy", "unlink"}
      /\ i \in Items /\ Promise!TakenOn(i)
  BY ActsOnApproved
  DEF IInv, CreateDestination, CopyContent, UnlinkSource, Intent, AtItem, Labels
<1>1. UNCHANGED <<itemState, expected, inProgress, result, audit, edits>>
  BY DEF CreateDestination, CopyContent, UnlinkSource, batchVars, ledgerVars,
         auditVars, boundVars
<1>2. Outcomes' = Outcomes
  BY <1>1 DEF Outcomes
<1>3. Answers' = Answers
  <2>1. Step(r)
    BY DEF Step
  <2>2. pc[r] # "done" /\ pc'[r] # "done"
    BY <1>0
    DEF CreateDestination, CopyContent, UnlinkSource, Fails, Settle, Goto, TypeOK
  <2> QED
    BY <1>0, <1>1, <2>1, <2>2, AnswersStand, StepFrame, ReportFrame
<1>4. edits = 0 =>
        /\ TrueCall(r)
        /\ fs[Src[i]] \in {expected[i], Absent}
  BY <1>0 DEF FilesInv, CallsAreTrue, SourcesKept, Promise!TakenOn, Promise!Approved
<1>5. edits \in Nat
  BY <1>0, BoundsAssumption DEF TypeOK
<1>6. CASE UNCHANGED fs
  BY <1>1, <1>2, <1>3, <1>6 DEF Promise!vars
<1>7. CASE CreateDestination(r) /\ fs' # fs
  <2>1. Promise!Create(i)
    BY <1>0, <1>1, <1>2, <1>3, <1>7 DEF CreateDestination, Exists, Promise!Create
  <2> QED
    BY <1>0, <2>1 DEF Promise!Next
<1>8. CASE CopyContent(r) /\ fs' # fs
  <2>1. seen[r] \in FileStates \ {Absent} /\ fs[Src[i]] \in FileStates
    BY <1>0, <1>8, ItemsAssumption DEF CopyContent, TypeOK, HasRead, Exists
  <2>2. PICK c \in FileStates \ {Absent} :
           /\ fs[Dst[i]] = Partial /\ fs' = [fs EXCEPT ![Dst[i]] = c]
           /\ c \in {seen[r], fs[Src[i]], Partial}
    BY <1>0, <1>8, <2>1, ContentsAssumption DEF CopyContent, Copied, Exists, FileStates
  <2>3. c \in Contents
    BY <1>0, <1>8, <2>2 DEF FileStates, TypeOK
  <2>4. edits = 0 => c = expected[i]
    <3>1. pc[r] = "copy" /\ (edits = 0 => seen[r] = expected[i])
      BY <1>4, <1>8 DEF CopyContent, TrueCall
    <3> QED
      BY <1>4, <2>2, <2>3, <3>1, ContentsAssumption
  <2>5. Promise!Fill(i)
    <3>1. edits > 0 \/ c = expected[i]
      BY <1>5, <2>4
    <3>2. \E d \in Contents : /\ edits > 0 \/ d = expected[i]
                             /\ fs' = [fs EXCEPT ![Dst[i]] = d]
      BY <2>2, <2>3, <3>1
    <3> QED
      BY <1>0, <1>1, <1>2, <1>3, <2>2, <3>2 DEF Promise!Fill
  <2> QED
    BY <1>0, <2>5 DEF Promise!Next
<1>9. CASE UnlinkSource(r) /\ fs' # fs
  <2>1. /\ pc[r] = "unlink" /\ Op = "MOVE" /\ fs[Src[i]] # Absent
        /\ fs' = [fs EXCEPT ![Src[i]] = Absent]
    BY <1>9 DEF UnlinkSource, IInv, OnlyMovesUnlink, Exists
  <2>2. edits = 0 /\ expected[i] \in Contents =>
           fs[Src[i]] = expected[i] /\ fs[Dst[i]] = expected[i]
    BY <1>4, <2>1 DEF TrueCall
  <2>3. Promise!Discard(i)
    BY <1>0, <1>1, <1>2, <1>3, <1>5, <2>1, <2>2 DEF Promise!Discard
  <2> QED
    BY <1>0, <2>3 DEF Promise!Next
<1> QED
  BY <1>6, <1>7, <1>8, <1>9
\* The steps that change the ledger.
LEMMA LedgerStepsSimulated ==
    ASSUME IInv, Supported, edits = 0 => FilesInv, [Next]_vars, NEW r \in Runners,
           RecordIntent(r) \/ RecordResult(r)
    PROVE  [Promise!Next]_(Promise!vars)
<1> DEFINE i == at[r]
<1>0. /\ TypeOK /\ pc[r] \in {"intent", "record"}
      /\ i \in Items /\ itemState[i] = "APPROVED"
  BY DEF IInv, WorksOnApproved, RecordIntent, RecordResult, AtItem, Labels
<1>1. UNCHANGED <<fs, itemState, expected, audit, edits>>
  BY DEF RecordIntent, RecordResult, batchVars, auditVars, boundVars
<1>2. Answers' = Answers
  <2>1. Step(r)
    BY DEF Step
  <2>2. pc[r] # "done" /\ pc'[r] # "done"
    BY <1>0 DEF RecordIntent, RecordResult, Abort, End, Goto, TypeOK
  <2> QED
    BY <1>0, <1>1, <2>1, <2>2, AnswersStand, StepFrame, ReportFrame
<1>3. CASE Outcomes' = Outcomes
  BY <1>1, <1>2, <1>3 DEF Promise!vars
<1>4. CASE Abort(r)
  <2>1. UNCHANGED <<inProgress, result>>
    BY <1>0, <1>4
    DEF RecordIntent, RecordResult, Abort, End, Goto, TypeOK, ledgerVars
  <2> QED
    BY <1>3, <2>1 DEF Outcomes
<1>5. CASE RecordIntent(r) /\ ~Abort(r) /\ Outcomes' # Outcomes
  <2>1. result[i] = NoResult /\ inProgress' = inProgress \cup {i} /\ result' = result
    BY <1>5 DEF RecordIntent
  <2>2. Outcomes' = [Outcomes EXCEPT ![i] = "EXECUTING"]
    BY <1>0, <2>1 DEF Outcomes
  <2>3. Outcomes[i] = "OPEN"
    BY <1>0, <1>5, <2>1 DEF Outcomes
  <2>4. Promise!Take(i)
    BY <1>0, <1>1, <1>2, <2>2, <2>3 DEF Promise!Take, Promise!Approved
  <2> QED
    BY <1>0, <2>4 DEF Promise!Next
<1>6. CASE RecordResult(r) /\ ~Abort(r) /\ Outcomes' # Outcomes
  <2>1. /\ pc[r] = "record"
        /\ result[i] \in {NoResult, pend[r]}
        /\ result' = [result EXCEPT ![i] = pend[r]]
        /\ inProgress' = inProgress \ {i}
    BY <1>6 DEF RecordResult
  <2>2. pend[r] \in Results /\ pend[r] # NoResult
    BY <2>1, NoResultAssumption DEF IInv, HasOutcome
  <2>3. Outcomes' = [Outcomes EXCEPT ![i] = pend[r].status]
    BY <1>0, <2>1, <2>2 DEF Outcomes, TypeOK
  <2>4. result[i] = NoResult
    BY <1>0, <1>6, <2>1, <2>2, <2>3 DEF Outcomes
  <2>5. Outcomes[i] \in {"OPEN", "EXECUTING"}
    BY <1>0, <2>4 DEF Outcomes
  <2>6. Outcomes[i] = "OPEN" => pend[r].status = "BLOCKED"
    BY <1>0, <2>1, <2>4 DEF Supported, TakenOn, Outcomes
  <2>7. pend[r].status = "SUCCEEDED" /\ edits = 0 /\ expected[i] \in Contents => Real(i)
    BY <2>1 DEF FilesInv, CallsAreTrue, TrueCall
  <2>8. pend[r].status = "SUCCEEDED" /\ ~(edits > 0) /\ expected[i] \in Contents
           => Promise!Done(i)
    BY <1>0, <2>7, BoundsAssumption DEF Real, Exists, Promise!Done, TypeOK
  <2>9. pend[r].status \in Promise!Statuses
    BY <2>2 DEF Results, Statuses, Promise!Statuses
  <2>10. Promise!Settle(i)
    BY <1>0, <1>1, <1>2, <2>3, <2>5, <2>6, <2>8, <2>9
    DEF Promise!Settle, Promise!Approved
  <2> QED
    BY <1>0, <2>10 DEF Promise!Next
<1> QED
  BY <1>3, <1>4, <1>5, <1>6

\* The steps that write the trail, and those that begin and end a call.
LEMMA CallEndsSimulated ==
    ASSUME IInv, IInv', [Next]_vars, NEW r \in Runners,
           AuditResult(r) \/ FinishRun(r) \/ Start(r)
    PROVE  [Promise!Next]_(Promise!vars)
<1>0. TypeOK /\ (Start(r) \/ Step(r))
  BY DEF IInv, Step
<1>1. UNCHANGED <<fs, itemState, expected, inProgress, result, edits>>
  BY DEF AuditResult, FinishRun, Start, batchVars, ledgerVars, boundVars
<1>2. Outcomes' = Outcomes
  BY <1>1 DEF Outcomes
<1>3. \A q \in Runners \ {r} : pc'[q] = pc[q] /\ report'[q] = report[q]
  BY <1>0, StepFrame, ReportFrame
<1>4. \A i \in Items : result[i] # NoResult =>
         /\ Outcomes[i] = result[i].status
         /\ Outcomes[i] \in Promise!Statuses
  BY <1>0 DEF TypeOK, Outcomes, Results, Statuses, Promise!Statuses
<1>5. CASE AuditResult(r)
  <2>1. /\ at[r] \in Items /\ result[at[r]] = pend[r] /\ pend[r] # NoResult
        /\ audit' = audit \cup {<<at[r], pend[r].status>>}
    BY <1>5, NoResultAssumption
    DEF AuditResult, Append, IInv, WorksOnApproved, AuditsRecorded, HasOutcome,
        AtItem, Labels
  <2>2. pc[r] # "done" /\ pc'[r] # "done"
    BY <1>0, <1>5 DEF AuditResult, NextItem, Goto, TypeOK
  <2>3. Answers' = Answers
    BY <1>0, <1>1, <1>3, <2>2, AnswersStand
  <2>4. Promise!Tell(at[r])
    BY <1>1, <1>2, <1>4, <2>1, <2>3 DEF Promise!Tell
  <2> QED
    BY <2>1, <2>4 DEF Promise!Next
<1>6. CASE FinishRun(r)
  <2>1. pc'[r] = "done" /\ audit' = audit
    BY <1>0, <1>6 DEF FinishRun, Append, End, Goto, TypeOK
  <2>2. \A i \in Promise!Approved :
           Outcomes[i] \in Promise!Statuses /\ report'[r][i] = Outcomes[i]
    BY <1>1, <1>4, <2>1 DEF IInv, ReportAgreesWithLedger, Promise!Approved
  <2>3. Reply(r)' = [i \in Promise!Approved |-> Outcomes[i]]
    BY <1>1, <2>2 DEF Reply, Promise!Approved
  <2>4. Answers' = [Answers EXCEPT ![r] = Reply(r)']
    BY <1>0, <1>1, <1>3, <2>1, AnswerChanges
  <2>5. Promise!Answer(r)
    BY <1>1, <1>2, <2>1, <2>2, <2>3, <2>4 DEF Promise!Answer
  <2> QED
    BY <2>5 DEF Promise!Next
<1>7. CASE Start(r)
  <2>1. pc'[r] = "lookup" /\ audit' = audit
    BY <1>0, <1>7 DEF Start, Goto, TypeOK, auditVars
  <2>2. Answers' = [Answers EXCEPT ![r] = NoResult]
    BY <1>0, <1>1, <1>3, <2>1, AnswerChanges
  <2>3. Promise!Ask(r)
    BY <1>1, <1>2, <2>1, <2>2 DEF Promise!Ask
  <2> QED
    BY <2>3 DEF Promise!Next
<1> QED
  BY <1>5, <1>6, <1>7
\* Preview, approval, time, edits and the loss of the process.
LEMMA EnvironmentSimulated ==
    ASSUME IInv, edits = 0 => FilesInv,
           CreateBatch \/ ApproveBatch \/ Tick \/ Edit \/ LoseProcess
    PROVE  [Promise!Next]_(Promise!vars)
<1> USE DEF batchVars, ledgerVars, auditVars, runVars, boundVars
<1>0. TypeOK /\ edits \in Nat
  BY BoundsAssumption DEF IInv, TypeOK
<1>1. CASE CreateBatch
  <2>1. \A i \in Items : itemState[i] = "NEW"
    BY <1>1 DEF CreateBatch, StatesOf
  <2>2. \A r \in Runners : pc[r] = "idle"
    BY <2>1 DEF IInv, RunsApproved
  <2>3. UNCHANGED <<fs, audit, edits, inProgress, result, pc>>
    BY <1>1 DEF CreateBatch
  <2>4. Outcomes' = Outcomes /\ Answers' = Answers
    BY <2>2, <2>3 DEF Outcomes, Answers
  <2>5. ASSUME NEW i \in Items
        PROVE  /\ itemState'[i] \in {"PLANNED", "BLOCKED"}
               /\ expected'[i] = IF itemState'[i] = "PLANNED" THEN fs[Src[i]] ELSE Absent
               /\ itemState'[i] = "PLANNED" =>
                     fs[Src[i]] # Absent /\ (edits > 0 \/ fs[Dst[i]] = Absent)
    <3>1. /\ expected'[i] = IF plan[i] = "READY" THEN fs[Src[i]] ELSE Absent
          /\ itemState'[i] = IF expected'[i] # Absent THEN "PLANNED" ELSE "BLOCKED"
      BY <1>1 DEF CreateBatch, Exists
    <3>2. edits = 0 => plan[i] = PlanStatus(fs, i)
      BY <2>1 DEF FilesInv, PlansAreTrue
    <3>3. PlanStatus(fs, i) = "READY" => fs[Dst[i]] = Absent
      BY DEF PlanStatus, DestinationCollides, Exists
    <3> QED
      BY <1>0, <3>1, <3>2, <3>3
  <2>6. /\ itemState' \in [Items -> {"PLANNED", "BLOCKED"}]
        /\ expected' = [i \in Items |->
                           IF itemState'[i] = "PLANNED" THEN fs[Src[i]] ELSE Absent]
    <3>1. /\ itemState' = [i \in Items |-> itemState'[i]]
          /\ expected' = [i \in Items |-> expected'[i]]
      BY <1>1 DEF CreateBatch
    <3> QED
      BY <2>5, <3>1
  <2>7. Promise!Offer
    BY <2>1, <2>3, <2>4, <2>5, <2>6 DEF Promise!Offer
  <2> QED
    BY <2>7 DEF Promise!Next
<1>2. CASE ApproveBatch
  <2>1. \A i \in Items : itemState[i] # "APPROVED"
    BY <1>2, ApprovedBatch DEF ApproveBatch, StatesOf
  <2>2. \A r \in Runners : pc[r] = "idle"
    BY <2>1 DEF IInv, RunsApproved
  <2>3. UNCHANGED <<fs, expected, audit, edits, inProgress, result, pc>>
    BY <1>2 DEF ApproveBatch
  <2>4. Outcomes' = Outcomes /\ Answers' = Answers
    BY <2>2, <2>3 DEF Outcomes, Answers
  <2>5. Promise!Approve
    BY <1>2, <2>3, <2>4 DEF ApproveBatch, Promise!Approve
  <2> QED
    BY <2>5 DEF Promise!Next
<1>3. CASE Tick
  BY <1>3 DEF Tick, Promise!vars, Outcomes, Answers
<1>4. CASE Edit
  <2>1. Outcomes' = Outcomes /\ Answers' = Answers
    BY <1>4 DEF Edit, Outcomes, Answers
  <2>2. edits' > 0
    BY <1>0, <1>4 DEF Edit
  <2>3. Promise!Interfere
    BY <1>4, <2>1, <2>2 DEF Edit, Promise!Interfere
  <2> QED
    BY <2>3 DEF Promise!Next
<1>5. CASE LoseProcess
  <2>1. Outcomes' = [i \in Items |-> "OPEN"]
    BY <1>5 DEF LoseProcess, Outcomes
  <2>2. Answers' = [r \in Runners |-> NoResult]
    BY <1>5 DEF LoseProcess, Answers
  <2>3. Promise!Forget
    BY <1>5, <2>1, <2>2 DEF LoseProcess, Promise!Forget
  <2> QED
    BY <2>3 DEF Promise!Next
<1> QED
  BY <1>1, <1>2, <1>3, <1>4, <1>5

LEMMA StepSimulation ==
    ASSUME IInv, IInv', Supported, HasRead, edits = 0 => FilesInv, [Next]_vars
    PROVE  [Promise!Next]_(Promise!vars)
<1>0. TypeOK
  BY DEF IInv
<1>1. CASE UNCHANGED vars
  BY <1>1
  DEF vars, batchVars, ledgerVars, auditVars, runVars, boundVars, Promise!vars,
      Outcomes, Answers
<1>2. ASSUME NEW r \in Runners, Step(r) \/ Crash(r),
             ~RecordIntent(r), ~CreateDestination(r), ~CopyContent(r),
             ~UnlinkSource(r), ~RecordResult(r), ~AuditResult(r), ~FinishRun(r)
      PROVE  [Promise!Next]_(Promise!vars)
  <2>1. Hidden(r) /\ UNCHANGED <<itemState, expected, edits>>
    BY <1>0, <1>2, HiddenSteps, StepFrame DEF batchVars
  <2>2. Answers' = Answers
    BY <1>0, <1>2, <2>1, AnswersStand, StepFrame, ReportFrame DEF Hidden
  <2>3. Outcomes' = Outcomes
    BY <2>1 DEF Hidden, Outcomes
  <2> QED
    BY <2>1, <2>2, <2>3 DEF Hidden, Promise!vars
<1> QED
  BY <1>1, <1>2, EnvironmentSimulated, FileStepsSimulated, LedgerStepsSimulated,
     CallEndsSimulated
  DEF Next

\* However many calls overlap, are interrupted and repeated, to the files, the
\* trail and whoever gets an answer it looks as if every item had been taken on,
\* executed and settled once.
THEOREM PromiseKept == Spec => KeepsPromise
<1>1. Init => Promise!Init /\ Supported /\ HasRead
  <2> SUFFICES ASSUME Init PROVE Promise!Init /\ Supported /\ HasRead
    OBVIOUS
  <2>1. Outcomes = [i \in Items |-> "OPEN"] /\ Answers = [r \in Runners |-> NoResult]
    BY DEF Init, Outcomes, Answers
  <2> QED
    BY <2>1 DEF Init, Promise!Init, Supported, HasRead
<1>2. IInv /\ Supported /\ HasRead /\ [Next]_vars => (Supported /\ HasRead)'
  BY NextKeepsSupported, NextKeepsHasRead
<1>3. IInv /\ Supported /\ HasRead /\ (edits = 0 => FilesInv) /\ [Next]_vars
        => [Promise!Next]_(Promise!vars)
  BY NextKeepsIInv, StepSimulation
<1> QED
  BY <1>1, <1>2, <1>3, InvariantHolds, FilesInvariant, PTL
  DEF Spec, KeepsPromise, Promise!Spec
----------------------------------------------------------------------------
\* What was moved or copied is what was approved, as long as nobody edits.

SuccessOf(record, i) ==
    record # NoResult /\ record.status = "SUCCEEDED" => record.source = expected[i]

\* A call settles on a success of the approved content only.
CallsOnApproved ==
    \A r \in Runners : pc[r] \in {"record", "auditResult"} => SuccessOf(pend[r], at[r])

LEMMA SettlesOnApproved ==
    ASSUME IInv, FilesInv, edits = 0, CallsOnApproved,
           NEW r \in Runners, Start(r) \/ Step(r) \/ Crash(r),
           pc'[r] \in {"record", "auditResult"}
    PROVE  SuccessOf(pend'[r], at'[r])
<1>0. TypeOK /\ TrueCall(r)
  BY DEF IInv, FilesInv, CallsAreTrue
<1>1. CASE VerifyResult(r)
  BY <1>0, <1>1 DEF VerifyResult, Settle, Outcome, Goto, TypeOK, TrueCall, SuccessOf
<1>2. CASE ObserveDestination(r) \/ RecheckSource(r)
  <2>1. CASE \E status, found : SettleObserved(r, status, found)
    <3>1. PICK status, found : SettleObserved(r, status, found)
      BY <2>1
    <3>2. pend'[r].source = expected[at[r]]
      BY <1>0, <3>1 DEF SettleObserved, Outcome, TypeOK
    <3>3. UNCHANGED <<at, expected>>
      BY <1>2 DEF ObserveDestination, RecheckSource, batchVars
    <3> QED
      BY <3>2, <3>3 DEF SuccessOf
  <2>2. CASE pc'[r] \notin {"record", "auditResult"}
    BY <2>2
  <2> QED
    BY <1>0, <1>2, <2>1, <2>2 DEF ObserveDestination, RecheckSource, Goto, TypeOK
<1>3. CASE \/ CheckStale(r) \/ Preflight(r) \/ ReadSource(r) \/ CreateDestination(r)
           \/ CopyContent(r) \/ VerifyCopy(r) \/ UnlinkSource(r) \/ DiskError(r)
  <2>1. CASE \E status \in {"BLOCKED", "FAILED", "VERIFICATION_FAILED"} :
                \E how, source : Settle(r, status, how, source)
    BY <1>0, <2>1 DEF Settle, Outcome, TypeOK, SuccessOf
  <2>2. CASE pc'[r] \notin {"record", "auditResult"}
    BY <2>2
  <2> QED
    BY <1>0, <1>3, <2>1, <2>2
    DEF CheckStale, Preflight, ReadSource, CreateDestination, CopyContent,
        VerifyCopy, UnlinkSource, DiskError, Fails, Goto, TypeOK
<1>4. CASE RecordResult(r)
  BY <1>0, <1>4
  DEF RecordResult, Abort, End, Goto, TypeOK, CallsOnApproved
<1>5. CASE \/ Start(r) \/ Crash(r) \/ SkipItem(r) \/ ReplayItem(r) \/ LookupItem(r)
           \/ CheckInProgress(r) \/ RecordIntent(r) \/ AuditIntent(r)
           \/ AuditRefuses(r) \/ ObserveSource(r) \/ AuditResult(r) \/ FinishRun(r)
  BY <1>0, <1>5
  DEF Start, Crash, SkipItem, ReplayItem, LookupItem, CheckInProgress,
      RecordIntent, AuditIntent, AuditRefuses, ObserveSource, AuditResult,
      FinishRun, NextItem, Abort, End, Goto, TypeOK
<1> QED
  BY <1>1, <1>2, <1>3, <1>4, <1>5 DEF Step

LEMMA NextKeepsApproved ==
    ASSUME IInv, FilesInv, edits = 0, CallsOnApproved, ApprovedContentOnly,
           [Next]_vars, edits' = 0
    PROVE  CallsOnApproved' /\ ApprovedContentOnly'
<1> USE DEF batchVars, ledgerVars, auditVars, runVars, boundVars
<1>1. CASE ApproveBatch \/ Tick \/ UNCHANGED vars
  BY <1>1
  DEF ApproveBatch, Tick, vars, CallsOnApproved, SuccessOf, ApprovedContentOnly
<1>2. CASE CreateBatch
  <2>1. \A i \in Items : itemState[i] = "NEW"
    BY <1>2 DEF CreateBatch, StatesOf
  <2>2. /\ \A r \in Runners : pc[r] = "idle"
        /\ \A i \in Items : result[i] = NoResult
    BY <2>1 DEF IInv, RunsApproved, ResultsAreApproved
  <2> QED
    BY <1>2, <2>2 DEF CreateBatch, CallsOnApproved, ApprovedContentOnly
<1>3. CASE LoseProcess
  BY <1>3 DEF LoseProcess, CallsOnApproved, ApprovedContentOnly
<1>4. CASE Edit
  BY <1>4 DEF Edit
<1>5. ASSUME NEW r \in Runners, Start(r) \/ Step(r) \/ Crash(r)
      PROVE  CallsOnApproved' /\ ApprovedContentOnly'
  <2>1. /\ UNCHANGED expected
        /\ \A q \in Runners \ {r} : pc'[q] = pc[q] /\ at'[q] = at[q] /\ pend'[q] = pend[q]
        /\ \A i \in Items : \/ result'[i] = result[i]
                            \/ pc[r] = "record" /\ i = at[r] /\ result'[i] = pend[r]
    BY <1>5, StepFrame DEF IInv
  <2>2. CallsOnApproved'
    BY <1>5, <2>1, SettlesOnApproved DEF CallsOnApproved, SuccessOf
  <2>3. ApprovedContentOnly'
    BY <2>1 DEF ApprovedContentOnly, CallsOnApproved, SuccessOf
  <2> QED
    BY <2>2, <2>3
<1> QED
  BY <1>1, <1>2, <1>3, <1>4, <1>5 DEF Next

\* A success moved or copied the content that was approved, until the owner
\* edits a file: only an edit between two readings of the source comes between.
THEOREM ApprovedUntilEdited == Spec => [](edits = 0 => ApprovedContentOnly)
<1> DEFINE K == edits = 0 => CallsOnApproved /\ ApprovedContentOnly
<1>1. Init => K
  BY DEF Init, CallsOnApproved, ApprovedContentOnly
<1>2. IInv /\ (edits = 0 => FilesInv) /\ K /\ [Next]_vars => K'
  BY EditsGrow, NextKeepsApproved
<1>3. K => (edits = 0 => ApprovedContentOnly)
  OBVIOUS
<1> HIDE DEF K
<1> QED
  BY <1>1, <1>2, <1>3, InvariantHolds, FilesInvariant, PTL DEF Spec
============================================================================
