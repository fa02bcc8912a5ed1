------------------------------ MODULE Restore ------------------------------
(***************************************************************************)
(* Restoring moved and copied files, src/docweave/operations/restore.py:   *)
(* plan_restore_batch and execute_restore_batch for recorded results, and  *)
(* the desktop cockpit's restore of one table row, which builds the        *)
(* original operation from file history and the digest of the file as it   *)
(* is now.  Calls may overlap, may be cut short and may be repeated; files *)
(* may be edited by their owner at any time.                               *)
(*                                                                         *)
(* As in BatchExecution a digest is modelled as the content it identifies. *)
(* Undoing a COPY removes the generated copy; undoing a MOVE is a          *)
(* non-overwriting move back, run by execute_file_operation.               *)
(***************************************************************************)
EXTENDS Naturals, FiniteSets

CONSTANTS
    N,           \* number of recorded operations
    Calls,       \* concurrent users of the restore operations
    Paths, Contents,
    Original,    \* where each operation took its file from ...
    Current,     \* ... and where it put it
    Op,          \* what each operation was, "COPY" or "MOVE"
    Window,      \* how long an approval stays valid
    MaxClock,    \* bound: the clock stops here
    MaxEdits,    \* bound: edits by the files' owner
    MaxFaults,   \* bound: interrupted calls, lost processes, disk errors
    Absent,      \* no file at a path (also: no digest)
    Partial      \* a file that is only partly written

Items == 1..N
FileStates == Contents \cup {Absent, Partial}

ASSUME ItemsAssumption ==
    /\ N \in Nat \ {0}
    /\ Original \in [Items -> Paths]
    /\ Current \in [Items -> Paths]
    /\ Op \in [Items -> {"COPY", "MOVE"}]
    /\ \A i \in Items : Original[i] # Current[i]
ASSUME ContentsAssumption ==
    /\ Absent # Partial
    /\ Absent \notin Contents
    /\ Partial \notin Contents
ASSUME BoundsAssumption ==
    /\ Window \in Nat \ {0}
    /\ MaxClock \in Nat
    /\ MaxEdits \in Nat
    /\ MaxFaults \in Nat

VARIABLES
    fs,          \* what is at each path
    recorded,    \* destination_digest_after of each original result; Absent
                 \* when the operation did not succeed or kept no digest
    approvals,   \* audit trail: the items with a RESTORE_APPROVED event; the
                 \* events of results are abstracted to their time
    trailTime,   \* time of the trail's last event
    call,        \* the progress of each call
    restored,    \* history: the items some call reported SUCCEEDED
    late,        \* history: the owner changed a file while a call was acting
    altered,     \* history: the generated copies that passed a recheck although
                 \* their original did not hold the same content any more
    disturbed,   \* history: the items one of whose places the owner changed, or
                 \* whose move back a fault hit while the file was in two places
    clock, edits, faults

trailVars == <<approvals, trailTime>>
history   == <<restored, late, altered, disturbed>>
boundVars == <<clock, edits, faults>>
vars == <<fs, recorded, trailVars, call, history, boundVars>>

----------------------------------------------------------------------------
\* Planning.

Exists(content) == content # Absent

Reasons == {"READY", "NOT_RESTORABLE", "ORIGINAL_SOURCE_MISSING",
            "GENERATED_COPY_MISSING", "GENERATED_COPY_CHANGED",
            "MOVED_FILE_MISSING", "MOVED_FILE_CHANGED",
            "ORIGINAL_LOCATION_COLLISION"}

\* _plan_copy_restore: the original only has to be there.
CopyPlan(f, i, digest) ==
    IF ~Exists(f[Original[i]]) THEN "ORIGINAL_SOURCE_MISSING"
    ELSE IF ~Exists(f[Current[i]]) THEN "GENERATED_COPY_MISSING"
    ELSE IF f[Current[i]] # digest THEN "GENERATED_COPY_CHANGED"
    ELSE "READY"

\* _plan_move_restore, with plan_file_operation of the move back.
MovePlan(f, i, digest) ==
    IF ~Exists(f[Current[i]]) THEN "MOVED_FILE_MISSING"
    ELSE IF f[Current[i]] # digest THEN "MOVED_FILE_CHANGED"
    ELSE IF Exists(f[Original[i]]) THEN "ORIGINAL_LOCATION_COLLISION"
    ELSE "READY"

\* plan_restore_operation.  For one item and one digest the fingerprint of a
\* plan is this reason.
PlanReason(f, i, digest) ==
    IF ~Exists(digest) THEN "NOT_RESTORABLE"
    ELSE IF Op[i] = "COPY" THEN CopyPlan(f, i, digest)
    ELSE MovePlan(f, i, digest)

Statuses == {"SUCCEEDED", "BLOCKED", "FAILED", "VERIFICATION_FAILED"}
Steps == {"idle", "planned", "approve", "recheck", "remove",
          "verifyRemoved", "read", "create", "copy", "verifyCopy", "unlink",
          "verifyMoved", "log"}
Acting == {"remove", "verifyRemoved", "read", "create", "copy", "verifyCopy",
           "unlink", "verifyMoved"}
\* A move back has created the original place and not yet left the other one.
Halfway == {"copy", "verifyCopy", "unlink"}

CallStates ==
    [pc : Steps,
     at : Items,                         \* the item in hand
     row : BOOLEAN,                      \* of the cockpit, not of a batch
     ready : SUBSET Items,               \* the items whose preview is READY
     digest : [Items -> FileStates],     \* expected_digest of each preview
     approved : 0..MaxClock,             \* approved_at_utc
     now : 0..MaxClock,                  \* now_utc
     seen : FileStates,                  \* source_digest_before
     result : Statuses \cup {"NONE"}]    \* of the item in hand

IdleCall ==
    [pc |-> "idle", at |-> 1, row |-> FALSE, ready |-> {},
     digest |-> [i \in Items |-> Absent], approved |-> 0, now |-> 0,
     seen |-> Absent, result |-> "NONE"]

\* Some of the operations have succeeded and left their files behind; what the
\* owner makes of them since is Edit.
Init ==
    /\ fs \in [Paths -> Contents \cup {Absent}]
    /\ recorded \in [Items -> Contents \cup {Absent}]
    /\ \E i \in Items : Exists(recorded[i])
    /\ \A i \in Items : Exists(recorded[i]) =>
          /\ fs[Current[i]] = recorded[i]
          /\ fs[Original[i]] = IF Op[i] = "COPY" THEN recorded[i] ELSE Absent
    /\ approvals = {}
    /\ trailTime = 0
    /\ call = [r \in Calls |-> IdleCall]
    /\ restored = {}
    /\ late = FALSE
    /\ altered = {}
    /\ disturbed = {}
    /\ clock = 0
    /\ edits = 0
    /\ faults = 0

----------------------------------------------------------------------------
\* The surroundings.

Tick ==
    /\ clock < MaxClock
    /\ clock' = clock + 1
    /\ UNCHANGED <<fs, recorded, trailVars, call, history, edits, faults>>

\* The files' owner replaces, creates or deletes a file.
Edit ==
    /\ edits < MaxEdits
    /\ edits' = edits + 1
    /\ \E p \in Paths, c \in Contents \cup {Absent} :
          /\ c # fs[p]
          /\ fs' = [fs EXCEPT ![p] = c]
          /\ disturbed' = disturbed \cup {i \in Items : p \in {Original[i], Current[i]}}
    /\ late' = (late \/ \E r \in Calls : call[r].pc \in Acting)
    /\ UNCHANGED <<recorded, trailVars, call, restored, altered, clock, faults>>

\* Something the call uses raises: nothing is returned, what it did stays.
Abort(r) == call' = [call EXCEPT ![r] = IdleCall]

\* A fault hits these calls.
Disturbs(calls) ==
    /\ faults < MaxFaults
    /\ faults' = faults + 1
    /\ disturbed' = disturbed \cup
          {call[r].at : r \in {q \in calls : call[q].pc \in Halfway}}
    /\ UNCHANGED <<restored, late, altered>>

Crash(r) ==
    /\ call[r].pc \notin {"idle", "planned"}
    /\ Disturbs({r})
    /\ Abort(r)
    /\ UNCHANGED <<fs, recorded, trailVars, clock, edits>>

\* The process dies, and the in-memory trail with it.
LoseProcess ==
    /\ Disturbs(Calls)
    /\ approvals' = {}
    /\ trailTime' = 0
    /\ call' = [r \in Calls |-> IdleCall]
    /\ UNCHANGED <<fs, recorded, clock, edits>>

----------------------------------------------------------------------------
\* Preview and approval.

Goto(r, step) == call' = [call EXCEPT ![r].pc = step]

\* plan_restore_batch of every recorded result; the preview is kept.
PlanBatch(r) ==
    /\ call[r].pc \in {"idle", "planned"}
    /\ call' = [call EXCEPT ![r] =
                  [IdleCall EXCEPT
                     !.pc = "planned", !.digest = recorded,
                     !.ready = {i \in Items :
                                  PlanReason(fs, i, recorded[i]) = "READY"}]]
    /\ UNCHANGED <<fs, recorded, trailVars, history, boundVars>>

\* execute_restore_batch of a preview, with the time of approval the request
\* states.
ExecuteBatch(r, time) ==
    /\ call[r].pc = "planned"
    /\ call' = [call EXCEPT ![r].pc = "approve", ![r].approved = time,
                            ![r].now = clock]
    /\ UNCHANGED <<fs, recorded, trailVars, history, boundVars>>

\* _execute_restore_for_row up to the approval: the cockpit plans the undoing
\* of one moved file as it is now and approves it at once.
RestoreRow(r, i) ==
    /\ call[r].pc = "idle"
    /\ Op[i] = "MOVE"
    /\ PlanReason(fs, i, fs[Current[i]]) = "READY"
    /\ call' = [call EXCEPT ![r] =
                  [IdleCall EXCEPT !.pc = "approve", !.row = TRUE,
                                   !.ready = {i}, !.digest[i] = fs[Current[i]],
                                   !.approved = clock, !.now = clock]]
    /\ UNCHANGED <<fs, recorded, trailVars, history, boundVars>>

\* The call has dealt with the items in done: it takes the first ready one that
\* is left, or returns its report.
Proceed(r, done) ==
    \/ /\ call[r].ready \subseteq done
       /\ call' = [call EXCEPT ![r] =
                     IF call[r].row THEN IdleCall
                     ELSE [IdleCall EXCEPT !.pc = "planned",
                                           !.ready = call[r].ready,
                                           !.digest = call[r].digest]]
    \/ \E i \in call[r].ready \ done :
          /\ \A j \in call[r].ready \ done : i <= j
          /\ call' = [call EXCEPT ![r].pc = "recheck", ![r].at = i,
                                  ![r].seen = Absent, ![r].result = "NONE"]

\* Mutant: only results are audited.
ApproveReadyItems_Unaudited(r) ==
    /\ call[r].pc = "approve"
    /\ Proceed(r, {})
    /\ UNCHANGED <<fs, recorded, trailVars, history, boundVars>>

\* The first loop: approve_restore_plan of each ready item and its event, at
\* the time of approval.  The trail refuses to go back in time.
ApproveReadyItems(r) ==
    /\ call[r].pc = "approve"
    /\ \/ /\ call[r].ready = {}
          /\ Proceed(r, {})
          /\ UNCHANGED trailVars
       \/ /\ call[r].ready # {}
          /\ call[r].approved >= trailTime
          /\ approvals' = approvals \cup call[r].ready
          /\ trailTime' = call[r].approved
          /\ Proceed(r, {})
       \/ /\ call[r].ready # {}
          /\ call[r].approved < trailTime
          /\ Abort(r)
          /\ UNCHANGED trailVars
    /\ UNCHANGED <<fs, recorded, history, boundVars>>

----------------------------------------------------------------------------
\* The second loop: execute_restore_operation of each approved item.

Settle(r, status) ==
    call' = [call EXCEPT ![r].pc = "log", ![r].result = status]

\* _restore_precondition_blocker; a blank approver or id blocks like a lapsed
\* approval does.
ApprovalHolds(r) ==
    /\ call[r].approved <= call[r].now
    /\ call[r].now < call[r].approved + Window

Place(r) == fs[Current[call[r].at]]
Home(r)  == fs[Original[call[r].at]]

\* Mutant: the approved preview is trusted.
RecheckPlan_Trusted(r) ==
    /\ call[r].pc = "recheck"
    /\ IF ApprovalHolds(r)
       THEN Goto(r, IF Op[call[r].at] = "COPY" THEN "remove" ELSE "read")
       ELSE Settle(r, "BLOCKED")
    /\ UNCHANGED <<fs, recorded, trailVars, history, boundVars>>

\* Mutant: the reason of the new plan is reported.
RecheckPlan_Reason(r) ==
    LET i == call[r].at
        reason == PlanReason(fs, i, call[r].digest[i])
    IN  /\ call[r].pc = "recheck"
        /\ IF ApprovalHolds(r) /\ reason = "READY"
           THEN Goto(r, IF Op[i] = "COPY" THEN "remove" ELSE "read")
           ELSE Settle(r, reason)
        /\ UNCHANGED <<fs, recorded, trailVars, history, boundVars>>

\* The plan is made again and has to have the approved fingerprint.  It does
\* not look whether the original of a copy still holds the copied content.
RecheckPlan(r) ==
    LET i == call[r].at
        unchanged == PlanReason(fs, i, call[r].digest[i]) = "READY"
    IN  /\ call[r].pc = "recheck"
        /\ IF ApprovalHolds(r) /\ unchanged
           THEN /\ Goto(r, IF Op[i] = "COPY" THEN "remove" ELSE "read")
                /\ altered' = altered \cup
                      {k \in {i} : Op[i] = "COPY" /\ Home(r) # Place(r)}
           ELSE Settle(r, "BLOCKED") /\ UNCHANGED altered
        /\ UNCHANGED <<fs, recorded, trailVars, restored, late, disturbed, boundVars>>

\* Mutant: unlink(missing_ok=True).
RemoveCopy_MissingOk(r) ==
    /\ call[r].pc = "remove"
    /\ fs' = [fs EXCEPT ![Current[call[r].at]] = Absent]
    /\ Goto(r, "verifyRemoved")
    /\ UNCHANGED <<recorded, trailVars, history, boundVars>>

\* _execute_copy_restore: unlink ...
RemoveCopy(r) ==
    /\ call[r].pc = "remove"
    /\ \/ /\ Exists(Place(r))
          /\ fs' = [fs EXCEPT ![Current[call[r].at]] = Absent]
          /\ Goto(r, "verifyRemoved")
       \/ /\ ~Exists(Place(r))
          /\ Settle(r, "FAILED")
          /\ UNCHANGED fs
    /\ UNCHANGED <<recorded, trailVars, history, boundVars>>

\* The verdict of a verification, remembered when it is a success.
Verify(r, verified) ==
    /\ Settle(r, IF verified THEN "SUCCEEDED" ELSE "VERIFICATION_FAILED")
    /\ restored' = IF verified THEN restored \cup {call[r].at} ELSE restored

\* ... then look that the copy is gone and the original is there.
VerifyRemoved(r) ==
    /\ call[r].pc = "verifyRemoved"
    /\ Verify(r, ~Exists(Place(r)) /\ Exists(Home(r)))
    /\ UNCHANGED <<fs, recorded, trailVars, late, altered, disturbed, boundVars>>

\* execute_file_operation of the move back: a fresh plan and the digest of
\* the moved file as it is now.
ReadMoved(r) ==
    /\ call[r].pc = "read"
    /\ \/ /\ Exists(Place(r)) /\ ~Exists(Home(r))
          /\ call' = [call EXCEPT ![r].pc = "create", ![r].seen = Place(r)]
       \/ /\ ~Exists(Place(r)) \/ Exists(Home(r))
          /\ Settle(r, "BLOCKED")
    /\ UNCHANGED <<fs, recorded, trailVars, history, boundVars>>

\* An OSError other than FileExistsError during the move back.
MoveFails(r) ==
    Settle(r, IF Exists(Home(r)) THEN "VERIFICATION_FAILED" ELSE "FAILED")

\* The disk refuses a step.
DiskError(r) ==
    /\ Disturbs({r})
    /\ \/ call[r].pc = "remove" /\ Settle(r, "FAILED")
       \/ call[r].pc \in {"create", "copy", "verifyCopy", "unlink"} /\ MoveFails(r)
    /\ UNCHANGED <<fs, recorded, trailVars, clock, edits>>

\* Open the moved file, then create its original place exclusively.
CreateHome(r) ==
    /\ call[r].pc = "create"
    /\ \/ /\ ~Exists(Place(r))
          /\ MoveFails(r)
          /\ UNCHANGED fs
       \/ /\ Exists(Place(r)) /\ Exists(Home(r))
          /\ Settle(r, "BLOCKED")
          /\ UNCHANGED fs
       \/ /\ Exists(Place(r)) /\ ~Exists(Home(r))
          /\ fs' = [fs EXCEPT ![Original[call[r].at]] = Partial]
          /\ Goto(r, "copy")
    /\ UNCHANGED <<recorded, trailVars, history, boundVars>>

\* What the open file yields: its content, or a mixture when it was replaced.
Copied(r) ==
    IF Place(r) = call[r].seen THEN {call[r].seen}
    ELSE {call[r].seen, Place(r), Partial} \ {Absent}

\* A file that took the place of the half-written one keeps what it holds.
CopyHome(r) ==
    LET home == Original[call[r].at]
    IN  /\ call[r].pc = "copy"
        /\ \/ /\ fs[home] = Partial /\ Exists(Place(r))
              /\ \E c \in Copied(r) : fs' = [fs EXCEPT ![home] = c]
              /\ Goto(r, "verifyCopy")
           \/ /\ fs[home] \in Contents /\ Exists(Place(r))
              /\ Goto(r, "verifyCopy")
              /\ UNCHANGED fs
           \/ /\ fs[home] = Partial /\ ~Exists(Place(r))
              /\ \E c \in {call[r].seen, Partial} : fs' = [fs EXCEPT ![home] = c]
              /\ MoveFails(r)
           \/ /\ fs[home] # Partial
              /\ ~Exists(fs[home]) \/ ~Exists(Place(r))
              /\ MoveFails(r)
              /\ UNCHANGED fs
        /\ UNCHANGED <<recorded, trailVars, history, boundVars>>

\* Mutant: the verified copy is taken for the end of the move.
VerifyHome_Stays(r) ==
    /\ call[r].pc = "verifyCopy"
    /\ IF Exists(Home(r)) THEN Settle(r, "SUCCEEDED") ELSE MoveFails(r)
    /\ UNCHANGED <<fs, recorded, trailVars, history, boundVars>>

VerifyHome(r) ==
    /\ call[r].pc = "verifyCopy"
    /\ \/ Home(r) = call[r].seen /\ Goto(r, "unlink")
       \/ Exists(Home(r)) /\ Home(r) # call[r].seen /\ Settle(r, "VERIFICATION_FAILED")
       \/ ~Exists(Home(r)) /\ MoveFails(r)
    /\ UNCHANGED <<fs, recorded, trailVars, history, boundVars>>

UnlinkMoved(r) ==
    /\ call[r].pc = "unlink"
    /\ \/ /\ Exists(Place(r))
          /\ fs' = [fs EXCEPT ![Current[call[r].at]] = Absent]
          /\ Goto(r, "verifyMoved")
       \/ /\ ~Exists(Place(r))
          /\ MoveFails(r)
          /\ UNCHANGED fs
    /\ UNCHANGED <<recorded, trailVars, history, boundVars>>

VerifyMoved(r) ==
    /\ call[r].pc = "verifyMoved"
    /\ Verify(r, ~Exists(Place(r)) /\ Exists(Home(r)))
    /\ UNCHANGED <<fs, recorded, trailVars, late, altered, disturbed, boundVars>>

\* append_restore_execution_audit_event, at the time of the call, and on to
\* the next item.  A result the trail refuses ends the call.
LogResult(r) ==
    /\ call[r].pc = "log"
    /\ \/ /\ call[r].now >= trailTime
          /\ trailTime' = call[r].now
          /\ Proceed(r, 1..call[r].at)
          /\ UNCHANGED approvals
       \/ /\ call[r].now < trailTime
          /\ Abort(r)
          /\ UNCHANGED trailVars
    /\ UNCHANGED <<fs, recorded, history, boundVars>>

----------------------------------------------------------------------------
Step(r) ==
    \/ ApproveReadyItems(r) \/ RecheckPlan(r) \/ LogResult(r)
    \/ RemoveCopy(r) \/ VerifyRemoved(r)
    \/ ReadMoved(r) \/ CreateHome(r) \/ CopyHome(r) \/ VerifyHome(r)
    \/ UnlinkMoved(r) \/ VerifyMoved(r)

Next ==
    \/ Tick \/ Edit \/ LoseProcess
    \/ \E r \in Calls :
          \/ PlanBatch(r)
          \/ \E time \in 0..MaxClock : ExecuteBatch(r, time)
          \/ \E i \in Items : RestoreRow(r, i)
          \/ Step(r) \/ DiskError(r) \/ Crash(r)

Spec == Init /\ [][Next]_vars

----------------------------------------------------------------------------
\* Properties.

\* Every variable stays in its type.
TypeOK ==
    /\ fs \in [Paths -> FileStates]
    /\ recorded \in [Items -> Contents \cup {Absent}]
    /\ approvals \subseteq Items
    /\ trailTime \in 0..MaxClock
    /\ call \in [Calls -> CallStates]
    /\ restored \subseteq Items
    /\ late \in BOOLEAN
    /\ altered \subseteq Items
    /\ disturbed \subseteq Items
    /\ clock \in 0..MaxClock
    /\ edits \in 0..MaxEdits
    /\ faults \in 0..MaxFaults

\* A restore changes a file only for an item whose approval is in the trail and
\* still valid, by a call that holds a ready preview of it: a result without a
\* recorded approval does not occur, however calls interleave or are cut short.
ChangesAreApproved ==
    [][\A p \in Paths : fs'[p] # fs[p] /\ edits' = edits =>
          \E r \in Calls : LET i == call[r].at IN
             /\ i \in call[r].ready
             /\ p \in {Original[i], Current[i]}
             /\ i \in approvals
             /\ ApprovalHolds(r)]_vars

Held(files) == {files[p] : p \in Paths} \cap Contents

\* Restores make no content disappear, as long as the owner changes no file
\* between a call's recheck and its result and no recheck passes a generated
\* copy whose original had been changed: an edit at any other time, a crash, a
\* disk error or a second call at the same time never leads there.
LossNeedsALateEdit ==
    [][edits' = edits /\ ~late /\ altered = {} => Held(fs) \subseteq Held(fs')]_vars

\* A success is true of the disk when it is reported, unless the owner changed a
\* file between a recheck and its result: nothing is where the operation put the
\* file, and the approved content is where it came from.  A removed copy whose
\* original had been changed before, at whatever time, is reported SUCCEEDED
\* too, as the recheck does not compare the two: there its original is a file
\* with another content.
SuccessIsRestored ==
    [][\A r \in Calls : LET i == call[r].at IN
          /\ call[r].result # "SUCCEEDED"
          /\ call'[r].result = "SUCCEEDED"
          /\ ~late
          => /\ ~Exists(fs'[Current[i]])
             /\ \/ fs'[Original[i]] = call[r].digest[i]
                \/ i \in altered /\ Exists(fs'[Original[i]])]_vars

\* Nothing is restored twice: a preview that is executed again, by the same
\* call after an interruption or by another at the same time, does not report
\* another success as long as the owner leaves the files alone.
RestoredOnce ==
    [][\A r \in Calls : LET i == call[r].at IN
          /\ call[r].result # "SUCCEEDED"
          /\ call'[r].result = "SUCCEEDED"
          => i \notin restored \/ edits > 0]_vars

\* A batch that is cut short, refused by the trail, repeated or overlapped by
\* another leaves each moved file in one of its two places and never in both,
\* whatever edits and faults there are elsewhere.  Excepted are a file one of
\* whose own places the owner changed, and one whose move back a crash, a lost
\* process or a disk error hit between creating the original place and leaving
\* the other.
OnePlaceEach ==
    \A i \in Items \ disturbed :
        Op[i] = "MOVE" /\ Exists(recorded[i])
        /\ (\A r \in Calls : call[r].pc \in Acting => call[r].at # i)
        => {fs[Current[i]], fs[Original[i]]} = {recorded[i], Absent}
============================================================================
