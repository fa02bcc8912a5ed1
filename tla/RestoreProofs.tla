--------------------------- MODULE RestoreProofs ---------------------------
(***************************************************************************)
(* Proofs about Restore, for every set of operations, calls and bounds.    *)
(*                                                                         *)
(* Inv is about one call and the trail.  What several calls do to the      *)
(* files is proved by the kinds of steps (Commits, Removes, ...): lemma    *)
(* Kinds says that there are no others, and each later invariant (Placed,  *)
(* Once, OnTime, AllBacked, OneMoveEach) is kept kind by kind.             *)
(***************************************************************************)
EXTENDS Restore, TLAPS

\* Where a call stands: past its approvals it has a ready item in hand and all
\* its ready items are in the trail, and it acts only under a valid approval.
CallOK(r) ==
    /\ call[r].pc \notin {"idle", "planned", "approve"} =>
          call[r].at \in call[r].ready /\ call[r].ready \subseteq approvals
    /\ call[r].pc \in Acting => ApprovalHolds(r)

CallsOK == call \in [Calls -> CallStates] /\ \A r \in Calls : CallOK(r)

Inv == TypeOK /\ \A r \in Calls : CallOK(r)

\* An idle call is a call, and one that stands anywhere.
LEMMA IdleOK == IdleCall \in CallStates /\ IdleCall.pc = "idle"
  <1>1. 1 \in Items /\ 0 \in 0..MaxClock
    BY ItemsAssumption, BoundsAssumption DEF Items
  <1>2. Absent \in FileStates
    BY DEF FileStates
  <1> QED
    BY <1>1, <1>2 DEF IdleCall, CallStates, Steps

\* One call changes to c and the trail only grows.
LEMMA OneCall ==
    ASSUME Inv, NEW r \in Calls, NEW c \in CallStates,
           call' = [call EXCEPT ![r] = c], approvals \subseteq approvals',
           c.pc \notin {"idle", "planned", "approve"} =>
              c.at \in c.ready /\ c.ready \subseteq approvals',
           c.pc \in Acting => c.approved <= c.now /\ c.now < c.approved + Window
    PROVE  CallsOK'
  <1>1. call \in [Calls -> CallStates]
    BY DEF Inv, TypeOK
  <1>2. call' \in [Calls -> CallStates]
    BY <1>1
  <1>3. ASSUME NEW q \in Calls PROVE CallOK(q)'
    <2>1. CASE q = r
      <3>1. call'[q] = c
        BY <1>1, <2>1
      <3> QED
        BY <3>1 DEF CallOK, ApprovalHolds
    <2>2. CASE q # r
      <3>1. call'[q] = call[q]
        BY <1>1, <2>2
      <3>2. CallOK(q)
        BY DEF Inv
      <3> QED
        BY <3>1, <3>2 DEF CallOK, ApprovalHolds
    <2> QED
      BY <2>1, <2>2
  <1> QED
    BY <1>2, <1>3 DEF CallsOK

\* A call in the middle of an item goes on to another step of it.
LEMMA GotoOK ==
    ASSUME Inv, NEW r \in Calls, NEW step \in Steps, Goto(r, step),
           call[r].pc \notin {"idle", "planned", "approve"},
           step \in Acting => ApprovalHolds(r), approvals' = approvals
    PROVE  CallsOK'
  <1> DEFINE c == [call[r] EXCEPT !.pc = step]
  <1>1. call \in [Calls -> CallStates] /\ call[r] \in CallStates /\ CallOK(r)
    BY DEF Inv, TypeOK
  <1>2. c \in CallStates
    BY <1>1 DEF CallStates
  <1>3. call' = [call EXCEPT ![r] = c]
    BY <1>1 DEF Goto
  <1>4. /\ c.pc = step /\ c.at = call[r].at /\ c.ready = call[r].ready
        /\ c.approved = call[r].approved /\ c.now = call[r].now
    BY <1>1 DEF CallStates
  <1> HIDE DEF c
  <1> QED
    BY <1>1, <1>2, <1>3, <1>4, OneCall DEF CallOK, ApprovalHolds

LEMMA SettleOK ==
    ASSUME Inv, NEW r \in Calls, NEW status \in Statuses, Settle(r, status),
           call[r].pc \notin {"idle", "planned", "approve"}, approvals' = approvals
    PROVE  CallsOK'
  <1> DEFINE c == [call[r] EXCEPT !.pc = "log", !.result = status]
  <1>1. call \in [Calls -> CallStates] /\ call[r] \in CallStates /\ CallOK(r)
    BY DEF Inv, TypeOK
  <1>2. c \in CallStates
    BY <1>1 DEF CallStates, Steps
  <1>3. call' = [call EXCEPT ![r] = c]
    BY <1>1 DEF Settle
  <1>4. c.pc = "log" /\ c.at = call[r].at /\ c.ready = call[r].ready
    BY <1>1 DEF CallStates
  <1> HIDE DEF c
  <1> QED
    BY <1>1, <1>2, <1>3, <1>4, OneCall DEF CallOK, Acting

LEMMA MoveFailsOK ==
    ASSUME Inv, NEW r \in Calls, MoveFails(r),
           call[r].pc \notin {"idle", "planned", "approve"}, approvals' = approvals
    PROVE  CallsOK'
  BY SettleOK DEF MoveFails, Statuses

\* An exception, and a return of the report.
LEMMA AbortOK ==
    ASSUME Inv, NEW r \in Calls, Abort(r), approvals' = approvals
    PROVE  CallsOK'
  <1>1. call' = [call EXCEPT ![r] = IdleCall]
    BY DEF Abort
  <1> HIDE DEF IdleCall
  <1> QED
    BY <1>1, IdleOK, OneCall DEF Acting

LEMMA ProceedOK ==
    ASSUME Inv, NEW r \in Calls, NEW done, Proceed(r, done),
           approvals \subseteq approvals', call[r].ready \subseteq approvals'
    PROVE  CallsOK'
  <1>1. call \in [Calls -> CallStates] /\ call[r] \in CallStates
    BY DEF Inv, TypeOK
  <1>2. CASE call[r].row /\ call' = [call EXCEPT ![r] = IdleCall]
    BY <1>2, IdleOK, OneCall DEF Acting
  <1>3. CASE call' = [call EXCEPT ![r] =
                 [IdleCall EXCEPT !.pc = "planned", !.ready = call[r].ready,
                                  !.digest = call[r].digest]]
    <2> DEFINE c == [IdleCall EXCEPT !.pc = "planned", !.ready = call[r].ready,
                                     !.digest = call[r].digest]
    <2>1. c \in CallStates /\ c.pc = "planned"
      BY <1>1, IdleOK DEF CallStates, Steps
    <2> HIDE DEF c
    <2> QED
      BY <1>3, <2>1, OneCall DEF c, Acting
  <1>4. ASSUME NEW i \in call[r].ready \ done,
               call' = [call EXCEPT ![r].pc = "recheck", ![r].at = i,
                                    ![r].seen = Absent, ![r].result = "NONE"]
        PROVE  CallsOK'
    <2> DEFINE c == [call[r] EXCEPT !.pc = "recheck", !.at = i,
                                    !.seen = Absent, !.result = "NONE"]
    <2>1. c \in CallStates
      BY <1>1 DEF CallStates, Steps, FileStates
    <2>2. c.pc = "recheck" /\ c.at = i /\ c.ready = call[r].ready
      BY <1>1 DEF CallStates
    <2>3. call' = [call EXCEPT ![r] = c]
      BY <1>1, <1>4
    <2> HIDE DEF c
    <2> QED
      BY <2>1, <2>2, <2>3, OneCall DEF Acting
  <1> QED
    BY <1>2, <1>3, <1>4 DEF Proceed

\* Nobody's call changes.
LEMMA SameCalls ==
    ASSUME Inv, call' = call, approvals' = approvals
    PROVE  CallsOK'
  BY DEF Inv, TypeOK, CallsOK, CallOK, ApprovalHolds

\* What remains of Inv beside the calls.
Rest ==
    /\ fs \in [Paths -> FileStates]
    /\ recorded \in [Items -> Contents \cup {Absent}]
    /\ approvals \subseteq Items
    /\ trailTime \in 0..MaxClock
    /\ restored \subseteq Items
    /\ late \in BOOLEAN
    /\ altered \subseteq Items
    /\ disturbed \subseteq Items
    /\ clock \in 0..MaxClock
    /\ edits \in 0..MaxEdits
    /\ faults \in 0..MaxFaults

LEMMA Parts == Inv <=> Rest /\ CallsOK
  BY DEF Inv, TypeOK, Rest, CallsOK

LEMMA NextParts == Inv' <=> Rest' /\ CallsOK'
  BY DEF Inv, TypeOK, Rest, CallsOK

LEMMA InitInv == Init => Inv
  <1> SUFFICES ASSUME Init PROVE Inv
    OBVIOUS
  <1>1. Rest
    <2>1. fs \in [Paths -> FileStates]
      <3>1. fs \in [Paths -> Contents \cup {Absent}]
        BY DEF Init
      <3> QED
        BY <3>1 DEF FileStates
    <2>2. recorded \in [Items -> Contents \cup {Absent}]
      BY DEF Init
    <2>3. /\ approvals = {} /\ trailTime = 0 /\ restored = {} /\ late = FALSE
          /\ altered = {} /\ disturbed = {} /\ clock = 0 /\ edits = 0 /\ faults = 0
      BY DEF Init
    <2>4. 0 \in 0..MaxClock /\ 0 \in 0..MaxEdits /\ 0 \in 0..MaxFaults
      BY BoundsAssumption
    <2> HIDE DEF Init
    <2> QED
      BY <2>1, <2>2, <2>3, <2>4 DEF Rest
  <1>2. CallsOK
    BY IdleOK DEF Init, CallsOK, CallOK, Acting
  <1> QED
    BY <1>1, <1>2, Parts

\* Steps of the surroundings.
LEMMA TickInv == Inv /\ Tick => Inv'
  <1> SUFFICES ASSUME Inv, Tick PROVE Inv'
    OBVIOUS
  <1>1. CallsOK'
    BY SameCalls DEF Tick, trailVars
  <1>2. Rest'
    BY Parts, BoundsAssumption DEF Tick, Rest, trailVars, history
  <1> QED
    BY <1>1, <1>2, NextParts

LEMMA EditInv == Inv /\ Edit => Inv'
  <1> SUFFICES ASSUME Inv, Edit PROVE Inv'
    OBVIOUS
  <1>1. CallsOK'
    BY SameCalls DEF Edit, trailVars
  <1>2. Rest
    BY Parts
  <1>3. fs' \in [Paths -> FileStates] /\ edits' \in 0..MaxEdits
    BY <1>2, BoundsAssumption DEF Edit, Rest, FileStates
  <1>4. late' \in BOOLEAN /\ disturbed' \subseteq Items
    BY <1>2 DEF Edit, Rest
  <1> QED
    BY <1>1, <1>2, <1>3, <1>4, NextParts DEF Edit, Rest, trailVars

\* A fault keeps the histories within their types.
LEMMA DisturbsRest ==
    ASSUME Inv, NEW calls \in SUBSET Calls, Disturbs(calls)
    PROVE  /\ faults' \in 0..MaxFaults
           /\ disturbed' \subseteq Items
           /\ UNCHANGED <<restored, late, altered>>
  <1>1. \A r \in Calls : call[r].at \in Items
    BY DEF Inv, TypeOK, CallStates
  <1>2. faults' \in 0..MaxFaults
    BY BoundsAssumption DEF Disturbs, Inv, TypeOK
  <1> QED
    BY <1>1, <1>2 DEF Disturbs, Inv, TypeOK

LEMMA CrashInv == \A r \in Calls : Inv /\ Crash(r) => Inv'
  <1> SUFFICES ASSUME Inv, NEW r \in Calls, Crash(r) PROVE Inv'
    OBVIOUS
  <1>1. CallsOK'
    BY AbortOK DEF Crash, trailVars
  <1>2. Rest'
    BY Parts, DisturbsRest DEF Crash, Rest, trailVars
  <1> QED
    BY <1>1, <1>2, NextParts

LEMMA LoseProcessInv == Inv /\ LoseProcess => Inv'
  <1> SUFFICES ASSUME Inv, LoseProcess PROVE Inv'
    OBVIOUS
  <1>1. CallsOK'
    BY IdleOK DEF LoseProcess, CallsOK, CallOK, Acting
  <1>2. Rest'
    BY Parts, DisturbsRest, BoundsAssumption DEF LoseProcess, Rest
  <1> QED
    BY <1>1, <1>2, NextParts

\* Previews and approvals.
LEMMA PlanBatchInv == \A r \in Calls : Inv /\ PlanBatch(r) => Inv'
  <1> SUFFICES ASSUME Inv, NEW r \in Calls, PlanBatch(r) PROVE Inv'
    OBVIOUS
  <1> DEFINE ready == {i \in Items : PlanReason(fs, i, recorded[i]) = "READY"}
             c == [IdleCall EXCEPT !.pc = "planned", !.digest = recorded, !.ready = ready]
  <1>1. recorded \in [Items -> FileStates] /\ ready \in SUBSET Items
    BY DEF Inv, TypeOK, FileStates
  <1> HIDE DEF ready
  <1>2. c \in CallStates /\ c.pc = "planned"
    BY <1>1, IdleOK DEF CallStates, Steps
  <1>3. call' = [call EXCEPT ![r] = c]
    BY DEF PlanBatch, ready
  <1> HIDE DEF c
  <1>4. CallsOK'
    BY <1>2, <1>3, OneCall DEF Acting, PlanBatch, trailVars
  <1>5. Rest'
    BY Parts DEF PlanBatch, Rest, trailVars, history, boundVars
  <1> QED
    BY <1>4, <1>5, NextParts

LEMMA ExecuteBatchInv ==
    \A r \in Calls, time \in 0..MaxClock : Inv /\ ExecuteBatch(r, time) => Inv'
  <1> SUFFICES ASSUME Inv, NEW r \in Calls, NEW time \in 0..MaxClock,
                      ExecuteBatch(r, time)
               PROVE  Inv'
    OBVIOUS
  <1> DEFINE c == [call[r] EXCEPT !.pc = "approve", !.approved = time, !.now = clock]
  <1>1. call \in [Calls -> CallStates] /\ call[r] \in CallStates /\ clock \in 0..MaxClock
    BY DEF Inv, TypeOK
  <1>2. c \in CallStates /\ c.pc = "approve"
    BY <1>1 DEF CallStates, Steps
  <1>3. call' = [call EXCEPT ![r] = c]
    BY <1>1 DEF ExecuteBatch
  <1> HIDE DEF c
  <1>4. CallsOK'
    BY <1>2, <1>3, OneCall DEF Acting, ExecuteBatch, trailVars
  <1>5. Rest'
    BY Parts DEF ExecuteBatch, Rest, trailVars, history, boundVars
  <1> QED
    BY <1>4, <1>5, NextParts

LEMMA RestoreRowInv ==
    \A r \in Calls, i \in Items : Inv /\ RestoreRow(r, i) => Inv'
  <1> SUFFICES ASSUME Inv, NEW r \in Calls, NEW i \in Items, RestoreRow(r, i)
               PROVE  Inv'
    OBVIOUS
  <1> DEFINE c == [IdleCall EXCEPT !.pc = "approve", !.row = TRUE, !.ready = {i},
                                   !.digest[i] = fs[Current[i]],
                                   !.approved = clock, !.now = clock]
  <1>1. clock \in 0..MaxClock /\ fs[Current[i]] \in FileStates
    BY ItemsAssumption DEF Inv, TypeOK
  <1>2. c \in CallStates /\ c.pc = "approve"
    <2>1. IdleCall \in CallStates
      BY IdleOK
    <2>2. [IdleCall.digest EXCEPT ![i] = fs[Current[i]]] \in [Items -> FileStates]
      BY <1>1, <2>1 DEF CallStates
    <2> HIDE DEF IdleCall
    <2> QED
      BY <1>1, <2>1, <2>2 DEF CallStates, Steps
  <1>3. call' = [call EXCEPT ![r] = c]
    BY DEF RestoreRow
  <1> HIDE DEF c
  <1>4. CallsOK'
    BY <1>2, <1>3, OneCall DEF Acting, RestoreRow, trailVars
  <1>5. Rest'
    BY Parts DEF RestoreRow, Rest, trailVars, history, boundVars
  <1> QED
    BY <1>4, <1>5, NextParts

\* The steps of a call.
LEMMA ApproveInv == \A r \in Calls : Inv /\ ApproveReadyItems(r) => Inv'
  <1> SUFFICES ASSUME Inv, NEW r \in Calls, ApproveReadyItems(r) PROVE Inv'
    OBVIOUS
  <1>1. /\ call[r].ready \subseteq Items
        /\ call[r].approved \in 0..MaxClock
    BY DEF Inv, TypeOK, CallStates
  <1>2. Rest'
    BY <1>1, Parts DEF ApproveReadyItems, Rest, trailVars, history, boundVars
  <1>3. CallsOK'
    <2>1. CASE call[r].ready = {} /\ Proceed(r, {}) /\ UNCHANGED trailVars
      BY <2>1, ProceedOK DEF trailVars
    <2>2. CASE Proceed(r, {}) /\ approvals' = approvals \cup call[r].ready
      BY <2>2, ProceedOK
    <2>3. CASE Abort(r) /\ UNCHANGED trailVars
      BY <2>3, AbortOK DEF trailVars
    <2> QED
      BY <2>1, <2>2, <2>3 DEF ApproveReadyItems
  <1> QED
    BY <1>2, <1>3, NextParts

LEMMA RecheckInv == \A r \in Calls : Inv /\ RecheckPlan(r) => Inv'
  <1> SUFFICES ASSUME Inv, NEW r \in Calls, RecheckPlan(r) PROVE Inv'
    OBVIOUS
  <1>1. Rest'
    <2>1. altered' \subseteq Items
      BY Parts DEF RecheckPlan, Rest, CallsOK, CallStates
    <2> QED
      BY <2>1, Parts DEF RecheckPlan, Rest, trailVars, boundVars
  <1>2. CallsOK'
    <2>1. CASE ApprovalHolds(r)
               /\ Goto(r, IF Op[call[r].at] = "COPY" THEN "remove" ELSE "read")
      <3>1. (IF Op[call[r].at] = "COPY" THEN "remove" ELSE "read") \in Steps
        BY DEF Steps
      <3> QED
        BY <2>1, <3>1, GotoOK DEF RecheckPlan, trailVars
    <2>2. CASE Settle(r, "BLOCKED")
      BY <2>2, SettleOK DEF Statuses, RecheckPlan, trailVars
    <2> QED
      BY <2>1, <2>2 DEF RecheckPlan
  <1> QED
    BY <1>1, <1>2, NextParts

LEMMA Acts ==
    ASSUME Inv, NEW r \in Calls, call[r].pc \in Acting
    PROVE  /\ ApprovalHolds(r)
           /\ call[r].pc \notin {"idle", "planned", "approve"}
           /\ call[r].at \in call[r].ready
           /\ call[r].ready \subseteq approvals
           /\ call[r].at \in Items
           /\ Current[call[r].at] \in Paths
           /\ Original[call[r].at] \in Paths
           /\ call[r].seen \in FileStates
  <1>1. CallOK(r) /\ call[r] \in CallStates
    BY DEF Inv, TypeOK
  <1>2. call[r].at \in Items /\ call[r].seen \in FileStates
    BY <1>1 DEF CallStates
  <1>3. call[r].pc \notin {"idle", "planned", "approve"}
    BY DEF Acting
  <1> QED
    BY <1>1, <1>2, <1>3, ItemsAssumption DEF CallOK

LEMMA RemoveInv == \A r \in Calls : Inv /\ RemoveCopy(r) => Inv'
  <1> SUFFICES ASSUME Inv, NEW r \in Calls, RemoveCopy(r) PROVE Inv'
    OBVIOUS
  <1>1. call[r].pc \in Acting
    BY DEF RemoveCopy, Acting
  <1>2. Rest'
    <2>1. fs' \in [Paths -> FileStates]
      BY <1>1, Acts, Parts DEF RemoveCopy, Rest, FileStates
    <2> QED
      BY <2>1, Parts DEF RemoveCopy, Rest, trailVars, history, boundVars
  <1>3. CallsOK'
    <2>1. CASE Goto(r, "verifyRemoved")
      <3>1. "verifyRemoved" \in Steps
        BY DEF Steps
      <3> QED
        BY <1>1, <2>1, <3>1, Acts, GotoOK DEF RemoveCopy, trailVars
    <2>2. CASE Settle(r, "FAILED")
      BY <1>1, <2>2, Acts, SettleOK DEF RemoveCopy, Statuses, trailVars
    <2> QED
      BY <2>1, <2>2 DEF RemoveCopy
  <1> QED
    BY <1>2, <1>3, NextParts

LEMMA VerifyOK ==
    ASSUME Inv, NEW r \in Calls, NEW verified \in BOOLEAN, call[r].pc \in Acting,
           Verify(r, verified), UNCHANGED <<fs, recorded, trailVars, late, altered,
                                  disturbed, boundVars>>
    PROVE  Inv'
  <1>1. Rest'
    BY Parts, Acts DEF Verify, Rest, trailVars, boundVars
  <1>2. (IF verified THEN "SUCCEEDED" ELSE "VERIFICATION_FAILED") \in Statuses
    BY DEF Statuses
  <1>3. CallsOK'
    BY <1>2, Acts, SettleOK DEF Verify, trailVars
  <1> QED
    BY <1>1, <1>3, NextParts

LEMMA VerifyRemovedInv == \A r \in Calls : Inv /\ VerifyRemoved(r) => Inv'
  BY VerifyOK DEF VerifyRemoved, Acting

LEMMA VerifyMovedInv == \A r \in Calls : Inv /\ VerifyMoved(r) => Inv'
  BY VerifyOK DEF VerifyMoved, Acting

LEMMA ReadInv == \A r \in Calls : Inv /\ ReadMoved(r) => Inv'
  <1> SUFFICES ASSUME Inv, NEW r \in Calls, ReadMoved(r) PROVE Inv'
    OBVIOUS
  <1>1. call[r].pc \in Acting
    BY DEF ReadMoved, Acting
  <1>2. Rest'
    BY Parts DEF ReadMoved, Rest, trailVars, history, boundVars
  <1>3. CASE call' = [call EXCEPT ![r].pc = "create", ![r].seen = Place(r)]
    <2> DEFINE c == [call[r] EXCEPT !.pc = "create", !.seen = Place(r)]
    <2>1. call \in [Calls -> CallStates] /\ call[r] \in CallStates
      BY DEF Inv, TypeOK
    <2>2. Place(r) \in FileStates
      BY <1>1, Acts, Parts DEF Place, Rest
    <2>3. c \in CallStates
      BY <2>1, <2>2 DEF CallStates, Steps
    <2>4. /\ c.pc = "create" /\ c.at = call[r].at /\ c.ready = call[r].ready
          /\ c.approved = call[r].approved /\ c.now = call[r].now
      BY <2>1 DEF CallStates
    <2>5. call' = [call EXCEPT ![r] = c]
      BY <1>3, <2>1
    <2> HIDE DEF c
    <2>6. CallsOK'
      BY <1>1, <2>3, <2>4, <2>5, Acts, OneCall DEF ReadMoved, ApprovalHolds, trailVars
    <2> QED
      BY <1>2, <2>6, NextParts
  <1>4. CASE Settle(r, "BLOCKED")
    BY <1>1, <1>2, <1>4, Acts, SettleOK, NextParts DEF ReadMoved, Statuses, trailVars
  <1> QED
    BY <1>3, <1>4 DEF ReadMoved

LEMMA DiskErrorInv == \A r \in Calls : Inv /\ DiskError(r) => Inv'
  <1> SUFFICES ASSUME Inv, NEW r \in Calls, DiskError(r) PROVE Inv'
    OBVIOUS
  <1>1. call[r].pc \in Acting
    BY DEF DiskError, Acting
  <1>2. Rest'
    BY Parts, DisturbsRest DEF DiskError, Rest, trailVars
  <1>3. CASE Settle(r, "FAILED")
    BY <1>1, <1>2, <1>3, Acts, SettleOK, NextParts DEF DiskError, Statuses, trailVars
  <1>4. CASE MoveFails(r)
    BY <1>1, <1>2, <1>4, Acts, MoveFailsOK, NextParts DEF DiskError, trailVars
  <1> QED
    BY <1>3, <1>4 DEF DiskError

LEMMA CreateInv == \A r \in Calls : Inv /\ CreateHome(r) => Inv'
  <1> SUFFICES ASSUME Inv, NEW r \in Calls, CreateHome(r) PROVE Inv'
    OBVIOUS
  <1>1. call[r].pc \in Acting /\ approvals' = approvals
    BY DEF CreateHome, Acting, trailVars
  <1>2. Rest'
    <2>1. fs' \in [Paths -> FileStates]
      BY <1>1, Acts, Parts DEF CreateHome, Rest, FileStates
    <2> QED
      BY <2>1, Parts DEF CreateHome, Rest, trailVars, history, boundVars
  <1>3. CASE MoveFails(r)
    BY <1>1, <1>2, <1>3, Acts, MoveFailsOK, NextParts
  <1>4. CASE Settle(r, "BLOCKED")
    BY <1>1, <1>2, <1>4, Acts, SettleOK, NextParts DEF Statuses
  <1>5. CASE Goto(r, "copy")
    BY <1>1, <1>2, <1>5, Acts, GotoOK, NextParts DEF Steps
  <1> QED
    BY <1>3, <1>4, <1>5 DEF CreateHome

LEMMA CopyInv == \A r \in Calls : Inv /\ CopyHome(r) => Inv'
  <1> SUFFICES ASSUME Inv, NEW r \in Calls, CopyHome(r) PROVE Inv'
    OBVIOUS
  <1>1. call[r].pc \in Acting /\ approvals' = approvals
    BY DEF CopyHome, Acting, trailVars
  <1>2. fs' \in [Paths -> FileStates]
    <2>1. Copied(r) \subseteq FileStates
      BY <1>1, Acts, Parts DEF Copied, Place, Rest, FileStates
    <2>2. {call[r].seen, Partial} \subseteq FileStates
      BY <1>1, Acts DEF FileStates
    <2>3. \/ fs' = fs
          \/ \E c \in FileStates : fs' = [fs EXCEPT ![Original[call[r].at]] = c]
      BY <2>1, <2>2 DEF CopyHome
    <2> QED
      BY <1>1, <2>3, Acts, Parts DEF Rest
  <1>3. Rest'
    BY <1>2, Parts DEF CopyHome, Rest, trailVars, history, boundVars
  <1>4. CASE MoveFails(r)
    BY <1>1, <1>3, <1>4, Acts, MoveFailsOK, NextParts
  <1>5. CASE Goto(r, "verifyCopy")
    BY <1>1, <1>3, <1>5, Acts, GotoOK, NextParts DEF Steps
  <1> QED
    BY <1>4, <1>5 DEF CopyHome

LEMMA VerifyHomeInv == \A r \in Calls : Inv /\ VerifyHome(r) => Inv'
  <1> SUFFICES ASSUME Inv, NEW r \in Calls, VerifyHome(r) PROVE Inv'
    OBVIOUS
  <1>1. call[r].pc \in Acting /\ approvals' = approvals
    BY DEF VerifyHome, Acting, trailVars
  <1>2. Rest'
    BY Parts DEF VerifyHome, Rest, trailVars, history, boundVars
  <1>3. CASE MoveFails(r)
    BY <1>1, <1>2, <1>3, Acts, MoveFailsOK, NextParts
  <1>4. CASE Settle(r, "VERIFICATION_FAILED")
    BY <1>1, <1>2, <1>4, Acts, SettleOK, NextParts DEF Statuses
  <1>5. CASE Goto(r, "unlink")
    BY <1>1, <1>2, <1>5, Acts, GotoOK, NextParts DEF Steps
  <1> QED
    BY <1>3, <1>4, <1>5 DEF VerifyHome

LEMMA UnlinkInv == \A r \in Calls : Inv /\ UnlinkMoved(r) => Inv'
  <1> SUFFICES ASSUME Inv, NEW r \in Calls, UnlinkMoved(r) PROVE Inv'
    OBVIOUS
  <1>1. call[r].pc \in Acting /\ approvals' = approvals
    BY DEF UnlinkMoved, Acting, trailVars
  <1>2. Rest'
    <2>1. fs' \in [Paths -> FileStates]
      BY <1>1, Acts, Parts DEF UnlinkMoved, Rest, FileStates
    <2> QED
      BY <2>1, Parts DEF UnlinkMoved, Rest, trailVars, history, boundVars
  <1>3. CASE MoveFails(r)
    BY <1>1, <1>2, <1>3, Acts, MoveFailsOK, NextParts
  <1>4. CASE Goto(r, "verifyMoved")
    BY <1>1, <1>2, <1>4, Acts, GotoOK, NextParts DEF Steps
  <1> QED
    BY <1>3, <1>4 DEF UnlinkMoved

LEMMA LogInv == \A r \in Calls : Inv /\ LogResult(r) => Inv'
  <1> SUFFICES ASSUME Inv, NEW r \in Calls, LogResult(r) PROVE Inv'
    OBVIOUS
  <1>1. call[r] \in CallStates /\ CallOK(r)
    BY DEF Inv, TypeOK
  <1>2. call[r].now \in 0..MaxClock
    BY <1>1 DEF CallStates
  <1>3. Rest'
    BY <1>2, Parts DEF LogResult, Rest, trailVars, history, boundVars
  <1>4. call[r].ready \subseteq approvals /\ approvals' = approvals
    BY <1>1 DEF LogResult, CallOK, trailVars
  <1>5. CASE Abort(r)
    BY <1>3, <1>4, <1>5, AbortOK, NextParts
  <1>6. CASE Proceed(r, 1..call[r].at)
    BY <1>3, <1>4, <1>6, ProceedOK, NextParts
  <1> QED
    BY <1>5, <1>6 DEF LogResult

LEMMA NextInv == Inv /\ [Next]_vars => Inv'
  <1> SUFFICES ASSUME Inv, [Next]_vars PROVE Inv'
    OBVIOUS
  <1>1. CASE UNCHANGED vars
    <2>1. CallsOK'
      BY <1>1, SameCalls DEF vars, trailVars
    <2>2. Rest'
      BY <1>1, Parts DEF vars, Rest, trailVars, history, boundVars
    <2> QED
      BY <2>1, <2>2, NextParts
  <1>2. CASE Tick \/ Edit \/ LoseProcess
    BY <1>2, TickInv, EditInv, LoseProcessInv
  <1>3. ASSUME NEW r \in Calls, PlanBatch(r) \/ DiskError(r) \/ Crash(r) PROVE Inv'
    BY <1>3, PlanBatchInv, DiskErrorInv, CrashInv
  <1>4. ASSUME NEW r \in Calls, NEW time \in 0..MaxClock, ExecuteBatch(r, time) PROVE Inv'
    BY <1>4, ExecuteBatchInv
  <1>5. ASSUME NEW r \in Calls, NEW i \in Items, RestoreRow(r, i) PROVE Inv'
    BY <1>5, RestoreRowInv
  <1>6. ASSUME NEW r \in Calls, Step(r) PROVE Inv'
    BY <1>6, ApproveInv, RecheckInv, RemoveInv, VerifyRemovedInv, VerifyMovedInv,
       ReadInv, CreateInv, CopyInv, VerifyHomeInv, UnlinkInv, LogInv DEF Step
  <1> QED
    BY <1>1, <1>2, <1>3, <1>4, <1>5, <1>6 DEF Next

LEMMA Invariant == Spec => []Inv
  BY InitInv, NextInv, PTL DEF Spec

\* Every variable stays in its type.
THEOREM TypeCorrect == Spec => []TypeOK
  <1>1. Inv => TypeOK
    BY DEF Inv
  <1> QED
    BY <1>1, Invariant, PTL

\* A step that changes a file on its own account is an acting call's.
LEMMA ChangesAct ==
    ASSUME Inv, [Next]_vars, NEW p \in Paths, fs'[p] # fs[p], edits' = edits
    PROVE  \E r \in Calls :
              /\ call[r].pc \in Acting
              /\ p \in {Original[call[r].at], Current[call[r].at]}
  <1>1. fs \in [Paths -> FileStates] /\ edits \in Nat
    BY BoundsAssumption DEF Inv, TypeOK
  <1>2. ~Edit
    BY <1>1 DEF Edit
  <1>3. PICK r \in Calls : RemoveCopy(r) \/ CreateHome(r) \/ CopyHome(r) \/ UnlinkMoved(r)
    BY <1>2 DEF Next, vars, Tick, LoseProcess, PlanBatch, ExecuteBatch, RestoreRow, Crash,
       DiskError, Step, ApproveReadyItems, RecheckPlan, VerifyRemoved, ReadMoved,
       VerifyHome, VerifyMoved, LogResult
  <1>4. call[r].pc \in Acting
    BY <1>3 DEF RemoveCopy, CreateHome, CopyHome, UnlinkMoved, Acting
  <1>5. \E q \in {Original[call[r].at], Current[call[r].at]} : \E c : fs' = [fs EXCEPT ![q] = c]
    <2>1. fs' # fs
      OBVIOUS
    <2>2. CASE RemoveCopy(r)
      BY <2>1, <2>2 DEF RemoveCopy
    <2>3. CASE CreateHome(r)
      BY <2>1, <2>3 DEF CreateHome
    <2>4. CASE CopyHome(r)
      BY <2>1, <2>4 DEF CopyHome
    <2>5. CASE UnlinkMoved(r)
      BY <2>1, <2>5 DEF UnlinkMoved
    <2> QED
      BY <1>3, <2>2, <2>3, <2>4, <2>5
  <1>6. p \in {Original[call[r].at], Current[call[r].at]}
    BY <1>1, <1>5
  <1> QED
    BY <1>4, <1>6

\* A restore changes files only under an approval that is recorded and valid,
\* for every number of overlapping calls, crashes, lost processes and edits.
THEOREM ApprovedChanges == Spec => ChangesAreApproved
  <1>1. ASSUME Inv, [Next]_vars
        PROVE  \A p \in Paths : fs'[p] # fs[p] /\ edits' = edits =>
                  \E r \in Calls : LET i == call[r].at IN
                     /\ i \in call[r].ready
                     /\ p \in {Original[i], Current[i]}
                     /\ i \in approvals
                     /\ ApprovalHolds(r)
    <2> SUFFICES ASSUME NEW p \in Paths, fs'[p] # fs[p], edits' = edits
                 PROVE  \E r \in Calls : LET i == call[r].at IN
                           /\ i \in call[r].ready
                           /\ p \in {Original[i], Current[i]}
                           /\ i \in approvals
                           /\ ApprovalHolds(r)
      OBVIOUS
    <2>1. PICK r \in Calls : /\ call[r].pc \in Acting
                             /\ p \in {Original[call[r].at], Current[call[r].at]}
      BY <1>1, ChangesAct
    <2> QED
      BY <1>1, <2>1, Acts
  <1> QED
    BY <1>1, Invariant, PTL DEF Spec, ChangesAreApproved
----------------------------------------------------------------------------
\* The kinds of step, as what they do to the files and to one call.

Verifying == {"verifyRemoved", "verifyMoved"}
Digest(r) == call[r].digest[call[r].at]

Others(r) == \A q \in Calls \ {r} : call'[q] = call[q]

\* A call goes on with the item in hand.
GoesOn(r, from, to) ==
    /\ Others(r)
    /\ call[r].pc = from
    /\ call'[r].pc = to
    /\ call'[r].at = call[r].at
    /\ call'[r].digest = call[r].digest
    /\ call'[r].result = call[r].result
    /\ call'[r].seen = IF from = "read" THEN Place(r) ELSE call[r].seen
    /\ UNCHANGED <<recorded, edits>>

Commits(r) ==
    /\ GoesOn(r, "recheck", IF Op[call[r].at] = "COPY" THEN "remove" ELSE "read")
    /\ PlanReason(fs, call[r].at, Digest(r)) = "READY"
    /\ altered \subseteq altered'
    /\ Op[call[r].at] = "COPY" /\ Home(r) # Place(r) => call[r].at \in altered'
    /\ UNCHANGED <<fs, restored, late, disturbed>>

Removes(r) ==
    /\ GoesOn(r, "remove", "verifyRemoved") \/ GoesOn(r, "unlink", "verifyMoved")
    /\ Exists(Place(r))
    /\ fs' = [fs EXCEPT ![Current[call[r].at]] = Absent]
    /\ UNCHANGED history

Reports(r) ==
    /\ Others(r)
    /\ call'[r].pc = "log"
    /\ call'[r].at = call[r].at
    /\ call'[r].digest = call[r].digest
    /\ UNCHANGED <<recorded, edits>>
    /\ call[r].pc \in Verifying
    /\ \/ /\ call'[r].result = "SUCCEEDED"
          /\ ~Exists(Place(r)) /\ Exists(Home(r))
          /\ restored' = restored \cup {call[r].at}
       \/ /\ call'[r].result # "SUCCEEDED"
          /\ Exists(Place(r)) \/ ~Exists(Home(r))
          /\ restored' = restored
    /\ UNCHANGED <<fs, late, altered, disturbed>>

Reads(r) ==
    /\ GoesOn(r, "read", "create")
    /\ Exists(Place(r)) /\ ~Exists(Home(r))
    /\ UNCHANGED <<fs, history>>

Creates(r) ==
    /\ GoesOn(r, "create", "copy")
    /\ Exists(Place(r)) /\ ~Exists(Home(r))
    /\ fs' = [fs EXCEPT ![Original[call[r].at]] = Partial]
    /\ UNCHANGED history

Copies(r) ==
    /\ GoesOn(r, "copy", "verifyCopy")
    /\ Exists(Place(r))
    /\ \/ /\ Home(r) = Partial
          /\ \E c \in Copied(r) : fs' = [fs EXCEPT ![Original[call[r].at]] = c]
       \/ Home(r) \in Contents /\ fs' = fs
    /\ UNCHANGED history

Verifies(r) ==
    /\ GoesOn(r, "verifyCopy", "unlink")
    /\ Home(r) = call[r].seen
    /\ UNCHANGED <<fs, history>>

\* A call gives an item up without a fault: between creating the original place
\* and leaving the other one it does so only where a file is not as it left it.
GivesUp(r) ==
    /\ call[r].pc = "copy" => ~Exists(Home(r)) \/ ~Exists(Place(r))
    /\ call[r].pc = "verifyCopy" => Home(r) # call[r].seen \/ ~Exists(Home(r))
    /\ call[r].pc = "unlink" => ~Exists(Place(r))

\* That, or a fault makes it stop.
Interrupted(r) ==
    \/ GivesUp(r) /\ UNCHANGED disturbed
    \/ disturbed' = disturbed \cup {call[k].at : k \in {q \in {r} : call[q].pc \in Halfway}}

\* A call takes no item further: it is new, between two items, refused or over.
Stops(r) ==
    /\ Others(r)
    /\ call'[r].pc \notin Acting
    /\ \A i \in Items : call'[r].digest[i] \in
          {call[r].digest[i], recorded[i], fs[Current[i]], Absent}
    /\ call'[r].result = "SUCCEEDED" => call[r].result = "SUCCEEDED"
    /\ Interrupted(r)
    /\ \/ fs' = fs
       \/ /\ call[r].pc = "copy" /\ Home(r) = Partial /\ ~Exists(Place(r))
          /\ \E c : fs' = [fs EXCEPT ![Original[call[r].at]] = c]
    /\ UNCHANGED <<recorded, restored, late, altered, edits>>

Rests == UNCHANGED <<fs, recorded, call, history, edits>>

\* Every step is of one of these kinds.
Kind(r) ==
    \/ Commits(r) \/ Removes(r) \/ Reports(r) \/ Reads(r) \/ Creates(r)
    \/ Copies(r) \/ Verifies(r) \/ Stops(r)

LEMMA GotoIs ==
    ASSUME Inv, NEW r \in Calls, NEW step, Goto(r, step)
    PROVE  /\ Others(r)
           /\ call'[r].pc = step
           /\ call'[r].at = call[r].at
           /\ call'[r].digest = call[r].digest
           /\ call'[r].result = call[r].result
           /\ call'[r].seen = call[r].seen
  <1> DEFINE c == [call[r] EXCEPT !.pc = step]
  <1>1. call \in [Calls -> CallStates] /\ call[r] \in CallStates
    BY DEF Inv, TypeOK
  <1>2. call' = [call EXCEPT ![r] = c]
    BY <1>1 DEF Goto
  <1>3. /\ c.pc = step /\ c.at = call[r].at /\ c.digest = call[r].digest
        /\ c.result = call[r].result /\ c.seen = call[r].seen
    BY <1>1 DEF CallStates
  <1> HIDE DEF c
  <1> QED
    BY <1>1, <1>2, <1>3 DEF Others

LEMMA SettleIs ==
    ASSUME Inv, NEW r \in Calls, NEW status, Settle(r, status)
    PROVE  /\ Others(r)
           /\ call'[r].pc = "log"
           /\ call'[r].at = call[r].at
           /\ call'[r].digest = call[r].digest
           /\ call'[r].result = status
  <1> DEFINE c == [call[r] EXCEPT !.pc = "log", !.result = status]
  <1>1. call \in [Calls -> CallStates] /\ call[r] \in CallStates
    BY DEF Inv, TypeOK
  <1>2. call' = [call EXCEPT ![r] = c]
    BY <1>1 DEF Settle
  <1>3. /\ c.pc = "log" /\ c.at = call[r].at /\ c.digest = call[r].digest
        /\ c.result = status
    BY <1>1 DEF CallStates
  <1> HIDE DEF c
  <1> QED
    BY <1>1, <1>2, <1>3 DEF Others

\* A call becomes a new one.
LEMMA RenewIs ==
    ASSUME Inv, NEW r \in Calls, NEW c, call' = [call EXCEPT ![r] = c]
    PROVE  Others(r) /\ call'[r] = c
  BY DEF Inv, TypeOK, Others
\* A settled item, other than by a verification.
LEMMA SettleStops ==
    ASSUME Inv, NEW r \in Calls, NEW status, Settle(r, status),
           status # "SUCCEEDED", Interrupted(r),
           UNCHANGED <<recorded, restored, late, altered, edits>>,
           \/ fs' = fs
           \/ /\ call[r].pc = "copy" /\ Home(r) = Partial /\ ~Exists(Place(r))
              /\ \E c : fs' = [fs EXCEPT ![Original[call[r].at]] = c]
    PROVE  Stops(r)
  <1>1. "log" \notin Acting
    BY DEF Acting
  <1> QED
    BY <1>1, SettleIs DEF Stops

LEMMA MoveFailsStatus ==
    ASSUME NEW r \in Calls, MoveFails(r)
    PROVE  \E status : status # "SUCCEEDED" /\ Settle(r, status)
  BY DEF MoveFails

\* A call that becomes a new one, idle or not.
LEMMA RenewStops ==
    ASSUME Inv, NEW r \in Calls, NEW c, call' = [call EXCEPT ![r] = c],
           c.pc \notin Acting,
           \A i \in Items : c.digest[i] \in
              {call[r].digest[i], recorded[i], fs[Current[i]], Absent},
           c.result = "SUCCEEDED" => call[r].result = "SUCCEEDED",
           UNCHANGED <<fs, recorded, history, edits>>, call[r].pc \notin Acting
    PROVE  Stops(r)
  <1>1. Others(r) /\ call'[r] = c
    BY RenewIs
  <1>2. Interrupted(r)
    BY DEF Interrupted, GivesUp, Acting, history
  <1> QED
    BY <1>1, <1>2 DEF Stops, history

LEMMA IdleFields ==
    /\ IdleCall.pc = "idle" /\ IdleCall.result = "NONE"
    /\ \A i \in Items : IdleCall.digest[i] = Absent
  BY DEF IdleCall

\* An exception ends the call.
LEMMA AbortStops ==
    ASSUME Inv, NEW r \in Calls, Abort(r), Interrupted(r),
           UNCHANGED <<fs, recorded, restored, late, altered, edits>>
    PROVE  Stops(r)
  <1>1. call' = [call EXCEPT ![r] = IdleCall]
    BY DEF Abort
  <1> HIDE DEF IdleCall
  <1>2. Others(r) /\ call'[r] = IdleCall
    BY <1>1, RenewIs
  <1> QED
    BY <1>2, IdleFields DEF Stops, Acting

LEMMA ProceedStops ==
    ASSUME Inv, NEW r \in Calls, NEW done, Proceed(r, done),
           UNCHANGED <<fs, recorded, history, edits>>,
           call[r].pc \notin Acting
    PROVE  Stops(r)
  <1>1. call \in [Calls -> CallStates] /\ call[r] \in CallStates
    BY DEF Inv, TypeOK
  <1>2. CASE call' = [call EXCEPT ![r] = IdleCall]
    BY <1>2, AbortStops DEF Abort, Interrupted, GivesUp, Acting, history
  <1>3. CASE call' = [call EXCEPT ![r] =
                 [IdleCall EXCEPT !.pc = "planned", !.ready = call[r].ready,
                                  !.digest = call[r].digest]]
    <2> DEFINE c == [IdleCall EXCEPT !.pc = "planned", !.ready = call[r].ready,
                                     !.digest = call[r].digest]
    <2>1. c.pc = "planned" /\ c.digest = call[r].digest /\ c.result = "NONE"
      BY DEF IdleCall
    <2>2. call' = [call EXCEPT ![r] = c]
      BY <1>3
    <2> HIDE DEF c
    <2> QED
      BY <2>1, <2>2, RenewStops DEF Acting
  <1>4. ASSUME NEW i \in call[r].ready \ done,
               call' = [call EXCEPT ![r].pc = "recheck", ![r].at = i,
                                    ![r].seen = Absent, ![r].result = "NONE"]
        PROVE  Stops(r)
    <2> DEFINE c == [call[r] EXCEPT !.pc = "recheck", !.at = i,
                                    !.seen = Absent, !.result = "NONE"]
    <2>1. c.pc = "recheck" /\ c.digest = call[r].digest /\ c.result = "NONE"
      BY <1>1 DEF CallStates
    <2>2. call' = [call EXCEPT ![r] = c]
      BY <1>1, <1>4
    <2> HIDE DEF c
    <2> QED
      BY <2>1, <2>2, RenewStops DEF Acting
  <1> QED
    BY <1>2, <1>3, <1>4 DEF Proceed

LEMMA PlanBatchKind == \A r \in Calls : Inv /\ PlanBatch(r) => Stops(r)
  <1> SUFFICES ASSUME Inv, NEW r \in Calls, PlanBatch(r) PROVE Stops(r)
    OBVIOUS
  <1> DEFINE c == [IdleCall EXCEPT
                     !.pc = "planned", !.digest = recorded,
                     !.ready = {i \in Items :
                                  PlanReason(fs, i, recorded[i]) = "READY"}]
  <1>1. c.pc = "planned" /\ c.digest = recorded /\ c.result = "NONE"
    BY DEF IdleCall
  <1>2. call' = [call EXCEPT ![r] = c] /\ call[r].pc \in {"idle", "planned"}
    BY DEF PlanBatch
  <1>3. UNCHANGED <<fs, recorded, history, edits>>
    BY DEF PlanBatch, boundVars
  <1> HIDE DEF c
  <1> QED
    BY <1>1, <1>2, <1>3, RenewStops DEF Acting

LEMMA ExecuteBatchKind ==
    \A r \in Calls, time \in 0..MaxClock : Inv /\ ExecuteBatch(r, time) => Stops(r)
  <1> SUFFICES ASSUME Inv, NEW r \in Calls, NEW time \in 0..MaxClock,
                      ExecuteBatch(r, time)
               PROVE  Stops(r)
    OBVIOUS
  <1> DEFINE c == [call[r] EXCEPT !.pc = "approve", !.approved = time, !.now = clock]
  <1>1. call \in [Calls -> CallStates] /\ call[r] \in CallStates
    BY DEF Inv, TypeOK
  <1>2. c.pc = "approve" /\ c.digest = call[r].digest /\ c.result = call[r].result
    BY <1>1 DEF CallStates
  <1>3. call' = [call EXCEPT ![r] = c] /\ call[r].pc = "planned"
    BY <1>1 DEF ExecuteBatch
  <1>4. UNCHANGED <<fs, recorded, history, edits>>
    BY DEF ExecuteBatch, boundVars
  <1> HIDE DEF c
  <1> QED
    BY <1>2, <1>3, <1>4, RenewStops DEF Acting

LEMMA RestoreRowKind ==
    \A r \in Calls, i \in Items : Inv /\ RestoreRow(r, i) => Stops(r)
  <1> SUFFICES ASSUME Inv, NEW r \in Calls, NEW i \in Items, RestoreRow(r, i)
               PROVE  Stops(r)
    OBVIOUS
  <1> DEFINE c == [IdleCall EXCEPT !.pc = "approve", !.row = TRUE, !.ready = {i},
                                   !.digest[i] = fs[Current[i]],
                                   !.approved = clock, !.now = clock]
  <1>1. c.pc = "approve" /\ c.result = "NONE"
    BY DEF IdleCall
  <1>2. \A k \in Items : c.digest[k] = IF k = i THEN fs[Current[i]] ELSE Absent
    BY DEF IdleCall
  <1>3. call' = [call EXCEPT ![r] = c] /\ call[r].pc = "idle"
    BY DEF RestoreRow
  <1>4. UNCHANGED <<fs, recorded, history, edits>>
    BY DEF RestoreRow, boundVars
  <1> HIDE DEF c
  <1> QED
    BY <1>1, <1>2, <1>3, <1>4, RenewStops DEF Acting

LEMMA ApproveKind == \A r \in Calls : Inv /\ ApproveReadyItems(r) => Stops(r)
  <1> SUFFICES ASSUME Inv, NEW r \in Calls, ApproveReadyItems(r) PROVE Stops(r)
    OBVIOUS
  <1>1. call[r].pc \notin Acting /\ UNCHANGED <<fs, recorded, history, edits>>
    BY DEF ApproveReadyItems, Acting, boundVars
  <1>2. Proceed(r, {}) \/ Abort(r)
    BY DEF ApproveReadyItems
  <1>3. Interrupted(r) /\ UNCHANGED <<restored, late, altered>>
    BY <1>1 DEF Interrupted, GivesUp, Acting, history
  <1> QED
    BY <1>1, <1>2, <1>3, ProceedStops, AbortStops

LEMMA LogKind == \A r \in Calls : Inv /\ LogResult(r) => Stops(r)
  <1> SUFFICES ASSUME Inv, NEW r \in Calls, LogResult(r) PROVE Stops(r)
    OBVIOUS
  <1>1. call[r].pc \notin Acting /\ UNCHANGED <<fs, recorded, history, edits>>
    BY DEF LogResult, Acting, boundVars
  <1>2. Proceed(r, 1..call[r].at) \/ Abort(r)
    BY DEF LogResult
  <1>3. Interrupted(r) /\ UNCHANGED <<restored, late, altered>>
    BY <1>1 DEF Interrupted, GivesUp, Acting, history
  <1> QED
    BY <1>1, <1>2, <1>3, ProceedStops, AbortStops

LEMMA CrashKind == \A r \in Calls : Inv /\ Crash(r) => Stops(r)
  BY AbortStops DEF Crash, Disturbs, Interrupted
LEMMA RecheckKind == \A r \in Calls : Inv /\ RecheckPlan(r) => Commits(r) \/ Stops(r)
  <1> SUFFICES ASSUME Inv, NEW r \in Calls, RecheckPlan(r) PROVE Commits(r) \/ Stops(r)
    OBVIOUS
  <1>1. call[r].pc = "recheck" /\ UNCHANGED <<fs, recorded, restored, late, disturbed, edits>>
    BY DEF RecheckPlan, boundVars
  <1>2. CASE /\ PlanReason(fs, call[r].at, call[r].digest[call[r].at]) = "READY"
             /\ Goto(r, IF Op[call[r].at] = "COPY" THEN "remove" ELSE "read")
             /\ altered' = altered \cup {k \in {call[r].at} :
                                Op[k] = "COPY" /\ Home(r) # Place(r)}
    BY <1>1, <1>2, GotoIs DEF Commits, GoesOn, Digest
  <1>3. CASE Settle(r, "BLOCKED") /\ UNCHANGED altered
    <2>1. Interrupted(r)
      BY <1>1 DEF Interrupted, GivesUp
    <2> QED
      BY <1>1, <1>3, <2>1, SettleStops
  <1> QED
    BY <1>2, <1>3 DEF RecheckPlan

LEMMA RemoveKind == \A r \in Calls : Inv /\ RemoveCopy(r) => Removes(r) \/ Stops(r)
  <1> SUFFICES ASSUME Inv, NEW r \in Calls, RemoveCopy(r) PROVE Removes(r) \/ Stops(r)
    OBVIOUS
  <1>1. call[r].pc = "remove" /\ UNCHANGED <<recorded, history, edits>>
    BY DEF RemoveCopy, boundVars
  <1>2. CASE /\ Exists(Place(r)) /\ Goto(r, "verifyRemoved")
             /\ fs' = [fs EXCEPT ![Current[call[r].at]] = Absent]
    BY <1>1, <1>2, GotoIs DEF Removes, GoesOn
  <1>3. CASE Settle(r, "FAILED") /\ UNCHANGED fs
    BY <1>1, <1>3, SettleStops DEF Interrupted, GivesUp, history
  <1> QED
    BY <1>2, <1>3 DEF RemoveCopy

LEMMA VerifyKind ==
    ASSUME Inv, NEW r \in Calls, Verify(r, ~Exists(Place(r)) /\ Exists(Home(r))),
           call[r].pc \in Verifying,
           UNCHANGED <<fs, recorded, late, altered, disturbed, edits>>
    PROVE  Reports(r)
  <1> DEFINE verified == ~Exists(Place(r)) /\ Exists(Home(r))
             status == IF verified THEN "SUCCEEDED" ELSE "VERIFICATION_FAILED"
  <1>1. Settle(r, status)
    BY DEF Verify
  <1>2. restored' = IF verified THEN restored \cup {call[r].at} ELSE restored
    BY DEF Verify
  <1>3. status = "SUCCEEDED" <=> verified
    OBVIOUS
  <1> HIDE DEF status
  <1>4. /\ Others(r) /\ call'[r].pc = "log" /\ call'[r].at = call[r].at
        /\ call'[r].digest = call[r].digest /\ call'[r].result = status
    BY <1>1, SettleIs
  <1> QED
    BY <1>2, <1>3, <1>4 DEF Reports

LEMMA VerifyRemovedKind == \A r \in Calls : Inv /\ VerifyRemoved(r) => Reports(r)
  BY VerifyKind DEF VerifyRemoved, Verifying, boundVars

LEMMA VerifyMovedKind == \A r \in Calls : Inv /\ VerifyMoved(r) => Reports(r)
  BY VerifyKind DEF VerifyMoved, Verifying, boundVars

LEMMA ReadKind == \A r \in Calls : Inv /\ ReadMoved(r) => Reads(r) \/ Stops(r)
  <1> SUFFICES ASSUME Inv, NEW r \in Calls, ReadMoved(r) PROVE Reads(r) \/ Stops(r)
    OBVIOUS
  <1>1. call[r].pc = "read" /\ UNCHANGED <<fs, recorded, history, edits>>
    BY DEF ReadMoved, boundVars
  <1>2. CASE /\ Exists(Place(r)) /\ ~Exists(Home(r))
             /\ call' = [call EXCEPT ![r].pc = "create", ![r].seen = Place(r)]
    <2> DEFINE c == [call[r] EXCEPT !.pc = "create", !.seen = Place(r)]
    <2>1. call \in [Calls -> CallStates] /\ call[r] \in CallStates
      BY DEF Inv, TypeOK
    <2>2. /\ c.pc = "create" /\ c.seen = Place(r) /\ c.at = call[r].at
          /\ c.digest = call[r].digest /\ c.result = call[r].result
      BY <2>1 DEF CallStates
    <2>3. call' = [call EXCEPT ![r] = c]
      BY <1>2, <2>1
    <2> HIDE DEF c
    <2> QED
      BY <1>1, <1>2, <2>2, <2>3, RenewIs DEF Reads, GoesOn
  <1>3. CASE Settle(r, "BLOCKED")
    BY <1>1, <1>3, SettleStops DEF Interrupted, GivesUp, history
  <1> QED
    BY <1>2, <1>3 DEF ReadMoved

LEMMA CreateKind == \A r \in Calls : Inv /\ CreateHome(r) => Creates(r) \/ Stops(r)
  <1> SUFFICES ASSUME Inv, NEW r \in Calls, CreateHome(r) PROVE Creates(r) \/ Stops(r)
    OBVIOUS
  <1>1. call[r].pc = "create" /\ UNCHANGED <<recorded, history, edits>>
    BY DEF CreateHome, boundVars
  <1>2. CASE /\ Exists(Place(r)) /\ ~Exists(Home(r)) /\ Goto(r, "copy")
             /\ fs' = [fs EXCEPT ![Original[call[r].at]] = Partial]
    BY <1>1, <1>2, GotoIs DEF Creates, GoesOn
  <1>3. CASE Settle(r, "BLOCKED") /\ UNCHANGED fs
    BY <1>1, <1>3, SettleStops DEF Interrupted, GivesUp, history
  <1>4. CASE MoveFails(r) /\ UNCHANGED fs
    BY <1>1, <1>4, MoveFailsStatus, SettleStops DEF Interrupted, GivesUp, history
  <1> QED
    BY <1>2, <1>3, <1>4 DEF CreateHome

LEMMA CopyKind == \A r \in Calls : Inv /\ CopyHome(r) => Copies(r) \/ Stops(r)
  <1> SUFFICES ASSUME Inv, NEW r \in Calls, CopyHome(r) PROVE Copies(r) \/ Stops(r)
    OBVIOUS
  <1>1. call[r].pc = "copy" /\ UNCHANGED <<recorded, history, edits>>
    BY DEF CopyHome, boundVars
  <1>2. CASE /\ Home(r) = Partial /\ Exists(Place(r)) /\ Goto(r, "verifyCopy")
             /\ \E c \in Copied(r) : fs' = [fs EXCEPT ![Original[call[r].at]] = c]
    BY <1>1, <1>2, GotoIs DEF Copies, GoesOn
  <1>3. CASE /\ Home(r) \in Contents /\ Exists(Place(r)) /\ Goto(r, "verifyCopy")
             /\ fs' = fs
    BY <1>1, <1>3, GotoIs DEF Copies, GoesOn
  <1>4. CASE /\ Home(r) = Partial /\ ~Exists(Place(r)) /\ MoveFails(r)
             /\ \E c : fs' = [fs EXCEPT ![Original[call[r].at]] = c]
    BY <1>1, <1>4, MoveFailsStatus, SettleStops DEF Interrupted, GivesUp, history
  <1>5. CASE /\ ~Exists(Home(r)) \/ ~Exists(Place(r))
             /\ MoveFails(r) /\ fs' = fs
    BY <1>1, <1>5, MoveFailsStatus, SettleStops DEF Interrupted, GivesUp, history
  <1> QED
    BY <1>2, <1>3, <1>4, <1>5 DEF CopyHome, Home

LEMMA VerifyHomeKind == \A r \in Calls : Inv /\ VerifyHome(r) => Verifies(r) \/ Stops(r)
  <1> SUFFICES ASSUME Inv, NEW r \in Calls, VerifyHome(r) PROVE Verifies(r) \/ Stops(r)
    OBVIOUS
  <1>1. call[r].pc = "verifyCopy" /\ UNCHANGED <<fs, recorded, history, edits>>
    BY DEF VerifyHome, boundVars
  <1>2. CASE Home(r) = call[r].seen /\ Goto(r, "unlink")
    BY <1>1, <1>2, GotoIs DEF Verifies, GoesOn
  <1>3. CASE Home(r) # call[r].seen /\ Settle(r, "VERIFICATION_FAILED")
    BY <1>1, <1>3, SettleStops DEF Interrupted, GivesUp, history
  <1>4. CASE ~Exists(Home(r)) /\ MoveFails(r)
    BY <1>1, <1>4, MoveFailsStatus, SettleStops DEF Interrupted, GivesUp, history
  <1> QED
    BY <1>2, <1>3, <1>4 DEF VerifyHome

LEMMA UnlinkKind == \A r \in Calls : Inv /\ UnlinkMoved(r) => Removes(r) \/ Stops(r)
  <1> SUFFICES ASSUME Inv, NEW r \in Calls, UnlinkMoved(r) PROVE Removes(r) \/ Stops(r)
    OBVIOUS
  <1>1. call[r].pc = "unlink" /\ UNCHANGED <<recorded, history, edits>>
    BY DEF UnlinkMoved, boundVars
  <1>2. CASE /\ Exists(Place(r)) /\ Goto(r, "verifyMoved")
             /\ fs' = [fs EXCEPT ![Current[call[r].at]] = Absent]
    BY <1>1, <1>2, GotoIs DEF Removes, GoesOn
  <1>3. CASE ~Exists(Place(r)) /\ MoveFails(r) /\ UNCHANGED fs
    BY <1>1, <1>3, MoveFailsStatus, SettleStops DEF Interrupted, GivesUp, history
  <1> QED
    BY <1>2, <1>3 DEF UnlinkMoved

LEMMA DiskErrorKind == \A r \in Calls : Inv /\ DiskError(r) => Stops(r)
  <1> SUFFICES ASSUME Inv, NEW r \in Calls, DiskError(r) PROVE Stops(r)
    OBVIOUS
  <1>1. Interrupted(r) /\ UNCHANGED <<fs, recorded, restored, late, altered, edits>>
    BY DEF DiskError, Disturbs, Interrupted
  <1>2. CASE Settle(r, "FAILED")
    BY <1>1, <1>2, SettleStops
  <1>3. CASE MoveFails(r)
    BY <1>1, <1>3, MoveFailsStatus, SettleStops
  <1> QED
    BY <1>2, <1>3 DEF DiskError

LEMMA Kinds ==
    ASSUME Inv, [Next]_vars
    PROVE  Edit \/ LoseProcess \/ Rests \/ \E r \in Calls : Kind(r)
  <1>1. CASE UNCHANGED vars \/ Tick
    BY <1>1 DEF Rests, vars, Tick, boundVars
  <1>2. ASSUME NEW r \in Calls, PlanBatch(r) \/ DiskError(r) \/ Crash(r) PROVE Kind(r)
    BY <1>2, PlanBatchKind, DiskErrorKind, CrashKind DEF Kind
  <1>3. ASSUME NEW r \in Calls, NEW time \in 0..MaxClock, ExecuteBatch(r, time) PROVE Kind(r)
    BY <1>3, ExecuteBatchKind DEF Kind
  <1>4. ASSUME NEW r \in Calls, NEW i \in Items, RestoreRow(r, i) PROVE Kind(r)
    BY <1>4, RestoreRowKind DEF Kind
  <1>5. ASSUME NEW r \in Calls, Step(r) PROVE Kind(r)
    BY <1>5, ApproveKind, RecheckKind, LogKind, RemoveKind, VerifyRemovedKind, ReadKind,
       CreateKind, CopyKind, VerifyHomeKind, UnlinkKind, VerifyMovedKind DEF Step, Kind
  <1> QED
    BY <1>1, <1>2, <1>3, <1>4, <1>5 DEF Next
LEMMA KindOthers == \A r \in Calls : Kind(r) => Others(r)
  BY DEF Kind, Commits, Removes, Reports, Reads, Creates, Copies, Verifies, Stops, GoesOn

\* The histories only grow, and only an edit makes a call late.
LEMMA KindHistory ==
    ASSUME NEW r \in Calls, Kind(r)
    PROVE  late' = late /\ altered \subseteq altered' /\ disturbed \subseteq disturbed'
  BY DEF Kind, Commits, Removes, Reports, Reads, Creates, Copies, Verifies, Stops,
     Interrupted, history

LEMMA HistoryGrows ==
    ASSUME Inv, [Next]_vars
    PROVE  /\ late => late'
           /\ altered \subseteq altered' /\ disturbed \subseteq disturbed'
  <1>1. CASE Edit
    BY <1>1 DEF Edit
  <1>2. CASE LoseProcess
    BY <1>2 DEF LoseProcess, Disturbs
  <1>3. CASE Rests
    BY <1>3 DEF Rests, history
  <1>4. ASSUME NEW r \in Calls, Kind(r)
        PROVE  /\ late => late'
               /\ altered \subseteq altered' /\ disturbed \subseteq disturbed'
    BY <1>4, KindHistory
  <1> QED
    BY <1>1, <1>2, <1>3, <1>4, Kinds

----------------------------------------------------------------------------
\* Nothing is restored twice.

\* No move goes back to a place another operation put its file in: its original
\* place is touched by nobody but the calls that move it back.  Batches have
\* such results unless one operation's source is another's destination.
HomesFree == \A i, k \in Items : Op[i] = "MOVE" => Original[i] # Current[k]

Moving == {"read", "create", "copy", "verifyCopy", "unlink", "verifyMoved"}

\* A call's steps fit its item, and where a file is restored from, or was when
\* a preview was made, there is no half-written file.
Placed ==
    /\ \A r \in Calls :
          /\ call[r].pc \in {"remove", "verifyRemoved"} => Op[call[r].at] = "COPY"
          /\ call[r].pc \in Moving => Op[call[r].at] = "MOVE"
          /\ \A i \in Items : call[r].digest[i] \in Contents \cup {Absent}
    /\ \A i \in Items : fs[Current[i]] \in Contents \cup {Absent}

LEMMA Types ==
    ASSUME Inv
    PROVE  /\ fs \in [Paths -> FileStates]
           /\ recorded \in [Items -> Contents \cup {Absent}]
           /\ edits \in Nat
           /\ late \in BOOLEAN
           /\ \A i \in Items : /\ Current[i] \in Paths /\ Original[i] \in Paths
                               /\ Original[i] # Current[i]
                               /\ Op[i] \in {"COPY", "MOVE"}
           /\ \A r \in Calls : /\ call[r].at \in Items
                               /\ \A i \in Items : call[r].digest[i] \in FileStates
  BY ItemsAssumption, BoundsAssumption DEF Inv, TypeOK, CallStates

\* Only a removal changes what a file is restored from.
LEMMA PlaceKept ==
    ASSUME HomesFree, Inv, Placed, NEW r \in Calls, Kind(r), NEW i \in Items
    PROVE  \/ fs'[Current[i]] = fs[Current[i]]
           \/ /\ Removes(r)
              /\ Current[i] = Current[call[r].at]
              /\ fs'[Current[i]] = Absent
  <1>1. call[r].at \in Items /\ fs \in [Paths -> FileStates]
    BY Types
  <1>2. Current[i] \in Paths /\ Current[call[r].at] \in Paths
    BY <1>1, Types
  <1>3. CASE Removes(r)
    BY <1>1, <1>2, <1>3 DEF Removes
  <1>4. ASSUME call[r].pc \in Moving,
               NEW c, fs' = [fs EXCEPT ![Original[call[r].at]] = c]
        PROVE  fs'[Current[i]] = fs[Current[i]]
    <2>1. Original[call[r].at] # Current[i]
      BY <1>1, <1>4 DEF HomesFree, Placed
    <2> QED
      BY <1>1, <1>2, <1>4, <2>1
  <1>5. CASE fs' = fs
    BY <1>5
  <1>6. CASE Creates(r)
    BY <1>4, <1>6 DEF Creates, GoesOn, Moving
  <1>7. CASE Copies(r)
    BY <1>4, <1>5, <1>7 DEF Copies, GoesOn, Moving
  <1>8. CASE Stops(r)
    BY <1>4, <1>5, <1>8 DEF Stops, Moving
  <1> QED
    BY <1>3, <1>5, <1>6, <1>7, <1>8 DEF Kind, Commits, Reports, Reads, Verifies

LEMMA InitPlaced == Init => Placed
  <1> SUFFICES ASSUME Init PROVE Placed
    OBVIOUS
  <1>1. \A r \in Calls : call[r] = IdleCall
    BY DEF Init
  <1>2. \A i \in Items : fs[Current[i]] \in Contents \cup {Absent}
    BY ItemsAssumption DEF Init
  <1> HIDE DEF IdleCall
  <1> QED
    BY <1>1, <1>2, IdleFields DEF Placed, Moving

LEMMA NextPlaced == ASSUME HomesFree, Inv, Placed, [Next]_vars PROVE Placed'
  <1>1. CASE Edit
    <2>1. call' = call
      BY <1>1 DEF Edit
    <2>2. \A i \in Items : fs'[Current[i]] \in Contents \cup {Absent}
      BY <1>1, Types DEF Edit, Placed
    <2> QED
      BY <2>1, <2>2 DEF Placed
  <1>2. CASE LoseProcess
    <2>1. fs' = fs /\ \A r \in Calls : call'[r] = IdleCall
      BY <1>2 DEF LoseProcess
    <2> HIDE DEF IdleCall
    <2> QED
      BY <2>1, IdleFields DEF Placed, Moving
  <1>3. CASE Rests
    BY <1>3 DEF Rests, Placed
  <1>4. ASSUME NEW r \in Calls, Kind(r) PROVE Placed'
    <2>1. ASSUME NEW i \in Items PROVE fs'[Current[i]] \in Contents \cup {Absent}
      BY <1>4, PlaceKept DEF Placed
    <2>2. \A q \in Calls \ {r} : call'[q] = call[q]
      BY <1>4, KindOthers DEF Others
    <2>3. \A i \in Items : call'[r].digest[i] \in Contents \cup {Absent}
      <3>1. CASE Stops(r)
        BY <3>1, Types DEF Stops, Placed
      <3>2. CASE call'[r].digest = call[r].digest
        BY <3>2 DEF Placed
      <3> QED
        BY <1>4, <3>1, <3>2 DEF Kind, Commits, Removes, Reports, Reads, Creates, Copies,
           Verifies, GoesOn
    <2>4. /\ call'[r].pc \in {"remove", "verifyRemoved"} => Op[call'[r].at] = "COPY"
          /\ call'[r].pc \in Moving => Op[call'[r].at] = "MOVE"
      <3>1. CASE Stops(r) \/ Reports(r)
        BY <3>1 DEF Stops, Reports, Acting, Moving
      <3>2. CASE Commits(r)
        BY <3>2, Types DEF Commits, GoesOn, Moving
      <3>3. CASE Removes(r)
        BY <3>3 DEF Removes, GoesOn, Moving, Placed
      <3>4. CASE Reads(r) \/ Creates(r) \/ Copies(r) \/ Verifies(r)
        BY <3>4 DEF Reads, Creates, Copies, Verifies, GoesOn, Moving, Placed
      <3> QED
        BY <1>4, <3>1, <3>2, <3>3, <3>4 DEF Kind
    <2> QED
      BY <2>1, <2>2, <2>3, <2>4 DEF Placed
  <1> QED
    BY <1>1, <1>2, <1>3, <1>4, Kinds

LEMMA PlacedInvariant == ASSUME HomesFree PROVE Spec => [](Inv /\ Placed)
  <1>1. Init => Inv /\ Placed
    BY InitInv, InitPlaced
  <1>2. (Inv /\ Placed) /\ [Next]_vars => (Inv /\ Placed)'
    BY NextInv, NextPlaced
  <1> QED
    BY <1>1, <1>2, PTL DEF Spec

\* What was restored is gone from where it was, and two calls never verify the
\* removal of the same file.
Once ==
    /\ \A i \in restored : fs[Current[i]] = Absent
    /\ \A r \in Calls : call[r].pc \in Verifying =>
          Place(r) = Absent /\ call[r].at \notin restored
    /\ \A r, q \in Calls :
          r # q /\ call[r].pc \in Verifying /\ call[q].pc \in Verifying =>
             Current[call[r].at] # Current[call[q].at]

LEMMA InitOnce == Init => Once
  BY IdleFields DEF Init, Once, Verifying

LEMMA NextOnce ==
    ASSUME HomesFree, Inv, Placed, Once, edits' = 0, [Next]_vars
    PROVE  Once'
  <1>1. ~Edit
    BY Types DEF Edit
  <1>2. CASE LoseProcess
    <2>1. fs' = fs /\ restored' = restored /\ \A r \in Calls : call'[r] = IdleCall
      BY <1>2 DEF LoseProcess, Disturbs
    <2> HIDE DEF IdleCall
    <2> QED
      BY <2>1, IdleFields DEF Once, Verifying
  <1>3. CASE Rests
    BY <1>3 DEF Rests, Once, Place, history
  <1>4. ASSUME NEW r \in Calls, Kind(r) PROVE Once'
    <2>1. \A q \in Calls \ {r} : call'[q] = call[q]
      BY <1>4, KindOthers DEF Others
    <2>2. \A i \in Items : fs[Current[i]] = Absent => fs'[Current[i]] = Absent
      BY <1>4, PlaceKept
    <2>3. restored \subseteq Items
      BY DEF Inv, TypeOK
    <2>4. \A q \in Calls : call[q].at \in Items
      BY Types
    <2>5. CASE Removes(r)
      <3>1. /\ call'[r].at = call[r].at /\ Place(r) # Absent
            /\ fs'[Current[call[r].at]] = Absent /\ restored' = restored
        BY <2>4, <2>5, Types DEF Removes, GoesOn, Exists, history
      <3>2. \A q \in Calls \ {r} : call[q].pc \in Verifying =>
               Current[call[q].at] # Current[call[r].at]
        BY <3>1 DEF Once, Place
      <3>3. call[r].at \notin restored
        BY <3>1 DEF Once, Place
      <3>4. \A i \in restored' : fs'[Current[i]] = Absent
        BY <2>2, <2>3, <3>1 DEF Once
      <3>5. \A q \in Calls : call'[q].pc \in Verifying =>
               Place(q)' = Absent /\ call'[q].at \notin restored'
        BY <2>1, <2>2, <2>4, <3>1, <3>3 DEF Once, Place
      <3>6. \A s, q \in Calls :
              s # q /\ call'[s].pc \in Verifying /\ call'[q].pc \in Verifying =>
                 Current[call'[s].at] # Current[call'[q].at]
        BY <2>1, <3>1, <3>2 DEF Once
      <3> QED
        BY <3>4, <3>5, <3>6 DEF Once
    <2>6. CASE Reports(r)
      <3>1. /\ call'[r].pc \notin Verifying /\ call[r].pc \in Verifying
            /\ restored' \subseteq restored \cup {call[r].at}
        BY <2>6 DEF Reports, Verifying
      <3>2. \A i \in restored' : fs'[Current[i]] = Absent
        BY <2>2, <2>3, <2>4, <3>1 DEF Once, Place
      <3>3. \A q \in Calls : call'[q].pc \in Verifying =>
               Place(q)' = Absent /\ call'[q].at \notin restored'
        BY <2>1, <2>2, <2>4, <3>1 DEF Once, Place
      <3>4. \A s, q \in Calls :
              s # q /\ call'[s].pc \in Verifying /\ call'[q].pc \in Verifying =>
                 Current[call'[s].at] # Current[call'[q].at]
        BY <2>1, <3>1 DEF Once
      <3> QED
        BY <3>2, <3>3, <3>4 DEF Once
    <2>7. CASE call'[r].pc \notin Verifying /\ restored' = restored
      <3>1. \A i \in restored' : fs'[Current[i]] = Absent
        BY <2>2, <2>3, <2>7 DEF Once
      <3>2. \A q \in Calls : call'[q].pc \in Verifying =>
               Place(q)' = Absent /\ call'[q].at \notin restored'
        BY <2>1, <2>2, <2>4, <2>7 DEF Once, Place
      <3>3. \A s, q \in Calls :
              s # q /\ call'[s].pc \in Verifying /\ call'[q].pc \in Verifying =>
                 Current[call'[s].at] # Current[call'[q].at]
        BY <2>1, <2>7 DEF Once
      <3> QED
        BY <3>1, <3>2, <3>3 DEF Once
    <2>8. Removes(r) \/ Reports(r) \/ (call'[r].pc \notin Verifying /\ restored' = restored)
      BY <1>4 DEF Kind, Commits, Reads, Creates, Copies, Verifies, Stops, GoesOn,
         Verifying, Acting, history
    <2> QED
      BY <2>5, <2>6, <2>7, <2>8
  <1> QED
    BY <1>1, <1>2, <1>3, <1>4, Kinds

LEMMA EditsCount == ASSUME Inv, [Next]_vars PROVE edits' = edits \/ edits' = edits + 1
  <1>1. CASE Edit \/ LoseProcess \/ Rests
    BY <1>1 DEF Edit, LoseProcess, Rests
  <1>2. ASSUME NEW r \in Calls, Kind(r) PROVE edits' = edits
    BY <1>2 DEF Kind, Commits, Removes, Reports, Reads, Creates, Copies, Verifies, Stops,
       GoesOn
  <1> QED
    BY <1>1, <1>2, Kinds

\* A success is reported by a verification.
LEMMA SuccessReports ==
    ASSUME Inv, [Next]_vars, NEW q \in Calls,
           call[q].result # "SUCCEEDED", call'[q].result = "SUCCEEDED"
    PROVE  Reports(q) /\ ~Exists(Place(q)) /\ Exists(Home(q))
  <1>1. ~Edit /\ ~Rests
    BY DEF Edit, Rests
  <1>2. ~LoseProcess
    <2>1. SUFFICES ASSUME LoseProcess PROVE FALSE
      OBVIOUS
    <2>2. call'[q] = IdleCall
      BY <2>1 DEF LoseProcess
    <2> HIDE DEF IdleCall
    <2> QED
      BY <2>2, IdleFields
  <1>3. PICK r \in Calls : Kind(r)
    BY <1>1, <1>2, Kinds
  <1>4. \A s \in Calls \ {r} : call'[s] = call[s]
    BY <1>3, KindOthers DEF Others
  <1>5. q = r
    BY <1>4
  <1>6. Reports(q)
    BY <1>3, <1>5 DEF Kind, Commits, Removes, Reads, Creates, Copies, Verifies, Stops,
       GoesOn
  <1> QED
    BY <1>6 DEF Reports

\* A preview that is executed again, after an interruption or by an overlapping
\* call, reports no second success: for every number of calls and operations.
THEOREM RestoredOnlyOnce == ASSUME HomesFree PROVE Spec => RestoredOnce
  <1> DEFINE K == edits = 0 => Once
  <1>1. Init => Inv /\ Placed /\ K
    BY InitInv, InitPlaced, InitOnce
  <1>2. Inv /\ Placed /\ K /\ [Next]_vars => (Inv /\ Placed /\ K)'
    <2> SUFFICES ASSUME Inv, Placed, K, [Next]_vars, edits' = 0 PROVE Once'
      BY NextInv, NextPlaced
    <2>1. edits = 0
      <3>1. edits' = edits \/ edits' = edits + 1
        BY EditsCount
      <3> QED
        BY <3>1, Types
    <2> QED
      BY <2>1, NextOnce
  <1>3. ASSUME Inv, K, [Next]_vars
        PROVE  \A r \in Calls : LET i == call[r].at IN
                  /\ call[r].result # "SUCCEEDED"
                  /\ call'[r].result = "SUCCEEDED"
                  => i \notin restored \/ edits > 0
    <2> SUFFICES ASSUME NEW r \in Calls, call[r].result # "SUCCEEDED",
                        call'[r].result = "SUCCEEDED", ~(edits > 0)
                 PROVE  call[r].at \notin restored
      OBVIOUS
    <2>1. edits = 0
      BY <1>3, Types
    <2>2. call[r].pc \in Verifying
      BY <1>3, SuccessReports DEF Reports
    <2> QED
      BY <1>3, <2>1, <2>2 DEF Once
  <1> QED
    BY <1>1, <1>2, <1>3, PTL DEF Spec, RestoredOnce
----------------------------------------------------------------------------
\* What a success says, as long as no edit comes between a recheck and its
\* action.

\* What a call that took its item in hand knows: its approved content is at the
\* place it restores from or gone, and where the step says so at home.  The
\* original of a copy may have been another content all along, or have gone when
\* it was itself a generated copy.
TrueCall(r) ==
    /\ call[r].pc \in Acting =>
          Digest(r) \in Contents /\ Place(r) \in {Digest(r), Absent}
    /\ call[r].pc \in {"remove", "verifyRemoved"} =>
          \/ call[r].at \in altered
          \/ Home(r) = Digest(r)
          \/ Home(r) = Absent /\ \E k \in Items : Current[k] = Original[call[r].at]
    /\ call[r].pc \in {"create", "copy", "verifyCopy", "unlink"} =>
          call[r].seen = Digest(r)
    /\ call[r].pc \in {"unlink", "verifyMoved"} => Home(r) = Digest(r)

\* A step of a call changes no complete file but the one it removes.
LEMMA ContentKept ==
    ASSUME Inv, NEW r \in Calls, Kind(r), NEW p \in Paths, fs[p] \in Contents
    PROVE  \/ fs'[p] = fs[p]
           \/ Removes(r) /\ p = Current[call[r].at] /\ fs'[p] = Absent
  <1>1. /\ fs \in [Paths -> FileStates] /\ call[r].at \in Items
        /\ Current[call[r].at] \in Paths /\ Original[call[r].at] \in Paths
    BY Types
  <1>2. fs[p] # Absent /\ fs[p] # Partial
    BY ContentsAssumption
  <1>3. ASSUME Home(r) \in {Absent, Partial},
               NEW c, fs' = [fs EXCEPT ![Original[call[r].at]] = c]
        PROVE  fs'[p] = fs[p]
    BY <1>1, <1>2, <1>3 DEF Home
  <1>4. CASE Removes(r)
    BY <1>1, <1>4 DEF Removes
  <1>5. CASE fs' = fs
    BY <1>5
  <1>6. CASE Creates(r)
    BY <1>3, <1>6 DEF Creates, Exists
  <1>7. CASE Copies(r)
    BY <1>3, <1>5, <1>7 DEF Copies
  <1>8. CASE Stops(r)
    BY <1>3, <1>5, <1>8 DEF Stops
  <1> QED
    BY <1>4, <1>5, <1>6, <1>7, <1>8 DEF Kind, Commits, Reports, Reads, Verifies

\* What a call knows stays true while others, or it itself, take a step.
LEMMA TrueStays ==
    ASSUME HomesFree, Inv, Placed, NEW r \in Calls, Kind(r),
           NEW q \in Calls, TrueCall(q)
    PROVE  LET place == fs'[Current[call[q].at]]
               home  == fs'[Original[call[q].at]]
           IN  /\ call[q].pc \in Acting => place \in {Digest(q), Absent}
               /\ call[q].pc \in {"remove", "verifyRemoved"} =>
                     \/ call[q].at \in altered
                     \/ home = Digest(q)
                     \/ /\ home = Absent
                        /\ \E k \in Items : Current[k] = Original[call[q].at]
               /\ call[q].pc \in {"unlink", "verifyMoved"} => home = Digest(q)
  <1>1. /\ call[q].at \in Items /\ Original[call[q].at] \in Paths
        /\ call[r].at \in Items
    BY Types
  <1>2. call[q].pc \in Acting => fs'[Current[call[q].at]] \in {Digest(q), Absent}
    BY <1>1, PlaceKept DEF TrueCall, Place
  <1>3. ASSUME call[q].pc \in {"remove", "verifyRemoved"}, call[q].at \notin altered
        PROVE  \/ fs'[Original[call[q].at]] = Digest(q)
               \/ /\ fs'[Original[call[q].at]] = Absent
                  /\ \E k \in Items : Current[k] = Original[call[q].at]
    <2>1. call[q].pc \in Acting
      BY <1>3 DEF Acting
    <2>2. CASE Home(q) = Digest(q)
      BY <1>1, <2>1, <2>2, ContentKept DEF TrueCall, Home
    <2>3. ASSUME Home(q) = Absent, NEW k \in Items, Current[k] = Original[call[q].at]
          PROVE  fs'[Original[call[q].at]] = Absent
      BY <2>3, PlaceKept DEF Home
    <2> QED
      BY <1>3, <2>2, <2>3 DEF TrueCall
  <1>4. ASSUME call[q].pc \in {"unlink", "verifyMoved"}
        PROVE  fs'[Original[call[q].at]] = Digest(q)
    <2>1. Home(q) = Digest(q) /\ Digest(q) \in Contents
      BY <1>4 DEF TrueCall, Acting
    <2>2. Op[call[q].at] = "MOVE"
      BY <1>4 DEF Placed, Moving
    <2>3. Original[call[q].at] # Current[call[r].at]
      BY <1>1, <2>2 DEF HomesFree
    <2> QED
      BY <1>1, <2>1, <2>3, ContentKept DEF Home
  <1> QED
    BY <1>2, <1>3, <1>4

\* A call of which nothing changed but the files.
LEMMA TrueOther ==
    ASSUME HomesFree, Inv, Placed, NEW r \in Calls, Kind(r),
           NEW q \in Calls \ {r}, TrueCall(q)
    PROVE  TrueCall(q)'
  <1>1. call'[q] = call[q]
    BY KindOthers DEF Others
  <1> QED
    BY <1>1, TrueStays, KindHistory DEF TrueCall, Place, Home, Digest

\* The call that took the step.
LEMMA TrueSelf ==
    ASSUME HomesFree, Inv, Placed, NEW r \in Calls, Kind(r), TrueCall(r)
    PROVE  TrueCall(r)'
  <1>1. /\ call[r].at \in Items /\ fs \in [Paths -> FileStates]
        /\ Op[call[r].at] \in {"COPY", "MOVE"}
    BY Types
  <1>2. CASE Stops(r) \/ Reports(r)
    BY <1>2 DEF Stops, Reports, TrueCall, Acting
  <1>3. CASE Commits(r)
    <2>1. fs' = fs /\ call'[r].at = call[r].at /\ call'[r].digest = call[r].digest
      BY <1>3 DEF Commits, GoesOn
    <2>2. Digest(r) \in Contents /\ Place(r) = Digest(r)
      BY <1>1, <1>3 DEF Commits, PlanReason, CopyPlan, MovePlan, Place, Digest, Exists, Placed
    <2>3. Op[call[r].at] = "COPY" =>
             call'[r].pc = "remove" /\ (Home(r) = Place(r) \/ call[r].at \in altered')
      BY <1>3 DEF Commits, GoesOn
    <2>4. Op[call[r].at] = "MOVE" => call'[r].pc = "read"
      BY <1>3 DEF Commits, GoesOn
    <2> QED
      BY <1>1, <2>1, <2>2, <2>3, <2>4 DEF TrueCall, Place, Home, Digest
  <1>4. CASE Removes(r) \/ Reads(r) \/ Creates(r) \/ Copies(r) \/ Verifies(r)
    <2>1. call'[r].at = call[r].at /\ call'[r].digest = call[r].digest
      BY <1>4 DEF Removes, Reads, Creates, Copies, Verifies, GoesOn
    <2>2. call[r].pc \in Acting
      BY <1>4 DEF Removes, Reads, Creates, Copies, Verifies, GoesOn, Acting
    <2>3. CASE Removes(r)
      BY <2>1, <2>2, <2>3, TrueStays, KindHistory DEF Removes, GoesOn, TrueCall, Place, Home, Digest
    <2>4. CASE Reads(r)
      BY <2>1, <2>2, <2>4, TrueStays
         DEF Reads, GoesOn, TrueCall, Place, Home, Digest, Exists
    <2>5. CASE Creates(r) \/ Copies(r)
      BY <2>1, <2>2, <2>5, TrueStays
         DEF Creates, Copies, GoesOn, TrueCall, Place, Home, Digest
    <2>6. CASE Verifies(r)
      BY <2>1, <2>2, <2>6, TrueStays DEF Verifies, GoesOn, TrueCall, Place, Home, Digest
    <2> QED
      BY <1>4, <2>3, <2>4, <2>5, <2>6
  <1> QED
    BY <1>2, <1>3, <1>4 DEF Kind

OnTime == ~late => \A r \in Calls : TrueCall(r)

LEMMA InitOnTime == Init => OnTime
  BY IdleFields DEF Init, OnTime, TrueCall, Acting

LEMMA NextOnTime == ASSUME HomesFree, Inv, Placed, OnTime, [Next]_vars PROVE OnTime'
  <1> SUFFICES ASSUME ~late', NEW q \in Calls PROVE TrueCall(q)'
    BY DEF OnTime
  <1>1. TrueCall(q) /\ ~late
    BY HistoryGrows DEF OnTime
  <1>2. CASE Edit
    BY <1>2 DEF Edit, TrueCall, Acting
  <1>3. CASE LoseProcess
    <2>1. call'[q] = IdleCall
      BY <1>3 DEF LoseProcess
    <2> HIDE DEF IdleCall
    <2> QED
      BY <2>1, IdleFields DEF TrueCall, Acting
  <1>4. CASE Rests
    BY <1>1, <1>4 DEF Rests, TrueCall, Place, Home, Digest, history
  <1>5. ASSUME NEW r \in Calls, Kind(r) PROVE TrueCall(q)'
    BY <1>1, <1>5, TrueOther, TrueSelf
  <1> QED
    BY <1>2, <1>3, <1>4, <1>5, Kinds

LEMMA OnTimeInvariant == ASSUME HomesFree PROVE Spec => [](Inv /\ Placed /\ OnTime)
  <1>1. Init => Inv /\ Placed /\ OnTime
    BY InitInv, InitPlaced, InitOnTime
  <1>2. (Inv /\ Placed /\ OnTime) /\ [Next]_vars => (Inv /\ Placed /\ OnTime)'
    BY NextInv, NextPlaced, NextOnTime
  <1> QED
    BY <1>1, <1>2, PTL DEF Spec

\* A reported success is true of the disk, for every number of overlapping
\* calls, interruptions and edits, as long as none of the edits falls between a
\* call's recheck and its result: the file is gone from where the operation put
\* it, and its approved content is where it came from, or, for a removed copy
\* whose original had been changed, that original is still there.
THEOREM SuccessesAreRestored == ASSUME HomesFree PROVE Spec => SuccessIsRestored
  <1>1. ASSUME Inv, Placed, OnTime, [Next]_vars
        PROVE  \A r \in Calls : LET i == call[r].at IN
                  /\ call[r].result # "SUCCEEDED"
                  /\ call'[r].result = "SUCCEEDED"
                  /\ ~late
                  => /\ ~Exists(fs'[Current[i]])
                     /\ \/ fs'[Original[i]] = call[r].digest[i]
                        \/ i \in altered /\ Exists(fs'[Original[i]])
    <2> SUFFICES ASSUME NEW r \in Calls, call[r].result # "SUCCEEDED",
                        call'[r].result = "SUCCEEDED", ~late
                 PROVE  /\ ~Exists(fs'[Current[call[r].at]])
                        /\ \/ fs'[Original[call[r].at]] = Digest(r)
                           \/ /\ call[r].at \in altered
                              /\ Exists(fs'[Original[call[r].at]])
      BY DEF Digest
    <2>1. Reports(r) /\ ~Exists(Place(r)) /\ Exists(Home(r))
      BY <1>1, SuccessReports
    <2>2. fs' = fs /\ call[r].pc \in Verifying
      BY <2>1 DEF Reports
    <2>3. TrueCall(r)
      BY <1>1 DEF OnTime
    <2>4. Home(r) = Digest(r) \/ call[r].at \in altered
      BY <2>1, <2>2, <2>3 DEF TrueCall, Verifying, Exists
    <2> QED
      BY <2>1, <2>2, <2>4 DEF Home, Place
  <1> QED
    BY <1>1, OnTimeInvariant, PTL DEF Spec, SuccessIsRestored
----------------------------------------------------------------------------
\* Restores make no content disappear.

\* The operations went forward along some order of the places: nothing was
\* copied around in a circle.  Overlapping calls can remove every copy on a
\* circle, each relying on the next.
Forward(rank) == \A i \in Items : rank[Original[i]] < rank[Current[i]]

\* A path whose file some call is about to remove.
Dooms(r) == call[r].pc \in {"remove", "unlink"}
Doomed(p) == \E r \in Calls : Dooms(r) /\ Current[call[r].at] = p

\* What a call is about to remove is also at an earlier place, where no call is
\* about to remove it.
Backed(r, rank) ==
    Dooms(r) /\ Place(r) # Absent =>
        \E q \in Paths : /\ fs[q] = Place(r)
                         /\ rank[q] < rank[Current[call[r].at]]
                         /\ ~Doomed(q)

\* Neither of what the property excepts has happened.
Unspoilt == ~late /\ altered = {}

AllBacked(rank) == Unspoilt => \A r \in Calls : Backed(r, rank)

\* Nobody begins to remove a file.
LEMMA BackedStays ==
    ASSUME Inv, Placed, NEW rank \in [Paths -> Nat],
           NEW r \in Calls, Kind(r), ~Commits(r), ~Verifies(r),
           HomesFree, OnTime, ~late, NEW q \in Calls, Backed(q, rank)
    PROVE  Backed(q, rank)'
  <1>1. ASSUME NEW s \in Calls, Dooms(s)'
        PROVE  Dooms(s) /\ call'[s] = call[s] /\ s # r
    <2>1. ~Dooms(r)'
      BY DEF Kind, Removes, Reports, Reads, Creates, Copies, Stops, GoesOn, Dooms, Acting
    <2>2. s # r
      BY <1>1, <2>1
    <2> QED
      BY <1>1, <2>2, KindOthers DEF Others, Dooms
  <1>2. \A p : Doomed(p)' => Doomed(p)
    BY <1>1 DEF Doomed
  <1> SUFFICES ASSUME Dooms(q)', Place(q)' # Absent
               PROVE  \E p \in Paths : /\ fs'[p] = Place(q)'
                                       /\ rank[p] < rank[Current[call'[q].at]]
                                       /\ ~Doomed(p)'
    BY DEF Backed
  <1>3. Dooms(q) /\ call'[q] = call[q] /\ call[q].at \in Items
    BY <1>1, Types
  <1>4. Place(q)' = Place(q) /\ Place(q) # Absent
    BY <1>3, PlaceKept DEF Place
  <1>5. PICK p \in Paths : /\ fs[p] = Place(q)
                           /\ rank[p] < rank[Current[call[q].at]]
                           /\ ~Doomed(p)
    BY <1>3, <1>4 DEF Backed
  <1>6. fs[p] \in Contents
    BY <1>3, <1>4, <1>5 DEF OnTime, TrueCall, Dooms, Acting
  <1>7. Removes(r) => Dooms(r)
    BY DEF Removes, GoesOn, Dooms
  <1>8. ~(Removes(r) /\ p = Current[call[r].at])
    BY <1>5, <1>7 DEF Doomed
  <1>9. fs'[p] = fs[p]
    BY <1>6, <1>8, ContentKept
  <1> QED
    BY <1>2, <1>3, <1>4, <1>5, <1>9

\* A call begins to remove its file: what it removes is at home, or home too is
\* about to be removed and backed by an earlier place.
LEMMA BackedBegins ==
    ASSUME Inv, Placed, NEW rank \in [Paths -> Nat], Forward(rank),
           NEW r \in Calls, Commits(r) \/ Verifies(r), Dooms(r)',
           OnTime, Unspoilt', Unspoilt, AllBacked(rank), NEW q \in Calls
    PROVE  Backed(q, rank)'
  <1> DEFINE d == Current[call[r].at]
  <1>1. /\ call[r].at \in Items /\ d \in Paths /\ Original[call[r].at] \in Paths
        /\ Op[call[r].at] \in {"COPY", "MOVE"}
    BY Types
  <1>2. fs' = fs /\ call'[r].at = call[r].at /\ ~Dooms(r)
    BY DEF Commits, Verifies, GoesOn, Dooms
  <1>3. \A s \in Calls \ {r} : call'[s] = call[s]
    BY KindOthers DEF Kind, Others
  <1>4. \A p : Doomed(p)' => Doomed(p) \/ p = d
    BY <1>2, <1>3 DEF Doomed, Dooms
  <1>5. Place(r) # Absent => Home(r) = Place(r)
    <2>1. CASE Commits(r)
      BY <1>1, <2>1 DEF Commits, GoesOn, Dooms, Unspoilt
    <2>2. CASE Verifies(r)
      BY <2>2 DEF Verifies, GoesOn, OnTime, TrueCall, Acting, Unspoilt
    <2> QED
      BY <2>1, <2>2
  <1>6. ASSUME Place(r) # Absent
        PROVE  \E p \in Paths : fs[p] = fs[d] /\ rank[p] < rank[d] /\ ~Doomed(p)'
    <2> DEFINE h == Original[call[r].at]
    <2>1. fs[h] = fs[d] /\ fs[d] # Absent /\ rank[h] < rank[d] /\ h # d
      BY <1>1, <1>5, <1>6 DEF Home, Place, Forward
    <2>2. CASE ~Doomed(h)
      BY <1>1, <1>4, <2>1, <2>2
    <2>3. CASE Doomed(h)
      <3>1. PICK s \in Calls : Dooms(s) /\ Current[call[s].at] = h
        BY <2>3 DEF Doomed
      <3>2. Place(s) = fs[d] /\ Backed(s, rank)
        BY <2>1, <3>1 DEF Place, AllBacked
      <3>3. PICK p \in Paths : fs[p] = fs[d] /\ rank[p] < rank[h] /\ ~Doomed(p)
        BY <2>1, <3>1, <3>2 DEF Backed
      <3>4. rank[p] < rank[d] /\ p # d
        BY <1>1, <2>1, <3>3
      <3> QED
        BY <1>4, <3>3, <3>4
    <2> QED
      BY <2>2, <2>3
  <1> SUFFICES ASSUME Dooms(q)', Place(q)' # Absent
               PROVE  \E p \in Paths : /\ fs'[p] = Place(q)'
                                       /\ rank[p] < rank[Current[call'[q].at]]
                                       /\ ~Doomed(p)'
    BY DEF Backed
  <1>7. CASE q = r
    <2>1. Place(q)' = fs[d] /\ Place(r) = fs[d] /\ Current[call'[q].at] = d
      BY <1>2, <1>7 DEF Place
    <2> QED
      BY <1>2, <1>6, <2>1
  <1>8. CASE q # r
    <2>1. call'[q] = call[q] /\ Dooms(q) /\ Place(q)' = Place(q) /\ Place(q) # Absent
      BY <1>2, <1>3, <1>8 DEF Dooms, Place
    <2>2. PICK p \in Paths : /\ fs[p] = Place(q)
                             /\ rank[p] < rank[Current[call[q].at]]
                             /\ ~Doomed(p)
      BY <2>1 DEF Backed, AllBacked
    <2>3. CASE p # d
      BY <1>2, <1>4, <2>1, <2>2, <2>3
    <2>4. CASE p = d
      <3>1. fs[d] = Place(q) /\ Place(r) # Absent
        BY <2>1, <2>2, <2>4 DEF Place
      <3>2. PICK w \in Paths : fs[w] = fs[d] /\ rank[w] < rank[d] /\ ~Doomed(w)'
        BY <1>6, <3>1
      <3>3. Current[call[q].at] \in Paths
        BY Types
      <3>4. rank[w] < rank[Current[call[q].at]]
        BY <1>1, <2>2, <2>4, <3>2, <3>3
      <3> QED
        BY <1>2, <2>1, <3>1, <3>2, <3>4
    <2> QED
      BY <2>3, <2>4
  <1> QED
    BY <1>7, <1>8

\* A move that begins, and other steps that begin no removal.
LEMMA NextBacked ==
    ASSUME HomesFree, Inv, Placed, OnTime, NEW rank \in [Paths -> Nat], Forward(rank),
           AllBacked(rank), [Next]_vars
    PROVE  AllBacked(rank)'
  <1> SUFFICES ASSUME Unspoilt', NEW q \in Calls PROVE Backed(q, rank)'
    BY DEF AllBacked
  <1>1. Backed(q, rank) /\ Unspoilt /\ ~late
    BY HistoryGrows DEF AllBacked, Unspoilt
  <1>2. CASE Edit
    <2>1. call'[q].pc \notin Acting
      BY <1>2 DEF Edit, Unspoilt
    <2> QED
      BY <2>1 DEF Backed, Dooms, Acting
  <1>3. CASE LoseProcess
    <2>1. call'[q] = IdleCall
      BY <1>3 DEF LoseProcess
    <2> HIDE DEF IdleCall
    <2> QED
      BY <2>1, IdleFields DEF Backed, Dooms
  <1>4. CASE Rests
    BY <1>1, <1>4 DEF Rests, Backed, Dooms, Doomed, Place
  <1>5. ASSUME NEW r \in Calls, Kind(r) PROVE Backed(q, rank)'
    <2>1. CASE ~Commits(r) /\ ~Verifies(r)
      BY <1>1, <1>5, <2>1, BackedStays
    <2>2. CASE (Commits(r) \/ Verifies(r)) /\ Dooms(r)'
      BY <1>1, <2>2, BackedBegins
    <2>3. CASE Commits(r) /\ ~Dooms(r)'
      <3>1. \A s \in Calls : Dooms(s)' => Dooms(s) /\ call'[s] = call[s]
        BY <1>5, <2>3, KindOthers DEF Others, Dooms
      <3>2. fs' = fs /\ \A p : Doomed(p)' => Doomed(p)
        BY <2>3, <3>1 DEF Doomed, Commits
      <3> QED
        BY <1>1, <3>1, <3>2 DEF Backed, Place
    <2>4. Verifies(r) => Dooms(r)'
      BY DEF Verifies, GoesOn, Dooms
    <2> QED
      BY <2>1, <2>2, <2>3, <2>4
  <1> QED
    BY <1>2, <1>3, <1>4, <1>5, Kinds

\* Overlapping, repeated and interrupted restores lose no content, unless the
\* owner changed a file between a recheck and its result or the original of a
\* generated copy had been changed.
THEOREM NoLossOnTime ==
    ASSUME HomesFree, NEW rank \in [Paths -> Nat], Forward(rank)
    PROVE  Spec => LossNeedsALateEdit
  <1>1. Init => Inv /\ Placed /\ OnTime /\ AllBacked(rank)
    <2>1. Init => AllBacked(rank)
      BY IdleFields DEF Init, AllBacked, Backed, Dooms
    <2> QED
      BY <2>1, InitInv, InitPlaced, InitOnTime
  <1>2. (Inv /\ Placed /\ OnTime /\ AllBacked(rank)) /\ [Next]_vars
        => (Inv /\ Placed /\ OnTime /\ AllBacked(rank))'
    BY NextInv, NextPlaced, NextOnTime, NextBacked
  <1>3. ASSUME Inv, OnTime, AllBacked(rank), [Next]_vars
        PROVE  edits' = edits /\ ~late /\ altered = {} => Held(fs) \subseteq Held(fs')
    <2> SUFFICES ASSUME edits' = edits, Unspoilt, NEW p \in Paths, fs[p] \in Contents
                 PROVE  \E q \in Paths : fs'[q] = fs[p]
      BY DEF Held, Unspoilt
    <2>1. CASE fs' = fs
      BY <2>1
    <2>2. ~Edit
      BY <1>3, Types DEF Edit
    <2>3. ASSUME NEW r \in Calls, Kind(r) PROVE \E q \in Paths : fs'[q] = fs[p]
      <3>1. CASE fs'[p] = fs[p]
        BY <3>1
      <3>2. CASE Removes(r) /\ p = Current[call[r].at]
        <4>1. Dooms(r) /\ Place(r) = fs[p] /\ Place(r) # Absent
          BY <3>2 DEF Removes, GoesOn, Dooms, Place, Exists
        <4>2. PICK q \in Paths : fs[q] = fs[p] /\ ~Doomed(q)
          BY <1>3, <4>1 DEF AllBacked, Backed
        <4>3. q # p
          BY <3>2, <4>1, <4>2 DEF Doomed
        <4>4. fs'[q] = fs[q]
          BY <1>3, <3>2, <4>2, <4>3, <2>3, ContentKept
        <4> QED
          BY <4>2, <4>4
      <3> QED
        BY <1>3, <2>3, <3>1, <3>2, ContentKept
    <2> QED
      BY <1>3, <2>1, <2>2, <2>3, Kinds DEF LoseProcess, Rests
  <1> QED
    BY <1>1, <1>2, <1>3, PTL DEF Spec, LossNeedsALateEdit
----------------------------------------------------------------------------
\* A moved file is in one of its two places.

\* No other operation put its file where a move did, or moved one from there.
PlacesApart ==
    \A i, k \in Items : Op[i] = "MOVE" /\ i # k =>
        /\ Current[i] # Current[k]
        /\ Op[k] = "MOVE" => Original[i] # Original[k]

\* Between creating the original place and the verdict.
Busy == {"copy", "verifyCopy", "unlink", "verifyMoved"}
At(i, place, home) == fs[Current[i]] = place /\ fs[Original[i]] = home

Recorded == {i \in Items : Op[i] = "MOVE" /\ Exists(recorded[i])}

\* At most one call is busy with a move, and its step says where the file is.
OneMove(i) ==
    /\ \A r, q \in Calls :
          r # q /\ call[r].at = i /\ call[q].at = i /\ call[r].pc \in Busy =>
             call[q].pc \notin Busy
    /\ \A r \in Calls : call[r].at = i =>
          /\ call[r].pc \in {"create", "copy", "verifyCopy", "unlink"} =>
                call[r].seen = recorded[i]
          /\ call[r].pc = "copy" => At(i, recorded[i], Partial)
          /\ call[r].pc \in {"verifyCopy", "unlink"} => At(i, recorded[i], recorded[i])
          /\ call[r].pc = "verifyMoved" => At(i, Absent, recorded[i])
    /\ (\A r \in Calls : call[r].at = i => call[r].pc \notin Busy) =>
          At(i, recorded[i], Absent) \/ At(i, Absent, recorded[i])

\* A call at another item leaves the places of this one alone.
LEMMA OtherItem ==
    ASSUME HomesFree, PlacesApart, Inv, Placed, NEW r \in Calls, Kind(r),
           NEW i \in Items, Op[i] = "MOVE", call[r].at # i
    PROVE  fs'[Current[i]] = fs[Current[i]] /\ fs'[Original[i]] = fs[Original[i]]
  <1> DEFINE k == call[r].at
  <1>1. /\ fs \in [Paths -> FileStates] /\ k \in Items
        /\ Current[i] \in Paths /\ Original[i] \in Paths
    BY Types
  <1>2. CASE Removes(r)
    <2>1. Current[k] # Current[i] /\ Current[k] # Original[i]
      BY <1>1 DEF PlacesApart, HomesFree
    <2> QED
      BY <1>1, <1>2, <2>1 DEF Removes
  <1>3. ASSUME call[r].pc \in Moving, NEW c, fs' = [fs EXCEPT ![Original[k]] = c]
        PROVE  fs'[Current[i]] = fs[Current[i]] /\ fs'[Original[i]] = fs[Original[i]]
    <2>1. Op[k] = "MOVE"
      BY <1>3 DEF Placed
    <2>2. Original[k] # Current[i] /\ Original[k] # Original[i]
      BY <1>1, <2>1 DEF PlacesApart, HomesFree
    <2> QED
      BY <1>1, <1>3, <2>2
  <1>4. CASE fs' = fs
    BY <1>4
  <1>5. CASE Creates(r)
    BY <1>3, <1>5 DEF Creates, GoesOn, Moving
  <1>6. CASE Copies(r)
    BY <1>3, <1>4, <1>6 DEF Copies, GoesOn, Moving
  <1>7. CASE Stops(r)
    BY <1>3, <1>4, <1>7 DEF Stops, Moving
  <1> QED
    BY <1>2, <1>4, <1>5, <1>6, <1>7 DEF Kind, Commits, Reports, Reads, Verifies

LEMMA OneMoveOther ==
    ASSUME HomesFree, PlacesApart, Inv, Placed, NEW r \in Calls, Kind(r),
           NEW i \in Recorded, OneMove(i), call[r].at # i
    PROVE  OneMove(i)'
  <1>1. fs'[Current[i]] = fs[Current[i]] /\ fs'[Original[i]] = fs[Original[i]]
    BY OtherItem DEF Recorded
  <1>2. recorded' = recorded
    BY DEF Kind, Commits, Removes, Reports, Reads, Creates, Copies, Verifies, Stops, GoesOn
  <1>3. \A q \in Calls \ {r} : call'[q] = call[q]
    BY KindOthers DEF Others
  <1>4. call'[r].at = i => call'[r].pc \notin Acting
    BY DEF Kind, Commits, Removes, Reports, Reads, Creates, Copies, Verifies, Stops, GoesOn
  <1>5. call'[r].at = i => call'[r].pc \notin Busy \cup {"create"}
    BY <1>4 DEF Acting, Busy
  <1>6. \A q \in Calls : call'[q].at = i /\ call'[q].pc \in Busy \cup {"create"} =>
            q # r /\ call'[q] = call[q]
    BY <1>3, <1>5
  <1>7. \A q \in Calls : call[q].at = i => q # r /\ call'[q] = call[q]
    BY <1>3
  <1> QED
    BY <1>1, <1>2, <1>6, <1>7 DEF OneMove, At, Busy

\* What a call that has the item in hand does to it.
LEMMA OneMoveSelf ==
    ASSUME HomesFree, Inv, Placed, NEW r \in Calls, Kind(r),
           NEW i \in Recorded \ disturbed', OneMove(i), call[r].at = i
    PROVE  OneMove(i)'
  <1>1. /\ fs \in [Paths -> FileStates] /\ i \in Items /\ Op[i] = "MOVE"
        /\ Current[i] \in Paths /\ Original[i] \in Paths /\ Original[i] # Current[i]
        /\ recorded[i] \in Contents
    BY Types DEF Recorded, Exists
  <1>2. recorded[i] # Absent /\ recorded[i] # Partial /\ Absent # Partial
    BY <1>1, ContentsAssumption
  <1>3. recorded' = recorded
    BY DEF Kind, Commits, Removes, Reports, Reads, Creates, Copies, Verifies, Stops, GoesOn
  <1>4. \A q \in Calls \ {r} : call'[q] = call[q]
    BY KindOthers DEF Others
  <1>5. Place(r) = fs[Current[i]] /\ Home(r) = fs[Original[i]]
    BY DEF Place, Home
  <1>6. ASSUME Home(r) = Absent, Place(r) # Absent
        PROVE  /\ At(i, recorded[i], Absent)
               /\ \A q \in Calls : call[q].at = i => call[q].pc \notin Busy
    <2>1. \A q \in Calls : call[q].at = i => call[q].pc \notin Busy
      BY <1>2, <1>5, <1>6 DEF OneMove, At, Busy
    <2> QED
      BY <1>5, <1>6, <2>1 DEF OneMove, At
  <1>7. CASE Commits(r)
    <2>1. fs' = fs /\ call'[r].pc = "read" /\ call[r].pc = "recheck"
      BY <1>1, <1>7 DEF Commits, GoesOn
    <2> QED
      BY <1>3, <1>4, <2>1 DEF OneMove, At, Busy
  <1>8. CASE Reads(r)
    <2>1. /\ fs' = fs /\ call'[r].pc = "create" /\ call'[r].at = i
          /\ call'[r].seen = recorded[i]
          /\ \A q \in Calls : call[q].at = i => call[q].pc \notin Busy
      BY <1>5, <1>6, <1>8 DEF Reads, GoesOn, Exists, At
    <2> QED
      BY <1>3, <1>4, <2>1 DEF OneMove, At, Busy
  <1>9. CASE Creates(r)
    <2>1. /\ call'[r].pc = "copy" /\ call'[r].at = i
          /\ call'[r].seen = recorded[i]
          /\ \A q \in Calls : call[q].at = i => call[q].pc \notin Busy
      BY <1>5, <1>6, <1>9 DEF Creates, GoesOn, Exists, OneMove
    <2>2. fs'[Current[i]] = recorded[i] /\ fs'[Original[i]] = Partial
      BY <1>1, <1>5, <1>6, <1>9 DEF Creates, Exists, At
    <2> QED
      BY <1>3, <1>4, <2>1, <2>2 DEF OneMove, At, Busy
  <1>10. CASE Copies(r)
    <2>1. /\ call[r].pc = "copy" /\ call'[r].pc = "verifyCopy" /\ call'[r].at = i
          /\ call[r].seen = recorded[i] /\ call'[r].seen = recorded[i]
          /\ At(i, recorded[i], Partial)
      BY <1>10 DEF Copies, GoesOn, OneMove
    <2>2. \A q \in Calls \ {r} : call[q].at = i => call[q].pc \notin Busy
      BY <2>1 DEF OneMove, Busy
    <2>3. Copied(r) = {recorded[i]} /\ Home(r) \notin Contents
      BY <1>5, <2>1, ContentsAssumption DEF Copied, At
    <2>4. fs'[Current[i]] = recorded[i] /\ fs'[Original[i]] = recorded[i]
      BY <1>1, <1>10, <2>1, <2>3 DEF Copies, At
    <2> QED
      BY <1>3, <1>4, <2>1, <2>2, <2>4 DEF OneMove, At, Busy
  <1>11. CASE Verifies(r)
    <2>1. /\ fs' = fs /\ call[r].pc = "verifyCopy" /\ call'[r].pc = "unlink"
          /\ call'[r].at = i /\ call'[r].seen = call[r].seen
      BY <1>11 DEF Verifies, GoesOn
    <2> QED
      BY <1>3, <1>4, <2>1 DEF OneMove, At, Busy
  <1>12. CASE Removes(r)
    <2>1. /\ call[r].pc = "unlink" /\ call'[r].pc = "verifyMoved" /\ call'[r].at = i
      BY <1>1, <1>12 DEF Removes, GoesOn, Placed
    <2>2. \A q \in Calls \ {r} : call[q].at = i => call[q].pc \notin Busy
      BY <2>1 DEF OneMove, Busy
    <2>3. fs'[Current[i]] = Absent /\ fs'[Original[i]] = recorded[i]
      BY <1>1, <1>12, <2>1 DEF Removes, OneMove, At
    <2> QED
      BY <1>3, <1>4, <2>1, <2>2, <2>3 DEF OneMove, At, Busy
  <1>13. CASE Reports(r)
    <2>1. /\ fs' = fs /\ call[r].pc = "verifyMoved" /\ call'[r].pc = "log"
          /\ call'[r].at = i
      BY <1>1, <1>13 DEF Reports, Verifying, Placed
    <2>2. \A q \in Calls \ {r} : call[q].at = i => call[q].pc \notin Busy
      BY <2>1 DEF OneMove, Busy
    <2>3. At(i, Absent, recorded[i])
      BY <2>1 DEF OneMove
    <2> QED
      BY <1>3, <1>4, <2>1, <2>2, <2>3 DEF OneMove, At, Busy
  <1>14. CASE Stops(r)
    <2>1. call[r].pc \notin Halfway
      BY <1>2, <1>5, <1>14
      DEF Stops, Interrupted, GivesUp, Halfway, OneMove, At, Exists
    <2>2. fs' = fs /\ call'[r].pc \notin Busy \cup {"create"}
      BY <1>14, <2>1 DEF Stops, Halfway, Busy, Acting
    <2>3. CASE call[r].pc \notin Busy
      BY <1>3, <1>4, <2>2, <2>3 DEF OneMove, At, Busy
    <2>4. CASE call[r].pc \in Busy
      <3>1. \A q \in Calls \ {r} : call[q].at = i => call[q].pc \notin Busy
        BY <2>4 DEF OneMove
      <3>2. At(i, Absent, recorded[i])
        BY <2>1, <2>4 DEF OneMove, Busy, Halfway
      <3> QED
        BY <1>3, <1>4, <2>2, <3>1, <3>2 DEF OneMove, At, Busy
    <2> QED
      BY <2>3, <2>4
  <1> QED
    BY <1>7, <1>8, <1>9, <1>10, <1>11, <1>12, <1>13, <1>14 DEF Kind

OneMoveEach == \A i \in Recorded \ disturbed : OneMove(i)

LEMMA InitOneMove == Init => OneMoveEach
  <1> SUFFICES ASSUME Init, NEW i \in Recorded PROVE OneMove(i)
    BY DEF OneMoveEach
  <1>1. \A r \in Calls : call[r] = IdleCall
    BY DEF Init
  <1>2. At(i, recorded[i], Absent)
    BY DEF Init, Recorded, At
  <1> HIDE DEF IdleCall
  <1> QED
    BY <1>1, <1>2, IdleFields DEF OneMove, Busy

LEMMA NextOneMove ==
    ASSUME HomesFree, PlacesApart, Inv, Placed, OneMoveEach, [Next]_vars
    PROVE  OneMoveEach'
  <1> SUFFICES ASSUME NEW i \in Recorded', i \notin disturbed' PROVE OneMove(i)'
    BY DEF OneMoveEach
  <1>1. recorded' = recorded
    <2>1. ASSUME NEW r \in Calls, Kind(r) PROVE recorded' = recorded
      BY <2>1 DEF Kind, Commits, Removes, Reports, Reads, Creates, Copies, Verifies,
         Stops, GoesOn
    <2> QED
      BY <2>1, Kinds DEF Edit, LoseProcess, Rests
  <1>2. i \in Recorded /\ OneMove(i)
    BY <1>1, HistoryGrows DEF OneMoveEach, Recorded
  <1>3. CASE Edit
    <2>1. PICK p \in Paths : /\ \E c \in Contents \cup {Absent} : fs' = [fs EXCEPT ![p] = c]
                             /\ p \notin {Original[i], Current[i]}
      BY <1>2, <1>3 DEF Edit, Recorded
    <2>2. UNCHANGED <<fs[Original[i]], fs[Current[i]], call>>
      BY <1>2, <1>3, <2>1, Types DEF Edit, Recorded
    <2> QED
      BY <1>1, <1>2, <2>2 DEF OneMove, At
  <1>4. CASE LoseProcess
    <2>1. fs' = fs /\ \A r \in Calls : call'[r] = IdleCall
      BY <1>4 DEF LoseProcess
    <2>2. \A r \in Calls : call[r].at = i => call[r].pc \notin Halfway
      BY <1>4 DEF LoseProcess, Disturbs
    <2>3. At(i, recorded[i], Absent) \/ At(i, Absent, recorded[i])
      BY <1>2, <2>2 DEF OneMove, Busy, Halfway
    <2> HIDE DEF IdleCall
    <2> QED
      BY <1>1, <2>1, <2>3, IdleFields DEF OneMove, At, Busy
  <1>5. CASE Rests
    BY <1>2, <1>5 DEF Rests, OneMove, At
  <1>6. ASSUME NEW r \in Calls, Kind(r) PROVE OneMove(i)'
    BY <1>2, <1>6, OneMoveOther, OneMoveSelf
  <1> QED
    BY <1>3, <1>4, <1>5, <1>6, Kinds

\* However many restores overlap, are repeated or are cut short, and whatever
\* faults and edits hit elsewhere, a moved file nobody has in hand is in one of
\* its two places, complete, and not in both.
THEOREM MovedFilesStayWhole ==
    ASSUME HomesFree, PlacesApart PROVE Spec => []OnePlaceEach
  <1>1. Init => Inv /\ Placed /\ OneMoveEach
    BY InitInv, InitPlaced, InitOneMove
  <1>2. (Inv /\ Placed /\ OneMoveEach) /\ [Next]_vars => (Inv /\ Placed /\ OneMoveEach)'
    BY NextInv, NextPlaced, NextOneMove
  <1>3. OneMoveEach => OnePlaceEach
    <2> SUFFICES ASSUME OneMoveEach, NEW i \in Recorded \ disturbed,
                        \A r \in Calls : call[r].pc \in Acting => call[r].at # i
                 PROVE  {fs[Current[i]], fs[Original[i]]} = {recorded[i], Absent}
      BY DEF OnePlaceEach, Recorded
    <2>1. At(i, recorded[i], Absent) \/ At(i, Absent, recorded[i])
      BY DEF OneMoveEach, OneMove, Busy, Acting
    <2> QED
      BY <2>1 DEF At
  <1> QED
    BY <1>1, <1>2, <1>3, PTL DEF Spec
============================================================================
