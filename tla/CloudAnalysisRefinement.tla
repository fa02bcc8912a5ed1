---------------------- MODULE CloudAnalysisRefinement ----------------------
(***************************************************************************)
(* The proof that the queue, the workers and their writes implement        *)
(* AnalysisPromise.  The mapping hides the workers; what carries the proof *)
(* is what a worker has done when it stands at a place in its batch: the   *)
(* records behind it are reported as failed or have a result (Done), and   *)
(* the record it is about to publish has its proposals (Stored).           *)
(***************************************************************************)
EXTENDS CloudAnalysisProofs

Done(w) ==
    run[w].pc # "idle" =>
        \A i \in DOMAIN run[w].batch :
            i < run[w].at \/ run[w].pc = "answer" =>
                \/ run[w].batch[i] \in run[w].failed
                \/ results[run[w].batch[i]] # NoResult

Stored(w) ==
    run[w].pc = "publish" /\ MemoryConfigured =>
        \A i \in DOMAIN run[w].readings : Known(Current(w), i, run[w].readings[i].content)

Progress == \A w \in Workers : Done(w) /\ Stored(w)

\* Results and proposals stay.
LEMMA ResultsStay ==
    ASSUME Inv, [Next]_vars, NEW j \in Jobs, results[j] # NoResult
    PROVE  results'[j] # NoResult
  <1>1. ASSUME NEW w \in Workers, Publishes(w) PROVE results'[j] # NoResult
    BY <1>1, ResultType DEF Publishes, Inv, TypeOK
  <1> QED
    BY <1>1, StepEffects

LEMMA ProposalsStay ==
    ASSUME Inv, [Next]_vars
    PROVE  proposals \subseteq proposals'
  <1>1. ASSUME NEW w \in Workers, Remembers(w) PROVE proposals \subseteq proposals'
    BY <1>1 DEF Remembers, Stores, ProposalsInserted
  <1> QED
    BY <1>1, StepEffects DEF memoryVars

\* A worker that does not move.
LEMMA StandingProgress ==
    ASSUME Inv, Progress, [Next]_vars, NEW v \in Workers, run'[v] = run[v]
    PROVE  Done(v)' /\ Stored(v)'
  <1>1. Done(v) /\ Stored(v)
    BY DEF Progress
  <1>2. ASSUME run[v].pc # "idle" PROVE \A i \in DOMAIN run[v].batch : run[v].batch[i] \in Jobs
    BY DEF Inv, TypeOK, Invocations
  <1>3. Done(v)'
    BY <1>1, <1>2, ResultsStay DEF Done
  <1>4. Stored(v)'
    BY <1>1, ProposalsStay DEF Stored, Known, Current
  <1> QED
    BY <1>3, <1>4

\* A worker that goes on to the next record.
LEMMA NextProgress ==
    ASSUME Inv, Progress, [Next]_vars, NEW w \in Workers, run[w].pc # "idle",
           NEW failed \in SUBSET Jobs, run'[w] = NextRecord(w, failed),
           run[w].failed \subseteq failed,
           Current(w) \in failed \/ results'[Current(w)] # NoResult
    PROVE  Done(w)' /\ Stored(w)'
  <1>1. run[w] \in Invocations /\ AtRecord(w) /\ Done(w)
    BY DEF Inv, TypeOK, Runs, RunOK, Progress
  <1>2. /\ run'[w].batch = run[w].batch /\ run'[w].failed = failed
        /\ run'[w].pc \in {"verify", "answer"}
        /\ run'[w].pc = "verify" => run'[w].at = run[w].at + 1
        /\ run'[w].pc = "answer" => run'[w].at = run[w].at /\ run[w].at = Len(run[w].batch)
    BY <1>1 DEF NextRecord, Invocations, AtRecord
  <1>3. ASSUME NEW i \in DOMAIN run[w].batch, i < run'[w].at \/ run'[w].pc = "answer"
        PROVE  run[w].batch[i] \in failed \/ results'[run[w].batch[i]] # NoResult
    <2>1. i \in Nat /\ run[w].at \in Nat /\ i <= Len(run[w].batch) /\ run[w].batch[i] \in Jobs
      BY <1>1 DEF Invocations
    <2>2. i < run[w].at \/ i = run[w].at
      BY <1>2, <1>3, <2>1
    <2>3. CASE i = run[w].at
      BY <2>3 DEF Current
    <2>4. CASE i < run[w].at
      BY <1>1, <2>1, <2>4, ResultsStay DEF Done
    <2> QED
      BY <2>2, <2>3, <2>4
  <1> QED
    BY <1>2, <1>3 DEF Done, Stored

\* A worker that stores the proposals of its record.
LEMMA PersistProgress ==
    ASSUME Inv, Progress, [Next]_vars, NEW w \in Workers, Persist(w)
    PROVE  Done(w)' /\ Stored(w)'
  <1>1. run[w] \in Invocations /\ AtRecord(w) /\ Done(w) /\ run[w].pc = "persist"
    BY DEF Inv, TypeOK, Runs, RunOK, Progress, Persist
  <1>2. /\ run'[w].batch = run[w].batch /\ run'[w].at = run[w].at
        /\ run'[w].failed = run[w].failed /\ run'[w].readings = run[w].readings
        /\ run'[w].pc = "publish"
    BY <1>1 DEF Persist, Inv, TypeOK, Invocations
  <1>3. Done(w)'
    <2>1. \A i \in DOMAIN run[w].batch : run[w].batch[i] \in Jobs
      BY <1>1 DEF Invocations
    <2> QED
      BY <1>1, <1>2, <2>1, ResultsStay DEF Done
  <1>4. ASSUME MemoryConfigured, NEW i \in DOMAIN run[w].readings
        PROVE  Known(Current(w), i, run[w].readings[i].content)'
    <2>1. ProposalsInserted(Current(w), run[w].readings)
      BY <1>4 DEF Persist, Stores
    <2>2. Current(w)' = Current(w)
      BY <1>2 DEF Current
    <2>3. CASE Known(Current(w), i, run[w].readings[i].content)
      BY <1>2, <2>2, <2>3, ProposalsStay DEF Known
    <2>4. CASE ~Known(Current(w), i, run[w].readings[i].content)
      <3>1. NewProposal(Current(w), i, run[w].readings[i]) \in proposals'
        BY <2>1, <2>4 DEF ProposalsInserted
      <3> QED
        BY <1>2, <2>2, <3>1 DEF Known, NewProposal
    <2> QED
      BY <2>3, <2>4
  <1> QED
    BY <1>2, <1>3, <1>4 DEF Stored, Current

\* How the steps move a worker.
GoesOn(w) ==
    /\ run[w].pc # "idle"
    /\ \E failed \in SUBSET Jobs :
          /\ run'[w] = NextRecord(w, failed)
          /\ run[w].failed \subseteq failed
          /\ Current(w) \in failed \/ results'[Current(w)] # NoResult

StaysAt(w) ==
    /\ run[w].pc # "idle"
    /\ run'[w].batch = run[w].batch
    /\ run'[w].at = run[w].at
    /\ run'[w].failed = run[w].failed
    /\ run'[w].pc \in {"verify", "classify", "persist"}

Begins(w) ==
    \/ run'[w].pc = "idle"
    \/ run'[w].pc = "verify" /\ run'[w].at = 1

LEMMA FailureMoves ==
    ASSUME Inv, NEW w \in Workers, run[w].pc # "idle", RecordFails(w)
    PROVE  GoesOn(w)
  <1>1. Current(w) \in Jobs /\ run[w].failed \in SUBSET Jobs
    BY RequestTypes DEF Inv, TypeOK, Invocations
  <1>2. run'[w] = NextRecord(w, run[w].failed \cup {Current(w)})
    BY DEF RecordFails, Inv, TypeOK
  <1> QED
    BY <1>1, <1>2 DEF GoesOn

LEMMA WorkMoves ==
    ASSUME Inv, NEW w \in Workers, Work(w) \/ Trouble(w)
    PROVE  /\ \A v \in Workers : v # w => run'[v] = run[v]
           /\ GoesOn(w) \/ StaysAt(w) \/ Begins(w) \/ Persist(w)
  <1>0. run \in [Workers -> Invocations] /\ run[w] \in Invocations
    BY DEF Inv, TypeOK
  <1>1. CASE RefuseObject(w) \/ RefuseContent(w) \/ PersistUnacknowledged(w)
             \/ WriteResultUnacknowledged(w) \/ CallFails(w)
    <2>1. RecordFails(w) /\ run[w].pc # "idle"
      BY <1>1 DEF RefuseObject, RefuseContent, PersistUnacknowledged,
         WriteResultUnacknowledged, CallFails
    <2> QED
      BY <1>0, <2>1, FailureMoves DEF RecordFails
  <1>2. CASE VerifyObject(w)
    BY <1>0, <1>2 DEF VerifyObject, StaysAt, Invocations
  <1>3. CASE \E class \in Classes : ClassifyObject(w, class)
    BY <1>0, <1>3 DEF ClassifyObject, StaysAt, Invocations
  <1>4. CASE WriteResult(w)
    <2>1. run'[w] = NextRecord(w, run[w].failed) /\ run[w].failed \in SUBSET Jobs
      BY <1>0, <1>4 DEF WriteResult, Invocations
    <2>2. results'[Current(w)] # NoResult
      BY <1>4, ResultType DEF WriteResult, Inv, TypeOK
    <2>3. run[w].pc # "idle" /\ \A v \in Workers : v # w => run'[v] = run[v]
      BY <1>0, <1>4 DEF WriteResult
    <2>4. GoesOn(w)
      BY <2>1, <2>2, <2>3 DEF GoesOn
    <2> QED
      BY <2>3, <2>4
  <1>5. CASE AnswerBatch(w) \/ Stop(w)
    BY <1>0, <1>5 DEF AnswerBatch, Stop, Begins, Idle
  <1>6. CASE Persist(w)
    BY <1>0, <1>6 DEF Persist
  <1> QED
    BY <1>1, <1>2, <1>3, <1>4, <1>5, <1>6 DEF Work, Trouble

LEMMA ProgressStep == Inv /\ Progress /\ [Next]_vars => Progress'
  <1> SUFFICES ASSUME Inv, Progress, [Next]_vars, NEW v \in Workers
               PROVE  Done(v)' /\ Stored(v)'
    BY DEF Progress
  <1>1. CASE run'[v] = run[v]
    BY <1>1, StandingProgress
  <1>2. ASSUME NEW w \in Workers, Work(w) \/ Trouble(w), run'[v] # run[v]
        PROVE  Done(v)' /\ Stored(v)'
    <2>1. v = w /\ (GoesOn(w) \/ StaysAt(w) \/ Begins(w) \/ Persist(w))
      BY <1>2, WorkMoves
    <2>2. CASE GoesOn(v)
      BY <2>2, NextProgress DEF GoesOn
    <2>3. CASE StaysAt(v)
      <3>1. Done(v) /\ \A i \in DOMAIN run[v].batch : run[v].batch[i] \in Jobs
        BY DEF Progress, Inv, TypeOK, Invocations
      <3> QED
        BY <2>3, <3>1, ResultsStay DEF StaysAt, Done, Stored
    <2>4. CASE Begins(v)
      <3>1. ASSUME run'[v].pc # "idle" PROVE \A i \in DOMAIN run'[v].batch : ~(i < 1)
        <4>1. run'[v].batch \in Seq(Jobs)
          BY StepInv DEF Inv, TypeOK, Invocations
        <4> QED
          BY <4>1
      <3> QED
        BY <2>4, <3>1 DEF Begins, Done, Stored
    <2>5. CASE Persist(v)
      BY <2>5, PersistProgress
    <2> QED
      BY <2>1, <2>2, <2>3, <2>4, <2>5
  <1>3. ASSUME NEW w \in Workers, NEW batch,
               run' = [run EXCEPT ![w] = Starting(batch)], run'[v] # run[v]
        PROVE  Done(v)' /\ Stored(v)'
    <2>1. run'[v].pc = "verify" /\ run'[v].at = 1
      BY <1>3 DEF Starting, Inv, TypeOK
    <2>2. run'[v].batch \in Seq(Jobs)
      BY StepInv DEF Inv, TypeOK, Invocations
    <2> QED
      BY <2>1, <2>2 DEF Done, Stored
  <1>4. CASE UNCHANGED run
    BY <1>1, <1>4
  <1>5. CASE \/ \E w \in Workers, batch \in Batches : Receive(w, batch)
             \/ \E w \in Workers, j \in Jobs : Duplicate(w, j)
    BY <1>1, <1>3, <1>5 DEF Receive, Duplicate
  <1>6. CASE \/ \E k \in Keys : PresignUpload(k)
             \/ \E k \in Keys, c \in Contents \cup {Nothing} : Upload(k, c)
             \/ \E j \in Jobs, request \in Requests : SubmitJob(j, request)
             \/ \E j \in Jobs : BecomeVisible(j)
    BY <1>4, <1>6 DEF PresignUpload, Upload, SubmitJob, BecomeVisible
  <1> QED
    BY <1>1, <1>2, <1>4, <1>5, <1>6 DEF Next, vars

----------------------------------------------------------------------------
\* The simulation.

StatusOf(m) ==
    IF m = "none" THEN "unknown"
    ELSE IF m = "deleted" THEN "answered"
    ELSE IF m = "dead" THEN "abandoned" ELSE "pending"

LEMMA StatusFunction ==
    ASSUME NEW m \in [Jobs -> MessageStates]
    PROVE  [j \in Jobs |-> CASE m[j] = "none" -> "unknown"
                             [] m[j] \in {"waiting", "inflight"} -> "pending"
                             [] m[j] = "deleted" -> "answered"
                             [] m[j] = "dead" -> "abandoned"]
           = [j \in Jobs |-> StatusOf(m[j])]
  <1>1. ASSUME NEW j \in Jobs
        PROVE  (CASE m[j] = "none" -> "unknown"
                  [] m[j] \in {"waiting", "inflight"} -> "pending"
                  [] m[j] = "deleted" -> "answered"
                  [] m[j] = "dead" -> "abandoned") = StatusOf(m[j])
    <2>1. m[j] \in MessageStates
      OBVIOUS
    <2> QED
      BY <2>1 DEF MessageStates, StatusOf
  <1> QED
    BY <1>1

LEMMA Statuses ==
    ASSUME Inv, [Next]_vars
    PROVE  /\ JobStatus = [j \in Jobs |-> StatusOf(messages[j])]
           /\ JobStatus' = [j \in Jobs |-> StatusOf(messages'[j])]
           /\ messages \in [Jobs -> MessageStates]
           /\ messages' \in [Jobs -> MessageStates]
  <1>1. messages \in [Jobs -> MessageStates] /\ messages' \in [Jobs -> MessageStates]
    BY StepInv DEF Inv, TypeOK
  <1> QED
    BY <1>1, StatusFunction DEF JobStatus

LEMMA SubmitSimulated ==
    ASSUME Inv, [Next]_vars, NEW j \in Jobs, NEW request \in Requests, SubmitJob(j, request)
    PROVE  Promise!Submit(j)
  <1>1. messages[j] = "none" /\ messages' = [messages EXCEPT ![j] = "waiting"]
        /\ UNCHANGED <<proposals, results>>
    BY DEF SubmitJob, Inv, Queue, memoryVars
  <1>2. JobStatus[j] = "unknown" /\ JobStatus' = [JobStatus EXCEPT ![j] = "pending"]
    BY <1>1, Statuses DEF StatusOf
  <1> QED
    BY <1>1, <1>2 DEF Promise!Submit

LEMMA VisibleSimulated ==
    ASSUME Inv, [Next]_vars, NEW j \in Jobs, BecomeVisible(j)
    PROVE  Promise!Abandon(j) \/ UNCHANGED <<JobStatus, proposals, results>>
  <1>1. messages[j] = "inflight" /\ UNCHANGED <<proposals, results>>
    BY DEF BecomeVisible, memoryVars
  <1>2. CASE messages' = [messages EXCEPT ![j] = "waiting"]
    BY <1>1, <1>2, Statuses DEF StatusOf
  <1>3. CASE messages' = [messages EXCEPT ![j] = "dead"]
    <2>1. JobStatus[j] = "pending" /\ JobStatus' = [JobStatus EXCEPT ![j] = "abandoned"]
      BY <1>1, <1>3, Statuses DEF StatusOf
    <2> QED
      BY <1>1, <2>1 DEF Promise!Abandon
  <1> QED
    BY <1>2, <1>3 DEF BecomeVisible

LEMMA ReceiveSimulated ==
    ASSUME Inv, [Next]_vars, NEW w \in Workers, NEW batch \in Batches, Receive(w, batch)
    PROVE  UNCHANGED <<JobStatus, proposals, results>>
  <1>1. UNCHANGED <<proposals, results>>
    BY DEF Receive, memoryVars
  <1>2. ASSUME NEW j \in Jobs PROVE StatusOf(messages'[j]) = StatusOf(messages[j])
    <2>1. CASE \E i \in DOMAIN batch : batch[i] = j
      <3>1. messages[j] = "waiting" /\ messages'[j] = "inflight"
        BY <2>1 DEF Receive
      <3> QED
        BY <3>1 DEF StatusOf
    <2>2. CASE ~\E i \in DOMAIN batch : batch[i] = j
      BY <2>2 DEF Receive
    <2> QED
      BY <2>1, <2>2
  <1> QED
    BY <1>1, <1>2, Statuses

\* A batch is answered when the worker is past all its records.
LEMMA AnswerSimulated ==
    ASSUME Inv, Progress, [Next]_vars, NEW w \in Workers, AnswerBatch(w)
    PROVE  Promise!Answer
  <1> DEFINE done == {j \in Jobs : messages[j] = "inflight" /\ Holds(w, j)
                                   /\ j \notin run[w].failed}
  <1>1. UNCHANGED <<proposals, results>>
    BY DEF AnswerBatch, memoryVars
  <1>2. ASSUME NEW j \in done PROVE JobStatus[j] = "pending" /\ results[j] # NoResult
    <2>1. results[j] # NoResult
      BY DEF Progress, Done, AnswerBatch, Holds
    <2> QED
      BY <2>1, Statuses DEF StatusOf
  <1>3. ASSUME NEW j \in Jobs
        PROVE  StatusOf(messages'[j]) = IF j \in done THEN "answered" ELSE JobStatus[j]
    <2>1. CASE j \in done
      <3>1. messages'[j] = "deleted"
        BY <2>1 DEF AnswerBatch
      <3> QED
        BY <2>1, <3>1 DEF StatusOf
    <2>2. CASE j \notin done
      <3>1. messages'[j] = messages[j]
        BY <2>2 DEF AnswerBatch
      <3> QED
        BY <2>2, <3>1, Statuses
    <2> QED
      BY <2>1, <2>2
  <1> HIDE DEF done
  <1>4. JobStatus' = [j \in Jobs |-> IF j \in done THEN "answered" ELSE JobStatus[j]]
    BY <1>3, Statuses
  <1>5. done \in SUBSET {j \in Jobs : JobStatus[j] = "pending" /\ results[j] # NoResult}
    BY <1>2 DEF done
  <1> QED
    BY <1>1, <1>4, <1>5 DEF Promise!Answer

LEMMA RememberSimulated ==
    ASSUME Inv, [Next]_vars, NEW w \in Workers, Remembers(w), UNCHANGED <<messages, results>>
    PROVE  Promise!Remember(Current(w))
  <1>1. ProposalsInserted(Current(w), run[w].readings) /\ run[w].pc = "persist"
    BY DEF Remembers, Stores
  <1>2. Current(w) \in Jobs /\ messages[Current(w)] # "none"
    BY <1>1, RequestTypes
  <1>3. JobStatus[Current(w)] # "unknown" /\ JobStatus' = JobStatus
    BY <1>2, Statuses DEF StatusOf
  <1>4. proposals \subseteq proposals'
    BY ProposalsStay
  <1>5. ASSUME NEW p \in proposals' \ proposals
        PROVE  p.job = Current(w) /\ \A q \in proposals' : Promise!SameItem(p, q) => p = q
    <2>1. PICK i \in DOMAIN run[w].readings :
             /\ ~Known(Current(w), i, run[w].readings[i].content)
             /\ p = NewProposal(Current(w), i, run[w].readings[i])
      BY <1>1 DEF ProposalsInserted
    <2>2. ASSUME NEW q \in proposals', Promise!SameItem(p, q) PROVE p = q
      <3>1. q.job = Current(w) /\ q.item = i /\ q.content = run[w].readings[i].content
        BY <2>1, <2>2 DEF Promise!SameItem, NewProposal
      <3>2. q \notin proposals
        BY <2>1, <3>1 DEF Known
      <3>3. PICK k \in DOMAIN run[w].readings :
               q = NewProposal(Current(w), k, run[w].readings[k])
        BY <1>1, <3>2 DEF ProposalsInserted
      <3>4. k = i
        BY <3>1, <3>3 DEF NewProposal
      <3> QED
        BY <2>1, <3>3, <3>4
    <2> QED
      BY <2>1, <2>2 DEF NewProposal
  <1> QED
    BY <1>3, <1>4, <1>5 DEF Promise!Remember

LEMMA PublishSimulated ==
    ASSUME Inv, Progress, [Next]_vars, NEW w \in Workers, Publishes(w),
           UNCHANGED <<messages, proposals>>
    PROVE  Promise!Publish(Current(w))
  <1>1. /\ Current(w) \in Jobs /\ messages[Current(w)] # "none"
        /\ ResultOf(w) # NoResult
    BY RequestTypes, ResultType DEF Publishes
  <1>2. JobStatus[Current(w)] # "unknown" /\ JobStatus' = JobStatus
    BY <1>1, Statuses DEF StatusOf
  <1>3. results'[Current(w)] = ResultOf(w)
        /\ results' = [results EXCEPT ![Current(w)] = ResultOf(w)]
    BY <1>1 DEF Publishes, Inv, TypeOK
  <1>4. ResultOf(w).status = "persisted" => Promise!Remembered(Current(w), ResultOf(w))
    <2>1. ResultOf(w).status = "persisted" => MemoryConfigured
      BY DEF ResultOf
    <2> QED
      BY <2>1 DEF Progress, Stored, Publishes, Known, ResultOf, Promise!Remembered
  <1> QED
    BY <1>1, <1>2, <1>3, <1>4 DEF Promise!Publish

LEMMA WorkSimulated ==
    ASSUME Inv, Progress, [Next]_vars, NEW w \in Workers, Work(w) \/ Trouble(w)
    PROVE  [Promise!Next]_(Promise!vars)
  <1>1. CASE AnswerBatch(w)
    BY <1>1, AnswerSimulated DEF Promise!Next
  <1>2. CASE ~AnswerBatch(w)
    <2>1. UNCHANGED messages
      BY <1>2 DEF Work, Trouble, VerifyObject, RefuseObject, ClassifyObject, RefuseContent,
         Persist, WriteResult, PersistUnacknowledged, WriteResultUnacknowledged, CallFails,
         Stop, queueVars
    <2>2. CASE Persist(w) \/ PersistUnacknowledged(w)
      <3>1. CASE Remembers(w)
        <4>1. Current(w) \in Jobs /\ UNCHANGED results
          BY <2>2, RequestTypes DEF Persist, PersistUnacknowledged
        <4> QED
          BY <2>1, <3>1, <4>1, RememberSimulated DEF Promise!Next
      <3>2. CASE ~Remembers(w)
        <4>1. UNCHANGED <<memoryVars, results>>
          BY <2>2, <3>2 DEF Persist, PersistUnacknowledged, Remembers
        <4> QED
          BY <2>1, <4>1 DEF Promise!vars, JobStatus, memoryVars
      <3> QED
        BY <3>1, <3>2
    <2>3. CASE WriteResult(w) \/ WriteResultUnacknowledged(w)
      <3>1. Publishes(w) /\ UNCHANGED proposals /\ Current(w) \in Jobs
        BY <2>3, RequestTypes
        DEF WriteResult, WriteResultUnacknowledged, Publishes, memoryVars
      <3> QED
        BY <2>1, <3>1, PublishSimulated DEF Promise!Next
    <2>4. CASE ~(Persist(w) \/ PersistUnacknowledged(w) \/ WriteResult(w)
                 \/ WriteResultUnacknowledged(w))
      <3>1. UNCHANGED <<memoryVars, results>>
        BY <1>2, <2>4 DEF Work, Trouble, VerifyObject, RefuseObject, ClassifyObject,
           RefuseContent, CallFails, Stop
      <3> QED
        BY <2>1, <3>1 DEF Promise!vars, JobStatus, memoryVars
    <2> QED
      BY <2>2, <2>3, <2>4
  <1> QED
    BY <1>1, <1>2

LEMMA StepSimulation ==
    Inv /\ Progress /\ [Next]_vars => [Promise!Next]_(Promise!vars)
  <1> SUFFICES ASSUME Inv, Progress, [Next]_vars
               PROVE  [Promise!Next]_(Promise!vars)
    OBVIOUS
  <1>1. CASE \E w \in Workers : Work(w) \/ Trouble(w)
    BY <1>1, WorkSimulated
  <1>2. CASE \E w \in Workers, batch \in Batches : Receive(w, batch)
    BY <1>2, ReceiveSimulated DEF Promise!vars
  <1>3. CASE \E j \in Jobs, request \in Requests : SubmitJob(j, request)
    BY <1>3, SubmitSimulated DEF Promise!Next
  <1>4. CASE \E j \in Jobs : BecomeVisible(j)
    BY <1>4, VisibleSimulated DEF Promise!Next, Promise!vars
  <1>5. CASE \/ \E k \in Keys : PresignUpload(k)
             \/ \E k \in Keys, c \in Contents \cup {Nothing} : Upload(k, c)
             \/ \E w \in Workers, j \in Jobs : Duplicate(w, j)
             \/ UNCHANGED vars
    <2>1. UNCHANGED <<messages, proposals, results>>
      BY <1>5 DEF PresignUpload, Upload, Duplicate, vars, queueVars, memoryVars
    <2> QED
      BY <2>1 DEF Promise!vars, JobStatus
  <1> QED
    BY <1>1, <1>2, <1>3, <1>4, <1>5 DEF Next

\* Through redeliveries, duplicates and failures after the commit, a message is
\* deleted only when its job has a result, a result that says "persisted" has a
\* proposal for every reading, and a stored proposal stands.
THEOREM PromiseKept == Spec => KeepsPromise
  <1>1. Init => Promise!Init /\ Progress
    <2>1. ASSUME Init PROVE JobStatus = [j \in Jobs |-> "unknown"]
      BY <2>1 DEF Init, JobStatus
    <2>2. ASSUME Init PROVE Progress
      BY <2>2 DEF Init, Progress, Done, Stored, Idle
    <2> QED
      BY <2>1, <2>2 DEF Init, Promise!Init
  <1>2. Inv /\ Progress /\ [Next]_vars => Progress'
    BY ProgressStep
  <1>3. Inv /\ Progress /\ [Next]_vars => [Promise!Next]_(Promise!vars)
    BY StepSimulation
  <1> QED
    BY <1>1, <1>2, <1>3, Invariance, PTL DEF Spec, KeepsPromise, Promise!Spec
============================================================================
