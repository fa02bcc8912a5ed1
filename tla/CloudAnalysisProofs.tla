------------------------ MODULE CloudAnalysisProofs ------------------------
(***************************************************************************)
(* Proofs about CloudAnalysis, for every queue, worker, job and bound.     *)
(*                                                                         *)
(* Inv is about the queue and about where each worker stands.  Lemma       *)
(* StepEffects says which steps touch requests, memory and results, and    *)
(* the invariants about these (StoredBy, Answers, Singles) need only them. *)
(***************************************************************************)
EXTENDS CloudAnalysis, TLAPS

\* The part of the invariant about the queue: a job is in the queue when it was
\* handed in, its request is valid, and it waits only while it may be received.
Queue ==
    \A j \in Jobs :
        /\ requests[j] = NoRequest <=> messages[j] = "none"
        /\ requests[j] # NoRequest => ValidRequest(requests[j])
        /\ messages[j] = "none" => receives[j] = 0
        /\ messages[j] = "waiting" => receives[j] < MaxReceives

\* Where a worker stands in its batch and in the objects of the current job.
AtRecord(w) ==
    /\ run[w].at \in 1..Len(run[w].batch)
    /\ \A i \in DOMAIN run[w].batch : requests[run[w].batch[i]] # NoRequest

AtObject(w) ==
    /\ run[w].pc = "verify" =>
          Len(run[w].verified) < Len(Request(w).keys) /\ run[w].readings = <<>>
    /\ run[w].pc = "classify" =>
          /\ Len(run[w].verified) = Len(Request(w).keys)
          /\ Len(run[w].readings) < Len(Request(w).keys)
    /\ run[w].pc \in {"persist", "publish"} =>
          Len(run[w].readings) = Len(Request(w).keys)
    /\ run[w].pc # "answer" =>
          \A i \in DOMAIN run[w].readings : run[w].readings[i].key = Request(w).keys[i]

RunOK(w) ==
    /\ run[w].pc = "idle" => run[w] = Idle
    /\ run[w].pc # "idle" => AtRecord(w) /\ AtObject(w)

Runs == \A w \in Workers : RunOK(w)

Inv == TypeOK /\ Queue /\ Runs

LEMMA RequestTypes ==
    ASSUME Inv, NEW w \in Workers, run[w].pc # "idle"
    PROVE  /\ Current(w) \in Jobs
           /\ Request(w) \in Requests
           /\ Request(w).keys \in Seq(Keys)
           /\ Request(w).workspace \in Workspaces
           /\ ValidRequest(Request(w))
           /\ messages[Current(w)] # "none"
  <1>1. run[w] \in Invocations /\ AtRecord(w)
    BY DEF Inv, TypeOK, Runs, RunOK
  <1>2. run[w].batch \in Seq(Jobs) /\ run[w].at \in DOMAIN run[w].batch
    BY <1>1 DEF Invocations, AtRecord
  <1>3. Current(w) \in Jobs /\ requests[Current(w)] # NoRequest
    BY <1>1, <1>2 DEF Current, AtRecord
  <1>4. Request(w) \in Requests /\ ValidRequest(Request(w)) /\ messages[Current(w)] # "none"
    BY <1>3 DEF Inv, TypeOK, Queue, Request
  <1>5. Request(w) \in [workspace : Workspaces, keys : Seq(Keys)]
    BY <1>4, RequestAssumption
  <1> QED
    BY <1>3, <1>4, <1>5

LEMMA TypeInit == Init => Inv
  <1> SUFFICES ASSUME Init PROVE Inv
    OBVIOUS
  <1> USE DEF Init
  <1>1. Idle \in Invocations
    BY DEF Idle, Invocations
  <1>2. TypeOK
    BY <1>1, BoundsAssumption DEF TypeOK, MessageStates
  <1>3. Queue
    BY DEF Queue
  <1>4. Runs
    BY DEF Runs, RunOK, Idle
  <1> QED
    BY <1>2, <1>3, <1>4 DEF Inv

\* A step of worker w replaces its invocation and leaves the others alone.
LEMMA WorkerSteps ==
    ASSUME Inv, NEW w \in Workers, NEW r \in Invocations,
           run' = [run EXCEPT ![w] = r], UNCHANGED requests, RunOK(w)'
    PROVE  run' \in [Workers -> Invocations] /\ Runs'
  <1>1. run' \in [Workers -> Invocations]
    BY DEF Inv, TypeOK
  <1>2. ASSUME NEW v \in Workers, v # w PROVE RunOK(v)'
    <2>1. run'[v] = run[v]
      BY <1>2 DEF Inv, TypeOK
    <2> QED
      BY <2>1 DEF Inv, Runs, RunOK, AtRecord, AtObject, Request, Current
  <1> QED
    BY <1>1, <1>2 DEF Runs

\* What the next record starts from.
LEMMA NextRecordOK ==
    ASSUME Inv, NEW w \in Workers, run[w].pc # "idle",
           NEW failed \in SUBSET Jobs, UNCHANGED requests,
           run' = [run EXCEPT ![w] = NextRecord(w, failed)]
    PROVE  run' \in [Workers -> Invocations] /\ Runs'
  <1> DEFINE r == NextRecord(w, failed)
  <1>1. run[w] \in Invocations /\ AtRecord(w)
    BY DEF Inv, TypeOK, Runs, RunOK
  <1>2. r \in Invocations
    <2>1. run[w].at \in Nat /\ run[w].at + 1 \in Nat
      BY <1>1 DEF Invocations
    <2>2. <<>> \in Seq(Contents) /\ <<>> \in Seq(Readings)
      OBVIOUS
    <2>3. CASE run[w].at < Len(run[w].batch)
      <3>1. r = [run[w] EXCEPT !.pc = "verify", !.at = @ + 1, !.failed = failed,
                               !.verified = <<>>, !.readings = <<>>]
        BY <1>1, <2>3 DEF NextRecord, Invocations
      <3> QED
        BY <1>1, <2>1, <2>2, <3>1 DEF Invocations
    <2>4. CASE ~(run[w].at < Len(run[w].batch))
      <3>1. r = [run[w] EXCEPT !.pc = "answer", !.failed = failed,
                               !.verified = <<>>, !.readings = <<>>]
        BY <1>1, <2>4 DEF NextRecord, Invocations
      <3> QED
        BY <1>1, <2>1, <2>2, <3>1 DEF Invocations
    <2> QED
      BY <2>3, <2>4
  <1>3. /\ r.batch = run[w].batch /\ r.at \in 1..Len(r.batch)
        /\ r.pc \in {"verify", "answer"} /\ r.verified = <<>> /\ r.readings = <<>>
    BY <1>1 DEF NextRecord, Invocations, AtRecord
  <1>4. run'[w] = r
    BY DEF Inv, TypeOK
  <1>5. AtRecord(w)'
    BY <1>1, <1>3, <1>4 DEF AtRecord
  <1>6. ASSUME r.pc = "verify" PROVE Len(Request(w)'.keys) > 0
    <2>1. Current(w)' \in Jobs /\ requests[Current(w)'] # NoRequest
      BY <1>2, <1>3, <1>4, <1>5 DEF AtRecord, Current, Invocations
    <2>2. ValidRequest(Request(w)')
      BY <2>1 DEF Inv, Queue, Request
    <2> QED
      BY <2>2, BoundsAssumption DEF ValidRequest
  <1>7. AtObject(w)'
    BY <1>3, <1>4, <1>6 DEF AtObject
  <1>8. RunOK(w)'
    BY <1>3, <1>4, <1>5, <1>7 DEF RunOK
  <1> HIDE DEF r
  <1> QED
    BY <1>2, <1>8, WorkerSteps DEF r

\* The parts of the invariant that a step of a worker on its record leaves.
Tables ==
    /\ documents \in [Workspaces -> [Contents -> DocumentRows \cup {NoRow}]]
    /\ proposals \in SUBSET Proposals
    /\ results \in [Jobs -> Results \cup {NoResult}]

LEMMA RecordStep ==
    ASSUME Inv, UNCHANGED <<clientVars, queueVars>>, troubles' \in 0..MaxTroubles,
           Tables', run' \in [Workers -> Invocations], Runs'
    PROVE  Inv'
  BY DEF Inv, TypeOK, Queue, Tables, clientVars, queueVars, ValidRequest

LEMMA FailureStep ==
    ASSUME Inv, NEW w \in Workers, run[w].pc \in {"verify", "classify", "persist", "publish"},
           RecordFails(w), UNCHANGED <<clientVars, queueVars>>,
           troubles' \in 0..MaxTroubles, Tables'
    PROVE  Inv'
  <1>1. run[w] \in Invocations /\ Current(w) \in Jobs
    BY RequestTypes DEF Inv, TypeOK
  <1>2. run[w].failed \cup {Current(w)} \in SUBSET Jobs
    BY <1>1 DEF Invocations
  <1>3. run' \in [Workers -> Invocations] /\ Runs'
    BY <1>2, NextRecordOK DEF RecordFails, clientVars
  <1> QED
    BY <1>3, RecordStep

LEMMA VerifyStep ==
    ASSUME Inv, NEW w \in Workers, VerifyObject(w)
    PROVE  Inv'
  <1> DEFINE i == Len(run[w].verified) + 1
             r == [run[w] EXCEPT !.verified = Append(@, Object(w, i)),
                     !.pc = IF i = Len(Request(w).keys) THEN "classify" ELSE @]
  <1>1. run[w] \in Invocations /\ AtRecord(w) /\ AtObject(w) /\ run[w].pc = "verify"
    BY DEF VerifyObject, Inv, TypeOK, Runs, RunOK
  <1>2. Request(w).keys \in Seq(Keys) /\ Len(run[w].verified) < Len(Request(w).keys)
        /\ run[w].readings = <<>>
    BY <1>1, RequestTypes DEF AtObject
  <1>3. i \in DOMAIN Request(w).keys /\ run[w].verified \in Seq(Contents)
    BY <1>1, <1>2 DEF Invocations
  <1>4. Object(w, i) \in Contents
    BY <1>2, <1>3 DEF Object, VerifyObject, Inv, TypeOK
  <1>5. Append(run[w].verified, Object(w, i)) \in Seq(Contents)
        /\ Len(Append(run[w].verified, Object(w, i))) = i
    BY <1>3, <1>4
  <1>6. r \in Invocations
    BY <1>1, <1>5 DEF Invocations
  <1>7. run' = [run EXCEPT ![w] = r]
    BY <1>1, <1>6 DEF VerifyObject, Inv, TypeOK, Invocations
  <1>8. run'[w] = r
    BY <1>7 DEF Inv, TypeOK
  <1>9. /\ r.batch = run[w].batch /\ r.at = run[w].at /\ r.readings = <<>>
        /\ r.verified = Append(run[w].verified, Object(w, i))
        /\ r.pc = IF i = Len(Request(w).keys) THEN "classify" ELSE "verify"
    BY <1>1, <1>2 DEF Invocations
  <1>10. UNCHANGED <<clientVars, queueVars, memoryVars, results, troubles>>
    BY DEF VerifyObject
  <1>11. Request(w)' = Request(w)
    BY <1>8, <1>9, <1>10 DEF Request, Current, clientVars
  <1>12. AtRecord(w)' /\ AtObject(w)'
    BY <1>1, <1>2, <1>3, <1>5, <1>8, <1>9, <1>10, <1>11 DEF AtRecord, AtObject, clientVars
  <1>13. RunOK(w)'
    BY <1>8, <1>9, <1>12 DEF RunOK
  <1> HIDE DEF r
  <1>14. run' \in [Workers -> Invocations] /\ Runs'
    BY <1>6, <1>7, <1>10, <1>13, WorkerSteps DEF clientVars
  <1> QED
    BY <1>10, <1>14, RecordStep DEF Inv, TypeOK, Tables, memoryVars

LEMMA ClassifyStep ==
    ASSUME Inv, NEW w \in Workers, NEW class \in Classes, ClassifyObject(w, class)
    PROVE  Inv'
  <1> DEFINE i == Len(run[w].readings) + 1
             reading == [key |-> Request(w).keys[i], content |-> Object(w, i), class |-> class]
             r == [run[w] EXCEPT !.readings = Append(@, reading),
                     !.pc = IF i = Len(Request(w).keys) THEN "persist" ELSE @]
  <1>1. run[w] \in Invocations /\ AtRecord(w) /\ AtObject(w) /\ run[w].pc = "classify"
    BY DEF ClassifyObject, Inv, TypeOK, Runs, RunOK
  <1>2. /\ Request(w).keys \in Seq(Keys) /\ Len(run[w].readings) < Len(Request(w).keys)
        /\ Len(run[w].verified) = Len(Request(w).keys)
    BY <1>1, RequestTypes DEF AtObject
  <1>3. i \in DOMAIN Request(w).keys /\ run[w].readings \in Seq(Readings)
    BY <1>1, <1>2 DEF Invocations
  <1>4. Object(w, i) \in Contents /\ Request(w).keys[i] \in Keys
    BY <1>2, <1>3 DEF Object, Readable, Analysable, ClassifyObject, Inv, TypeOK
  <1>5. reading \in Readings
    BY <1>4 DEF Readings
  <1>6. /\ Append(run[w].readings, reading) \in Seq(Readings)
        /\ Len(Append(run[w].readings, reading)) = i
        /\ Append(run[w].readings, reading)[i] = reading
        /\ \A k \in DOMAIN run[w].readings :
              Append(run[w].readings, reading)[k] = run[w].readings[k]
        /\ DOMAIN Append(run[w].readings, reading) = DOMAIN run[w].readings \cup {i}
    BY <1>3, <1>5
  <1>7. r \in Invocations
    BY <1>1, <1>6 DEF Invocations
  <1>8. run' = [run EXCEPT ![w] = r]
    BY <1>1, <1>7 DEF ClassifyObject, Inv, TypeOK, Invocations
  <1>9. run'[w] = r
    BY <1>8 DEF Inv, TypeOK
  <1>10. /\ r.batch = run[w].batch /\ r.at = run[w].at /\ r.verified = run[w].verified
         /\ r.readings = Append(run[w].readings, reading)
         /\ r.pc = IF i = Len(Request(w).keys) THEN "persist" ELSE "classify"
    BY <1>1 DEF Invocations
  <1>11. UNCHANGED <<clientVars, queueVars, memoryVars, results, troubles>>
    BY DEF ClassifyObject
  <1>12. Request(w)' = Request(w)
    BY <1>9, <1>10, <1>11 DEF Request, Current, clientVars
  <1>13. \A k \in DOMAIN r.readings : r.readings[k].key = Request(w).keys[k]
    <2>1. \A k \in DOMAIN run[w].readings : run[w].readings[k].key = Request(w).keys[k]
      BY <1>1 DEF AtObject
    <2>2. reading.key = Request(w).keys[i]
      OBVIOUS
    <2> HIDE DEF reading
    <2> QED
      BY <1>6, <1>10, <2>1, <2>2
  <1>14. AtRecord(w)'
    BY <1>1, <1>9, <1>10, <1>11 DEF AtRecord, clientVars
  <1> HIDE DEF r, reading
  <1>15. AtObject(w)'
    BY <1>2, <1>3, <1>6, <1>9, <1>10, <1>12, <1>13 DEF AtObject
  <1>16. RunOK(w)'
    BY <1>9, <1>10, <1>14, <1>15 DEF RunOK
  <1>17. run' \in [Workers -> Invocations] /\ Runs'
    BY <1>7, <1>8, <1>11, <1>16, WorkerSteps DEF clientVars
  <1> QED
    BY <1>11, <1>17, RecordStep DEF Inv, TypeOK, Tables, memoryVars

\* What the transaction of a worker leaves in the tables: rows of their types,
\* where there was a row there is one, new rows have keys of the readings, and
\* every reading has its row and its proposal.
StoredBy(w) ==
    /\ documents' \in [Workspaces -> [Contents -> DocumentRows \cup {NoRow}]]
    /\ proposals' \in SUBSET Proposals
    /\ \A ws \in Workspaces, c \in Contents :
          \/ documents'[ws][c] = documents[ws][c]
          \/ /\ ws = Request(w).workspace
             /\ documents'[ws][c] # NoRow
             /\ \E i \in DOMAIN run[w].readings :
                   documents'[ws][c].current = run[w].readings[i].key
             /\ \/ documents[ws][c] # NoRow
                   /\ documents'[ws][c].original = documents[ws][c].original
                \/ \E i \in DOMAIN run[w].readings :
                      documents'[ws][c].original = run[w].readings[i].key
    /\ \A i \in DOMAIN run[w].readings :
          documents'[Request(w).workspace][run[w].readings[i].content] # NoRow
    /\ proposals \subseteq proposals'
    /\ \A p \in proposals' \ proposals : \E i \in DOMAIN run[w].readings :
          p = NewProposal(Current(w), i, run[w].readings[i])

LEMMA DocumentsStored ==
    ASSUME Inv, NEW w \in Workers, run[w].pc # "idle", Stores(w)
    PROVE  StoredBy(w)
  <1> DEFINE rs == run[w].readings
             ws == Request(w).workspace
             At(c) == {i \in DOMAIN rs : rs[i].content = c}
  <1>1. rs \in Seq(Readings) /\ ws \in Workspaces /\ Current(w) \in Jobs
    BY RequestTypes DEF Inv, TypeOK, Invocations
  <1>2. \A i \in DOMAIN rs : /\ rs[i] \in Readings /\ rs[i].key \in Keys
                             /\ rs[i].content \in Contents /\ rs[i].class \in Classes
                             /\ i \in Nat \ {0}
    <2>1. \A i \in DOMAIN rs : rs[i] \in Readings /\ i \in Nat \ {0}
      BY <1>1
    <2> HIDE DEF rs
    <2> QED
      BY <2>1 DEF Readings
  <1>3. documents \in [Workspaces -> [Contents -> DocumentRows \cup {NoRow}]]
        /\ proposals \in SUBSET Proposals
    BY DEF Inv, TypeOK
  <1>4. PICK first, last \in [Contents -> DOMAIN rs] :
          /\ \A c \in Contents : At(c) # {} =>
                /\ first[c] \in At(c) /\ \A i \in At(c) : first[c] <= i
                /\ last[c] \in At(c) /\ \A i \in At(c) : i <= last[c]
          /\ documents' = [documents EXCEPT ![ws] = [c \in Contents |->
                IF At(c) = {} THEN documents[ws][c]
                ELSE [original |-> IF documents[ws][c] = NoRow THEN rs[first[c]].key
                                   ELSE documents[ws][c].original,
                      current |-> rs[last[c]].key]]]
    BY Zenon DEF Stores, DocumentsUpserted
  <1> DEFINE row(c) == documents'[ws][c]
  <1>5. \A v \in Workspaces : v # ws => documents'[v] = documents[v]
    BY <1>3, <1>4
  <1>6. documents'[ws] = [c \in Contents |->
                IF At(c) = {} THEN documents[ws][c]
                ELSE [original |-> IF documents[ws][c] = NoRow THEN rs[first[c]].key
                                   ELSE documents[ws][c].original,
                      current |-> rs[last[c]].key]]
    BY <1>1, <1>3, <1>4
  <1>7. ASSUME NEW c \in Contents, At(c) # {}
        PROVE  /\ row(c) \in DocumentRows
               /\ row(c).current = rs[last[c]].key /\ last[c] \in DOMAIN rs
               /\ \/ documents[ws][c] # NoRow /\ row(c).original = documents[ws][c].original
                  \/ row(c).original = rs[first[c]].key /\ first[c] \in DOMAIN rs
    <2>1. first[c] \in DOMAIN rs /\ last[c] \in DOMAIN rs
      BY <1>4, <1>7
    <2>2. rs[first[c]].key \in Keys /\ rs[last[c]].key \in Keys
      BY <1>2, <2>1
    <2>3. row(c) = [original |-> IF documents[ws][c] = NoRow THEN rs[first[c]].key
                                   ELSE documents[ws][c].original,
                    current |-> rs[last[c]].key]
      BY <1>6, <1>7
    <2>4. documents[ws][c] # NoRow => documents[ws][c].original \in Keys
      BY <1>1, <1>3 DEF DocumentRows
    <2> QED
      BY <2>1, <2>2, <2>3, <2>4 DEF DocumentRows
  <1>8. \A c \in Contents : At(c) = {} => row(c) = documents[ws][c]
    BY <1>6
  <1>9. documents' \in [Workspaces -> [Contents -> DocumentRows \cup {NoRow}]]
    <2>1. \A c \in Contents : row(c) \in DocumentRows \cup {NoRow}
      BY <1>1, <1>3, <1>7, <1>8
    <2>2. documents'[ws] \in [Contents -> DocumentRows \cup {NoRow}]
      BY <1>6, <2>1
    <2> QED
      BY <1>1, <1>3, <1>4, <2>2
  <1>10. proposals' \in SUBSET Proposals
    <2>1. \A i \in DOMAIN rs : NewProposal(Current(w), i, rs[i]) \in Proposals
      BY <1>1, <1>2 DEF NewProposal, Proposals
    <2>2. proposals' \subseteq proposals \cup {NewProposal(Current(w), i, rs[i]) : i \in DOMAIN rs}
      BY DEF Stores, ProposalsInserted
    <2> QED
      BY <1>3, <2>1, <2>2
  <1>11. ASSUME NEW i \in DOMAIN rs PROVE documents'[ws][rs[i].content] # NoRow
    <2>1. rs[i].content \in Contents /\ At(rs[i].content) # {}
      BY <1>2
    <2> QED
      BY <1>7, <2>1, AbsenceAssumption
  <1>12. ASSUME NEW v \in Workspaces, NEW c \in Contents
         PROVE  \/ documents'[v][c] = documents[v][c]
                \/ /\ v = ws
                   /\ documents'[v][c] # NoRow
                   /\ \E i \in DOMAIN rs : documents'[v][c].current = rs[i].key
                   /\ \/ documents[v][c] # NoRow
                         /\ documents'[v][c].original = documents[v][c].original
                      \/ \E i \in DOMAIN rs : documents'[v][c].original = rs[i].key
    <2>1. CASE v # ws \/ At(c) = {}
      BY <1>5, <1>8, <2>1
    <2>2. CASE v = ws /\ At(c) # {}
      BY <1>7, <2>2, AbsenceAssumption
    <2> QED
      BY <2>1, <2>2
  <1>13. /\ proposals \subseteq proposals'
         /\ \A p \in proposals' \ proposals : \E i \in DOMAIN rs :
               p = NewProposal(Current(w), i, rs[i])
    BY DEF Stores, ProposalsInserted
  <1> QED
    BY <1>9, <1>10, <1>11, <1>12, <1>13 DEF StoredBy

LEMMA PersistStep ==
    ASSUME Inv, NEW w \in Workers, Persist(w)
    PROVE  Inv'
  <1> DEFINE r == [run[w] EXCEPT !.pc = "publish"]
  <1>1. run[w] \in Invocations /\ AtRecord(w) /\ AtObject(w) /\ run[w].pc = "persist"
    BY DEF Persist, Inv, TypeOK, Runs, RunOK
  <1>2. r \in Invocations
    BY <1>1 DEF Invocations
  <1>3. run' = [run EXCEPT ![w] = r]
    BY <1>2 DEF Persist, Inv, TypeOK
  <1>4. run'[w] = r
    BY <1>3 DEF Inv, TypeOK
  <1>5. /\ r.batch = run[w].batch /\ r.at = run[w].at /\ r.verified = run[w].verified
        /\ r.readings = run[w].readings /\ r.pc = "publish"
    BY <1>1 DEF Invocations
  <1>6. UNCHANGED <<clientVars, queueVars, results, troubles>>
    BY DEF Persist
  <1>7. Request(w)' = Request(w)
    BY <1>4, <1>5, <1>6 DEF Request, Current, clientVars
  <1>8. AtRecord(w)' /\ AtObject(w)'
    BY <1>1, <1>4, <1>5, <1>6, <1>7 DEF AtRecord, AtObject, clientVars
  <1>9. RunOK(w)'
    BY <1>4, <1>5, <1>8 DEF RunOK
  <1> HIDE DEF r
  <1>10. run' \in [Workers -> Invocations] /\ Runs'
    BY <1>2, <1>3, <1>6, <1>9, WorkerSteps DEF clientVars
  <1>11. Tables'
    <2>1. CASE Stores(w)
      BY <1>1, <1>6, <2>1, DocumentsStored DEF StoredBy, Tables, Inv, TypeOK
    <2>2. CASE UNCHANGED memoryVars
      BY <1>6, <2>2 DEF Tables, Inv, TypeOK, memoryVars
    <2> QED
      BY <2>1, <2>2 DEF Persist
  <1> QED
    BY <1>6, <1>10, <1>11, RecordStep DEF Inv, TypeOK

LEMMA ResultType ==
    ASSUME Inv, NEW w \in Workers, run[w].pc = "publish"
    PROVE  ResultOf(w) \in Results /\ Current(w) \in Jobs /\ ResultOf(w) # NoResult
  <1>1. run[w].readings \in Seq(Readings) /\ Current(w) \in Jobs
    BY RequestTypes DEF Inv, TypeOK, Invocations
  <1>2. ResultOf(w) \in Results
    BY <1>1 DEF ResultOf, Results
  <1> QED
    BY <1>1, <1>2, AbsenceAssumption

LEMMA PublishStep ==
    ASSUME Inv, NEW w \in Workers, WriteResult(w)
    PROVE  Inv'
  <1>1. results' \in [Jobs -> Results \cup {NoResult}]
    BY ResultType DEF WriteResult, Inv, TypeOK
  <1>2. Tables'
    BY <1>1 DEF WriteResult, Tables, Inv, TypeOK, memoryVars
  <1>3. run[w].failed \in SUBSET Jobs
    BY DEF Inv, TypeOK, Invocations
  <1>4. run' \in [Workers -> Invocations] /\ Runs'
    BY <1>3, NextRecordOK DEF WriteResult, clientVars
  <1> QED
    BY <1>2, <1>4, RecordStep DEF WriteResult, Inv, TypeOK

LEMMA TroubleStep ==
    ASSUME Inv, NEW w \in Workers, Trouble(w)
    PROVE  Inv'
  <1>1. Trouble(w) => troubles' \in 0..MaxTroubles
    BY BoundsAssumption DEF Trouble, PersistUnacknowledged, WriteResultUnacknowledged,
       CallFails, Stop, Inv, TypeOK
  <1>2. CASE PersistUnacknowledged(w)
    <2>1. Tables'
      BY <1>2, DocumentsStored DEF PersistUnacknowledged, StoredBy, Tables, Inv, TypeOK
    <2> QED
      BY <1>1, <1>2, <2>1, FailureStep DEF PersistUnacknowledged
  <1>3. CASE WriteResultUnacknowledged(w)
    <2>1. Tables'
      BY <1>3, ResultType DEF WriteResultUnacknowledged, Tables, Inv, TypeOK, memoryVars
    <2> QED
      BY <1>1, <1>3, <2>1, FailureStep DEF WriteResultUnacknowledged
  <1>4. CASE CallFails(w)
    <2>1. Tables'
      BY <1>4 DEF CallFails, Tables, Inv, TypeOK, memoryVars
    <2> QED
      BY <1>1, <1>4, <2>1, FailureStep DEF CallFails
  <1>5. CASE Stop(w)
    <2>1. Idle \in Invocations
      BY DEF Idle, Invocations
    <2>2. run' = [run EXCEPT ![w] = Idle] /\ RunOK(w)'
      BY <1>5 DEF Stop, RunOK, Idle, Inv, TypeOK
    <2>3. run' \in [Workers -> Invocations] /\ Runs'
      BY <1>5, <2>1, <2>2, WorkerSteps DEF Stop, clientVars
    <2>4. Tables'
      BY <1>5 DEF Stop, Tables, Inv, TypeOK, memoryVars
    <2> QED
      BY <1>1, <1>5, <2>3, <2>4, RecordStep DEF Stop
  <1> QED
    BY <1>2, <1>3, <1>4, <1>5 DEF Trouble

\* A delivery starts an invocation for jobs that were handed in.
LEMMA StartingOK ==
    ASSUME Inv, NEW w \in Workers, NEW batch \in Seq(Jobs), Len(batch) > 0,
           \A i \in DOMAIN batch : requests[batch[i]] # NoRequest,
           UNCHANGED requests, run' = [run EXCEPT ![w] = Starting(batch)]
    PROVE  run' \in [Workers -> Invocations] /\ Runs'
  <1> DEFINE r == Starting(batch)
  <1>1. r \in Invocations
    <2>1. r = [pc |-> "verify", batch |-> batch, at |-> 1, failed |-> {},
               verified |-> <<>>, readings |-> <<>>]
      BY DEF Starting
    <2>2. <<>> \in Seq(Contents) /\ <<>> \in Seq(Readings)
      OBVIOUS
    <2> QED
      BY <2>1, <2>2 DEF Invocations
  <1>2. /\ r.pc = "verify" /\ r.batch = batch /\ r.at = 1
        /\ r.verified = <<>> /\ r.readings = <<>>
    BY DEF Starting
  <1>3. run'[w] = r
    BY DEF Inv, TypeOK
  <1>4. batch[1] \in Jobs /\ 1 \in DOMAIN batch
    OBVIOUS
  <1>5. ValidRequest(requests[batch[1]])
    BY <1>4 DEF Inv, Queue
  <1> HIDE DEF r
  <1>6. AtRecord(w)'
    BY <1>2, <1>3 DEF AtRecord
  <1>7. AtObject(w)'
    BY <1>2, <1>3, <1>5, BoundsAssumption DEF AtObject, Request, Current, ValidRequest
  <1>8. RunOK(w)'
    BY <1>2, <1>3, <1>6, <1>7 DEF RunOK
  <1> QED
    BY <1>1, <1>8, WorkerSteps DEF r

LEMMA BatchTypes ==
    ASSUME NEW batch \in Batches
    PROVE  batch \in Seq(Jobs) /\ Len(batch) > 0 /\ \A i \in DOMAIN batch : batch[i] \in Jobs
  <1>1. PICK n \in 1..BatchSize : batch \in [1..n -> Jobs]
    BY DEF Batches
  <1>2. n \in Nat \ {0}
    BY <1>1, BoundsAssumption
  <1>3. batch \in Seq(Jobs) /\ Len(batch) = n /\ DOMAIN batch = 1..n
    BY <1>1, <1>2
  <1> QED
    BY <1>1, <1>2, <1>3

InBatch(batch, j) == \E i \in DOMAIN batch : batch[i] = j

LEMMA ReceiveStep ==
    ASSUME Inv, NEW w \in Workers, NEW batch \in Batches, Receive(w, batch)
    PROVE  Inv'
  <1>1. batch \in Seq(Jobs) /\ Len(batch) > 0 /\ \A i \in DOMAIN batch : batch[i] \in Jobs
    BY BatchTypes
  <1>2. UNCHANGED <<clientVars, duplicates, memoryVars, results, troubles>>
    BY DEF Receive
  <1>3. \A i \in DOMAIN batch : messages[batch[i]] = "waiting" /\ requests[batch[i]] # NoRequest
    BY <1>1 DEF Receive, Inv, Queue
  <1>4. run' \in [Workers -> Invocations] /\ Runs'
    BY <1>1, <1>2, <1>3, StartingOK DEF Receive, clientVars
  <1>5. ASSUME NEW j \in Jobs, InBatch(batch, j)
        PROVE  /\ messages'[j] = "inflight" /\ receives'[j] = receives[j] + 1
               /\ requests[j] # NoRequest /\ receives[j] < MaxReceives
    <2>1. messages[j] = "waiting" /\ requests[j] # NoRequest
      BY <1>3, <1>5 DEF InBatch
    <2>2. messages'[j] = "inflight" /\ receives'[j] = receives[j] + 1
      BY <1>5 DEF Receive, InBatch
    <2> QED
      BY <2>1, <2>2 DEF Inv, Queue
  <1>6. ASSUME NEW j \in Jobs, ~InBatch(batch, j)
        PROVE  messages'[j] = messages[j] /\ receives'[j] = receives[j]
    BY <1>6 DEF Receive, InBatch
  <1>7. messages' \in [Jobs -> MessageStates] /\ receives' \in [Jobs -> 0..MaxReceives]
    <2>1. ASSUME NEW j \in Jobs
          PROVE  messages'[j] \in MessageStates /\ receives'[j] \in 0..MaxReceives
      <3>1. messages[j] \in MessageStates /\ receives[j] \in 0..MaxReceives
        BY DEF Inv, TypeOK
      <3>2. CASE InBatch(batch, j)
        BY <1>5, <3>1, <3>2, BoundsAssumption DEF MessageStates
      <3>3. CASE ~InBatch(batch, j)
        BY <1>6, <3>1, <3>3
      <3> QED
        BY <3>2, <3>3
    <2>2. /\ messages' = [j \in Jobs |-> messages'[j]]
          /\ receives' = [j \in Jobs |-> receives'[j]]
      BY DEF Receive
    <2> QED
      BY <2>1, <2>2
  <1>8. TypeOK'
    BY <1>2, <1>4, <1>7 DEF Inv, TypeOK, clientVars, memoryVars
  <1>9. Queue'
    <2>1. UNCHANGED requests
      BY <1>2 DEF clientVars
    <2>2. ASSUME NEW j \in Jobs
          PROVE  /\ requests'[j] = NoRequest <=> messages'[j] = "none"
                 /\ messages'[j] = "none" => receives'[j] = 0
                 /\ messages'[j] = "waiting" => receives'[j] < MaxReceives
      <3>1. CASE InBatch(batch, j)
        BY <1>5, <2>1, <3>1
      <3>2. CASE ~InBatch(batch, j)
        BY <1>6, <2>1, <3>2 DEF Inv, Queue
      <3> QED
        BY <3>1, <3>2
    <2> QED
      BY <2>1, <2>2 DEF Inv, Queue, ValidRequest
  <1> QED
    BY <1>4, <1>8, <1>9 DEF Inv

LEMMA DuplicateStep ==
    ASSUME Inv, NEW w \in Workers, NEW j \in Jobs, Duplicate(w, j)
    PROVE  Inv'
  <1>1. UNCHANGED <<clientVars, messages, receives, memoryVars, results, troubles>>
    BY DEF Duplicate
  <1>2. requests[j] # NoRequest
    BY DEF Duplicate, Inv, Queue
  <1>3. <<j>> \in Seq(Jobs) /\ Len(<<j>>) > 0 /\ \A i \in DOMAIN <<j>> : <<j>>[i] = j
    OBVIOUS
  <1>4. run' \in [Workers -> Invocations] /\ Runs'
    BY <1>1, <1>2, <1>3, StartingOK DEF Duplicate, clientVars
  <1>5. duplicates' \in 0..MaxDuplicates
    BY BoundsAssumption DEF Duplicate, Inv, TypeOK
  <1> QED
    BY <1>1, <1>4, <1>5 DEF Inv, TypeOK, Queue, clientVars, memoryVars, ValidRequest

LEMMA VisibleStep ==
    ASSUME Inv, NEW j \in Jobs, BecomeVisible(j)
    PROVE  Inv'
  <1>1. UNCHANGED <<clientVars, receives, duplicates, run, memoryVars, results, troubles>>
    BY DEF BecomeVisible
  <1>2. /\ messages'[j] \in {"waiting", "dead"}
        /\ messages[j] = "inflight"
        /\ messages'[j] = "waiting" => receives[j] < MaxReceives
        /\ \A k \in Jobs : k # j => messages'[k] = messages[k]
        /\ messages' \in [Jobs -> MessageStates]
    BY DEF BecomeVisible, Inv, TypeOK, MessageStates
  <1>3. TypeOK'
    <2>1. messages' \in [Jobs -> MessageStates]
      BY <1>2
    <2> QED
      BY <1>1, <2>1 DEF Inv, TypeOK, clientVars, memoryVars
  <1>5. Queue'
    BY <1>1, <1>2 DEF Inv, Queue, clientVars, ValidRequest
  <1>4. Runs'
    BY <1>1 DEF Inv, Runs, RunOK, AtRecord, AtObject, Request, Current, clientVars
  <1> QED
    BY <1>3, <1>4, <1>5 DEF Inv

LEMMA AnswerStep ==
    ASSUME Inv, NEW w \in Workers, AnswerBatch(w)
    PROVE  Inv'
  <1>1. UNCHANGED <<clientVars, receives, duplicates, memoryVars, results, troubles>>
    BY DEF AnswerBatch
  <1>2. ASSUME NEW j \in Jobs
        PROVE  \/ messages'[j] = messages[j]
               \/ messages[j] = "inflight" /\ messages'[j] = "deleted"
    <2>1. messages'[j] = IF messages[j] = "inflight" /\ Holds(w, j) /\ j \notin run[w].failed
                         THEN "deleted" ELSE messages[j]
      BY DEF AnswerBatch
    <2> QED
      BY <2>1
  <1>3. messages' \in [Jobs -> MessageStates]
    BY DEF AnswerBatch, Inv, TypeOK, MessageStates
  <1>4. Idle \in Invocations
    BY DEF Idle, Invocations
  <1>5. run' = [run EXCEPT ![w] = Idle] /\ RunOK(w)'
    BY DEF AnswerBatch, RunOK, Idle, Inv, TypeOK
  <1>6. run' \in [Workers -> Invocations] /\ Runs'
    BY <1>1, <1>4, <1>5, WorkerSteps DEF clientVars
  <1>7. TypeOK'
    BY <1>1, <1>3, <1>6 DEF Inv, TypeOK, clientVars, memoryVars
  <1>8. Queue'
    BY <1>1, <1>2 DEF Inv, Queue, clientVars, ValidRequest
  <1> QED
    BY <1>6, <1>7, <1>8 DEF Inv

LEMMA ClientStep ==
    ASSUME Inv,
           \/ \E k \in Keys : PresignUpload(k)
           \/ \E k \in Keys, c \in Contents \cup {Nothing} : Upload(k, c)
    PROVE  Inv'
  <1>1. UNCHANGED <<requests, queueVars, run, memoryVars, results, troubles>>
    BY DEF PresignUpload, Upload
  <1>2. urls' \in SUBSET Keys /\ objects' \in [Keys -> Contents \cup {Nothing}]
        /\ puts' \in 0..MaxPuts
    BY BoundsAssumption DEF PresignUpload, Upload, Inv, TypeOK
  <1>3. Runs'
    BY <1>1 DEF Inv, Runs, RunOK, AtRecord, AtObject, Request, Current
  <1> QED
    BY <1>1, <1>2, <1>3 DEF Inv, TypeOK, Queue, queueVars, memoryVars, ValidRequest

LEMMA SubmitStep ==
    ASSUME Inv, NEW j \in Jobs, NEW request \in Requests, SubmitJob(j, request)
    PROVE  Inv'
  <1>1. UNCHANGED <<urls, objects, puts, receives, duplicates, run, memoryVars, results, troubles>>
    BY DEF SubmitJob
  <1>2. /\ requests[j] = NoRequest /\ requests'[j] = request /\ messages'[j] = "waiting"
        /\ request # NoRequest /\ ValidRequest(request)
        /\ requests' \in [Jobs -> Requests \cup {NoRequest}]
        /\ messages' \in [Jobs -> MessageStates]
        /\ \A k \in Jobs : k # j => requests'[k] = requests[k] /\ messages'[k] = messages[k]
    BY AbsenceAssumption DEF SubmitJob, Inv, TypeOK, MessageStates
  <1>3. TypeOK'
    <2>1. TypeOK
      BY DEF Inv
    <2>2. requests' \in [Jobs -> Requests \cup {NoRequest}]
          /\ messages' \in [Jobs -> MessageStates]
      BY <1>2
    <2> QED
      BY <1>1, <2>1, <2>2 DEF TypeOK, memoryVars
  <1>4. receives[j] = 0 /\ 0 < MaxReceives
    BY <1>2, BoundsAssumption DEF Inv, Queue
  <1>5. Queue'
    BY <1>1, <1>2, <1>4 DEF Inv, Queue
  <1>6. ASSUME NEW w \in Workers PROVE RunOK(w)'
    <2>1. RunOK(w) /\ run'[w] = run[w]
      BY <1>1 DEF Inv, Runs
    <2>2. CASE run[w].pc = "idle"
      BY <2>1, <2>2 DEF RunOK
    <2>3. CASE run[w].pc # "idle"
      <3>1. AtRecord(w) /\ AtObject(w) /\ run[w] \in Invocations
        BY <2>1, <2>3 DEF RunOK, Inv, TypeOK
      <3>2. \A i \in DOMAIN run[w].batch :
               requests'[run[w].batch[i]] = requests[run[w].batch[i]]
        <4>1. \A i \in DOMAIN run[w].batch : run[w].batch[i] \in Jobs /\ run[w].batch[i] # j
          BY <1>2, <3>1 DEF AtRecord, Invocations
        <4> QED
          BY <1>2, <4>1
      <3>3. Request(w)' = Request(w)
        BY <2>1, <3>1, <3>2 DEF Request, Current, AtRecord, Invocations
      <3>4. AtRecord(w)' /\ AtObject(w)'
        BY <2>1, <3>1, <3>2, <3>3 DEF AtRecord, AtObject
      <3> QED
        BY <2>1, <2>3, <3>4 DEF RunOK
    <2> QED
      BY <2>2, <2>3
  <1> QED
    BY <1>3, <1>5, <1>6 DEF Inv, Runs

LEMMA WorkStep ==
    ASSUME Inv, NEW w \in Workers, Work(w)
    PROVE  Inv'
  <1>1. CASE RefuseObject(w) \/ RefuseContent(w)
    <2>1. Tables' /\ troubles' \in 0..MaxTroubles
      BY <1>1 DEF RefuseObject, RefuseContent, Tables, Inv, TypeOK, memoryVars
    <2> QED
      BY <1>1, <2>1, FailureStep DEF RefuseObject, RefuseContent
  <1> QED
    BY <1>1, VerifyStep, ClassifyStep, PersistStep, PublishStep, AnswerStep DEF Work

LEMMA StepInv == Inv /\ [Next]_vars => Inv'
  <1> SUFFICES ASSUME Inv, [Next]_vars PROVE Inv'
    OBVIOUS
  <1>1. CASE Next
    <2>1. CASE \E w \in Workers : Work(w) \/ Trouble(w)
      BY <2>1, WorkStep, TroubleStep
    <2>2. CASE \E w \in Workers, batch \in Batches : Receive(w, batch)
      BY <2>2, ReceiveStep
    <2>3. CASE \E j \in Jobs, request \in Requests : SubmitJob(j, request)
      BY <2>3, SubmitStep
    <2>4. CASE \E w \in Workers, j \in Jobs : Duplicate(w, j)
      BY <2>4, DuplicateStep
    <2>5. CASE \E j \in Jobs : BecomeVisible(j)
      BY <2>5, VisibleStep
    <2> QED
      BY <1>1, <2>1, <2>2, <2>3, <2>4, <2>5, ClientStep DEF Next
  <1>2. CASE UNCHANGED vars
    BY <1>2 DEF vars, clientVars, queueVars, memoryVars, Inv, TypeOK, Queue, Runs, RunOK,
       AtRecord, AtObject, Request, Current, ValidRequest
  <1> QED
    BY <1>1, <1>2

LEMMA Invariance == Spec => []Inv
  <1>1. Init => Inv
    BY TypeInit
  <1>2. Inv /\ [Next]_vars => Inv'
    BY StepInv
  <1> QED
    BY <1>1, <1>2, PTL DEF Spec

\* The queue, the tables, the artifacts and the workers keep their types, and
\* no message is received more often than the redrive policy allows.
THEOREM TypeCorrect == Spec => []TypeOK
  <1>1. Inv => TypeOK
    BY DEF Inv
  <1> QED
    BY <1>1, Invariance, PTL

----------------------------------------------------------------------------
\* The result of a job.

\* Worker w writes the result of its current job.
Publishes(w) ==
    /\ run[w].pc = "publish"
    /\ results' = [results EXCEPT ![Current(w)] = ResultOf(w)]

\* Worker w stores the proposals of its current job.
Remembers(w) ==
    /\ run[w].pc = "persist"
    /\ Stores(w)

\* What a step of a worker does to requests, to the memory and to the results.
LEMMA WorkEffects ==
    ASSUME Inv, NEW w \in Workers, Work(w) \/ Trouble(w)
    PROVE  /\ UNCHANGED requests
           /\ UNCHANGED results \/ Publishes(w)
           /\ UNCHANGED memoryVars \/ Remembers(w)
  <1>1. CASE Persist(w) \/ PersistUnacknowledged(w)
    BY <1>1 DEF Persist, PersistUnacknowledged, Remembers, clientVars
  <1>2. CASE WriteResult(w) \/ WriteResultUnacknowledged(w)
    BY <1>2 DEF WriteResult, WriteResultUnacknowledged, Publishes, clientVars
  <1>3. CASE VerifyObject(w) \/ RefuseObject(w) \/ RefuseContent(w) \/ AnswerBatch(w)
    BY <1>3 DEF VerifyObject, RefuseObject, RefuseContent, AnswerBatch, clientVars
  <1>4. CASE \E class \in Classes : ClassifyObject(w, class)
    BY <1>4 DEF ClassifyObject, clientVars
  <1>5. CASE CallFails(w) \/ Stop(w)
    BY <1>5 DEF CallFails, Stop, clientVars
  <1> QED
    BY <1>1, <1>2, <1>3, <1>4, <1>5 DEF Work, Trouble

\* What any step does to them.
LEMMA StepEffects ==
    ASSUME Inv, [Next]_vars
    PROVE  /\ \/ UNCHANGED requests
              \/ /\ \E j \in Jobs, request \in Requests : SubmitJob(j, request)
                 /\ UNCHANGED <<memoryVars, results>>
           /\ \/ UNCHANGED results
              \/ UNCHANGED requests /\ \E w \in Workers : Publishes(w)
           /\ \/ UNCHANGED memoryVars
              \/ UNCHANGED requests /\ \E w \in Workers : Remembers(w)
  <1>1. ASSUME NEW w \in Workers, Work(w) \/ Trouble(w)
        PROVE  /\ UNCHANGED requests
               /\ UNCHANGED results \/ Publishes(w)
               /\ UNCHANGED memoryVars \/ Remembers(w)
    BY <1>1, WorkEffects
  <1>2. CASE \E j \in Jobs, request \in Requests : SubmitJob(j, request)
    BY <1>2 DEF SubmitJob
  <1>3. CASE \/ \E k \in Keys : PresignUpload(k)
             \/ \E k \in Keys, c \in Contents \cup {Nothing} : Upload(k, c)
    BY <1>3 DEF PresignUpload, Upload
  <1>4. CASE \/ \E w \in Workers, batch \in Batches : Receive(w, batch)
             \/ \E w \in Workers, j \in Jobs : Duplicate(w, j)
             \/ \E j \in Jobs : BecomeVisible(j)
    BY <1>4 DEF Receive, Duplicate, BecomeVisible, clientVars
  <1>5. CASE UNCHANGED vars
    BY <1>5 DEF vars, clientVars
  <1> QED
    BY <1>1, <1>2, <1>3, <1>4, <1>5 DEF Next

\* What a result has to do with the request of its job.
Answers(result, request) ==
    /\ Len(result.readings) = Len(request.keys)
    /\ \A i \in DOMAIN result.readings : result.readings[i].key = request.keys[i]

LEMMA AnswersStep ==
    Inv /\ ResultsAnswerTheirJob /\ [Next]_vars => ResultsAnswerTheirJob'
  <1> SUFFICES ASSUME Inv, ResultsAnswerTheirJob, [Next]_vars,
                      NEW j \in Jobs, results'[j] # NoResult
               PROVE  requests'[j] # NoRequest /\ Answers(results'[j], requests'[j])
    BY DEF ResultsAnswerTheirJob, Answers
  <1>1. results[j] # NoResult => requests[j] # NoRequest /\ Answers(results[j], requests[j])
    BY DEF ResultsAnswerTheirJob, Answers
  <1>2. CASE UNCHANGED <<requests, results>>
    BY <1>1, <1>2
  <1>3. ASSUME NEW k \in Jobs, NEW request \in Requests, SubmitJob(k, request),
               UNCHANGED results
        PROVE  requests'[j] # NoRequest /\ Answers(results'[j], requests'[j])
    BY <1>1, <1>3 DEF SubmitJob, Inv, TypeOK
  <1>4. ASSUME UNCHANGED requests, NEW w \in Workers, Publishes(w)
        PROVE  requests'[j] # NoRequest /\ Answers(results'[j], requests'[j])
    <2>1. CASE j # Current(w)
      BY <1>1, <1>4, <2>1 DEF Publishes, Inv, TypeOK
    <2>2. CASE j = Current(w)
      <3>1. results'[j] = ResultOf(w)
        BY <1>4, <2>2 DEF Publishes, Inv, TypeOK
      <3>2. RunOK(w) /\ run[w].pc = "publish"
        BY <1>4 DEF Publishes, Inv, Runs
      <3>3. requests[j] # NoRequest /\ Request(w) = requests[j]
        BY <2>2, <3>2, RequestTypes DEF Request, Inv, Queue
      <3> QED
        BY <1>4, <3>1, <3>2, <3>3 DEF Answers, ResultOf, RunOK, AtObject
    <2> QED
      BY <2>1, <2>2
  <1> QED
    BY <1>2, <1>3, <1>4, StepEffects

\* A result tells, for every object its job named and in that order, what it
\* was classified as, and nothing of the other records of the batch.
THEOREM ResultsCorrect == Spec => []ResultsAnswerTheirJob
  <1>1. Init => ResultsAnswerTheirJob
    BY DEF Init, ResultsAnswerTheirJob
  <1> QED
    BY <1>1, AnswersStep, Invariance, PTL DEF Spec

----------------------------------------------------------------------------
\* The documents and proposals of the workspaces.

DocumentKeysApart ==
    \A ws \in Workspaces, c \in Contents : documents[ws][c] # NoRow =>
        /\ WorkspaceOf[documents[ws][c].original] = ws
        /\ WorkspaceOf[documents[ws][c].current] = ws

ProposalsHaveDocuments ==
    \A p \in proposals :
        /\ requests[p.job] # NoRequest
        /\ documents[requests[p.job].workspace][p.content] # NoRow

\* The keys of a worker's readings are keys of the job's workspace.
LEMMA ReadingKeys ==
    ASSUME Inv, NEW w \in Workers, run[w].pc = "persist", NEW i \in DOMAIN run[w].readings
    PROVE  WorkspaceOf[run[w].readings[i].key] = Request(w).workspace
  <1>1. RunOK(w) /\ run[w].readings \in Seq(Readings)
    BY DEF Inv, Runs, TypeOK, Invocations
  <1>2. Request(w).keys \in Seq(Keys) /\ ValidRequest(Request(w))
    BY RequestTypes
  <1>3. i \in DOMAIN Request(w).keys /\ run[w].readings[i].key = Request(w).keys[i]
    BY <1>1, <1>2 DEF RunOK, AtObject
  <1> QED
    BY <1>2, <1>3 DEF ValidRequest

LEMMA KeysApartStep ==
    Inv /\ DocumentKeysApart /\ [Next]_vars => DocumentKeysApart'
  <1> SUFFICES ASSUME Inv, DocumentKeysApart, [Next]_vars,
                      NEW ws \in Workspaces, NEW c \in Contents, documents'[ws][c] # NoRow
               PROVE  /\ WorkspaceOf[documents'[ws][c].original] = ws
                      /\ WorkspaceOf[documents'[ws][c].current] = ws
    BY DEF DocumentKeysApart
  <1>1. CASE documents'[ws][c] = documents[ws][c]
    BY <1>1 DEF DocumentKeysApart
  <1>2. ASSUME NEW w \in Workers, Remembers(w), documents'[ws][c] # documents[ws][c]
        PROVE  /\ WorkspaceOf[documents'[ws][c].original] = ws
               /\ WorkspaceOf[documents'[ws][c].current] = ws
    <2>1. StoredBy(w) /\ run[w].pc = "persist"
      BY <1>2, DocumentsStored DEF Remembers
    <2> QED
      BY <1>2, <2>1, ReadingKeys DEF StoredBy, DocumentKeysApart
  <1> QED
    BY <1>1, <1>2, StepEffects DEF memoryVars

LEMMA ProposalsStep ==
    Inv /\ ProposalsHaveDocuments /\ [Next]_vars => ProposalsHaveDocuments'
  <1> SUFFICES ASSUME Inv, ProposalsHaveDocuments, [Next]_vars, NEW p \in proposals'
               PROVE  /\ requests'[p.job] # NoRequest
                      /\ documents'[requests'[p.job].workspace][p.content] # NoRow
    BY DEF ProposalsHaveDocuments
  <1>1. CASE UNCHANGED <<requests, memoryVars>>
    BY <1>1 DEF ProposalsHaveDocuments, memoryVars
  <1>2. ASSUME NEW j \in Jobs, NEW request \in Requests, SubmitJob(j, request)
        PROVE  /\ requests'[p.job] # NoRequest
               /\ documents'[requests'[p.job].workspace][p.content] # NoRow
    <2>1. p \in proposals /\ documents' = documents
      BY <1>2 DEF SubmitJob, memoryVars
    <2>2. requests[p.job] # NoRequest /\ documents[requests[p.job].workspace][p.content] # NoRow
      BY <2>1 DEF ProposalsHaveDocuments
    <2>3. p.job \in Jobs
      BY <2>1 DEF Inv, TypeOK, Proposals
    <2>4. requests'[p.job] = requests[p.job]
      BY <1>2, <2>2, <2>3 DEF SubmitJob, Inv, TypeOK
    <2> QED
      BY <2>1, <2>2, <2>4
  <1>3. ASSUME UNCHANGED requests, NEW w \in Workers, Remembers(w)
        PROVE  /\ requests'[p.job] # NoRequest
               /\ documents'[requests'[p.job].workspace][p.content] # NoRow
    <2>1. StoredBy(w) /\ run[w].pc = "persist"
      BY <1>3, DocumentsStored DEF Remembers
    <2>2. CASE p \in proposals
      <3>1. requests[p.job] # NoRequest
            /\ documents[requests[p.job].workspace][p.content] # NoRow
        BY <2>2 DEF ProposalsHaveDocuments
      <3>2. p.job \in Jobs /\ p.content \in Contents
        BY <2>2 DEF Inv, TypeOK, Proposals
      <3>3. requests[p.job].workspace \in Workspaces
        BY <3>1, <3>2, RequestAssumption DEF Inv, TypeOK
      <3> QED
        BY <1>3, <2>1, <3>1, <3>2, <3>3 DEF StoredBy
    <2>3. CASE p \notin proposals
      <3>1. PICK i \in DOMAIN run[w].readings :
               p = NewProposal(Current(w), i, run[w].readings[i])
        BY <2>1, <2>3 DEF StoredBy
      <3>2. p.job = Current(w) /\ p.content = run[w].readings[i].content
        BY <3>1 DEF NewProposal
      <3>3. requests[p.job] # NoRequest /\ requests[p.job] = Request(w)
        BY <2>1, <3>2, RequestTypes DEF Request, Inv, Queue
      <3> QED
        BY <1>3, <2>1, <3>2, <3>3 DEF StoredBy
    <2> QED
      BY <2>2, <2>3
  <1> QED
    BY <1>1, <1>2, <1>3, StepEffects

\* The memory knows a workspace's documents by keys of that workspace only, and
\* every proposal is for a document it knows in the job's workspace.
THEOREM WorkspacesCorrect == Spec => []WorkspacesKeepApart
  <1>1. Init => DocumentKeysApart /\ ProposalsHaveDocuments
    BY DEF Init, DocumentKeysApart, ProposalsHaveDocuments
  <1>2. DocumentKeysApart /\ ProposalsHaveDocuments => WorkspacesKeepApart
    BY DEF DocumentKeysApart, ProposalsHaveDocuments, WorkspacesKeepApart
  <1> QED
    BY <1>1, <1>2, KeysApartStep, ProposalsStep, Invariance, PTL DEF Spec
----------------------------------------------------------------------------
\* What a result and the memory say of a job that was delivered once.

\* A batch has no job twice.
Distinct(w) ==
    \A i, k \in DOMAIN run[w].batch : run[w].batch[i] = run[w].batch[k] => i = k

\* The records of a batch the worker has not stored yet.
Ahead(w) ==
    {i \in DOMAIN run[w].batch :
        \/ i > run[w].at
        \/ i = run[w].at /\ run[w].pc \in {"verify", "classify", "persist"}}

Untouched(j) == results[j] = NoResult /\ \A p \in proposals : p.job # j

Agrees(j, readings) ==
    \A i \in DOMAIN readings : NewProposal(j, i, readings[i]) \in proposals

\* A job nobody received yet has left no trace.  One that was received once is
\* in one worker's hands at most, has left no trace before that worker stores
\* its proposals, and from then on what the worker read and what the result
\* says are what was stored.
Single(j) ==
    /\ receives[j] = 0 => Untouched(j) /\ \A w \in Workers : ~Holds(w, j)
    /\ receives[j] = 1 =>
          /\ \A v, w \in Workers : Holds(v, j) /\ Holds(w, j) => v = w
          /\ \A w \in Workers : \A i \in Ahead(w) : run[w].batch[i] = j => Untouched(j)
          /\ MemoryConfigured =>
                /\ \A w \in Workers : run[w].pc = "publish" /\ Current(w) = j =>
                      Agrees(j, run[w].readings)
                /\ results[j] # NoResult => Agrees(j, results[j].readings)

Singles == duplicates = 0 => \A j \in Jobs : Single(j)
Batched == \A w \in Workers : Distinct(w)

\* A worker that leaves its record has the record behind it.
LEMMA LeavesRecord ==
    ASSUME Inv, NEW w \in Workers, run[w].pc # "idle", NEW failed \in SUBSET Jobs,
           run' = [run EXCEPT ![w] = NextRecord(w, failed)]
    PROVE  /\ \A v \in Workers \ {w} : run'[v] = run[v]
           /\ run'[w].batch = run[w].batch
           /\ run'[w].pc \in {"verify", "answer"}
           /\ Ahead(w)' \subseteq Ahead(w) \ {run[w].at}
  <1> DEFINE r == NextRecord(w, failed)
  <1>1. run \in [Workers -> Invocations] /\ run[w] \in Invocations /\ AtRecord(w)
    BY DEF Inv, TypeOK, Runs, RunOK
  <1>2. /\ r.batch = run[w].batch /\ r.pc \in {"verify", "answer"}
        /\ r.pc = "verify" => r.at = run[w].at + 1
        /\ r.pc = "answer" => r.at = run[w].at /\ ~(run[w].at < Len(run[w].batch))
    BY <1>1 DEF NextRecord, Invocations
  <1>3. run'[w] = r /\ \A v \in Workers \ {w} : run'[v] = run[v]
    BY <1>1
  <1> HIDE DEF r
  <1>4. run[w].at \in Nat /\ DOMAIN run[w].batch = 1..Len(run[w].batch)
        /\ Len(run[w].batch) \in Nat
    BY <1>1 DEF Invocations
  <1>5. Ahead(w)' \subseteq Ahead(w) \ {run[w].at}
    BY <1>2, <1>3, <1>4 DEF Ahead
  <1> QED
    BY <1>2, <1>3, <1>5

\* Where a step leaves a worker: it ends, or stays in its batch and has no more
\* before it than it had; what it has stored or tried to store is behind it.
LEMMA WorkerMoves ==
    ASSUME Inv, NEW w \in Workers, Work(w) \/ Trouble(w)
    PROVE  /\ run[w].pc # "idle"
           /\ \A v \in Workers \ {w} : run'[v] = run[v]
           /\ UNCHANGED <<receives, duplicates>>
           /\ \/ run'[w] = Idle
              \/ /\ run'[w].batch = run[w].batch
                 /\ Ahead(w)' \subseteq Ahead(w)
                 /\ run[w].pc \in {"persist", "publish"} => run[w].at \notin Ahead(w)'
                 /\ run'[w].pc = "publish" =>
                       /\ Persist(w)
                       /\ run'[w].at = run[w].at
                       /\ run'[w].readings = run[w].readings
  <1>1. /\ run \in [Workers -> Invocations] /\ run[w] \in Invocations
        /\ run[w].failed \in SUBSET Jobs
    BY DEF Inv, TypeOK, Invocations
  <1>2. CASE AnswerBatch(w) \/ Stop(w)
    BY <1>1, <1>2 DEF AnswerBatch, Stop, queueVars
  <1>3. ASSUME run[w].pc # "idle", NEW failed \in SUBSET Jobs,
               run' = [run EXCEPT ![w] = NextRecord(w, failed)],
               UNCHANGED <<receives, duplicates>>
        PROVE  /\ \A v \in Workers \ {w} : run'[v] = run[v]
               /\ run'[w].batch = run[w].batch
               /\ Ahead(w)' \subseteq Ahead(w) \ {run[w].at}
               /\ run'[w].pc # "publish"
    BY <1>3, LeavesRecord
  <1>4. CASE \/ RefuseObject(w) \/ RefuseContent(w) \/ WriteResult(w)
             \/ PersistUnacknowledged(w) \/ WriteResultUnacknowledged(w) \/ CallFails(w)
    <2>1. run[w].pc # "idle" /\ UNCHANGED <<receives, duplicates>>
      BY <1>4 DEF RefuseObject, RefuseContent, WriteResult, PersistUnacknowledged,
         WriteResultUnacknowledged, CallFails, queueVars
    <2>2. Current(w) \in Jobs
      BY <2>1, RequestTypes
    <2>3. \E failed \in SUBSET Jobs : run' = [run EXCEPT ![w] = NextRecord(w, failed)]
      <3>1. CASE WriteResult(w)
        BY <1>1, <3>1 DEF WriteResult
      <3>2. CASE RecordFails(w)
        BY <1>1, <2>2, <3>2 DEF RecordFails
      <3> QED
        BY <1>4, <3>1, <3>2 DEF RefuseObject, RefuseContent, PersistUnacknowledged,
           WriteResultUnacknowledged, CallFails
    <2> QED
      BY <1>3, <2>1, <2>3
  <1>5. CASE VerifyObject(w)
    <2>1. /\ run[w].pc = "verify" /\ run'[w].pc \in {"verify", "classify"}
          /\ run'[w].batch = run[w].batch /\ run'[w].at = run[w].at
          /\ \A v \in Workers \ {w} : run'[v] = run[v]
      BY <1>1, <1>5 DEF VerifyObject, Invocations
    <2>2. UNCHANGED <<receives, duplicates>>
      BY <1>5 DEF VerifyObject, queueVars
    <2> QED
      BY <2>1, <2>2 DEF Ahead
  <1>6. CASE \E class \in Classes : ClassifyObject(w, class)
    <2>1. /\ run[w].pc = "classify" /\ run'[w].pc \in {"classify", "persist"}
          /\ run'[w].batch = run[w].batch /\ run'[w].at = run[w].at
          /\ \A v \in Workers \ {w} : run'[v] = run[v]
      BY <1>1, <1>6 DEF ClassifyObject, Invocations
    <2>2. UNCHANGED <<receives, duplicates>>
      BY <1>6 DEF ClassifyObject, queueVars
    <2> QED
      BY <2>1, <2>2 DEF Ahead
  <1>7. CASE Persist(w)
    <2>1. /\ run[w].pc = "persist" /\ run'[w].pc = "publish"
          /\ run'[w].batch = run[w].batch /\ run'[w].at = run[w].at
          /\ run'[w].readings = run[w].readings
          /\ \A v \in Workers \ {w} : run'[v] = run[v]
      BY <1>1, <1>7 DEF Persist, Invocations
    <2>2. UNCHANGED <<receives, duplicates>>
      BY <1>7 DEF Persist, queueVars
    <2>3. run[w].at \in Nat
      BY <1>1 DEF Invocations
    <2> QED
      BY <1>7, <2>1, <2>2, <2>3 DEF Ahead
  <1> QED
    BY <1>2, <1>4, <1>5, <1>6, <1>7 DEF Work, Trouble
\* What a worker starts with.
LEMMA Started ==
    ASSUME Inv, NEW w \in Workers, NEW batch,
           run' = [run EXCEPT ![w] = Starting(batch)]
    PROVE  /\ \A v \in Workers \ {w} : run'[v] = run[v]
           /\ run'[w].batch = batch
           /\ run'[w].pc = "verify"
  BY DEF Inv, TypeOK, Starting

LEMMA InItsBatch ==
    ASSUME Inv, NEW w \in Workers, run[w].pc # "idle"
    PROVE  run[w].at \in DOMAIN run[w].batch
  BY DEF Inv, TypeOK, Runs, RunOK, AtRecord, Invocations

LEMMA EmptyIdle == Idle.batch = <<>> /\ Idle.pc = "idle" /\ DOMAIN Idle.batch = {}
  BY DEF Idle

LEMMA InitSingles == Init => Batched /\ Singles
  <1> SUFFICES ASSUME Init PROVE Batched /\ Singles
    OBVIOUS
  <1>1. \A w \in Workers : run[w] = Idle
    BY DEF Init
  <1>2. Batched
    BY <1>1, EmptyIdle DEF Batched, Distinct
  <1>3. ASSUME NEW j \in Jobs PROVE Single(j)
    <2>1. receives[j] = 0 /\ results[j] = NoResult /\ proposals = {}
      BY <1>3 DEF Init
    <2> QED
      BY <1>1, <2>1, EmptyIdle DEF Single, Untouched, Holds
  <1> QED
    BY <1>2, <1>3 DEF Singles

LEMMA BatchedStep == Inv /\ Batched /\ [Next]_vars => Batched'
  <1> SUFFICES ASSUME Inv, Batched, [Next]_vars, NEW v \in Workers PROVE Distinct(v)'
    BY DEF Batched
  <1>1. Distinct(v)
    BY DEF Batched
  <1>2. CASE run' = run
    BY <1>1, <1>2 DEF Distinct
  <1>3. ASSUME NEW w \in Workers, Work(w) \/ Trouble(w) PROVE Distinct(v)'
    <2>1. run'[v] = Idle \/ run'[v].batch = run[v].batch
      BY <1>3, WorkerMoves
    <2> QED
      BY <1>1, <2>1, EmptyIdle DEF Distinct
  <1>4. ASSUME NEW w \in Workers, NEW batch \in Batches, Receive(w, batch)
        PROVE  Distinct(v)'
    <2>1. \A i, k \in DOMAIN batch : batch[i] = batch[k] => i = k
      BY <1>4 DEF Receive
    <2>2. run'[v] = run[v] \/ run'[v].batch = batch
      BY <1>4, Started DEF Receive
    <2> QED
      BY <1>1, <2>1, <2>2 DEF Distinct
  <1>5. ASSUME NEW w \in Workers, NEW j \in Jobs, Duplicate(w, j) PROVE Distinct(v)'
    <2>1. run'[v] = run[v] \/ run'[v].batch = <<j>>
      BY <1>5, Started DEF Duplicate
    <2> QED
      BY <1>1, <2>1 DEF Distinct
  <1> QED
    BY <1>2, <1>3, <1>4, <1>5
       DEF Next, vars, PresignUpload, Upload, SubmitJob, BecomeVisible

\* A delivery is the first one of the jobs it delivers, or no job's single one.
LEMMA ReceiveSingle ==
    ASSUME Inv, NEW w \in Workers, NEW batch \in Batches, Receive(w, batch),
           NEW j \in Jobs, Single(j)
    PROVE  Single(j)'
  <1>1. /\ receives \in [Jobs -> Nat] /\ run[w].pc = "idle"
        /\ UNCHANGED <<proposals, results>>
    BY BoundsAssumption DEF Receive, Inv, TypeOK, memoryVars
  <1>2. run[w] = Idle
    BY <1>1 DEF Inv, Runs, RunOK
  <1>3. /\ \A v \in Workers \ {w} : run'[v] = run[v]
        /\ run'[w].batch = batch /\ run'[w].pc = "verify"
    BY Started DEF Receive
  <1>4. receives'[j] = IF InBatch(batch, j) THEN receives[j] + 1 ELSE receives[j]
    BY DEF Receive, InBatch
  <1>5. Holds(w, j)' <=> InBatch(batch, j)
    BY <1>3 DEF Holds, InBatch
  <1>6. \A v \in Workers \ {w} : Holds(v, j)' <=> Holds(v, j)
    BY <1>3 DEF Holds
  <1>7. Untouched(j)' <=> Untouched(j)
    BY <1>1 DEF Untouched
  <1>8. CASE ~InBatch(batch, j)
    <2>1. receives'[j] = receives[j] /\ \A v \in Workers : Holds(v, j)' => Holds(v, j)
      BY <1>4, <1>5, <1>6, <1>8
    <2>2. \A v \in Workers : \A i \in Ahead(v)' : run'[v].batch[i] = j =>
             i \in Ahead(v) /\ run[v].batch[i] = j
      BY <1>3, <1>8 DEF Ahead, InBatch
    <2>3. \A v \in Workers : run'[v].pc = "publish" => run'[v] = run[v]
      BY <1>3
    <2> QED
      BY <1>1, <1>7, <2>1, <2>2, <2>3 DEF Single, Agrees, Current
  <1>9. CASE InBatch(batch, j)
    <2>1. receives'[j] # 0 /\ (receives'[j] = 1 => receives[j] = 0)
      BY <1>1, <1>4, <1>9
    <2>2. ASSUME receives[j] = 0
          PROVE  /\ Untouched(j)'
                 /\ \A v \in Workers : Holds(v, j)' => v = w
                 /\ \A v \in Workers : run'[v].pc = "publish" => Current(v)' # j
      <3>1. Untouched(j)' /\ \A v \in Workers : ~Holds(v, j)
        BY <1>7, <2>2 DEF Single
      <3>2. ASSUME NEW v \in Workers, run'[v].pc = "publish" PROVE Current(v)' # j
        <4>1. run'[v] = run[v] /\ run[v].pc # "idle"
          BY <1>3, <3>2
        <4>2. run[v].at \in DOMAIN run[v].batch
          BY <4>1, InItsBatch
        <4> QED
          BY <3>1, <4>1, <4>2 DEF Holds, Current
      <3> QED
        BY <1>6, <3>1, <3>2
    <2> QED
      BY <2>1, <2>2 DEF Single, Untouched
  <1> QED
    BY <1>8, <1>9

\* A step of a worker.
LEMMA WorkSingle ==
    ASSUME Inv, Batched, NEW w \in Workers, Work(w) \/ Trouble(w),
           NEW j \in Jobs, Single(j)
    PROVE  Single(j)'
  <1>1. /\ run[w].pc # "idle" /\ receives' = receives
        /\ \A v \in Workers \ {w} : run'[v] = run[v]
    BY WorkerMoves
  <1>2. \A v \in Workers : Holds(v, j)' => Holds(v, j)
    BY WorkerMoves, EmptyIdle DEF Holds
  <1>3. Current(w) = j => Holds(w, j)
    <2>1. run[w].at \in DOMAIN run[w].batch
      BY <1>1, InItsBatch
    <2> QED
      BY <2>1 DEF Holds, Current
  <1>4. /\ UNCHANGED results \/ Publishes(w)
        /\ UNCHANGED memoryVars \/ Remembers(w)
    BY WorkEffects
  <1>5. Untouched(j) /\ ~Untouched(j)' => Current(w) = j /\ run[w].pc \in {"persist", "publish"}
    <2>1. ASSUME Publishes(w), results'[j] # results[j] PROVE Current(w) = j
      BY <2>1 DEF Publishes, Inv, TypeOK
    <2>2. ASSUME Remembers(w), NEW p \in proposals' \ proposals PROVE p.job = Current(w)
      BY <2>2 DEF Remembers, Stores, ProposalsInserted, NewProposal
    <2> QED
      BY <1>4, <2>1, <2>2 DEF Untouched, Publishes, Remembers, memoryVars
  <1>6. proposals \subseteq proposals'
    BY <1>4 DEF Remembers, Stores, ProposalsInserted, memoryVars
  <1>7. \A readings : Agrees(j, readings) => \A i \in DOMAIN readings :
           NewProposal(j, i, readings[i]) \in proposals'
    BY <1>6 DEF Agrees
  <1>8. ASSUME receives'[j] = 0
        PROVE  Untouched(j)' /\ \A v \in Workers : ~Holds(v, j)'
    BY <1>1, <1>2, <1>3, <1>5, <1>8 DEF Single
  <1>9. ASSUME receives'[j] = 1, NEW v \in Workers, NEW i \in Ahead(v)', run'[v].batch[i] = j
        PROVE  Untouched(j)'
    <2>1. i \in Ahead(v) /\ run[v].batch[i] = j /\ i \in DOMAIN run[v].batch
      <3>1. CASE v # w
        BY <1>1, <1>9, <3>1 DEF Ahead
      <3>2. CASE v = w
        BY <1>9, <3>2, WorkerMoves, EmptyIdle DEF Ahead
      <3> QED
        BY <3>1, <3>2
    <2>2. Untouched(j)
      BY <1>1, <1>9, <2>1 DEF Single
    <2>3. SUFFICES ASSUME ~Untouched(j)' PROVE FALSE
      OBVIOUS
    <2>4. Current(w) = j /\ run[w].pc \in {"persist", "publish"}
      BY <1>5, <2>2, <2>3
    <2>5. v = w
      BY <1>1, <1>3, <1>9, <2>1, <2>4 DEF Single, Holds
    <2>6. i = run[w].at
      <3>1. run[w].at \in DOMAIN run[w].batch
        BY <1>1, InItsBatch
      <3> QED
        BY <2>1, <2>4, <2>5, <3>1 DEF Batched, Distinct, Current
    <2> QED
      BY <1>9, <2>4, <2>5, <2>6, WorkerMoves, EmptyIdle DEF Ahead
  <1>10. ASSUME receives'[j] = 1, MemoryConfigured, NEW v \in Workers,
                run'[v].pc = "publish", Current(v)' = j
         PROVE  \A i \in DOMAIN run'[v].readings :
                   NewProposal(j, i, run'[v].readings[i]) \in proposals'
    <2>1. CASE v # w
      BY <1>1, <1>7, <1>10, <2>1 DEF Single, Current
    <2>2. CASE v = w
      <3>1. /\ Persist(w) /\ run'[w].batch = run[w].batch
            /\ run'[w].at = run[w].at /\ run'[w].readings = run[w].readings
        BY <1>10, <2>2, WorkerMoves, EmptyIdle
      <3>2. Current(w) = j
        BY <1>10, <2>2, <3>1 DEF Current
      <3>3. run[w].at \in Ahead(w)
        BY <1>1, <3>1, InItsBatch DEF Ahead, Persist
      <3>4. Untouched(j)
        BY <1>1, <1>10, <3>2, <3>3 DEF Single, Current
      <3>5. ProposalsInserted(j, run[w].readings)
        BY <1>10, <3>1, <3>2 DEF Persist, Stores
      <3>6. \A i \in DOMAIN run[w].readings : ~Known(j, i, run[w].readings[i].content)
        BY <3>4 DEF Untouched, Known
      <3> QED
        BY <2>2, <3>1, <3>5, <3>6 DEF ProposalsInserted
    <2> QED
      BY <2>1, <2>2
  <1>11. ASSUME receives'[j] = 1, MemoryConfigured, results'[j] # NoResult
         PROVE  \A i \in DOMAIN results'[j].readings :
                   NewProposal(j, i, results'[j].readings[i]) \in proposals'
    <2>1. CASE results'[j] = results[j]
      BY <1>1, <1>7, <1>11, <2>1 DEF Single
    <2>2. CASE results'[j] # results[j]
      <3>1. Publishes(w) /\ Current(w) = j
        BY <1>4, <2>2 DEF Publishes, Inv, TypeOK
      <3>2. results'[j].readings = run[w].readings
        BY <3>1 DEF Publishes, ResultOf, Inv, TypeOK
      <3> QED
        BY <1>1, <1>7, <1>11, <3>1, <3>2 DEF Single, Publishes
    <2> QED
      BY <2>1, <2>2
  <1> QED
    BY <1>1, <1>2, <1>8, <1>9, <1>10, <1>11 DEF Single, Agrees

LEMMA SinglesStep == Inv /\ Batched /\ Singles /\ [Next]_vars => Singles'
  <1> SUFFICES ASSUME Inv, Batched, Singles, [Next]_vars, duplicates' = 0, NEW j \in Jobs
               PROVE  Single(j)'
    BY DEF Singles
  <1>1. duplicates \in Nat
    BY BoundsAssumption DEF Inv, TypeOK
  <1>2. CASE UNCHANGED <<receives, duplicates, run, proposals, results>>
    BY <1>2 DEF Singles, Single, Untouched, Holds, Ahead, Agrees, Current
  <1>3. ASSUME NEW w \in Workers, Work(w) \/ Trouble(w) PROVE Single(j)'
    BY <1>3, WorkerMoves, WorkSingle DEF Singles
  <1>4. ASSUME NEW w \in Workers, NEW batch \in Batches, Receive(w, batch) PROVE Single(j)'
    <2>1. duplicates = 0
      BY <1>4 DEF Receive
    <2> QED
      BY <1>4, <2>1, ReceiveSingle DEF Singles
  <1>5. \A w \in Workers, k \in Jobs : ~Duplicate(w, k)
    BY <1>1 DEF Duplicate
  <1> QED
    BY <1>2, <1>3, <1>4, <1>5
       DEF Next, vars, queueVars, memoryVars, PresignUpload, Upload, SubmitJob, BecomeVisible

\* A job that was delivered once, in whatever batch and beside whatever other
\* workers, has a result that says what the memory says.
THEOREM SingleDeliveries == Spec => []SingleDeliveriesAgree
  <1>1. Singles => SingleDeliveriesAgree
    BY DEF Singles, Single, Agrees, SingleDeliveriesAgree
  <1> QED
    BY <1>1, InitSingles, BatchedStep, SinglesStep, Invariance, PTL DEF Spec
============================================================================
