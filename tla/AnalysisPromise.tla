-------------------------- MODULE AnalysisPromise --------------------------
(***************************************************************************)
(* What the cloud analysis promises its clients and the memory, without    *)
(* the queue and the workers: a job is answered only when its result can   *)
(* be read, a result that calls itself persisted tells only of documents   *)
(* that the memory has a proposal for, and the memory keeps the first      *)
(* proposal it is given for an item of a job and a content.                *)
(***************************************************************************)
CONSTANTS
    Jobs,
    NoResult     \* no result artifact for a job

VARIABLES
    status,      \* of each job: unknown, pending, answered, abandoned
    proposals,   \* records with a job, an item of it, a content and a class
    results      \* of each job: NoResult, or its status and its readings

vars == <<status, proposals, results>>

SameItem(p, q) == p.job = q.job /\ p.item = q.item /\ p.content = q.content

Remembered(j, result) ==
    \A i \in DOMAIN result.readings : \E p \in proposals :
        p.job = j /\ p.item = i /\ p.content = result.readings[i].content

Init ==
    /\ status = [j \in Jobs |-> "unknown"]
    /\ proposals = {}
    /\ results = [j \in Jobs |-> NoResult]

\* A client hands in a job.
Submit(j) ==
    /\ status[j] = "unknown"
    /\ status' = [status EXCEPT ![j] = "pending"]
    /\ UNCHANGED <<proposals, results>>

\* Proposals are added for items of the job that have none for that content.
Remember(j) ==
    /\ status[j] # "unknown"
    /\ proposals \subseteq proposals'
    /\ \A p \in proposals' \ proposals :
          /\ p.job = j
          /\ \A q \in proposals' : SameItem(p, q) => p = q
    /\ UNCHANGED <<status, results>>

\* A result is published, possibly again.
Publish(j) ==
    /\ status[j] # "unknown"
    /\ \E result \in {results'[j]} :
          /\ result # NoResult
          /\ result.status = "persisted" => Remembered(j, result)
          /\ results' = [results EXCEPT ![j] = result]
    /\ UNCHANGED <<status, proposals>>

\* Jobs are done with: all of them have a result to read.
Answer ==
    /\ \E done \in SUBSET {j \in Jobs : status[j] = "pending" /\ results[j] # NoResult} :
          status' = [j \in Jobs |-> IF j \in done THEN "answered" ELSE status[j]]
    /\ UNCHANGED <<proposals, results>>

\* A job is given up.
Abandon(j) ==
    /\ status[j] = "pending"
    /\ status' = [status EXCEPT ![j] = "abandoned"]
    /\ UNCHANGED <<proposals, results>>

Next ==
    \/ \E j \in Jobs : Submit(j) \/ Remember(j) \/ Publish(j) \/ Abandon(j)
    \/ Answer

Spec == Init /\ [][Next]_vars
============================================================================
