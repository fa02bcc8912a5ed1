--------------------------- MODULE BatchPromise ---------------------------
(***************************************************************************)
(* What executing an approved batch promises, without the calls, their     *)
(* times and their readings: the life of each item.  Files change only for *)
(* items that were approved and taken on.  A destination is created where  *)
(* nothing is and filled once, and a moved source is discarded only after  *)
(* that; unless the owner interferes, with exactly what was approved.  An  *)
(* item is settled once; trail and answers say how, and nothing else.      *)
(***************************************************************************)
CONSTANTS
    Items, Runners, Paths, Contents,
    Src, Dst,    \* source and destination path of each item
    Op,          \* "COPY" or "MOVE"
    Absent, Partial,
    NoAnswer     \* a call that has not returned

VARIABLES
    fs,          \* what is at each path
    itemState,   \* of each item: NEW, PLANNED, BLOCKED, APPROVED
    expected,    \* the content of each item that the approval is for
    outcome,     \* of each item: OPEN, EXECUTING, or the status it ended with
    trail,       \* pairs of an item and its status
    answers,     \* of each call: the statuses of the approved items
    edited       \* the owner has interfered

vars == <<fs, itemState, expected, outcome, trail, answers, edited>>

Statuses == {"SUCCEEDED", "BLOCKED", "FAILED", "VERIFICATION_FAILED"}

Approved == {i \in Items : itemState[i] = "APPROVED"}

\* Items whose files may change.
TakenOn(i) == i \in Approved /\ outcome[i] # "OPEN"

Init ==
    /\ fs \in [Paths -> Contents \cup {Absent}]
    /\ itemState = [i \in Items |-> "NEW"]
    /\ expected = [i \in Items |-> Absent]
    /\ outcome = [i \in Items |-> "OPEN"]
    /\ trail = {}
    /\ answers = [r \in Runners |-> NoAnswer]
    /\ edited = FALSE

\* The batch is offered for approval: what is there, where there is room.
Offer ==
    /\ \A i \in Items : itemState[i] = "NEW"
    /\ itemState' \in [Items -> {"PLANNED", "BLOCKED"}]
    /\ expected' = [i \in Items |->
                       IF itemState'[i] = "PLANNED" THEN fs[Src[i]] ELSE Absent]
    /\ \A i \in Items : itemState'[i] = "PLANNED" =>
          fs[Src[i]] # Absent /\ (edited \/ fs[Dst[i]] = Absent)
    /\ UNCHANGED <<fs, outcome, trail, answers, edited>>

\* All that is offered is approved.
Approve ==
    /\ itemState' = [i \in Items |-> IF itemState[i] = "PLANNED"
                                     THEN "APPROVED" ELSE itemState[i]]
    /\ UNCHANGED <<fs, expected, outcome, trail, answers, edited>>

Take(i) ==
    /\ i \in Approved
    /\ outcome[i] = "OPEN"
    /\ outcome' = [outcome EXCEPT ![i] = "EXECUTING"]
    /\ UNCHANGED <<fs, itemState, expected, trail, answers, edited>>

\* The destination is created, where nothing is.
Create(i) ==
    /\ TakenOn(i)
    /\ fs[Dst[i]] = Absent
    /\ fs' = [fs EXCEPT ![Dst[i]] = Partial]
    /\ UNCHANGED <<itemState, expected, outcome, trail, answers, edited>>

\* It is filled with what was approved.
Fill(i) ==
    /\ TakenOn(i)
    /\ fs[Dst[i]] = Partial
    /\ \E c \in Contents : /\ edited \/ c = expected[i]
                           /\ fs' = [fs EXCEPT ![Dst[i]] = c]
    /\ UNCHANGED <<itemState, expected, outcome, trail, answers, edited>>

\* The source of a move is discarded, once its content is in place.
Discard(i) ==
    /\ TakenOn(i)
    /\ Op = "MOVE"
    /\ fs[Src[i]] # Absent
    /\ edited \/ (expected[i] \in Contents =>
                     fs[Src[i]] = expected[i] /\ fs[Dst[i]] = expected[i])
    /\ fs' = [fs EXCEPT ![Src[i]] = Absent]
    /\ UNCHANGED <<itemState, expected, outcome, trail, answers, edited>>

\* What success means.
Done(i) == fs[Dst[i]] = expected[i] /\ (Op = "MOVE" => fs[Src[i]] = Absent)

\* An item is settled: only BLOCKED without having been taken on.
Settle(i) ==
    /\ i \in Approved
    /\ outcome[i] \in {"OPEN", "EXECUTING"}
    /\ \E status \in Statuses :
          /\ outcome[i] = "OPEN" => status = "BLOCKED"
          /\ status = "SUCCEEDED" /\ ~edited /\ expected[i] \in Contents => Done(i)
          /\ outcome' = [outcome EXCEPT ![i] = status]
    /\ UNCHANGED <<fs, itemState, expected, trail, answers, edited>>

\* The trail tells how an item was settled.
Tell(i) ==
    /\ outcome[i] \in Statuses
    /\ trail' = trail \cup {<<i, outcome[i]>>}
    /\ UNCHANGED <<fs, itemState, expected, outcome, answers, edited>>

\* A call returns when every approved item is settled, and says how.
Answer(r) ==
    /\ \A i \in Approved : outcome[i] \in Statuses
    /\ answers' = [answers EXCEPT ![r] = [i \in Approved |-> outcome[i]]]
    /\ UNCHANGED <<fs, itemState, expected, outcome, trail, edited>>

\* A caller that has its answer calls again.
Ask(r) ==
    /\ answers' = [answers EXCEPT ![r] = NoAnswer]
    /\ UNCHANGED <<fs, itemState, expected, outcome, trail, edited>>

\* The process is lost with all it knew; the files are as they are.
Forget ==
    /\ itemState' = [i \in Items |-> "NEW"]
    /\ expected' = [i \in Items |-> Absent]
    /\ outcome' = [i \in Items |-> "OPEN"]
    /\ trail' = {}
    /\ answers' = [r \in Runners |-> NoAnswer]
    /\ UNCHANGED <<fs, edited>>

\* The owner changes a file.
Interfere ==
    /\ \E p \in Paths, c \in Contents \cup {Absent} : fs' = [fs EXCEPT ![p] = c]
    /\ edited' = TRUE
    /\ UNCHANGED <<itemState, expected, outcome, trail, answers>>

Next ==
    \/ Offer \/ Approve \/ Forget \/ Interfere
    \/ \E i \in Items : Take(i) \/ Create(i) \/ Fill(i) \/ Discard(i) \/ Settle(i) \/ Tell(i)
    \/ \E r \in Runners : Answer(r) \/ Ask(r)

Spec == Init /\ [][Next]_vars
============================================================================
