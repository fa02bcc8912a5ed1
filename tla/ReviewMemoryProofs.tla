------------------------ MODULE ReviewMemoryProofs ------------------------
(***************************************************************************)
(* Theorems about ReviewMemory, for every set of paths and documents and   *)
(* every bound.                                                            *)
(***************************************************************************)
EXTENDS ReviewMemory, FiniteSetTheorems, TLAPS

LEMMA Identifiers ==
    /\ "desktop" \in Writers /\ "cloud" \in Writers
    /\ \A w \in Writers, d \in Documents : <<w, d>> \in ProposalIds
  BY DEF Writers, ProposalIds

LEMMA DecisionRowsType ==
    ASSUME NEW s \in Seq(DecisionRows)
    PROVE  \A k \in DOMAIN s : s[k].proposal \in ProposalIds
  <1>1. \A k \in DOMAIN s : s[k] \in DecisionRows
    OBVIOUS
  <1> QED
    BY <1>1 DEF DecisionRows

LEMMA StatusType ==
    ASSUME NEW action
    PROVE  ProposalStatus(action) \in {"needs_review", "approved", "rejected"}
  BY DEF ProposalStatus

----------------------------------------------------------------------------
\* The inductive invariant.

\* A proposal is stored with its document, and decisions are about proposals.
StoredTogether ==
    /\ \A d \in Documents : proposals[<<"desktop", d>>] # NoRow => documents[d] # NoRow
    /\ \A k \in DOMAIN decisions : proposals[decisions[k].proposal] # NoRow

\* A row in review has a stored proposal, a row that is MOVED has its move in
\* file_history; both have complete paths.
RowOK(row) ==
    /\ row \in TableRows
    /\ row.status \in {"REVIEW", "MOVED"} =>
          row.document \in Documents /\ row.previous \in Paths /\ row.next \in Paths
    /\ row.status = "REVIEW" => proposals[<<"desktop", row.document>>] # NoRow
    /\ row.status = "MOVED" =>
          /\ row.path = row.next
          /\ \E k \in DOMAIN history[row.document] :
                /\ history[row.document][k].previous = row.previous
                /\ history[row.document][k].next = row.next

RowsOK(table) ==
    /\ table \in [Paths -> TableRows \cup {NoRow}]
    /\ \A p \in Paths : table[p] # NoRow => RowOK(table[p])

\* While a decision is due, its file stays where the approval moved it.
ApprovedFileWaits ==
    approving # NoRow =>
        /\ rows[approving] # NoRow /\ rows[approving].status = "REVIEW"
        /\ Len(decisions) < MaxDecisions
        /\ fs[rows[approving].next] # NoFile
        /\ fs[rows[approving].previous] = NoFile

IInv ==
    /\ TypeOK
    /\ Len(decisions) <= MaxDecisions
    /\ StoredTogether
    /\ RowsOK(rows)
    /\ ApprovedFileWaits
    /\ MovesAreApproved
    /\ MovedMeansHistory

LEMMA InitIInv == Init => IInv
  <1> SUFFICES ASSUME Init PROVE IInv
    OBVIOUS
  <1> USE DEF Init
  <1>1. TypeOK
    BY BoundsAssumption DEF TypeOK
  <1>2. Len(decisions) <= MaxDecisions
    BY BoundsAssumption
  <1>3. StoredTogether /\ RowsOK(rows) /\ ApprovedFileWaits
    BY Identifiers DEF StoredTogether, RowsOK, ApprovedFileWaits
  <1>4. MovesAreApproved /\ MovedMeansHistory
    BY DEF MovesAreApproved, MovedMeansHistory
  <1> QED
    BY <1>1, <1>2, <1>3, <1>4 DEF IInv

----------------------------------------------------------------------------
\* What the repository's methods leave in the tables.

\* Both tables keep their types, and a row that is there stays there.
MemoryGrows ==
    /\ documents' \in [Documents -> DocumentRows \cup {NoRow}]
    /\ proposals' \in [ProposalIds -> ProposalRows \cup {NoRow}]
    /\ \A d \in Documents : documents[d] # NoRow => documents'[d] # NoRow
    /\ \A q \in ProposalIds : proposals[q] # NoRow => proposals'[q] # NoRow
    /\ StoredTogether'

LEMMA AnalysisStores ==
    ASSUME IInv, NEW w \in Writers, NEW d \in Documents, NEW p \in Places,
           NEW destination \in Places, PersistAnalysis(w, d, p, destination)
    PROVE  /\ MemoryGrows
           /\ proposals'[<<w, d>>] # NoRow
           /\ MovesAreApproved'
           /\ MovedMeansHistory'
  <1> USE DEF PersistAnalysis
  <1>1. TypeOK /\ StoredTogether /\ MovesAreApproved /\ MovedMeansHistory
    BY DEF IInv
  <1>2. documents' \in [Documents -> DocumentRows \cup {NoRow}]
    BY <1>1 DEF TypeOK, UpsertDocument, DocumentRows
  <1>3. proposals' \in [ProposalIds -> ProposalRows \cup {NoRow}]
    BY <1>1, Identifiers DEF TypeOK, InsertProposal, ProposalRows
  <1>4. documents'[d] # NoRow /\ documents'[d].status = "proposed"
    <2>1. CASE documents[d] = NoRow
      BY <1>1, <2>1, RowsAssumption DEF TypeOK, UpsertDocument, DocumentRows
    <2>2. CASE documents[d] # NoRow
      <3>1. documents[d] \in DocumentRows
        BY <1>1, <2>2 DEF TypeOK
      <3>2. documents'[d] = [documents[d] EXCEPT !.current = p, !.status = "proposed"]
        BY <1>1, <2>2 DEF TypeOK, UpsertDocument
      <3>3. documents'[d] \in DocumentRows /\ documents'[d].status = "proposed"
        BY <3>1, <3>2 DEF DocumentRows
      <3> QED
        BY <3>3, RowsAssumption
    <2> QED
      BY <2>1, <2>2
  <1>5. \A x \in Documents \ {d} : documents'[x] = documents[x]
    BY <1>1 DEF TypeOK, UpsertDocument
  <1>6. proposals'[<<w, d>>] # NoRow
    BY <1>1, Identifiers, RowsAssumption DEF TypeOK, InsertProposal, ProposalRows
  <1>7. \A q \in ProposalIds \ {<<w, d>>} : proposals'[q] = proposals[q]
    BY <1>1 DEF TypeOK, InsertProposal
  <1>8. \A q \in ProposalIds : proposals[q] # NoRow => proposals'[q] # NoRow
    BY <1>6, <1>7
  <1>9. StoredTogether'
    <2>1. \A x \in Documents : proposals'[<<"desktop", x>>] # NoRow
                               => documents'[x] # NoRow
      BY <1>1, <1>4, <1>5, <1>7, Identifiers DEF StoredTogether
    <2>2. \A k \in DOMAIN decisions : decisions[k].proposal \in ProposalIds
      BY <1>1, DecisionRowsType DEF TypeOK
    <2>3. \A k \in DOMAIN decisions' : proposals'[decisions'[k].proposal] # NoRow
      BY <1>1, <1>8, <2>2 DEF StoredTogether
    <2> QED
      BY <2>1, <2>3 DEF StoredTogether
  <1>10. MovesAreApproved'
    BY <1>1 DEF MovesAreApproved
  <1>11. MovedMeansHistory'
    BY <1>1, <1>4, <1>5 DEF MovedMeansHistory, LatestMove
  <1> QED
    BY <1>2, <1>3, <1>4, <1>5, <1>6, <1>8, <1>9, <1>10, <1>11 DEF MemoryGrows

LEMMA DecisionStores ==
    ASSUME IInv, NEW q \in ProposalIds, NEW action \in Actions, NEW id \in Nat,
           proposals[q] # NoRow, PersistDecision(id, q, action)
    PROVE  /\ MemoryGrows
           /\ decisions' \in Seq(DecisionRows)
           /\ Len(decisions') = Len(decisions) \/ Len(decisions') = Len(decisions) + 1
           /\ MovesAreApproved'
           /\ MovedMeansHistory'
  <1> USE DEF PersistDecision
  <1>1. TypeOK /\ StoredTogether /\ MovesAreApproved /\ MovedMeansHistory
    BY DEF IInv
  <1>2. /\ proposals' \in [ProposalIds -> ProposalRows \cup {NoRow}]
        /\ \A r \in ProposalIds : proposals[r] # NoRow <=> proposals'[r] # NoRow
    <2>1. CASE id <= Len(decisions)
      BY <1>1, <2>1 DEF TypeOK
    <2>2. CASE ~(id <= Len(decisions))
      <3>1. proposals[q] \in ProposalRows
        BY <1>1 DEF TypeOK
      <3>2. [proposals[q] EXCEPT !.status = ProposalStatus(action)] \in ProposalRows
        BY <3>1, StatusType DEF ProposalRows
      <3>3. proposals' = [proposals EXCEPT ![q] =
                             [proposals[q] EXCEPT !.status = ProposalStatus(action)]]
        BY <2>2
      <3> QED
        BY <1>1, <3>2, <3>3, RowsAssumption DEF TypeOK
    <2> QED
      BY <2>1, <2>2
  <1>3. [proposal |-> q, action |-> action] \in DecisionRows
    BY DEF DecisionRows
  <1>4. /\ decisions' \in Seq(DecisionRows)
        /\ Len(decisions') = Len(decisions) \/ Len(decisions') = Len(decisions) + 1
        /\ \A k \in DOMAIN decisions : k \in DOMAIN decisions' /\ decisions'[k] = decisions[k]
        /\ \A k \in DOMAIN decisions' : k \in DOMAIN decisions
                                        \/ decisions'[k].proposal = q
    <2>1. decisions \in Seq(DecisionRows)
      BY <1>1 DEF TypeOK
    <2>2. CASE UNCHANGED decisions
      BY <2>1, <2>2
    <2>3. CASE decisions' = Append(decisions, [proposal |-> q, action |-> action])
      BY <1>3, <2>1, <2>3
    <2> QED
      BY <2>2, <2>3
  <1>5. StoredTogether'
    <2>1. \A k \in DOMAIN decisions' : decisions'[k].proposal \in ProposalIds
      BY <1>4, DecisionRowsType
    <2>2. \A k \in DOMAIN decisions' : proposals'[decisions'[k].proposal] # NoRow
      BY <1>1, <1>2, <1>4, <2>1 DEF StoredTogether
    <2> QED
      BY <1>1, <1>2, <2>2, Identifiers DEF StoredTogether
  <1>6. MovesAreApproved'
    BY <1>1, <1>4 DEF MovesAreApproved
  <1>7. MovedMeansHistory'
    BY <1>1 DEF MovedMeansHistory, LatestMove
  <1>8. documents' \in [Documents -> DocumentRows \cup {NoRow}]
    BY <1>1 DEF TypeOK
  <1> QED
    BY <1>2, <1>4, <1>5, <1>6, <1>7, <1>8 DEF MemoryGrows

\* Histories only grow.
HistoryGrows ==
    \A x \in Documents : \A k \in DOMAIN history[x] :
        k \in DOMAIN history'[x] /\ history'[x][k] = history[x][k]

LEMMA ApprovedMoveStores ==
    ASSUME IInv, NEW d \in Documents, NEW from \in Paths, NEW to \in Paths,
           proposals[<<"desktop", d>>] # NoRow, Len(decisions) < MaxDecisions,
           documents[d].id = "desktop", PersistApprovedMove(d, from, to)
    PROVE  /\ MemoryGrows
           /\ decisions' \in Seq(DecisionRows)
           /\ Len(decisions') = Len(decisions) + 1
           /\ history' \in [Documents -> Seq(Moves)]
           /\ HistoryGrows
           /\ \A x \in Documents \ {d} : history'[x] = history[x]
           /\ Len(history'[d]) \in DOMAIN history'[d]
           /\ history'[d][Len(history'[d])].previous = from
           /\ history'[d][Len(history'[d])].next = to
           /\ MovesAreApproved'
           /\ MovedMeansHistory'
  <1> DEFINE q == <<"desktop", d>>
             decision == [proposal |-> q, action |-> "approve"]
             move == [decision |-> Len(decisions) + 1, proposal |-> q,
                      previous |-> from, next |-> to]
  <1>1. TypeOK /\ StoredTogether /\ MovesAreApproved /\ MovedMeansHistory
    BY DEF IInv
  <1>2. q \in ProposalIds /\ proposals[q] \in ProposalRows
        /\ documents[d] # NoRow /\ documents[d] \in DocumentRows
    BY <1>1, Identifiers DEF TypeOK, StoredTogether
  <1>3. /\ decisions' = Append(decisions, decision)
        /\ proposals' = [proposals EXCEPT ![q] = [proposals[q] EXCEPT !.status = "approved"]]
        /\ documents' = [documents EXCEPT ![d] =
                            [documents[d] EXCEPT !.current = to, !.status = "moved"]]
        /\ history' = [history EXCEPT ![d] = Append(history[d], move)]
    BY <1>1, <1>2 DEF TypeOK, PersistApprovedMove
  <1>4. decision \in DecisionRows /\ decisions \in Seq(DecisionRows)
    BY <1>1, <1>2 DEF TypeOK, DecisionRows, Actions
  <1>5. /\ decisions' \in Seq(DecisionRows)
        /\ Len(decisions') = Len(decisions) + 1
        /\ \A k \in DOMAIN decisions : k \in DOMAIN decisions' /\ decisions'[k] = decisions[k]
        /\ decisions'[Len(decisions) + 1] = decision
        /\ Len(decisions) + 1 \in DOMAIN decisions'
        /\ \A k \in DOMAIN decisions' : k \in DOMAIN decisions \/ decisions'[k] = decision
    <2> HIDE DEF decision
    <2> QED
      BY <1>3, <1>4
  <1>6. move \in Moves
    BY <1>1, <1>2, BoundsAssumption DEF TypeOK, Moves
  <1>7. history[d] \in Seq(Moves)
    BY <1>1 DEF TypeOK
  <1>8. /\ history'[d] \in Seq(Moves)
        /\ Len(history'[d]) = Len(history[d]) + 1
        /\ \A k \in DOMAIN history[d] : k \in DOMAIN history'[d]
                                        /\ history'[d][k] = history[d][k]
        /\ history'[d][Len(history[d]) + 1] = move
        /\ Len(history'[d]) \in DOMAIN history'[d]
        /\ \A k \in DOMAIN history'[d] : k \in DOMAIN history[d] \/ k = Len(history[d]) + 1
    <2>1. history'[d] = Append(history[d], move)
      BY <1>1, <1>3 DEF TypeOK
    <2> HIDE DEF move
    <2> QED
      BY <1>6, <1>7, <2>1
  <1>9. \A x \in Documents \ {d} : history'[x] = history[x]
    BY <1>1, <1>3 DEF TypeOK
  <1>10. history' \in [Documents -> Seq(Moves)]
    BY <1>1, <1>3, <1>6, <1>7 DEF TypeOK
  <1>11. MemoryGrows
    <2>1. [documents[d] EXCEPT !.current = to, !.status = "moved"] \in DocumentRows
      BY <1>2 DEF DocumentRows, Places
    <2>2. [proposals[q] EXCEPT !.status = "approved"] \in ProposalRows
      BY <1>2 DEF ProposalRows
    <2>3. documents' \in [Documents -> DocumentRows \cup {NoRow}]
      BY <1>1, <1>3, <2>1 DEF TypeOK
    <2>4. proposals' \in [ProposalIds -> ProposalRows \cup {NoRow}]
      BY <1>1, <1>3, <2>2 DEF TypeOK
    <2>5. \A x \in Documents : documents[x] # NoRow <=> documents'[x] # NoRow
      BY <1>1, <1>2, <1>3, <2>1, RowsAssumption DEF TypeOK
    <2>6. \A r \in ProposalIds : proposals[r] # NoRow <=> proposals'[r] # NoRow
      BY <1>1, <1>2, <1>3, <2>2, RowsAssumption DEF TypeOK
    <2>7. \A k \in DOMAIN decisions' : proposals'[decisions'[k].proposal] # NoRow
      <3>1. decision.proposal = q
        OBVIOUS
      <3>2. \A k \in DOMAIN decisions' : decisions'[k].proposal \in ProposalIds
        BY <1>5, DecisionRowsType
      <3> HIDE DEF decision
      <3> QED
        BY <1>1, <1>2, <1>5, <2>6, <3>1, <3>2 DEF StoredTogether
    <2>8. StoredTogether'
      BY <1>1, <2>5, <2>6, <2>7, Identifiers DEF StoredTogether
    <2> QED
      BY <2>3, <2>4, <2>5, <2>6, <2>8 DEF MemoryGrows
  <1>12. MovesAreApproved'
    <2>1. SUFFICES ASSUME NEW x \in Documents, NEW k \in DOMAIN history'[x]
                   PROVE  /\ history'[x][k].decision \in DOMAIN decisions'
                          /\ decisions'[history'[x][k].decision]
                                = [proposal |-> <<"desktop", x>>, action |-> "approve"]
                          /\ \A j \in 1..(k - 1) :
                                history'[x][j].decision < history'[x][k].decision
      BY DEF MovesAreApproved
    <2>2. CASE x \in Documents /\ k \in DOMAIN history[x]
      <3>1. history'[x][k] = history[x][k]
        BY <1>8, <1>9, <2>2
      <3>2. history[x] \in Seq(Moves)
        BY <1>1 DEF TypeOK
      <3>3. \A j \in 1..(k - 1) : j \in DOMAIN history[x]
        BY <2>2, <3>2
      <3>4. \A j \in 1..(k - 1) : history'[x][j] = history[x][j]
        BY <1>8, <1>9, <3>3
      <3> QED
        BY <1>1, <1>5, <2>2, <3>1, <3>4 DEF MovesAreApproved
    <2>3. CASE x = d /\ k = Len(history[d]) + 1
      <3>1. history'[x][k].decision = Len(decisions) + 1
        BY <1>8, <2>3
      <3>2. \A j \in 1..(k - 1) : j \in DOMAIN history[d] /\ history'[d][j] = history[d][j]
        BY <1>7, <1>8, <2>3
      <3>3. \A j \in DOMAIN history[d] : history[d][j].decision \in DOMAIN decisions
        BY <1>1 DEF MovesAreApproved
      <3>4. \A j \in DOMAIN history[d] : history[d][j].decision < Len(decisions) + 1
        BY <1>4, <3>3
      <3> QED
        BY <1>5, <2>3, <3>1, <3>2, <3>4
    <2> QED
      BY <1>8, <1>9, <2>2, <2>3
  <1>13. MovedMeansHistory'
    <2>1. /\ documents'[d].id = "desktop"
          /\ documents'[d].current = to
      BY <1>1, <1>2, <1>3 DEF TypeOK, DocumentRows
    <2>2. history'[d] # <<>> /\ history'[d][Len(history'[d])].next = to
      BY <1>7, <1>8
    <2>3. \A x \in Documents \ {d} : documents'[x] = documents[x]
      BY <1>1, <1>3 DEF TypeOK
    <2> QED
      BY <1>1, <1>9, <2>1, <2>2, <2>3 DEF MovedMeansHistory, LatestMove
  <1>14. /\ history'[d][Len(history'[d])].previous = from
         /\ history'[d][Len(history'[d])].next = to
    BY <1>7, <1>8
  <1> QED
    BY <1>5, <1>8, <1>9, <1>10, <1>11, <1>12, <1>13, <1>14 DEF HistoryGrows

----------------------------------------------------------------------------
\* Steps that only touch the table or the files, and steps that write memory.

LEMMA MemoryRests ==
    ASSUME IInv, UNCHANGED memoryVars
    PROVE  /\ MemoryGrows
           /\ HistoryGrows
           /\ MovesAreApproved'
           /\ MovedMeansHistory'
  <1>1. TypeOK /\ StoredTogether /\ MovesAreApproved /\ MovedMeansHistory
    BY DEF IInv
  <1> QED
    BY <1>1 DEF memoryVars, TypeOK, StoredTogether, MemoryGrows, HistoryGrows,
                MovesAreApproved, MovedMeansHistory, LatestMove

\* A row that is in order stays so while memory grows.
LEMMA RowsAge ==
    ASSUME MemoryGrows, HistoryGrows, NEW row, RowOK(row)
    PROVE  RowOK(row)'
  <1>1. row.status = "REVIEW" => proposals'[<<"desktop", row.document>>] # NoRow
    BY Identifiers DEF RowOK, MemoryGrows
  <1>2. row.status = "MOVED" => \A k \in DOMAIN history[row.document] :
            /\ k \in DOMAIN history'[row.document]
            /\ history'[row.document][k] = history[row.document][k]
    BY DEF RowOK, HistoryGrows
  <1> QED
    BY <1>1, <1>2 DEF RowOK

LEMMA TableChanges ==
    ASSUME IInv, UNCHANGED memoryVars, RowsOK(rows'),
           fs' \in [Paths -> Documents \cup {NoFile}],
           approving' = NoRow, failures' \in 0..MaxFailures
    PROVE  IInv'
  <1>1. MemoryGrows /\ MovesAreApproved' /\ MovedMeansHistory'
    BY MemoryRests
  <1>2. RowsOK(rows)'
    BY DEF RowsOK, RowOK, memoryVars
  <1>3. TypeOK'
    BY <1>2 DEF IInv, TypeOK, memoryVars, RowsOK
  <1>4. Len(decisions') <= MaxDecisions
    BY DEF IInv, memoryVars
  <1>5. ApprovedFileWaits'
    BY DEF ApprovedFileWaits
  <1> QED
    BY <1>1, <1>2, <1>3, <1>4, <1>5 DEF IInv, MemoryGrows

LEMMA MemoryChanges ==
    ASSUME IInv, MemoryGrows, HistoryGrows, MovesAreApproved', MovedMeansHistory',
           decisions' \in Seq(DecisionRows), Len(decisions') <= MaxDecisions,
           history' \in [Documents -> Seq(Moves)],
           fs' \in [Paths -> Documents \cup {NoFile}],
           rows' \in [Paths -> TableRows \cup {NoRow}],
           \A p \in Paths : rows'[p] # rows[p] => RowOK(rows[p])',
           approving' \in Paths \cup {NoRow}, ApprovedFileWaits',
           failures' \in 0..MaxFailures
    PROVE  IInv'
  <1>1. TypeOK'
    BY DEF IInv, TypeOK, MemoryGrows
  <1>2. ASSUME NEW p \in Paths, rows'[p] # NoRow
        PROVE  RowOK(rows[p])'
    <2>1. CASE rows'[p] = rows[p]
      <3>1. PICK row : row = rows[p]
        OBVIOUS
      <3>2. RowOK(row)
        BY <1>2, <2>1, <3>1 DEF IInv, RowsOK
      <3>3. RowOK(row)'
        BY <3>2, RowsAge
      <3> QED
        BY <2>1, <3>1, <3>3 DEF RowOK
    <2> QED
      BY <2>1
  <1>3. RowsOK(rows)'
    BY <1>2 DEF RowsOK
  <1> QED
    BY <1>1, <1>3 DEF IInv, MemoryGrows

----------------------------------------------------------------------------
\* The actions.

LEMMA RecallingKeepsRows ==
    ASSUME IInv, NEW files, NEW table, RowsOK(table), NEW newTable,
           Recalling(files, table, newTable)
    PROVE  RowsOK(newTable)
  <1>1. PICK entry \in [Paths -> Documents] :
            /\ \A p \in Paths : LedTo(p) # {} => entry[p] \in LedTo(p)
            /\ newTable = [p \in Paths |->
                   IF /\ table[p] # NoRow
                      /\ files[table[p].path] # NoFile
                      /\ LedTo(table[p].path) # {}
                   THEN Recalled(table[p], entry[table[p].path])
                   ELSE table[p]]
    BY DEF Recalling
  <1>2. ASSUME NEW p \in Paths, table[p] # NoRow, LedTo(table[p].path) # {},
               newTable[p] = Recalled(table[p], entry[table[p].path])
        PROVE  RowOK(newTable[p])
    <2> DEFINE row == table[p]
               d == entry[row.path]
    <2>1. row \in TableRows /\ row.path \in Paths
      BY <1>2 DEF RowsOK, RowOK, TableRows
    <2>2. d \in Documents /\ history[d] # <<>> /\ LatestMove(d).next = row.path
      BY <1>1, <1>2, <2>1 DEF LedTo
    <2>3. history[d] \in Seq(Moves)
      BY <2>2 DEF IInv, TypeOK
    <2>4. Len(history[d]) \in DOMAIN history[d] /\ LatestMove(d) \in Moves
      BY <2>2, <2>3 DEF LatestMove
    <2>5. LatestMove(d).previous \in Paths /\ LatestMove(d).next \in Paths
      BY <2>4 DEF Moves
    <2>6. newTable[p] = [row EXCEPT !.status = "MOVED", !.document = d,
                                    !.previous = LatestMove(d).previous,
                                    !.next = LatestMove(d).next]
      BY <1>2 DEF Recalled
    <2> HIDE DEF d, row
    <2>7. /\ newTable[p] \in TableRows
          /\ newTable[p].status = "MOVED"
          /\ newTable[p].document = d
          /\ newTable[p].path = row.path
          /\ newTable[p].previous = LatestMove(d).previous
          /\ newTable[p].next = LatestMove(d).next
      BY <2>1, <2>2, <2>5, <2>6 DEF TableRows, RowStatuses
    <2> QED
      BY <2>2, <2>4, <2>5, <2>7 DEF RowOK, LatestMove
  <1>3. \A p \in Paths : newTable[p] # NoRow => RowOK(newTable[p])
    <2> SUFFICES ASSUME NEW p \in Paths, newTable[p] # NoRow PROVE RowOK(newTable[p])
      OBVIOUS
    <2>1. CASE newTable[p] = table[p]
      BY <2>1 DEF RowsOK
    <2> QED
      BY <1>1, <1>2, <2>1
  <1>4. \A p \in Paths : newTable[p] \in TableRows \cup {NoRow}
    BY <1>3 DEF RowOK
  <1> QED
    BY <1>1, <1>3, <1>4 DEF RowsOK

LEMMA ScanStep == IInv /\ Scan => IInv'
  <1> SUFFICES ASSUME IInv, Scan PROVE IInv'
    OBVIOUS
  <1> DEFINE found == [p \in Paths |-> IF fs[p] = NoFile THEN NoRow ELSE ReadyRow(p)]
  <1>1. RowsOK(found)
    <2>1. \A p \in Paths : ReadyRow(p) \in TableRows /\ ReadyRow(p).status = "READY"
      BY DEF ReadyRow, TableRows, RowStatuses
    <2> QED
      BY <2>1 DEF RowsOK, RowOK
  <1>2. rows' = found \/ Recalling(fs, found, rows')
    BY DEF Scan
  <1>3. RowsOK(rows')
    <2> HIDE DEF found
    <2>1. PICK newTable : newTable = rows'
      OBVIOUS
    <2>2. PICK table : table = found
      OBVIOUS
    <2>3. PICK files : files = fs
      OBVIOUS
    <2> QED
      BY <1>1, <1>2, <2>1, <2>2, <2>3, RecallingKeepsRows
  <1> QED
    BY <1>3, TableChanges DEF Scan, IInv, TypeOK

LEMMA OpenRestoreStep == IInv /\ OpenRestore => IInv'
  <1> SUFFICES ASSUME IInv, OpenRestore PROVE IInv'
    OBVIOUS
  <1>1. PICK table : table = rows
    OBVIOUS
  <1>2. PICK newTable : newTable = rows'
    OBVIOUS
  <1>3. PICK files : files = fs
    OBVIOUS
  <1>4. RowsOK(rows')
    BY <1>1, <1>2, <1>3, RecallingKeepsRows DEF OpenRestore, IInv
  <1> QED
    BY <1>4, TableChanges DEF OpenRestore, IInv, TypeOK

LEMMA FailsType == IInv /\ (Fails \/ UNCHANGED failures) => failures' \in 0..MaxFailures
  BY BoundsAssumption DEF IInv, TypeOK, Fails

LEMMA AnalyzeStep ==
    ASSUME IInv, NEW p \in Paths, NEW t \in Organized, Analyze(p, t)
    PROVE  IInv'
  <1> DEFINE row == rows[p]
             d == fs[row.path]
  <1>1. TypeOK /\ RowsOK(rows)
    BY DEF IInv
  <1>2. row \in TableRows /\ row.path \in Paths
    BY <1>1 DEF RowsOK, RowOK, Analyze, TableRows
  <1>3. d \in Documents
    BY <1>1, <1>2 DEF TypeOK, Analyze
  <1>4. t \in Paths /\ t \in Places /\ row.path \in Places
    BY <1>2, PathsAssumption DEF Places
  <1>5. PersistAnalysis("desktop", d, row.path, t)
    BY DEF Analyze
  <1>6. /\ MemoryGrows /\ MovesAreApproved' /\ MovedMeansHistory'
        /\ proposals'[<<"desktop", d>>] # NoRow
    <2> HIDE DEF d
    <2> QED
      BY <1>3, <1>4, <1>5, AnalysisStores, Identifiers
  <1>7. HistoryGrows /\ UNCHANGED <<decisions, history>>
    BY <1>5 DEF PersistAnalysis, HistoryGrows
  <1>8. failures' \in 0..MaxFailures
    BY FailsType DEF Analyze
  <1>9. /\ rows' \in [Paths -> TableRows \cup {NoRow}]
        /\ \A x \in Paths : rows'[x] # rows[x] => RowOK(rows[x])'
    <2>1. CASE UNCHANGED rows
      BY <1>1, <2>1 DEF TypeOK
    <2>2. CASE ~UNCHANGED rows
      <3> DEFINE new == [row EXCEPT !.status = "REVIEW", !.document = d,
                                    !.previous = row.path, !.next = t]
      <3>1. rows' = [rows EXCEPT ![p] = new]
        BY <2>2 DEF Analyze
      <3>2. /\ new \in TableRows
            /\ new.status = "REVIEW" /\ new.document = d
            /\ new.previous = row.path /\ new.next = t
        <4> HIDE DEF row, d
        <4> QED
          BY <1>2, <1>3, <1>4 DEF TableRows, RowStatuses
      <3> HIDE DEF new
      <3>3. /\ rows' \in [Paths -> TableRows \cup {NoRow}]
            /\ rows'[p] = new
            /\ \A x \in Paths \ {p} : rows'[x] = rows[x]
        BY <1>1, <3>1, <3>2 DEF TypeOK
      <3>4. RowOK(rows[p])'
        BY <1>2, <1>3, <1>4, <1>6, <3>2, <3>3 DEF RowOK
      <3> QED
        BY <3>3, <3>4
    <2> QED
      BY <2>1, <2>2
  <1>10. approving' \in Paths \cup {NoRow} /\ ApprovedFileWaits'
    BY DEF Analyze, ApprovedFileWaits
  <1>11. fs' \in [Paths -> Documents \cup {NoFile}]
    BY <1>1 DEF Analyze, TypeOK
  <1> QED
    BY <1>1, <1>6, <1>7, <1>8, <1>9, <1>10, <1>11, MemoryChanges DEF TypeOK, IInv

LEMMA CloudAnalyzeStep ==
    ASSUME IInv, NEW d \in Documents, CloudAnalyze(d)
    PROVE  IInv'
  <1>1. MemoryGrows /\ MovesAreApproved' /\ MovedMeansHistory'
    BY AnalysisStores, Identifiers DEF CloudAnalyze, Places
  <1>2. HistoryGrows /\ UNCHANGED <<decisions, history, fs, rows, approving, failures>>
    BY DEF CloudAnalyze, PersistAnalysis, HistoryGrows
  <1>3. ApprovedFileWaits'
    BY <1>2 DEF IInv, ApprovedFileWaits
  <1> QED
    BY <1>1, <1>2, <1>3, MemoryChanges DEF IInv, TypeOK

LEMMA ApproveMoveStep ==
    ASSUME IInv, NEW p \in Paths, ApproveMove(p)
    PROVE  IInv'
  <1> DEFINE from == rows[p].previous
             to == rows[p].next
  <1>1. TypeOK /\ RowsOK(rows)
    BY DEF IInv
  <1>2. rows[p] # NoRow /\ rows[p].status = "REVIEW" /\ RowOK(rows[p])
    BY <1>1 DEF ApproveMove, Reviewable, RowsOK
  <1>3. from \in Paths /\ to \in Paths
    BY <1>2 DEF RowOK
  <1>4. /\ fs[from] # NoFile /\ from # to /\ fs[to] = NoFile
        /\ fs' = [fs EXCEPT ![from] = NoFile, ![to] = fs[from]]
    BY DEF ApproveMove, Movable, Moved
  <1>5. /\ fs' \in [Paths -> Documents \cup {NoFile}]
        /\ fs'[to] # NoFile /\ fs'[from] = NoFile
    <2> HIDE DEF from, to
    <2> QED
      BY <1>1, <1>3, <1>4 DEF TypeOK
  <1>6. UNCHANGED <<memoryVars, rows, failures>> /\ approving' = p
    BY DEF ApproveMove
  <1>7. MemoryGrows /\ HistoryGrows /\ MovesAreApproved' /\ MovedMeansHistory'
    BY <1>6, MemoryRests
  <1>8. ApprovedFileWaits'
    BY <1>2, <1>5, <1>6 DEF ApprovedFileWaits, ApproveMove, Reviewable, memoryVars
  <1> QED
    BY <1>1, <1>5, <1>6, <1>7, <1>8, MemoryChanges DEF TypeOK, IInv, memoryVars

LEMMA ApproveRecordStep ==
    ASSUME IInv, ApproveRecord
    PROVE  IInv'
  <1>0. PICK p : p = approving
    OBVIOUS
  <1> DEFINE row == rows[p]
             d == row.document
  <1>1. TypeOK /\ RowsOK(rows) /\ ApprovedFileWaits
    BY DEF IInv
  <1>2. /\ p \in Paths /\ row # NoRow /\ row.status = "REVIEW" /\ RowOK(row)
        /\ Len(decisions) < MaxDecisions
    BY <1>0, <1>1 DEF ApproveRecord, TypeOK, ApprovedFileWaits, RowsOK
  <1>3. /\ row \in TableRows /\ d \in Documents
        /\ row.previous \in Paths /\ row.next \in Paths
        /\ proposals[<<"desktop", d>>] # NoRow
    BY <1>2 DEF RowOK
  <1>4. \/ PersistApprovedMove(d, row.previous, row.next)
        \/ UNCHANGED memoryVars /\ UNCHANGED rows
    BY <1>0 DEF ApproveRecord
  <1>5. failures' \in 0..MaxFailures
    BY FailsType DEF ApproveRecord
  <1>6. approving' = NoRow /\ UNCHANGED fs /\ ApprovedFileWaits'
    BY DEF ApproveRecord, ApprovedFileWaits
  <1>7. CASE documents[d].id = "desktop" /\ PersistApprovedMove(d, row.previous, row.next)
    <2>1. /\ MemoryGrows /\ HistoryGrows /\ MovesAreApproved' /\ MovedMeansHistory'
          /\ decisions' \in Seq(DecisionRows)
          /\ Len(decisions') = Len(decisions) + 1
          /\ history' \in [Documents -> Seq(Moves)]
          /\ Len(history'[d]) \in DOMAIN history'[d]
          /\ history'[d][Len(history'[d])].previous = row.previous
          /\ history'[d][Len(history'[d])].next = row.next
      <3> HIDE DEF row, d
      <3> QED
        BY <1>2, <1>3, <1>7, ApprovedMoveStores
    <2>2. Len(decisions') <= MaxDecisions
      BY <1>1, <1>2, <2>1, BoundsAssumption DEF TypeOK
    <2>3. /\ rows' \in [Paths -> TableRows \cup {NoRow}]
          /\ \A x \in Paths : rows'[x] # rows[x] => RowOK(rows[x])'
      <3>1. CASE UNCHANGED rows
        BY <1>1, <3>1 DEF TypeOK
      <3>2. CASE ~UNCHANGED rows
        <4> DEFINE new == [row EXCEPT !.status = "MOVED", !.path = row.next]
        <4>1. rows' = [rows EXCEPT ![p] = new]
          BY <1>0, <3>2 DEF ApproveRecord
        <4>2. /\ new \in TableRows
              /\ new.status = "MOVED" /\ new.document = d /\ new.path = row.next
              /\ new.previous = row.previous /\ new.next = row.next
          <5> HIDE DEF row
          <5> QED
            BY <1>3 DEF TableRows, RowStatuses
        <4> HIDE DEF new
        <4>3. /\ rows' \in [Paths -> TableRows \cup {NoRow}]
              /\ rows'[p] = new
              /\ \A x \in Paths \ {p} : rows'[x] = rows[x]
          BY <1>1, <1>2, <4>1, <4>2 DEF TypeOK
        <4>4. /\ new.document \in Documents /\ new.previous \in Paths
              /\ new.next \in Paths
          BY <1>3, <4>2
        <4>5. \E k \in DOMAIN history'[new.document] :
                 /\ history'[new.document][k].previous = new.previous
                 /\ history'[new.document][k].next = new.next
          BY <2>1, <4>2
        <4>6. RowOK(rows[p])'
          BY <4>2, <4>3, <4>4, <4>5 DEF RowOK
        <4> QED
          BY <4>3, <4>6
      <3> QED
        BY <3>1, <3>2
    <2> QED
      BY <1>1, <1>5, <1>6, <2>1, <2>2, <2>3, MemoryChanges DEF TypeOK
  <1>8. CASE UNCHANGED memoryVars /\ UNCHANGED rows
    BY <1>1, <1>5, <1>6, <1>8, TableChanges DEF IInv, TypeOK, RowsOK
  <1>9. ~(documents[d].id = "desktop") /\ PersistApprovedMove(d, row.previous, row.next)
           => UNCHANGED memoryVars /\ UNCHANGED rows
    BY <1>0 DEF PersistApprovedMove, ApproveRecord
  <1> QED
    BY <1>4, <1>7, <1>8, <1>9

LEMMA RejectStep ==
    ASSUME IInv, NEW p \in Paths, Reject(p)
    PROVE  IInv'
  <1> DEFINE row == rows[p]
             q == <<"desktop", row.document>>
  <1>1. TypeOK /\ RowsOK(rows)
    BY DEF IInv
  <1>2. /\ row # NoRow /\ row.status = "REVIEW" /\ RowOK(row)
        /\ Len(decisions) < MaxDecisions /\ approving = NoRow
    BY <1>1 DEF Reject, Reviewable, RowsOK
  <1>3. row \in TableRows /\ q \in ProposalIds /\ proposals[q] # NoRow
    BY <1>2, Identifiers DEF RowOK
  <1>4. Len(decisions) \in Nat /\ PersistDecision(Len(decisions) + 1, q, "reject")
    BY <1>1 DEF TypeOK, Reject
  <1>5. /\ MemoryGrows /\ MovesAreApproved' /\ MovedMeansHistory'
        /\ decisions' \in Seq(DecisionRows)
        /\ Len(decisions') <= MaxDecisions
    <2>1. Len(decisions) + 1 \in Nat /\ "reject" \in Actions
      BY <1>4 DEF Actions
    <2>2. Len(decisions') = Len(decisions) \/ Len(decisions') = Len(decisions) + 1
      BY <1>3, <1>4, <2>1, DecisionStores
    <2> HIDE DEF q
    <2> QED
      BY <1>2, <1>3, <1>4, <2>1, <2>2, DecisionStores, BoundsAssumption
  <1>6. HistoryGrows /\ UNCHANGED history
    BY <1>4 DEF PersistDecision, HistoryGrows
  <1>7. /\ rows' \in [Paths -> TableRows \cup {NoRow}]
        /\ \A x \in Paths : rows'[x] # rows[x] => RowOK(rows[x])'
    <2>1. CASE UNCHANGED rows
      BY <1>1, <2>1 DEF TypeOK
    <2>2. CASE ~UNCHANGED rows
      <3> DEFINE new == [row EXCEPT !.status = "REJECTED"]
      <3>1. rows' = [rows EXCEPT ![p] = new]
        BY <2>2 DEF Reject
      <3>2. new \in TableRows /\ new.status = "REJECTED"
        <4> HIDE DEF row
        <4> QED
          BY <1>3 DEF TableRows, RowStatuses
      <3> HIDE DEF new
      <3>3. /\ rows' \in [Paths -> TableRows \cup {NoRow}]
            /\ rows'[p] = new
            /\ \A x \in Paths \ {p} : rows'[x] = rows[x]
        BY <1>1, <3>1, <3>2 DEF TypeOK
      <3>4. RowOK(rows[p])'
        BY <3>2, <3>3 DEF RowOK
      <3> QED
        BY <3>3, <3>4
    <2> QED
      BY <2>1, <2>2
  <1>8. failures' \in 0..MaxFailures
    BY FailsType DEF Reject
  <1>9. UNCHANGED <<fs, approving>> /\ ApprovedFileWaits'
    BY <1>2 DEF Reject, ApprovedFileWaits
  <1> QED
    BY <1>1, <1>5, <1>6, <1>7, <1>8, <1>9, MemoryChanges DEF TypeOK

LEMMA CommandDecidesStep ==
    ASSUME IInv, NEW q \in ProposalIds, NEW action \in Actions,
           NEW id \in 1..(Len(decisions) + 1), CommandDecides(q, action, id)
    PROVE  IInv'
  <1>1. TypeOK /\ RowsOK(rows) /\ ApprovedFileWaits /\ Len(decisions) <= MaxDecisions
    BY DEF IInv
  <1>2. /\ proposals[q] # NoRow /\ PersistDecision(id, q, action)
        /\ UNCHANGED <<fs, rows, approving, failures>>
        /\ \/ id <= Len(decisions)
           \/ Len(decisions) + (IF approving = NoRow THEN 1 ELSE 2) <= MaxDecisions
    BY DEF CommandDecides
  <1>3. Len(decisions) \in Nat /\ id \in Nat
    BY <1>1 DEF TypeOK
  <1>4. /\ MemoryGrows /\ MovesAreApproved' /\ MovedMeansHistory'
        /\ decisions' \in Seq(DecisionRows)
        /\ Len(decisions') = Len(decisions) \/ Len(decisions') = Len(decisions) + 1
    BY <1>2, <1>3, DecisionStores
  <1>5. /\ Len(decisions') <= MaxDecisions
        /\ approving # NoRow => Len(decisions') < MaxDecisions
    <2>1. CASE id <= Len(decisions)
      BY <1>1, <1>2, <1>3, <2>1 DEF PersistDecision, ApprovedFileWaits
    <2>2. CASE ~(id <= Len(decisions))
      BY <1>2, <1>3, <1>4, <2>2, BoundsAssumption
    <2> QED
      BY <2>1, <2>2
  <1>6. ApprovedFileWaits'
    BY <1>1, <1>2, <1>5 DEF ApprovedFileWaits
  <1>7. HistoryGrows /\ UNCHANGED history
    BY <1>2 DEF PersistDecision, HistoryGrows
  <1> QED
    BY <1>1, <1>2, <1>4, <1>5, <1>6, <1>7, MemoryChanges DEF TypeOK

LEMMA RestoreStep ==
    ASSUME IInv, NEW p \in Paths, Restore(p)
    PROVE  IInv'
  <1> DEFINE row == rows[p]
             new == [row EXCEPT !.status = "RESTORED", !.path = row.previous]
             restored == [rows EXCEPT ![p] = new]
  <1>1. TypeOK /\ RowsOK(rows)
    BY DEF IInv
  <1>2. row # NoRow /\ row.status = "MOVED" /\ RowOK(row)
    BY <1>1 DEF Restore, RowsOK
  <1>3. row \in TableRows /\ row.path \in Paths /\ row.previous \in Paths
    BY <1>2 DEF RowOK, TableRows
  <1>4. /\ fs[row.path] # NoFile
        /\ fs' = [fs EXCEPT ![row.path] = NoFile, ![row.previous] = fs[row.path]]
    BY DEF Restore, Movable, Moved
  <1>5. fs' \in [Paths -> Documents \cup {NoFile}]
    <2> HIDE DEF row
    <2> QED
      BY <1>1, <1>3, <1>4 DEF TypeOK
  <1>6. rows' = restored \/ Recalling(fs', restored, rows')
    BY DEF Restore
  <1>7. new \in TableRows /\ new.status = "RESTORED"
    <2> HIDE DEF row
    <2> QED
      BY <1>3 DEF TableRows, RowStatuses
  <1>8. RowOK(new)
    <2> HIDE DEF new
    <2> QED
      BY <1>7 DEF RowOK
  <1>9. RowsOK(restored)
    <2> HIDE DEF new
    <2> QED
      BY <1>1, <1>7, <1>8 DEF RowsOK
  <1>10. RowsOK(rows')
    <2> HIDE DEF restored
    <2>1. PICK table : table = restored
      OBVIOUS
    <2>2. PICK newTable : newTable = rows'
      OBVIOUS
    <2>3. PICK files : files = fs'
      OBVIOUS
    <2> QED
      BY <1>6, <1>9, <2>1, <2>2, <2>3, RecallingKeepsRows
  <1> QED
    BY <1>1, <1>5, <1>10, TableChanges DEF Restore, TypeOK

LEMMA CrashStep ==
    ASSUME IInv, Crash
    PROVE  IInv'
  <1>1. RowsOK(rows')
    BY DEF Crash, RowsOK
  <1>2. failures' \in 0..MaxFailures
    BY FailsType DEF Crash
  <1> QED
    BY <1>1, <1>2, TableChanges DEF Crash, IInv, TypeOK

LEMMA ScanCancelledStep ==
    ASSUME IInv, ScanCancelled
    PROVE  IInv'
  <1>1. RowsOK(rows')
    BY DEF ScanCancelled, RowsOK
  <1> QED
    BY <1>1, TableChanges DEF ScanCancelled, IInv, TypeOK

LEMMA NextKeepsIInv == IInv /\ [Next]_vars => IInv'
  <1> SUFFICES ASSUME IInv, [Next]_vars PROVE IInv'
    OBVIOUS
  <1>1. CASE Scan
    BY <1>1, ScanStep
  <1>2. CASE OpenRestore
    BY <1>2, OpenRestoreStep
  <1>3. ASSUME NEW p \in Paths, NEW t \in Organized, Analyze(p, t) PROVE IInv'
    BY <1>3, AnalyzeStep
  <1>4. ASSUME NEW d \in Documents, CloudAnalyze(d) PROVE IInv'
    BY <1>4, CloudAnalyzeStep
  <1>5. ASSUME NEW p \in Paths, ApproveMove(p) PROVE IInv'
    BY <1>5, ApproveMoveStep
  <1>6. CASE ApproveRecord
    BY <1>6, ApproveRecordStep
  <1>7. ASSUME NEW p \in Paths, Reject(p) PROVE IInv'
    BY <1>7, RejectStep
  <1>8. ASSUME NEW q \in ProposalIds, NEW action \in Actions,
               NEW id \in 1..(Len(decisions) + 1), CommandDecides(q, action, id)
        PROVE  IInv'
    BY <1>8, CommandDecidesStep
  <1>9. ASSUME NEW p \in Paths, Restore(p) PROVE IInv'
    BY <1>9, RestoreStep
  <1>10. CASE Crash
    BY <1>10, CrashStep
  <1>11. CASE ScanCancelled
    BY <1>11, ScanCancelledStep
  <1>12. CASE UNCHANGED vars
    <2>1. /\ MemoryGrows /\ HistoryGrows /\ MovesAreApproved' /\ MovedMeansHistory'
      BY <1>12, MemoryRests DEF vars
    <2> QED
      BY <1>12, <2>1, MemoryChanges DEF vars, memoryVars, IInv, TypeOK, ApprovedFileWaits
  <1> QED
    BY <1>1, <1>2, <1>3, <1>4, <1>5, <1>6, <1>7, <1>8, <1>9, <1>10, <1>11,
       <1>12 DEF Next

----------------------------------------------------------------------------
(***************************************************************************)
(* The theorems.                                                           *)
(***************************************************************************)

\* The inductive invariant holds in every reachable state.
THEOREM InvariantHolds == Spec => []IInv
  <1> QED
    BY InitIInv, NextKeepsIInv, PTL DEF Spec

\* Tables, rows and files hold values of their types, however the cockpit, the
\* review command and the cloud worker take turns.
THEOREM TypeCorrect == Spec => []TypeOK
  <1>1. IInv => TypeOK
    BY DEF IInv
  <1> QED
    BY <1>1, InvariantHolds, PTL

\* Every row of file_history has an approval of its own in human_decisions.
THEOREM MovesHaveApprovals == Spec => []MovesAreApproved
  <1>1. IInv => MovesAreApproved
    BY DEF IInv
  <1> QED
    BY <1>1, InvariantHolds, PTL

\* A document that counts as moved is where its latest history row says.
THEOREM TablesAgree == Spec => []MovedMeansHistory
  <1>1. IInv => MovedMeansHistory
    BY DEF IInv
  <1> QED
    BY <1>1, InvariantHolds, PTL

\* The cockpit offers a restore only for a move that file_history holds.
THEOREM RestorableIsRemembered == Spec => []MovedRowsAreRemembered
  <1>1. IInv => MovedRowsAreRemembered
    BY DEF IInv, RowsOK, RowOK, MovedRowsAreRemembered
  <1> QED
    BY <1>1, InvariantHolds, PTL

\* An approval's transaction changes at most its document's history, and by a
\* row with the paths that ApproveMove used.
LEMMA RecordStep ==
    ASSUME IInv, ApproveRecord, NEW d \in Documents, history'[d] # history[d]
    PROVE  /\ rows[approving] # NoRow
           /\ history'[d][Len(history'[d])].previous = rows[approving].previous
           /\ history'[d][Len(history'[d])].next = rows[approving].next
  <1>0. PICK p : p = approving
    OBVIOUS
  <1> DEFINE row == rows[p]
             x == row.document
  <1>1. TypeOK /\ RowsOK(rows) /\ ApprovedFileWaits
    BY DEF IInv
  <1>2. /\ p \in Paths /\ row # NoRow /\ row.status = "REVIEW" /\ RowOK(row)
        /\ Len(decisions) < MaxDecisions
    BY <1>0, <1>1 DEF ApproveRecord, TypeOK, ApprovedFileWaits, RowsOK
  <1>3. /\ x \in Documents /\ row.previous \in Paths /\ row.next \in Paths
        /\ proposals[<<"desktop", x>>] # NoRow
    BY <1>2 DEF RowOK
  <1>4. documents[x].id = "desktop" /\ PersistApprovedMove(x, row.previous, row.next)
    BY <1>0 DEF ApproveRecord, PersistApprovedMove, memoryVars
  <1>5. /\ \A y \in Documents \ {x} : history'[y] = history[y]
        /\ history'[x][Len(history'[x])].previous = row.previous
        /\ history'[x][Len(history'[x])].next = row.next
    <2> HIDE DEF row, x
    <2> QED
      BY <1>2, <1>3, <1>4, ApprovedMoveStores
  <1> QED
    BY <1>0, <1>2, <1>5

LEMMA OnlyRecordWritesHistory ==
    ASSUME [Next]_vars, ~ApproveRecord
    PROVE  UNCHANGED history
  BY DEF Next, vars, memoryVars, Scan, ScanCancelled, OpenRestore, Analyze, CloudAnalyze,
         PersistAnalysis, ApproveMove, Reject, CommandDecides, PersistDecision,
         Restore, Crash

\* A move enters file_history only while a file is where the row says it went
\* and none is where it was.
THEOREM HistoryNeverAhead == Spec => HistoryIsTrue
  <1>1. IInv /\ [Next]_vars =>
            [\A d \in Documents : history'[d] # history[d] =>
                LET move == history'[d][Len(history'[d])]
                IN  fs[move.next] # NoFile /\ fs[move.previous] = NoFile]_vars
    <2> SUFFICES ASSUME IInv, [Next]_vars, NEW d \in Documents,
                        history'[d] # history[d]
                 PROVE  /\ fs[history'[d][Len(history'[d])].next] # NoFile
                        /\ fs[history'[d][Len(history'[d])].previous] = NoFile
      OBVIOUS
    <2>1. ApproveRecord
      BY OnlyRecordWritesHistory
    <2>2. /\ fs[rows[approving].next] # NoFile
          /\ fs[rows[approving].previous] = NoFile
      BY <2>1 DEF IInv, ApprovedFileWaits, ApproveRecord
    <2> QED
      BY <2>1, <2>2, RecordStep
  <1> QED
    BY <1>1, InvariantHolds, PTL DEF Spec, HistoryIsTrue

----------------------------------------------------------------------------
\* Proposals and their decisions.

\* A proposal's status is its last decision, if there is one.
LEMMA NewDecisionSetsStatus ==
    ASSUME TypeOK, StatusFollowsDecisions, NEW q \in ProposalIds, NEW action \in Actions,
           proposals[q] # NoRow,
           decisions' = Append(decisions, [proposal |-> q, action |-> action]),
           proposals' = [proposals EXCEPT ![q].status = ProposalStatus(action)]
    PROVE  StatusFollowsDecisions'
  <1> DEFINE n == Len(decisions) + 1
             new == [proposal |-> q, action |-> action]
  <1>1. new \in DecisionRows /\ new.proposal = q /\ new.action = action
    BY DEF DecisionRows
  <1>2. decisions \in Seq(DecisionRows)
    BY DEF TypeOK
  <1>3. /\ n \in DOMAIN decisions' /\ decisions'[n] = new
        /\ \A k \in DOMAIN decisions : k \in DOMAIN decisions' /\ decisions'[k] = decisions[k]
        /\ \A k \in DOMAIN decisions' : k \in DOMAIN decisions \/ k = n
        /\ \A k \in DOMAIN decisions' : k <= n
    <2>1. decisions' = Append(decisions, new)
      OBVIOUS
    <2> HIDE DEF new
    <2> QED
      BY <1>1, <1>2, <2>1
  <1> HIDE DEF n, new
  <1>4. n \in DecisionsOn(q)' /\ \A j \in DecisionsOn(q)' : j <= n
    BY <1>1, <1>3 DEF DecisionsOn
  <1>5. \A r \in ProposalIds \ {q} : DecisionsOn(r)' = DecisionsOn(r)
    BY <1>1, <1>3 DEF DecisionsOn
  <1>6. proposals[q] \in ProposalRows
    BY DEF TypeOK
  <1>7. proposals' = [proposals EXCEPT ![q] =
                          [proposals[q] EXCEPT !.status = ProposalStatus(action)]]
    OBVIOUS
  <1>8. [proposals[q] EXCEPT !.status = ProposalStatus(action)] \in ProposalRows
    BY <1>6, StatusType DEF ProposalRows
  <1>9. /\ proposals'[q] # NoRow
        /\ proposals'[q].status = ProposalStatus(action)
        /\ \A r \in ProposalIds \ {q} : proposals'[r] = proposals[r]
    <2>1. proposals'[q] = [proposals[q] EXCEPT !.status = ProposalStatus(action)]
      BY <1>7 DEF TypeOK
    <2>2. [proposals[q] EXCEPT !.status = ProposalStatus(action)].status
              = ProposalStatus(action)
      BY <1>6 DEF ProposalRows
    <2> QED
      BY <1>7, <1>8, <2>1, <2>2, RowsAssumption DEF TypeOK
  <1>10. ASSUME NEW r \in ProposalIds
         PROVE  \/ DecisionsOn(r)' = {} /\ (proposals'[r] # NoRow =>
                                               proposals'[r].status = "needs_review")
                \/ /\ proposals'[r] # NoRow
                   /\ \E k \in DecisionsOn(r)' :
                         /\ \A j \in DecisionsOn(r)' : j <= k
                         /\ proposals'[r].status = ProposalStatus(decisions'[k].action)
    <2>1. CASE r = q
      BY <1>1, <1>3, <1>4, <1>9, <2>1
    <2>2. CASE r # q
      <3>1. DecisionsOn(r)' = DecisionsOn(r) /\ proposals'[r] = proposals[r]
        BY <1>5, <1>9, <2>2
      <3>2. \A k \in DecisionsOn(r) : decisions'[k] = decisions[k]
        BY <1>3 DEF DecisionsOn
      <3> QED
        BY <3>1, <3>2 DEF StatusFollowsDecisions
    <2> QED
      BY <2>1, <2>2
  <1> QED
    BY <1>10 DEF StatusFollowsDecisions

LEMMA AnalysisKeepsStatus ==
    ASSUME TypeOK, StatusFollowsDecisions, NEW w \in Writers, NEW d \in Documents,
           NEW p, NEW destination, PersistAnalysis(w, d, p, destination)
    PROVE  StatusFollowsDecisions'
  <1> DEFINE q == <<w, d>>
  <1>1. q \in ProposalIds
    BY Identifiers
  <1>2. \A r \in ProposalIds : DecisionsOn(r)' = DecisionsOn(r)
    BY DEF PersistAnalysis, DecisionsOn
  <1>3. \A r \in ProposalIds :
            \/ proposals'[r] = proposals[r]
            \/ proposals[r] = NoRow /\ proposals'[r].status = "needs_review"
    BY <1>1 DEF TypeOK, PersistAnalysis, InsertProposal
  <1> QED
    BY <1>2, <1>3 DEF StatusFollowsDecisions, PersistAnalysis

LEMMA NextKeepsStatus ==
    ASSUME IInv, StatusFollowsDecisions, [Next]_vars
    PROVE  StatusFollowsDecisions'
  <1>1. TypeOK /\ RowsOK(rows) /\ ApprovedFileWaits
    BY DEF IInv
  <1>2. ASSUME UNCHANGED <<decisions, proposals>> PROVE StatusFollowsDecisions'
    BY <1>2 DEF StatusFollowsDecisions, DecisionsOn
  <1>3. ASSUME NEW q \in ProposalIds, NEW action \in Actions, NEW id,
               proposals[q] # NoRow, PersistDecision(id, q, action)
        PROVE  StatusFollowsDecisions'
    BY <1>1, <1>2, <1>3, NewDecisionSetsStatus DEF PersistDecision
  <1>4. ASSUME NEW p \in Paths, NEW t \in Organized, Analyze(p, t)
        PROVE  StatusFollowsDecisions'
    <2>1. rows[p].path \in Paths
      BY <1>1, <1>4 DEF Analyze, RowsOK, RowOK, TableRows
    <2>2. fs[rows[p].path] \in Documents
      BY <1>1, <1>4, <2>1 DEF Analyze, TypeOK
    <2> QED
      BY <1>1, <1>4, <2>2, Identifiers, AnalysisKeepsStatus DEF Analyze
  <1>5. ASSUME NEW d \in Documents, CloudAnalyze(d) PROVE StatusFollowsDecisions'
    BY <1>1, <1>5, Identifiers, AnalysisKeepsStatus DEF CloudAnalyze
  <1>6. CASE ApproveRecord
    <2>1. PICK p : p = approving
      OBVIOUS
    <2>2. p \in Paths /\ rows[p] # NoRow /\ rows[p].status = "REVIEW" /\ RowOK(rows[p])
      BY <1>1, <1>6, <2>1 DEF ApproveRecord, TypeOK, ApprovedFileWaits, RowsOK
    <2>3. rows[p].document \in Documents /\ proposals[<<"desktop", rows[p].document>>] # NoRow
      BY <2>2 DEF RowOK
    <2>4. CASE UNCHANGED memoryVars
      BY <1>2, <2>4 DEF memoryVars
    <2>5. CASE PersistApprovedMove(rows[p].document, rows[p].previous, rows[p].next)
      <3>1. PICK d \in Documents : d = rows[p].document
        BY <2>3
      <3>2. CASE UNCHANGED memoryVars
        BY <2>4, <3>2
      <3>3. CASE ~UNCHANGED memoryVars
        <4>1. /\ decisions' = Append(decisions, [proposal |-> <<"desktop", d>>,
                                                 action |-> "approve"])
              /\ proposals' = [proposals EXCEPT ![<<"desktop", d>>].status = "approved"]
          BY <2>5, <3>1, <3>3 DEF PersistApprovedMove
        <4>2. "approved" = ProposalStatus("approve") /\ "approve" \in Actions
          BY DEF ProposalStatus, Actions
        <4>3. <<"desktop", d>> \in ProposalIds /\ proposals[<<"desktop", d>>] # NoRow
          BY <2>3, <3>1, Identifiers
        <4> QED
          BY <1>1, <4>1, <4>2, <4>3, NewDecisionSetsStatus
      <3> QED
        BY <3>2, <3>3
    <2> QED
      BY <1>6, <2>1, <2>4, <2>5 DEF ApproveRecord
  <1>7. ASSUME NEW p \in Paths, Reject(p) PROVE StatusFollowsDecisions'
    <2>1. RowOK(rows[p]) /\ rows[p].status = "REVIEW"
      BY <1>1, <1>7 DEF Reject, Reviewable, RowsOK
    <2>2. /\ <<"desktop", rows[p].document>> \in ProposalIds
          /\ proposals[<<"desktop", rows[p].document>>] # NoRow
      BY <2>1, Identifiers DEF RowOK
    <2>3. "reject" \in Actions
      BY DEF Actions
    <2> QED
      BY <1>3, <1>7, <2>2, <2>3 DEF Reject
  <1>8. ASSUME NEW q \in ProposalIds, NEW action \in Actions,
               NEW id \in 1..(Len(decisions) + 1), CommandDecides(q, action, id)
        PROVE  StatusFollowsDecisions'
    BY <1>3, <1>8 DEF CommandDecides
  <1>9. ASSUME Scan \/ ScanCancelled \/ OpenRestore \/ (\E p \in Paths : ApproveMove(p) \/ Restore(p))
               \/ Crash \/ UNCHANGED vars
        PROVE  StatusFollowsDecisions'
    BY <1>2, <1>9 DEF Scan, ScanCancelled, OpenRestore, ApproveMove, Restore, Crash, vars, memoryVars
  <1> QED
    BY <1>4, <1>5, <1>6, <1>7, <1>8, <1>9 DEF Next

\* The last decision stands, whatever is analysed or replayed afterwards.
THEOREM LastDecisionStands == Spec => []StatusFollowsDecisions
  <1>1. Init => StatusFollowsDecisions
    BY DEF Init, StatusFollowsDecisions, DecisionsOn
  <1>2. IInv /\ StatusFollowsDecisions /\ [Next]_vars => StatusFollowsDecisions'
    BY NextKeepsStatus
  <1> QED
    BY <1>1, <1>2, InvariantHolds, PTL DEF Spec

----------------------------------------------------------------------------
\* Files and origins.

\* Moving a file to a free place keeps the number of copies of each content.
LEMMA MoveKeepsCopies ==
    ASSUME TypeOK, NEW from \in Paths, NEW to \in Paths, Movable(from, to),
           fs' = Moved(from, to), NEW d \in Documents
    PROVE  Cardinality(Copies(fs', d)) = Cardinality(Copies(fs, d))
  <1>1. from # to /\ fs[from] # NoFile /\ fs[to] = NoFile
    BY DEF Movable
  <1>2. fs' = [fs EXCEPT ![from] = NoFile, ![to] = fs[from]]
    BY DEF Moved
  <1>3. fs'[to] = fs[from] /\ fs'[from] = NoFile
        /\ \A p \in Paths \ {from, to} : fs'[p] = fs[p]
    BY <1>1, <1>2 DEF TypeOK
  <1>4. CASE d # fs[from]
    <2>1. Copies(fs', d) = Copies(fs, d)
      BY <1>1, <1>3, <1>4, AbsenceAssumption DEF Copies
    <2> QED
      BY <2>1
  <1>5. CASE d = fs[from]
    <2> DEFINE old == Copies(fs, d)
               rest == old \ {from}
    <2>1. from \in old /\ to \notin old /\ to \notin rest
      BY <1>1, <1>5, AbsenceAssumption DEF Copies
    <2>2. Copies(fs', d) = rest \cup {to}
      BY <1>1, <1>3, <1>5, AbsenceAssumption DEF Copies
    <2>3. IsFiniteSet(old)
      BY PathsAssumption, FS_Subset DEF Copies
    <2>4. IsFiniteSet(rest) /\ Cardinality(rest) = Cardinality(old) - 1
      BY <2>1, <2>3, FS_RemoveElement
    <2>5. Cardinality(rest \cup {to}) = Cardinality(rest) + 1
      BY <2>1, <2>4, FS_AddElement
    <2>6. Cardinality(old) \in Nat
      BY <2>3, FS_CardinalityType
    <2> QED
      BY <2>2, <2>4, <2>5, <2>6
  <1> QED
    BY <1>4, <1>5

\* No step of the review loop loses, duplicates or overwrites a file.
THEOREM FilesSurvive == Spec => NothingLost
  <1>1. IInv /\ [Next]_vars =>
            [\A d \in Documents :
                Cardinality(Copies(fs', d)) = Cardinality(Copies(fs, d))]_vars
    <2> SUFFICES ASSUME IInv, [Next]_vars, NEW d \in Documents
                 PROVE  Cardinality(Copies(fs', d)) = Cardinality(Copies(fs, d))
      OBVIOUS
    <2>1. TypeOK /\ RowsOK(rows)
      BY DEF IInv
    <2>2. CASE UNCHANGED fs
      BY <2>2 DEF Copies
    <2>3. ASSUME NEW p \in Paths, ApproveMove(p)
          PROVE  Cardinality(Copies(fs', d)) = Cardinality(Copies(fs, d))
      <3>1. RowOK(rows[p]) /\ rows[p].status = "REVIEW"
        BY <2>1, <2>3 DEF ApproveMove, Reviewable, RowsOK
      <3>2. rows[p].previous \in Paths /\ rows[p].next \in Paths
        BY <3>1 DEF RowOK
      <3> QED
        BY <2>1, <2>3, <3>2, MoveKeepsCopies DEF ApproveMove
    <2>4. ASSUME NEW p \in Paths, Restore(p)
          PROVE  Cardinality(Copies(fs', d)) = Cardinality(Copies(fs, d))
      <3>1. RowOK(rows[p]) /\ rows[p].status = "MOVED"
        BY <2>1, <2>4 DEF Restore, RowsOK
      <3>2. rows[p].previous \in Paths /\ rows[p].path \in Paths
        BY <3>1 DEF RowOK, TableRows
      <3> QED
        BY <2>1, <2>4, <3>2, MoveKeepsCopies DEF Restore
    <2>5. \/ UNCHANGED fs
          \/ \E p \in Paths : ApproveMove(p) \/ Restore(p)
      BY DEF Next, vars, Scan, ScanCancelled, OpenRestore, Analyze, CloudAnalyze, ApproveRecord,
             Reject, CommandDecides, Crash
    <2> QED
      BY <2>2, <2>3, <2>4, <2>5
  <1> QED
    BY <1>1, InvariantHolds, PTL DEF Spec, NothingLost

\* What OriginStands says of one step.
KeepsOrigins ==
    /\ \A d \in Documents : documents[d] # NoRow =>
          /\ documents'[d].id = documents[d].id
          /\ documents'[d].original = documents[d].original
    /\ \A q \in ProposalIds : proposals[q] # NoRow =>
          proposals'[q].destination = proposals[q].destination
    /\ \A k \in DOMAIN decisions : decisions'[k] = decisions[k]

LEMMA AnalysisKeepsOrigins ==
    ASSUME TypeOK, NEW w, NEW d, NEW p, NEW destination,
           PersistAnalysis(w, d, p, destination)
    PROVE  KeepsOrigins
  <1>1. \A x \in Documents : documents[x] # NoRow =>
            documents'[x] \in
                {documents[x], [documents[x] EXCEPT !.current = p, !.status = "proposed"]}
    BY DEF TypeOK, PersistAnalysis, UpsertDocument
  <1>2. \A x \in Documents : documents[x] # NoRow =>
            /\ documents'[x].id = documents[x].id
            /\ documents'[x].original = documents[x].original
    <2> SUFFICES ASSUME NEW x \in Documents, documents[x] # NoRow
                 PROVE  /\ documents'[x].id = documents[x].id
                        /\ documents'[x].original = documents[x].original
      OBVIOUS
    <2>1. documents[x] \in DocumentRows
      BY DEF TypeOK
    <2> QED
      BY <1>1, <2>1 DEF DocumentRows
  <1>3. \A q \in ProposalIds : proposals[q] # NoRow => proposals'[q] = proposals[q]
    BY DEF TypeOK, PersistAnalysis, InsertProposal
  <1> QED
    BY <1>2, <1>3 DEF KeepsOrigins, PersistAnalysis

LEMMA DecisionKeepsOrigins ==
    ASSUME TypeOK, NEW q \in ProposalIds, NEW status, NEW row \in DecisionRows,
           proposals' = [proposals EXCEPT ![q].status = status],
           decisions' = Append(decisions, row),
           \A d \in Documents : documents[d] # NoRow =>
              /\ documents'[d].id = documents[d].id
              /\ documents'[d].original = documents[d].original
    PROVE  KeepsOrigins
  <1>1. decisions \in Seq(DecisionRows)
    BY DEF TypeOK
  <1>2. \A k \in DOMAIN decisions : decisions'[k] = decisions[k]
    BY <1>1
  <1>3. ASSUME NEW r \in ProposalIds, proposals[r] # NoRow
        PROVE  proposals'[r].destination = proposals[r].destination
    <2>1. proposals[r] \in ProposalRows
      BY <1>3 DEF TypeOK
    <2>2. proposals'[r] \in {proposals[r], [proposals[r] EXCEPT !.status = status]}
      BY DEF TypeOK
    <2> QED
      BY <2>1, <2>2 DEF ProposalRows
  <1> QED
    BY <1>2, <1>3 DEF KeepsOrigins

LEMMA PersistDecisionKeepsOrigins ==
    ASSUME TypeOK, NEW q \in ProposalIds, NEW action \in Actions, NEW id,
           PersistDecision(id, q, action)
    PROVE  KeepsOrigins
  <1>1. CASE id <= Len(decisions)
    BY <1>1 DEF PersistDecision, KeepsOrigins
  <1>2. CASE ~(id <= Len(decisions))
    <2>1. [proposal |-> q, action |-> action] \in DecisionRows
      BY DEF DecisionRows
    <2> QED
      BY <1>2, <2>1, DecisionKeepsOrigins DEF PersistDecision
  <1> QED
    BY <1>1, <1>2

LEMMA RecordKeepsOrigins ==
    ASSUME IInv, ApproveRecord
    PROVE  KeepsOrigins
  <1>1. TypeOK /\ RowsOK(rows) /\ ApprovedFileWaits /\ StoredTogether
    BY DEF IInv
  <1>2. CASE UNCHANGED memoryVars
    BY <1>2 DEF memoryVars, KeepsOrigins
  <1>3. CASE ~UNCHANGED memoryVars
    <2>1. PICK p : p = approving
      OBVIOUS
    <2>2. p \in Paths /\ rows[p] # NoRow /\ rows[p].status = "REVIEW" /\ RowOK(rows[p])
      BY <1>1, <2>1 DEF ApproveRecord, TypeOK, ApprovedFileWaits, RowsOK
    <2>3. PICK d \in Documents : d = rows[p].document
      BY <2>2 DEF RowOK
    <2>4. PICK to : to = rows[p].next
      OBVIOUS
    <2>5. documents[d] # NoRow /\ documents[d] \in DocumentRows
      BY <1>1, <2>2, <2>3 DEF RowOK, StoredTogether, TypeOK
    <2>6. /\ decisions' = Append(decisions, [proposal |-> <<"desktop", d>>,
                                             action |-> "approve"])
          /\ proposals' = [proposals EXCEPT ![<<"desktop", d>>].status = "approved"]
          /\ documents' = [documents EXCEPT ![d].current = to, ![d].status = "moved"]
      BY <1>3, <2>1, <2>3, <2>4 DEF ApproveRecord, PersistApprovedMove, memoryVars
    <2>7. <<"desktop", d>> \in ProposalIds
      BY Identifiers
    <2>8. [proposal |-> <<"desktop", d>>, action |-> "approve"] \in DecisionRows
      BY <2>7 DEF DecisionRows, Actions
    <2>9. documents' = [documents EXCEPT ![d] =
                           [documents[d] EXCEPT !.current = to, !.status = "moved"]]
      BY <1>1, <2>6 DEF TypeOK
    <2>10. /\ \A x \in Documents \ {d} : documents'[x] = documents[x]
           /\ documents'[d].id = documents[d].id
           /\ documents'[d].original = documents[d].original
      BY <1>1, <2>5, <2>9 DEF TypeOK, DocumentRows
    <2> QED
      BY <1>1, <2>6, <2>7, <2>8, <2>10, DecisionKeepsOrigins
  <1> QED
    BY <1>2, <1>3

\* A document's identity and original path, a proposal's destination and a
\* decision are written once.
THEOREM OriginsStand == Spec => OriginStands
  <1>1. IInv /\ [Next]_vars => [KeepsOrigins]_vars
    <2> SUFFICES ASSUME IInv, [Next]_vars PROVE KeepsOrigins
      OBVIOUS
    <2>1. TypeOK /\ RowsOK(rows)
      BY DEF IInv
    <2>2. ASSUME NEW p \in Paths, NEW t \in Organized, Analyze(p, t) PROVE KeepsOrigins
      BY <2>1, <2>2, AnalysisKeepsOrigins DEF Analyze
    <2>3. ASSUME NEW d \in Documents, CloudAnalyze(d) PROVE KeepsOrigins
      BY <2>1, <2>3, AnalysisKeepsOrigins DEF CloudAnalyze
    <2>4. CASE ApproveRecord
      BY <2>4, RecordKeepsOrigins
    <2>5. ASSUME NEW p \in Paths, Reject(p) PROVE KeepsOrigins
      <3>1. RowOK(rows[p]) /\ rows[p].status = "REVIEW"
        BY <2>1, <2>5 DEF Reject, Reviewable, RowsOK
      <3>2. <<"desktop", rows[p].document>> \in ProposalIds /\ "reject" \in Actions
        BY <3>1, Identifiers DEF RowOK, Actions
      <3> QED
        BY <2>1, <2>5, <3>2, PersistDecisionKeepsOrigins DEF Reject
    <2>6. ASSUME NEW q \in ProposalIds, NEW action \in Actions,
                 NEW id \in 1..(Len(decisions) + 1), CommandDecides(q, action, id)
          PROVE  KeepsOrigins
      BY <2>1, <2>6, PersistDecisionKeepsOrigins DEF CommandDecides
    <2>7. ASSUME UNCHANGED memoryVars PROVE KeepsOrigins
      BY <2>7 DEF memoryVars, KeepsOrigins
    <2>8. ASSUME Scan \/ ScanCancelled \/ OpenRestore \/ (\E p \in Paths : ApproveMove(p) \/ Restore(p))
                 \/ Crash \/ UNCHANGED vars
          PROVE  KeepsOrigins
      BY <2>7, <2>8 DEF Scan, ScanCancelled, OpenRestore, ApproveMove, Restore, Crash, vars
    <2> QED
      BY <2>2, <2>3, <2>4, <2>5, <2>6, <2>8 DEF Next
  <1> QED
    BY <1>1, InvariantHolds, PTL DEF Spec, OriginStands, KeepsOrigins
----------------------------------------------------------------------------
\* What holds of the contents as long as every transaction has committed and
\* been acknowledged, no process has died, and no document is analysed in the
\* cloud.  (An approval whose record was refused or lost leaves a row in
\* review whose file is gone.)

\* Row p is still to be analysed or to be decided.
OpenRow(table, p) == table[p] # NoRow /\ table[p].status \in {"READY", "REVIEW"}

\* An open row is the only row of its place; unless its decision is due, its
\* file is there, and it is the one that was analysed.
OpenRowsAreTrue(table, files, due) ==
    \A p \in Paths : OpenRow(table, p) =>
        /\ table[p].path = p
        /\ table[p].status = "REVIEW" => table[p].previous = p
        /\ p # due => /\ files[p] # NoFile
                      /\ table[p].status = "REVIEW" => table[p].document = files[p]
        /\ \A x \in Paths \ {p} : table[x] # NoRow => table[x].path # p

\* No other program has stored a document first.
OwnDocuments == \A d \in Documents : documents[d] # NoRow => documents[d].id = "desktop"

\* The file of a due decision is the analysed one, at a place of no open row.
ApprovedIsAnalysed ==
    approving # NoRow => /\ fs[rows[approving].next] = rows[approving].document
                         /\ ~OpenRow(rows, rows[approving].next)

\* Some move of the given histories leads to place p.
Recorded(moves, p) == \E d \in Documents : \E k \in DOMAIN moves[d] : moves[d][k].next = p

\* Files under the organized folder lie where recorded moves led, and moves
\* out of such a place start where one led.
PlacesAreRecorded ==
    /\ \A p \in Organized : fs[p] # NoFile =>
          Recorded(history, p) \/ (approving # NoRow /\ p = rows[approving].next)
    /\ \A d \in Documents : \A k \in DOMAIN history[d] :
          history[d][k].previous \in Organized => Recorded(history, history[d][k].previous)
    /\ approving # NoRow /\ rows[approving].previous \in Organized
          => Recorded(history, rows[approving].previous)

Undisturbed ==
    /\ OwnDocuments
    /\ OpenRowsAreTrue(rows, fs, approving)
    /\ ApprovedIsAnalysed
    /\ PlacesAreRecorded

LEMMA InitUndisturbed == Init => Undisturbed
  BY DEF Init, Undisturbed, OwnDocuments, OpenRowsAreTrue, OpenRow, ApprovedIsAnalysed,
         PlacesAreRecorded

\* A recalled row keeps its path and is not open.
LEMMA RecallingCloses ==
    ASSUME NEW files, NEW table, RowsOK(table), NEW newTable,
           Recalling(files, table, newTable), NEW p \in Paths, newTable[p] # NoRow
    PROVE  /\ table[p] # NoRow
           /\ newTable[p].path = table[p].path
           /\ OpenRow(newTable, p) => newTable[p] = table[p]
  <1>1. PICK entry \in [Paths -> Documents] :
            newTable = [x \in Paths |->
                   IF /\ table[x] # NoRow
                      /\ files[table[x].path] # NoFile
                      /\ LedTo(table[x].path) # {}
                   THEN Recalled(table[x], entry[table[x].path])
                   ELSE table[x]]
    BY DEF Recalling
  <1>2. CASE newTable[p] = table[p]
    BY <1>2
  <1>3. CASE newTable[p] # table[p]
    <2>1. table[p] # NoRow /\ newTable[p] = Recalled(table[p], entry[table[p].path])
      BY <1>1, <1>3
    <2>2. table[p] \in TableRows
      BY <2>1 DEF RowsOK
    <2>3. newTable[p].path = table[p].path /\ newTable[p].status = "MOVED"
      BY <2>1, <2>2 DEF Recalled, TableRows
    <2> QED
      BY <2>1, <2>3 DEF OpenRow
  <1> QED
    BY <1>2, <1>3

LEMMA RecallingKeepsTruth ==
    ASSUME NEW files, NEW table, RowsOK(table), NEW newTable,
           Recalling(files, table, newTable), OpenRowsAreTrue(table, files, NoRow)
    PROVE  OpenRowsAreTrue(newTable, files, NoRow)
  <1> SUFFICES ASSUME NEW p \in Paths, OpenRow(newTable, p)
               PROVE  /\ newTable[p].path = p
                      /\ newTable[p].status = "REVIEW" => newTable[p].previous = p
                      /\ p # NoRow =>
                            /\ files[p] # NoFile
                            /\ newTable[p].status = "REVIEW" => newTable[p].document = files[p]
                      /\ \A x \in Paths \ {p} : newTable[x] # NoRow => newTable[x].path # p
    BY DEF OpenRowsAreTrue
  <1>1. newTable[p] = table[p] /\ OpenRow(table, p)
    BY RecallingCloses DEF OpenRow
  <1>2. \A x \in Paths \ {p} : newTable[x] # NoRow =>
            table[x] # NoRow /\ newTable[x].path = table[x].path
    BY RecallingCloses
  <1> QED
    BY <1>1, <1>2 DEF OpenRowsAreTrue

\* The parts that the table and the files decide, where nothing is due.
LEMMA UndisturbedTable ==
    ASSUME Undisturbed, UNCHANGED memoryVars, approving' = NoRow,
           OpenRowsAreTrue(rows', fs', NoRow),
           \A p \in Organized : fs'[p] # NoFile => Recorded(history, p)
    PROVE  Undisturbed'
  <1>1. UNCHANGED <<documents, history>>
    BY DEF memoryVars
  <1>2. OpenRowsAreTrue(rows, fs, approving)'
    BY DEF OpenRowsAreTrue, OpenRow
  <1> QED
    BY <1>1, <1>2 DEF Undisturbed, OwnDocuments, ApprovedIsAnalysed, PlacesAreRecorded, Recorded

\* Where nothing is due, every file under the organized folder is recorded.
LEMMA RecordedBetween ==
    ASSUME Undisturbed, approving = NoRow, NEW p \in Organized, fs[p] # NoFile
    PROVE  Recorded(history, p)
  BY DEF Undisturbed, PlacesAreRecorded

LEMMA UndisturbedScan ==
    ASSUME IInv, Undisturbed, Scan \/ ScanCancelled \/ OpenRestore
    PROVE  Undisturbed'
  <1>1. /\ approving = NoRow /\ approving' = NoRow
        /\ UNCHANGED fs /\ UNCHANGED memoryVars
    BY DEF Scan, ScanCancelled, OpenRestore
  <1>2. \A p \in Organized : fs'[p] # NoFile => Recorded(history, p)
    BY <1>1, RecordedBetween
  <1> DEFINE found == [p \in Paths |-> IF fs[p] = NoFile THEN NoRow ELSE ReadyRow(p)]
  <1>3. RowsOK(found) /\ OpenRowsAreTrue(found, fs, NoRow)
    <2>1. \A p \in Paths : /\ ReadyRow(p) \in TableRows /\ ReadyRow(p).status = "READY"
                           /\ ReadyRow(p).path = p
      BY DEF ReadyRow, TableRows, RowStatuses
    <2>2. RowsOK(found)
      BY <2>1 DEF RowsOK, RowOK
    <2>3. OpenRowsAreTrue(found, fs, NoRow)
      BY <2>1 DEF OpenRowsAreTrue, OpenRow
    <2> QED
      BY <2>2, <2>3
  <1>4. RowsOK(rows) /\ OpenRowsAreTrue(rows, fs, NoRow)
    BY <1>1 DEF IInv, Undisturbed
  <1>5. \/ rows' = [p \in Paths |-> NoRow]
        \/ rows' = found
        \/ Recalling(fs, found, rows')
        \/ Recalling(fs, rows, rows')
    BY DEF Scan, ScanCancelled, OpenRestore
  <1>6. OpenRowsAreTrue(rows', fs, NoRow)
    <2>1. CASE rows' = [p \in Paths |-> NoRow]
      BY <2>1 DEF OpenRowsAreTrue, OpenRow
    <2>2. ASSUME NEW table, RowsOK(table), OpenRowsAreTrue(table, fs, NoRow),
                 Recalling(fs, table, rows')
          PROVE  OpenRowsAreTrue(rows', fs, NoRow)
      <3>1. PICK newTable : newTable = rows'
        OBVIOUS
      <3>2. PICK files : files = fs
        OBVIOUS
      <3>3. Recalling(files, table, newTable) /\ OpenRowsAreTrue(table, files, NoRow)
        BY <2>2, <3>1, <3>2
      <3>4. OpenRowsAreTrue(newTable, files, NoRow)
        BY <2>2, <3>3, RecallingKeepsTruth
      <3> QED
        BY <3>1, <3>2, <3>4
    <2> HIDE DEF found
    <2> QED
      BY <1>3, <1>4, <1>5, <2>1, <2>2
  <1> QED
    BY <1>1, <1>2, <1>6, UndisturbedTable
LEMMA UndisturbedAnalyze ==
    ASSUME IInv, Undisturbed, NEW p \in Paths, NEW t \in Organized, Analyze(p, t),
           UNCHANGED failures
    PROVE  Undisturbed'
  <1> DEFINE row == rows[p]
             d == fs[row.path]
             new == [row EXCEPT !.status = "REVIEW", !.document = d,
                                !.previous = row.path, !.next = t]
  <1>1. TypeOK /\ RowsOK(rows)
    BY DEF IInv
  <1>2. approving = NoRow /\ OpenRow(rows, p) /\ row \in TableRows
    BY <1>1 DEF Analyze, OpenRow, RowsOK
  <1>3. row.path = p /\ \A x \in Paths \ {p} : rows[x] # NoRow => rows[x].path # p
    BY <1>2 DEF Undisturbed, OpenRowsAreTrue
  <1>4. failures \in Nat
    BY <1>1, BoundsAssumption DEF TypeOK
  <1>5. /\ PersistAnalysis("desktop", d, p, t)
        /\ rows' = [rows EXCEPT ![p] = new]
        /\ UNCHANGED <<fs, approving>>
    <2>1. ~Fails
      BY <1>4 DEF Fails
    <2>2. rows' = [rows EXCEPT ![p].status = "REVIEW", ![p].document = d,
                               ![p].previous = row.path, ![p].next = t]
      BY <2>1 DEF Analyze
    <2>3. rows' = [rows EXCEPT ![p] = new]
      BY <2>2
    <2> QED
      BY <1>3, <2>3 DEF Analyze
  <1>6. d \in Documents /\ d # NoFile /\ d = fs[p]
    BY <1>1, <1>3 DEF Analyze, TypeOK
  <1>7. /\ new.status = "REVIEW" /\ new.document = d /\ new.previous = p /\ new.path = p
    <2> HIDE DEF row, d
    <2> QED
      BY <1>2, <1>3 DEF TableRows
  <1>8. rows'[p] = new /\ \A x \in Paths \ {p} : rows'[x] = rows[x]
    <2> HIDE DEF new
    <2> QED
      BY <1>1, <1>5 DEF TypeOK
  <1>9. OwnDocuments'
    <2> HIDE DEF d, row, new
    <2> SUFFICES ASSUME NEW x \in Documents, documents'[x] # NoRow
                 PROVE  documents'[x].id = "desktop"
      BY DEF OwnDocuments
    <2>1. CASE documents'[x] = documents[x]
      BY <2>1 DEF Undisturbed, OwnDocuments
    <2>2. CASE documents'[x] # documents[x]
      <3>1. documents' = [documents EXCEPT ![d] =
               IF documents[d] = NoRow
               THEN [id |-> "desktop", original |-> p, current |-> p, status |-> "proposed"]
               ELSE [documents[d] EXCEPT !.current = p, !.status = "proposed"]]
        BY <1>1, <1>5, <1>6 DEF PersistAnalysis, UpsertDocument, TypeOK
      <3>2. CASE documents[x] = NoRow
        BY <1>1, <1>6, <2>2, <3>1, <3>2 DEF TypeOK
      <3>3. CASE documents[x] # NoRow
        <4>1. documents[x] \in DocumentRows /\ documents[x].id = "desktop"
          BY <1>1, <3>3 DEF TypeOK, Undisturbed, OwnDocuments
        <4>2. documents'[x] = [documents[x] EXCEPT !.current = p, !.status = "proposed"]
          BY <1>1, <1>6, <2>2, <3>1, <3>3 DEF TypeOK
        <4> QED
          BY <4>1, <4>2 DEF DocumentRows
      <3> QED
        BY <3>2, <3>3
    <2> QED
      BY <2>1, <2>2
  <1>10. OpenRowsAreTrue(rows, fs, approving)'
    <2> SUFFICES ASSUME NEW x \in Paths, OpenRow(rows', x)
                 PROVE  /\ rows'[x].path = x
                        /\ rows'[x].status = "REVIEW" => rows'[x].previous = x
                        /\ x # approving' =>
                              /\ fs'[x] # NoFile
                              /\ rows'[x].status = "REVIEW" => rows'[x].document = fs'[x]
                        /\ \A y \in Paths \ {x} : rows'[y] # NoRow => rows'[y].path # x
      BY DEF OpenRowsAreTrue
    <2> HIDE DEF new, d, row
    <2>1. CASE x = p
      BY <1>3, <1>5, <1>6, <1>7, <1>8, <2>1 DEF row
    <2>2. CASE x # p
      <3>1. OpenRow(rows, x)
        BY <1>8, <2>2 DEF OpenRow
      <3> QED
        BY <1>5, <1>7, <1>8, <2>2, <3>1 DEF Undisturbed, OpenRowsAreTrue
    <2> QED
      BY <2>1, <2>2
  <1>11. ApprovedIsAnalysed' /\ PlacesAreRecorded'
    BY <1>2, <1>5 DEF Undisturbed, ApprovedIsAnalysed, PlacesAreRecorded, Recorded,
                      PersistAnalysis
  <1> QED
    BY <1>9, <1>10, <1>11 DEF Undisturbed

LEMMA UndisturbedApproveMove ==
    ASSUME IInv, Undisturbed, NEW p \in Paths, ApproveMove(p)
    PROVE  Undisturbed'
  <1> DEFINE to == rows[p].next
  <1>1. TypeOK /\ RowsOK(rows)
    BY DEF IInv
  <1>2. /\ approving = NoRow /\ approving' = p /\ p # NoRow
        /\ OpenRow(rows, p) /\ rows[p].status = "REVIEW" /\ RowOK(rows[p])
        /\ UNCHANGED <<documents, history, rows>>
    BY <1>1, AbsenceAssumption DEF ApproveMove, Reviewable, OpenRow, RowsOK, memoryVars
  <1>3. to \in Paths /\ rows[p].previous = p /\ rows[p].document = fs[p]
    BY <1>2 DEF RowOK, Undisturbed, OpenRowsAreTrue
  <1>4. /\ fs[p] # NoFile /\ p # to /\ fs[to] = NoFile
        /\ fs' = [fs EXCEPT ![p] = NoFile, ![to] = fs[p]]
    BY <1>3 DEF ApproveMove, Movable, Moved
  <1> HIDE DEF to
  <1>5. fs'[to] = fs[p] /\ fs'[p] = NoFile /\ \A x \in Paths \ {p, to} : fs'[x] = fs[x]
    BY <1>1, <1>3, <1>4 DEF TypeOK
  <1>6. ~OpenRow(rows, to)
    BY <1>2, <1>3, <1>4, AbsenceAssumption DEF Undisturbed, OpenRowsAreTrue
  <1>7. OwnDocuments'
    BY <1>2 DEF Undisturbed, OwnDocuments
  <1>8. OpenRowsAreTrue(rows, fs, approving)'
    <2> SUFFICES ASSUME NEW x \in Paths, OpenRow(rows, x)
                 PROVE  /\ rows[x].path = x
                        /\ rows[x].status = "REVIEW" => rows[x].previous = x
                        /\ x # p => /\ fs'[x] # NoFile
                                    /\ rows[x].status = "REVIEW" => rows[x].document = fs'[x]
                        /\ \A y \in Paths \ {x} : rows[y] # NoRow => rows[y].path # x
      BY <1>2 DEF OpenRowsAreTrue, OpenRow
    <2>1. x # p => fs'[x] = fs[x]
      BY <1>5, <1>6
    <2> QED
      BY <1>2, <2>1, AbsenceAssumption DEF Undisturbed, OpenRowsAreTrue
  <1>9. ApprovedIsAnalysed'
    BY <1>2, <1>3, <1>5, <1>6 DEF ApprovedIsAnalysed, OpenRow, to
  <1>10. PlacesAreRecorded'
    <2>1. \A x \in Paths : Recorded(history', x) <=> Recorded(history, x)
      BY <1>2 DEF Recorded
    <2>2. p \in Organized => Recorded(history, p)
      BY <1>2, <1>4, RecordedBetween
    <2>3. ASSUME NEW x \in Organized, fs'[x] # NoFile
          PROVE  Recorded(history, x) \/ x = to
      BY <1>2, <1>5, <2>3, RecordedBetween, PathsAssumption
    <2>4. \A d \in Documents : \A k \in DOMAIN history[d] :
              history[d][k].previous \in Organized => Recorded(history, history[d][k].previous)
      BY DEF Undisturbed, PlacesAreRecorded
    <2> QED
      BY <1>2, <1>3, <2>1, <2>2, <2>3, <2>4, PathsAssumption DEF PlacesAreRecorded, to
  <1> QED
    BY <1>7, <1>8, <1>9, <1>10 DEF Undisturbed

\* Without a failure an approval's record commits and is acknowledged.
LEMMA RecordCommits ==
    ASSUME IInv, Undisturbed, ApproveRecord, UNCHANGED failures, NEW p, p = approving
    PROVE  /\ p \in Paths /\ RowOK(rows[p]) /\ rows[p].status = "REVIEW"
           /\ rows[p].document \in Documents
           /\ documents[rows[p].document].id = "desktop"
           /\ PersistApprovedMove(rows[p].document, rows[p].previous, rows[p].next)
           /\ rows' = [rows EXCEPT ![p] =
                          [rows[p] EXCEPT !.status = "MOVED", !.path = rows[p].next]]
           /\ approving' = NoRow /\ UNCHANGED fs
  <1>1. TypeOK /\ RowsOK(rows) /\ ApprovedFileWaits /\ StoredTogether
    BY DEF IInv
  <1>2. p \in Paths /\ RowOK(rows[p]) /\ rows[p].status = "REVIEW"
    BY <1>1 DEF ApproveRecord, TypeOK, ApprovedFileWaits, RowsOK
  <1>3. rows[p].document \in Documents /\ documents[rows[p].document] # NoRow
    BY <1>1, <1>2 DEF RowOK, StoredTogether
  <1>4. documents[rows[p].document].id = "desktop"
    BY <1>3 DEF Undisturbed, OwnDocuments
  <1>5. ~Fails
    BY <1>1, BoundsAssumption DEF TypeOK, Fails
  <1>6. /\ PersistApprovedMove(rows[p].document, rows[p].previous, rows[p].next)
        /\ rows' = [rows EXCEPT ![p].status = "MOVED", ![p].path = rows[p].next]
        /\ approving' = NoRow /\ UNCHANGED fs
    BY <1>4, <1>5 DEF ApproveRecord
  <1>7. [rows EXCEPT ![p].status = "MOVED", ![p].path = rows[p].next]
            = [rows EXCEPT ![p] =
                  [rows[p] EXCEPT !.status = "MOVED", !.path = rows[p].next]]
    BY <1>1, <1>2 DEF TypeOK
  <1> QED
    BY <1>2, <1>3, <1>4, <1>6, <1>7
\* One open row is closed: the file it was about stays or has moved where no
\* open row is.
LEMMA ClosingKeepsTruth ==
    ASSUME TypeOK, OpenRowsAreTrue(rows, fs, approving), UNCHANGED fs,
           NEW p \in Paths, NEW new, ~(new.status \in {"READY", "REVIEW"}),
           rows' = [rows EXCEPT ![p] = new],
           approving' = NoRow, approving \in {NoRow, p},
           ~OpenRow(rows, new.path) \/ new.path = p
    PROVE  OpenRowsAreTrue(rows', fs', NoRow)
  <1>1. rows'[p] = new /\ \A x \in Paths \ {p} : rows'[x] = rows[x]
    BY DEF TypeOK
  <1> SUFFICES ASSUME NEW x \in Paths, OpenRow(rows', x)
               PROVE  /\ rows'[x].path = x
                      /\ rows'[x].status = "REVIEW" => rows'[x].previous = x
                      /\ x # NoRow =>
                            /\ fs'[x] # NoFile
                            /\ rows'[x].status = "REVIEW" => rows'[x].document = fs'[x]
                      /\ \A y \in Paths \ {x} : rows'[y] # NoRow => rows'[y].path # x
    BY DEF OpenRowsAreTrue
  <1>2. x # p /\ rows'[x] = rows[x] /\ OpenRow(rows, x)
    BY <1>1 DEF OpenRow
  <1>3. /\ rows[x].path = x
        /\ rows[x].status = "REVIEW" => rows[x].previous = x
        /\ x # approving => /\ fs[x] # NoFile
                            /\ rows[x].status = "REVIEW" => rows[x].document = fs[x]
        /\ \A y \in Paths \ {x} : rows[y] # NoRow => rows[y].path # x
    BY <1>2 DEF OpenRowsAreTrue
  <1>4. new.path # x
    BY <1>2
  <1> QED
    BY <1>1, <1>2, <1>3, <1>4

LEMMA UndisturbedRecord ==
    ASSUME IInv, Undisturbed, ApproveRecord, UNCHANGED failures
    PROVE  Undisturbed'
  <1>0. PICK p : p = approving
    OBVIOUS
  <1> DEFINE row == rows[p]
             d == row.document
             new == [row EXCEPT !.status = "MOVED", !.path = row.next]
  <1>1. TypeOK /\ RowsOK(rows) /\ ApprovedFileWaits
    BY DEF IInv
  <1>2. /\ p \in Paths /\ RowOK(row) /\ row.status = "REVIEW" /\ d \in Documents
        /\ documents[d].id = "desktop"
        /\ PersistApprovedMove(d, row.previous, row.next)
        /\ rows' = [rows EXCEPT ![p] = new]
        /\ approving' = NoRow /\ UNCHANGED fs
    BY <1>0, RecordCommits
  <1>3. row \in TableRows /\ row.previous \in Paths /\ row.next \in Paths
        /\ proposals[<<"desktop", d>>] # NoRow
    BY <1>2 DEF RowOK
  <1>4. p # NoRow /\ Len(decisions) < MaxDecisions /\ ~OpenRow(rows, row.next)
    BY <1>0, <1>1, <1>2, AbsenceAssumption DEF ApprovedFileWaits, Undisturbed, ApprovedIsAnalysed
  <1>5. new.status = "MOVED" /\ new.path = row.next
    <2> HIDE DEF row
    <2> QED
      BY <1>3 DEF TableRows
  <1> HIDE DEF row, d, new
  <1>6. OpenRowsAreTrue(rows', fs', NoRow)
    <2>1. OpenRowsAreTrue(rows, fs, approving)
      BY DEF Undisturbed
    <2>2. ~OpenRow(rows, new.path) /\ ~(new.status \in {"READY", "REVIEW"})
      BY <1>4, <1>5
    <2> QED
      BY <1>0, <1>1, <1>2, <2>1, <2>2, ClosingKeepsTruth
  <1>7. OpenRowsAreTrue(rows, fs, approving)' /\ ApprovedIsAnalysed'
    BY <1>2, <1>6 DEF OpenRowsAreTrue, OpenRow, ApprovedIsAnalysed
  <1>8. OwnDocuments'
    <2>1. documents' = [documents EXCEPT ![d].current = row.next, ![d].status = "moved"]
      BY <1>2 DEF PersistApprovedMove
    <2>2. \A x \in Documents \ {d} : documents'[x] = documents[x]
      BY <1>1, <2>1 DEF TypeOK
    <2>3. documents[d] \in DocumentRows
      BY <1>1, <1>2, <1>3 DEF TypeOK, IInv, StoredTogether
    <2>4. documents'[d] = [documents[d] EXCEPT !.current = row.next, !.status = "moved"]
      BY <1>1, <1>2, <2>1 DEF TypeOK
    <2>5. documents'[d].id = "desktop"
      BY <1>2, <2>3, <2>4 DEF DocumentRows
    <2> QED
      BY <2>2, <2>5 DEF Undisturbed, OwnDocuments
  <1>9. PlacesAreRecorded'
    <2>1. /\ HistoryGrows
          /\ history' \in [Documents -> Seq(Moves)]
          /\ \A x \in Documents \ {d} : history'[x] = history[x]
          /\ Len(history'[d]) \in DOMAIN history'[d]
          /\ history'[d][Len(history'[d])].previous = row.previous
          /\ history'[d][Len(history'[d])].next = row.next
      BY <1>2, <1>3, <1>4, ApprovedMoveStores
    <2>2. \A x \in Documents : history'[x] # history[x] => x = d
      BY <2>1
    <2>3. \A x : Recorded(history, x) => Recorded(history', x)
      BY <2>1 DEF Recorded, HistoryGrows
    <2>4. Recorded(history', row.next)
      BY <1>2, <2>1 DEF Recorded
    <2>5. \A x \in Organized : fs[x] # NoFile => Recorded(history, x) \/ x = row.next
      BY <1>0 DEF Undisturbed, PlacesAreRecorded, row
    <2>6. row.previous \in Organized => Recorded(history, row.previous)
      BY <1>0, <1>4 DEF Undisturbed, PlacesAreRecorded, row
    <2>7. history'[d] = Append(history[d], [decision |-> Len(decisions) + 1,
                                             proposal |-> <<"desktop", d>>,
                                             previous |-> row.previous, next |-> row.next])
      BY <1>1, <1>2 DEF PersistApprovedMove, TypeOK
    <2>8. ASSUME NEW x \in Documents, NEW k \in DOMAIN history'[x]
          PROVE  \/ k \in DOMAIN history[x] /\ history'[x][k] = history[x][k]
                 \/ history'[x][k].previous = row.previous
      <3>1. CASE x # d
        BY <2>1, <3>1
      <3>2. CASE x = d
        <4>1. history[d] \in Seq(Moves)
          BY <1>1, <1>2 DEF TypeOK
        <4>2. PICK move : move = [decision |-> Len(decisions) + 1,
                                  proposal |-> <<"desktop", d>>,
                                  previous |-> row.previous, next |-> row.next]
          OBVIOUS
        <4>3. Len(history'[d]) = Len(history[d]) + 1
              /\ DOMAIN history'[d] = 1..(Len(history[d]) + 1)
              /\ DOMAIN history[d] = 1..Len(history[d])
          BY <2>7, <4>1, <4>2
        <4>4. k \in DOMAIN history[d] \/ k = Len(history'[d])
          BY <3>2, <4>1, <4>3
        <4> QED
          BY <1>2, <2>1, <3>2, <4>4 DEF HistoryGrows
      <3> QED
        BY <3>1, <3>2
    <2>9. ASSUME NEW x \in Documents, NEW k \in DOMAIN history'[x],
                 history'[x][k].previous \in Organized
          PROVE  Recorded(history', history'[x][k].previous)
      <3>1. Recorded(history, history'[x][k].previous)
        BY <2>6, <2>8, <2>9 DEF Undisturbed, PlacesAreRecorded
      <3> QED
        BY <2>3, <3>1
    <2>10. \A x \in Organized : fs'[x] # NoFile => Recorded(history', x)
      BY <1>2, <2>3, <2>4, <2>5
    <2> QED
      BY <1>2, <2>9, <2>10 DEF PlacesAreRecorded
  <1> QED
    BY <1>7, <1>8, <1>9 DEF Undisturbed

LEMMA UndisturbedReject ==
    ASSUME IInv, Undisturbed, NEW p \in Paths, Reject(p), UNCHANGED failures
    PROVE  Undisturbed'
  <1> DEFINE row == rows[p]
             new == [row EXCEPT !.status = "REJECTED"]
  <1>1. TypeOK /\ RowsOK(rows)
    BY DEF IInv
  <1>2. approving = NoRow /\ OpenRow(rows, p) /\ row \in TableRows
    BY <1>1 DEF Reject, Reviewable, OpenRow, RowsOK
  <1>3. row.path = p
    BY <1>2 DEF Undisturbed, OpenRowsAreTrue
  <1>4. ~Fails
    BY <1>1, BoundsAssumption DEF TypeOK, Fails
  <1>5. rows' = [rows EXCEPT ![p] = new] /\ UNCHANGED <<documents, history, fs, approving>>
    BY <1>4 DEF Reject, PersistDecision
  <1>6. new.status = "REJECTED" /\ new.path = p
    <2> HIDE DEF row
    <2> QED
      BY <1>2, <1>3 DEF TableRows
  <1> HIDE DEF row, new
  <1>7. OpenRowsAreTrue(rows', fs', NoRow)
    <2>1. OpenRowsAreTrue(rows, fs, approving)
      BY DEF Undisturbed
    <2>2. ~(new.status \in {"READY", "REVIEW"}) /\ approving' = NoRow
      BY <1>2, <1>5, <1>6
    <2> QED
      BY <1>1, <1>2, <1>5, <1>6, <2>1, <2>2, ClosingKeepsTruth
  <1>8. OpenRowsAreTrue(rows, fs, approving)'
    BY <1>2, <1>5, <1>7 DEF OpenRowsAreTrue, OpenRow
  <1> QED
    BY <1>2, <1>5, <1>8 DEF Undisturbed, OwnDocuments, ApprovedIsAnalysed, PlacesAreRecorded,
                            Recorded
LEMMA UndisturbedRestore ==
    ASSUME IInv, Undisturbed, NEW p \in Paths, Restore(p)
    PROVE  Undisturbed'
  <1> DEFINE row == rows[p]
             to == row.previous
             new == [row EXCEPT !.status = "RESTORED", !.path = to]
             restored == [rows EXCEPT ![p] = new]
  <1>1. TypeOK /\ RowsOK(rows)
    BY DEF IInv
  <1>2. /\ row # NoRow /\ row.status = "MOVED" /\ RowOK(row)
        /\ approving = NoRow /\ approving' = NoRow /\ UNCHANGED memoryVars
    BY <1>1 DEF Restore, RowsOK
  <1>3. row \in TableRows /\ row.path \in Paths /\ to \in Paths
    BY <1>2 DEF RowOK, TableRows
  <1>4. /\ fs[row.path] # NoFile /\ row.path # to /\ fs[to] = NoFile
        /\ fs' = [fs EXCEPT ![row.path] = NoFile, ![to] = fs[row.path]]
        /\ rows' = restored \/ Recalling(fs', restored, rows')
    BY DEF Restore, Movable, Moved
  <1>5. new \in TableRows /\ new.status = "RESTORED" /\ new.path = to
    <2> HIDE DEF row
    <2>1. \A x \in Paths : [row EXCEPT !.status = "RESTORED", !.path = x] \in TableRows
      BY <1>3 DEF TableRows, RowStatuses
    <2>2. new \in TableRows
      BY <1>3, <2>1
    <2> QED
      BY <1>3, <2>2 DEF TableRows
  <1>6. to \in Organized => Recorded(history, to)
    <2>1. PICK k \in DOMAIN history[row.document] : history[row.document][k].previous = to
      BY <1>2 DEF RowOK
    <2>2. row.document \in Documents
      BY <1>2 DEF RowOK
    <2> QED
      BY <2>1, <2>2 DEF Undisturbed, PlacesAreRecorded
  <1>7. \A x \in Paths : OpenRow(rows, x) =>
            /\ x # p /\ x # row.path /\ x # to
            /\ fs[x] # NoFile
            /\ rows[x].status = "REVIEW" => rows[x].document = fs[x]
    BY <1>2, <1>4, AbsenceAssumption DEF OpenRow, Undisturbed, OpenRowsAreTrue
  <1> HIDE DEF row, to, new
  <1>8. /\ restored[p] = new /\ \A x \in Paths \ {p} : restored[x] = rows[x]
        /\ fs'[row.path] = NoFile
        /\ \A x \in Paths \ {row.path, to} : fs'[x] = fs[x]
    BY <1>1, <1>3, <1>4 DEF TypeOK
  <1>9. RowsOK(restored)
    <2>1. RowOK(new)
      BY <1>5 DEF RowOK
    <2> QED
      BY <1>1, <1>5, <1>8, <2>1 DEF RowsOK
  <1> HIDE DEF restored
  <1>10. OpenRowsAreTrue(restored, fs', NoRow)
    <2> SUFFICES ASSUME NEW x \in Paths, OpenRow(restored, x)
                 PROVE  /\ restored[x].path = x
                        /\ restored[x].status = "REVIEW" => restored[x].previous = x
                        /\ fs'[x] # NoFile
                        /\ restored[x].status = "REVIEW" => restored[x].document = fs'[x]
                        /\ \A y \in Paths \ {x} : restored[y] # NoRow => restored[y].path # x
      BY DEF OpenRowsAreTrue
    <2>1. x # p /\ restored[x] = rows[x] /\ OpenRow(rows, x)
      BY <1>5, <1>8 DEF OpenRow
    <2>2. /\ rows[x].path = x
          /\ rows[x].status = "REVIEW" => rows[x].previous = x
          /\ \A y \in Paths \ {x} : rows[y] # NoRow => rows[y].path # x
      BY <2>1 DEF Undisturbed, OpenRowsAreTrue
    <2> QED
      BY <1>5, <1>7, <1>8, <2>1, <2>2
  <1>11. OpenRowsAreTrue(rows', fs', NoRow)
    <2>1. PICK newTable : newTable = rows'
      OBVIOUS
    <2>2. PICK files : files = fs'
      OBVIOUS
    <2>3. newTable = restored \/ Recalling(files, restored, newTable)
      BY <1>4, <2>1, <2>2
    <2>4. OpenRowsAreTrue(newTable, files, NoRow)
      BY <1>9, <1>10, <2>2, <2>3, RecallingKeepsTruth
    <2> QED
      BY <2>1, <2>2, <2>4
  <1>12. \A x \in Organized : fs'[x] # NoFile => Recorded(history, x)
    <2>1. \A x \in Organized : fs[x] # NoFile => Recorded(history, x)
      BY <1>2, RecordedBetween
    <2> QED
      BY <1>6, <1>8, <2>1, PathsAssumption
  <1> QED
    BY <1>2, <1>11, <1>12, UndisturbedTable

LEMMA UndisturbedStep ==
    ASSUME Uploaded = {}, IInv, failures = 0 => Undisturbed, [Next]_vars, failures' = 0
    PROVE  Undisturbed'
  <1>1. failures = 0 /\ UNCHANGED failures
    <2>1. failures \in Nat
      BY BoundsAssumption DEF IInv, TypeOK
    <2>2. UNCHANGED failures \/ failures' = failures + 1
      BY DEF Next, vars, Scan, ScanCancelled, OpenRestore, Analyze, CloudAnalyze, ApproveMove,
             ApproveRecord, Reject, CommandDecides, Restore, Crash, Fails
    <2> QED
      BY <2>1, <2>2
  <1>2. Undisturbed
    BY <1>1
  <1>3. CASE Scan \/ ScanCancelled \/ OpenRestore
    BY <1>2, <1>3, UndisturbedScan
  <1>4. ASSUME NEW p \in Paths, NEW t \in Organized, Analyze(p, t) PROVE Undisturbed'
    BY <1>1, <1>2, <1>4, UndisturbedAnalyze
  <1>5. ASSUME NEW d \in Documents, CloudAnalyze(d) PROVE Undisturbed'
    BY <1>5 DEF CloudAnalyze
  <1>6. ASSUME NEW p \in Paths, ApproveMove(p) PROVE Undisturbed'
    BY <1>2, <1>6, UndisturbedApproveMove
  <1>7. CASE ApproveRecord
    BY <1>1, <1>2, <1>7, UndisturbedRecord
  <1>8. ASSUME NEW p \in Paths, Reject(p) PROVE Undisturbed'
    BY <1>1, <1>2, <1>8, UndisturbedReject
  <1>9. ASSUME NEW p \in Paths, Restore(p) PROVE Undisturbed'
    BY <1>2, <1>9, UndisturbedRestore
  <1>10. CASE Crash
    BY <1>1, <1>10 DEF Crash, Fails
  <1>11. ASSUME UNCHANGED <<fs, documents, history, rows, approving>> PROVE Undisturbed'
    BY <1>2, <1>11 DEF Undisturbed, OwnDocuments, OpenRowsAreTrue, OpenRow, ApprovedIsAnalysed,
                       PlacesAreRecorded, Recorded
  <1>12. ASSUME NEW q \in ProposalIds, NEW action \in Actions,
                NEW id \in 1..(Len(decisions) + 1), CommandDecides(q, action, id)
         PROVE  Undisturbed'
    BY <1>11, <1>12 DEF CommandDecides, PersistDecision
  <1>13. CASE UNCHANGED vars
    BY <1>11, <1>13 DEF vars, memoryVars
  <1> QED
    BY <1>3, <1>4, <1>5, <1>6, <1>7, <1>8, <1>9, <1>10, <1>12, <1>13 DEF Next

\* Until the first failure, and without documents that the cloud also
\* analyses, the memory is true of the contents.
THEOREM UndisturbedHolds ==
    ASSUME Uploaded = {}
    PROVE  Spec => [](failures = 0 => Undisturbed)
  <1>1. Init => (failures = 0 => Undisturbed)
    BY InitUndisturbed
  <1>2. IInv /\ (failures = 0 => Undisturbed) /\ [Next]_vars
           => (failures = 0 => Undisturbed)'
    BY UndisturbedStep
  <1> QED
    BY <1>1, <1>2, InvariantHolds, PTL DEF Spec

\* A file under the organized folder then lies where an approval on record
\* led: what MovesAreRecorded says of the file, of its place.
OrganizedPlacesAreRecorded ==
    failures = 0 /\ approving = NoRow =>
        \A p \in Organized : fs[p] # NoFile => Recorded(history, p)

\* Without failures and cloud analyses no file lies under the organized folder
\* where no approval on record led.
THEOREM NoUnrecordedPlace ==
    ASSUME Uploaded = {}
    PROVE  Spec => []OrganizedPlacesAreRecorded
  <1>1. (failures = 0 => Undisturbed) => OrganizedPlacesAreRecorded
    BY RecordedBetween DEF OrganizedPlacesAreRecorded
  <1> QED
    BY <1>1, UndisturbedHolds, PTL

\* And a move that enters file_history is the move of that document: the file
\* an approval moved is the one that was analysed and shown.
AnalysedIsMoved ==
    [][failures' = 0 => \A d \in Documents : history'[d] # history[d] =>
          fs[history'[d][Len(history'[d])].next] = d]_vars

\* Without failures and cloud analyses an approval moves and records the
\* document that was analysed, whatever was scanned or restored meanwhile.
THEOREM ApprovedIsWhatMoved ==
    ASSUME Uploaded = {}
    PROVE  Spec => AnalysedIsMoved
  <1>1. IInv /\ (failures = 0 => Undisturbed) /\ [Next]_vars =>
            [failures' = 0 => \A d \in Documents : history'[d] # history[d] =>
                fs[history'[d][Len(history'[d])].next] = d]_vars
    <2> SUFFICES ASSUME IInv, failures = 0 => Undisturbed, [Next]_vars, failures' = 0,
                        NEW d \in Documents, history'[d] # history[d]
                 PROVE  fs[history'[d][Len(history'[d])].next] = d
      OBVIOUS
    <2>1. ApproveRecord
      BY OnlyRecordWritesHistory
    <2>2. failures = 0 /\ UNCHANGED failures
      <3>1. failures \in Nat
        BY BoundsAssumption DEF IInv, TypeOK
      <3> QED
        BY <2>1, <3>1 DEF ApproveRecord, Fails
    <2>3. PICK p : p = approving
      OBVIOUS
    <2>4. /\ rows[p].document \in Documents
          /\ PersistApprovedMove(rows[p].document, rows[p].previous, rows[p].next)
      BY <2>1, <2>2, <2>3, RecordCommits
    <2>5. d = rows[p].document
      BY <2>4 DEF PersistApprovedMove, memoryVars, IInv, TypeOK
    <2>6. history'[d][Len(history'[d])].next = rows[p].next
      BY <2>1, <2>3, RecordStep
    <2>7. fs[rows[p].next] = rows[p].document
      BY <2>1, <2>2, <2>3 DEF ApproveRecord, Undisturbed, ApprovedIsAnalysed
    <2> QED
      BY <2>5, <2>6, <2>7
  <1> QED
    BY <1>1, InvariantHolds, UndisturbedHolds, PTL DEF AnalysedIsMoved, Spec
============================================================================
