---------------------------- MODULE DesktopProofs ----------------------------
(* Proofs about DesktopSession, for every window, number of batch commands,     *)
(* files, contents, responses and bounds.                                       *)
EXTENDS DesktopSession, ClassificationProofs

\* What an analyst knows of its document at each step.
Sound(j) ==
    /\ j.pc # "idle" => j.file \in Paths
    /\ j.pc \in {"validate", "extract", "ask", "store"} => j.digest \in Contents
    /\ j.pc \in {"extract", "ask", "store"} => j.expected \in Contents
    /\ j.pc \in {"ask", "store"} => j.read = j.expected /\ Reading[j.read] # NoText
    /\ j.pc = "store" => j.reply \in Replies /\ Accepted(Reading[j.read], Offered[j.reply])

AnalystsSound == \A a \in Analysts : Sound(job[a])

\* The documents, jobs and batches.
PdfInv == PdfTypeOK /\ AnalystsSound /\ EvidenceIsOfTheDocument /\ SuccessIsStored

\* The steps as the analysts see them.
Takes(a) == \E p \in Paths : Begin(a, p) /\ UNCHANGED memory
Drops(a) == job' = [job EXCEPT ![a] = IdleJob] /\ UNCHANGED memory
------------------------------------------------------------------------------
(* Jobs.                                                                        *)

LEMMA IdleJobTyped == IdleJob \in Jobs /\ Sound(IdleJob) /\ IdleJob.result = Nothing
  <1>1. MaxAttempts \in Nat \ {0} /\ MaxTries \in Nat
    BY BoundsAssumption
  <1>2. "idle" \in Steps
    BY DEF Steps
  <1>3. IdleJob \in Jobs
    BY <1>1, <1>2 DEF IdleJob, Jobs
  <1> QED
    BY <1>3 DEF IdleJob, Sound

\* One job changes.
LEMMA JobChanges ==
    ASSUME job \in [Analysts -> Jobs], AnalystsSound, NEW a \in Analysts,
           NEW j \in Jobs, Sound(j), job' = [job EXCEPT ![a] = j]
    PROVE job' \in [Analysts -> Jobs] /\ AnalystsSound'
  BY DEF AnalystsSound

\* A document is taken or dropped.
LEMMA TakenOrDropped ==
    ASSUME job \in [Analysts -> Jobs], AnalystsSound, NEW a \in Analysts, Takes(a) \/ Drops(a)
    PROVE /\ job' \in [Analysts -> Jobs] /\ AnalystsSound'
          /\ \A b \in Analysts : job'[b].result \in {job[b].result, Nothing}
  <1>1. CASE Drops(a)
    BY <1>1, IdleJobTyped, JobChanges DEF Drops
  <1>2. CASE Takes(a)
    <2>1. PICK p \in Paths : Begin(a, p)
      BY <1>2 DEF Takes
    <2> DEFINE j == [IdleJob EXCEPT !.pc = "fingerprint", !.file = p]
    <2>2. "fingerprint" \in Steps
      BY DEF Steps
    <2>3. j \in Jobs
      BY <2>2, IdleJobTyped DEF Jobs
    <2>4. Sound(j) /\ j.result = Nothing
      BY IdleJobTyped DEF Sound, IdleJob
    <2>5. job' = [job EXCEPT ![a] = j]
      BY <2>1 DEF Begin
    <2> QED
      BY <2>3, <2>4, <2>5, JobChanges
  <1> QED
    BY <1>1, <1>2

\* An analysis ends with a result or with none.
LEMMA Finished ==
    ASSUME job \in [Analysts -> Jobs], AnalystsSound, NEW a \in Analysts, job[a].pc # "idle",
           NEW result \in Results \cup {Nothing}, Finish(a, result)
    PROVE /\ job' \in [Analysts -> Jobs] /\ AnalystsSound'
          /\ job'[a].result = result
          /\ \A b \in Analysts : b # a => job'[b] = job[b]
  <1> DEFINE j == [IdleJob EXCEPT !.pc = "report", !.file = job[a].file, !.result = result]
  <1>1. "report" \in Steps
    BY DEF Steps
  <1>2. job[a] \in Jobs
    OBVIOUS
  <1>3. job[a].file \in Paths
    BY DEF AnalystsSound, Sound
  <1>4. j \in Jobs
    BY <1>1, <1>3, IdleJobTyped DEF Jobs
  <1>5. Sound(j) /\ j.result = result
    BY <1>3, IdleJobTyped DEF Sound, IdleJob
  <1>6. job' = [job EXCEPT ![a] = j]
    BY DEF Finish
  <1> QED
    BY <1>4, <1>5, <1>6, JobChanges
------------------------------------------------------------------------------
(* What is stored.                                                              *)

LEMMA JudgementAccepts ==
    ASSUME NEW c \in Contents, Reading[c] # NoText, NEW reply \in Replies,
           Judgement[c][reply] = "none"
    PROVE Accepted(Reading[c], Offered[reply])
  BY DEF Judgement, Accepted

\* An analyst that stores has an accepted answer about the text it was sent.
LEMMA StoredTyped ==
    ASSUME job \in [Analysts -> Jobs], AnalystsSound, NEW a \in Analysts, job[a].pc = "store"
    PROVE /\ Identity(a) \in Identities
          /\ Proposal(a) \in Proposals
          /\ Result(a) \in Results
          /\ \E s \in DOMAIN Reading[job[a].expected].segments :
                Proposal(a).quote = Reading[job[a].expected].segments[s]
  <1>1. /\ job[a].file \in Paths /\ job[a].digest \in Contents /\ job[a].expected \in Contents
        /\ job[a].read = job[a].expected /\ Reading[job[a].read] # NoText
        /\ job[a].reply \in Replies
        /\ Accepted(Reading[job[a].read], Offered[job[a].reply])
    BY DEF AnalystsSound, Sound
  <1>2. Text(a) \in Texts /\ Text(a) = Reading[job[a].expected]
    BY <1>1, ContentsAssumption DEF Text
  <1>3. Answer(a) \in Answers
    BY <1>1, OfferedAssumption DEF Answer
  <1>4. Accepted(Text(a), Answer(a))
    BY <1>1 DEF Text, Answer
  <1>5. /\ Answer(a).class \in Classes
        /\ Answer(a).evidence[1].segment \in DOMAIN Text(a).segments
        /\ EvidenceSummary(Text(a), Answer(a)) \in Quotes
    BY <1>2, <1>3, <1>4, AcceptedAnswersQuote
  <1>6. /\ StoredDestination(Text(a), Answer(a), job[a].file) \in Destinations
        /\ ShownDestination(Text(a), Answer(a), job[a].file) \in Destinations
    BY <1>1, <1>2, <1>3, <1>5, DestinationsTyped DEF Destinations
  <1>7. Score(Answer(a)) \in 0 .. Certain
    BY <1>3, ScoreIsBounded
  <1>8. Identity(a) \in Identities
    BY <1>1 DEF Identity, Identities, Keys
  <1>9. Proposal(a) \in Proposals
    BY <1>1, <1>5, <1>6, <1>7 DEF Proposal, Proposals
  <1>10. Result(a) \in Results
    BY <1>5, <1>6, <1>8 DEF Result, Results
  <1>11. Proposal(a).quote = Reading[job[a].expected].segments[Answer(a).evidence[1].segment]
    BY <1>2 DEF Proposal, EvidenceSummary
  <1> QED
    BY <1>2, <1>5, <1>8, <1>9, <1>10, <1>11

\* A stored proposal stays as it is.
LEMMA Inserted ==
    ASSUME PdfInv, NEW a \in Analysts, job[a].pc = "store", Insert(a)
    PROVE /\ memory' \in [Identities -> Proposals \cup {Nothing}]
          /\ memory'[Identity(a)] # Nothing
          /\ memory[Identity(a)] = Nothing => memory'[Identity(a)] = Proposal(a)
          /\ \A id \in Identities : memory[id] # Nothing => memory'[id] = memory[id]
          /\ EvidenceIsOfTheDocument'
  <1>1. /\ job \in [Analysts -> Jobs] /\ AnalystsSound
        /\ memory \in [Identities -> Proposals \cup {Nothing}]
    BY DEF PdfInv, PdfTypeOK
  <1>2. /\ Identity(a) \in Identities /\ Proposal(a) \in Proposals
        /\ \E s \in DOMAIN Reading[job[a].expected].segments :
               Proposal(a).quote = Reading[job[a].expected].segments[s]
    BY <1>1, StoredTyped
  <1>3. memory' = [memory EXCEPT ![Identity(a)] =
                      IF memory[Identity(a)] = Nothing THEN Proposal(a) ELSE memory[Identity(a)]]
    BY DEF Insert
  <1>4. /\ memory' \in [Identities -> Proposals \cup {Nothing}]
        /\ memory'[Identity(a)] # Nothing
        /\ memory[Identity(a)] = Nothing => memory'[Identity(a)] = Proposal(a)
        /\ \A id \in Identities : memory[id] # Nothing => memory'[id] = memory[id]
    BY <1>1, <1>2, <1>3, NothingAssumption
  <1>5. ASSUME NEW id \in Identities, memory'[id] # Nothing, memory'[id].verified = id[1]
        PROVE \E s \in DOMAIN Reading[id[1]].segments :
                 memory'[id].quote = Reading[id[1]].segments[s]
    <2>1. CASE memory[id] # Nothing
      BY <1>4, <1>5, <2>1 DEF PdfInv, EvidenceIsOfTheDocument
    <2>2. CASE memory[id] = Nothing
      <3>1. id = Identity(a)
        BY <1>1, <1>3, <1>5, <2>2
      <3>2. memory'[id] = Proposal(a)
        BY <1>4, <2>2, <3>1
      <3>3. Proposal(a).verified = job[a].expected
        BY DEF Proposal
      <3> QED
        BY <1>2, <1>5, <3>2, <3>3
    <2> QED
      BY <2>1, <2>2
  <1> QED
    BY <1>4, <1>5 DEF EvidenceIsOfTheDocument
------------------------------------------------------------------------------
(* The steps of an analysis.                                                    *)

\* What an analyst was told stays true while the memory only grows.
LEMMA StaysBacked ==
    ASSUME \A id \in Identities : memory[id] # Nothing => memory'[id] = memory[id]
    PROVE \A r \in Results : Backed(r) => Backed(r)'
  BY DEF Backed, Results

AnalysisInv == /\ job \in [Analysts -> Jobs] /\ AnalystsSound
               /\ memory \in [Identities -> Proposals \cup {Nothing}]
               /\ EvidenceIsOfTheDocument /\ SuccessIsStored

\* Steps that store nothing and give no new result.
LEMMA NothingStored ==
    ASSUME PdfInv, UNCHANGED memory, job' \in [Analysts -> Jobs], AnalystsSound',
           \A b \in Analysts : job'[b].result \in {job[b].result, Nothing}
    PROVE AnalysisInv'
  <1>1. EvidenceIsOfTheDocument'
    BY DEF PdfInv, EvidenceIsOfTheDocument
  <1>2. SuccessIsStored'
    <2> SUFFICES ASSUME NEW b \in Analysts, job'[b].result # Nothing
                 PROVE Backed(job[b].result)'
      BY DEF SuccessIsStored
    <2>1. job'[b].result = job[b].result
      OBVIOUS
    <2>2. Backed(job[b].result)
      BY <2>1 DEF PdfInv, SuccessIsStored
    <2> QED
      BY <2>1, <2>2 DEF Backed
  <1>3. memory' \in [Identities -> Proposals \cup {Nothing}]
    BY DEF PdfInv, PdfTypeOK
  <1> QED
    BY <1>1, <1>2, <1>3 DEF AnalysisInv

\* An analyst goes on to a step that it is ready for.
LEMMA GoesOn ==
    ASSUME PdfInv, NEW a \in Analysts, UNCHANGED memory,
           NEW j \in Jobs, Sound(j), j.result = job[a].result, job' = [job EXCEPT ![a] = j]
    PROVE AnalysisInv'
  <1>1. job \in [Analysts -> Jobs] /\ AnalystsSound
    BY DEF PdfInv, PdfTypeOK
  <1>2. job' \in [Analysts -> Jobs] /\ AnalystsSound'
    BY <1>1, JobChanges
  <1>3. \A b \in Analysts : job'[b].result \in {job[b].result, Nothing}
    BY <1>1
  <1> QED
    BY <1>2, <1>3, NothingStored

\* An analysis that fails.
LEMMA Fails ==
    ASSUME PdfInv, NEW a \in Analysts, job[a].pc # "idle", Fail(a)
    PROVE AnalysisInv'
  <1>1. job \in [Analysts -> Jobs] /\ AnalystsSound
    BY DEF PdfInv, PdfTypeOK
  <1>2. Finish(a, Nothing) /\ UNCHANGED memory
    BY DEF Fail
  <1>3. /\ job' \in [Analysts -> Jobs] /\ AnalystsSound'
        /\ job'[a].result = Nothing
        /\ \A b \in Analysts : b # a => job'[b] = job[b]
    BY <1>1, <1>2, Finished
  <1> QED
    BY <1>2, <1>3, NothingStored

\* An analysis whose transaction inserts, acknowledged or not.
LEMMA Stores ==
    ASSUME PdfInv, NEW a \in Analysts, job[a].pc = "store", Insert(a),
           NEW result \in Results \cup {Nothing}, Finish(a, result), result # Nothing => Backed(result)'
    PROVE AnalysisInv'
  <1>1. job \in [Analysts -> Jobs] /\ AnalystsSound
    BY DEF PdfInv, PdfTypeOK
  <1>2. /\ memory' \in [Identities -> Proposals \cup {Nothing}]
        /\ \A id \in Identities : memory[id] # Nothing => memory'[id] = memory[id]
        /\ EvidenceIsOfTheDocument'
    BY Inserted
  <1>3. /\ job' \in [Analysts -> Jobs] /\ AnalystsSound'
        /\ job'[a].result = result
        /\ \A b \in Analysts : b # a => job'[b] = job[b]
    BY <1>1, Finished
  <1>4. SuccessIsStored'
    <2> SUFFICES ASSUME NEW b \in Analysts, job'[b].result # Nothing
                 PROVE Backed(job[b].result)'
      BY DEF SuccessIsStored
    <2>1. CASE b = a
      BY <1>3, <2>1 DEF Backed
    <2>2. CASE b # a
      <3>1. job'[b].result = job[b].result
        BY <1>3, <2>2
      <3>2. PICK r : r = job[b].result
        OBVIOUS
      <3>3. Backed(r)
        BY <3>1, <3>2 DEF PdfInv, SuccessIsStored
      <3>4. r \in Results
        <4>1. job[b] \in Jobs
          BY <1>1
        <4> QED
          BY <3>1, <3>2, <4>1 DEF Jobs
      <3>5. Backed(r)'
        BY <1>2, <3>3, <3>4, StaysBacked
      <3> QED
        BY <3>1, <3>2, <3>5 DEF Backed
    <2> QED
      BY <2>1, <2>2
  <1> QED
    BY <1>2, <1>3, <1>4 DEF AnalysisInv

LEMMA FingerprintKeeps ==
    ASSUME PdfInv, NEW a \in Analysts, Fingerprint(a) PROVE AnalysisInv'
  <1>1. job[a] \in Jobs /\ Sound(job[a]) /\ job[a].pc = "fingerprint"
    BY DEF PdfInv, PdfTypeOK, AnalystsSound, Fingerprint
  <1>2. CASE disk[job[a].file] = Absent
    BY <1>1, <1>2, Fails DEF Fingerprint
  <1>3. CASE disk[job[a].file] # Absent
    <2> DEFINE j == [job[a] EXCEPT !.digest = disk[job[a].file], !.pc = "validate"]
    <2>1. disk[job[a].file] \in Contents
      BY <1>1, <1>3 DEF PdfInv, PdfTypeOK, Sound
    <2>2. j \in Jobs
      BY <1>1, <2>1 DEF Jobs, Steps
    <2>3. Sound(j)
      BY <1>1, <2>1 DEF Sound, Jobs
    <2>4. job' = [job EXCEPT ![a] = j] /\ UNCHANGED memory /\ j.result = job[a].result
      BY <1>1, <1>3 DEF Fingerprint, PdfInv, PdfTypeOK, Jobs
    <2> QED
      BY <2>2, <2>3, <2>4, GoesOn
  <1> QED
    BY <1>2, <1>3

LEMMA ValidateKeeps ==
    ASSUME PdfInv, NEW a \in Analysts, Validate(a) PROVE AnalysisInv'
  <1>1. job[a] \in Jobs /\ Sound(job[a]) /\ job[a].pc = "validate"
    BY DEF PdfInv, PdfTypeOK, AnalystsSound, Validate
  <1>2. CASE disk[job[a].file] \notin Pdfs
    BY <1>1, <1>2, Fails DEF Validate
  <1>3. CASE disk[job[a].file] \in Pdfs
    <2> DEFINE j == [job[a] EXCEPT !.expected = disk[job[a].file], !.pc = "extract"]
    <2>1. disk[job[a].file] \in Contents
      BY <1>3, ContentsAssumption
    <2>2. j \in Jobs
      BY <1>1, <2>1 DEF Jobs, Steps
    <2>3. Sound(j)
      BY <1>1, <2>1 DEF Sound, Jobs
    <2>4. job' = [job EXCEPT ![a] = j] /\ UNCHANGED memory /\ j.result = job[a].result
      BY <1>1, <1>3 DEF Validate, PdfInv, PdfTypeOK, Jobs
    <2> QED
      BY <2>2, <2>3, <2>4, GoesOn
  <1> QED
    BY <1>2, <1>3

LEMMA ExtractKeeps ==
    ASSUME PdfInv, NEW a \in Analysts, Extract(a) PROVE AnalysisInv'
  <1>1. job[a] \in Jobs /\ Sound(job[a]) /\ job[a].pc = "extract"
    BY DEF PdfInv, PdfTypeOK, AnalystsSound, Extract
  <1>2. CASE Fail(a)
    BY <1>1, <1>2, Fails
  <1>3. CASE ~Fail(a)
    <2> DEFINE j == [job[a] EXCEPT !.read = disk[job[a].file], !.pc = "ask"]
    <2>1. disk[job[a].file] = job[a].expected /\ Reading[disk[job[a].file]] # NoText
      BY <1>3 DEF Extract
    <2>2. disk[job[a].file] \in Contents
      BY <1>1, <2>1 DEF Sound
    <2>3. j \in Jobs
      BY <1>1, <2>2 DEF Jobs, Steps
    <2>4. Sound(j)
      BY <1>1, <2>1, <2>2 DEF Sound, Jobs
    <2>5. job' = [job EXCEPT ![a] = j] /\ UNCHANGED memory /\ j.result = job[a].result
      BY <1>1, <1>3 DEF Extract, PdfInv, PdfTypeOK, Jobs
    <2> QED
      BY <2>3, <2>4, <2>5, GoesOn
  <1> QED
    BY <1>2, <1>3

LEMMA AskModelKeeps ==
    ASSUME PdfInv, NEW a \in Analysts, AskModel(a) PROVE AnalysisInv'
  <1>1. job[a] \in Jobs /\ Sound(job[a]) /\ job[a].pc = "ask"
    BY DEF PdfInv, PdfTypeOK, AnalystsSound, AskModel
  <1>2. /\ job[a].read \in Contents /\ Reading[job[a].read] # NoText
        /\ MaxTries \in Nat
    BY <1>1, BoundsAssumption DEF Sound
  <1>3. CASE Fail(a)
    BY <1>1, <1>3, Fails
  <1>4. CASE ~Fail(a)
    <2>1. PICK reply \in Offers[a] :
             LET fault == Judgement[job[a].read][reply]
             IN  \/ /\ fault = "none"
                    /\ job' = [job EXCEPT ![a].reply = reply, ![a].pc = "store"]
                    /\ UNCHANGED memory
                 \/ /\ fault \in RetriedFaults /\ job[a].tries < MaxTries
                    /\ job' = [job EXCEPT ![a].tries = @ + 1]
                    /\ UNCHANGED memory
      BY <1>4 DEF AskModel
    <2>2. reply \in Replies
      BY OfferedAssumption
    <2>3. CASE /\ Judgement[job[a].read][reply] = "none"
               /\ job' = [job EXCEPT ![a].reply = reply, ![a].pc = "store"]
               /\ UNCHANGED memory
      <3> DEFINE j == [job[a] EXCEPT !.reply = reply, !.pc = "store"]
      <3>1. Accepted(Reading[job[a].read], Offered[reply])
        BY <1>2, <2>2, <2>3, JudgementAccepts
      <3>2. j \in Jobs
        BY <1>1, <2>2 DEF Jobs, Steps
      <3>3. Sound(j)
        BY <1>1, <2>2, <3>1 DEF Sound, Jobs
      <3>4. job' = [job EXCEPT ![a] = j] /\ j.result = job[a].result
        BY <1>1, <2>3 DEF PdfInv, PdfTypeOK, Jobs
      <3> QED
        BY <2>3, <3>2, <3>3, <3>4, GoesOn
    <2>4. CASE /\ job[a].tries < MaxTries
               /\ job' = [job EXCEPT ![a].tries = @ + 1]
               /\ UNCHANGED memory
      <3> DEFINE j == [job[a] EXCEPT !.tries = job[a].tries + 1]
      <3>1. job[a].tries \in 0 .. MaxTries
        BY <1>1 DEF Jobs
      <3>2. job[a].tries + 1 \in 0 .. MaxTries
        BY <1>2, <2>4, <3>1
      <3>3. j \in Jobs
        BY <1>1, <3>2 DEF Jobs
      <3>4. Sound(j)
        BY <1>1 DEF Sound, Jobs
      <3>5. job' = [job EXCEPT ![a] = j] /\ j.result = job[a].result
        BY <1>1, <2>4 DEF PdfInv, PdfTypeOK, Jobs
      <3> QED
        BY <2>4, <3>3, <3>4, <3>5, GoesOn
    <2> QED
      BY <2>1, <2>3, <2>4
  <1> QED
    BY <1>3, <1>4

LEMMA CommitKeeps ==
    ASSUME PdfInv, NEW a \in Analysts, Commit(a) PROVE AnalysisInv'
  <1>1. job[a].pc = "store" /\ Insert(a)
    BY DEF Commit, Storing
  <1>2. job \in [Analysts -> Jobs] /\ AnalystsSound
    BY DEF PdfInv, PdfTypeOK
  <1>3. Result(a) \in Results /\ Identity(a) \in Identities
    BY <1>1, <1>2, StoredTyped
  <1>4. PICK r : r = Result(a)
    OBVIOUS
  <1>5. /\ memory'[Identity(a)] # Nothing
        /\ memory[Identity(a)] = Nothing => memory'[Identity(a)] = Proposal(a)
    BY <1>1, Inserted
  <1>6. /\ r.id = Identity(a)
        /\ ~r.replayed => memory[Identity(a)] = Nothing
        /\ r.class = Proposal(a).class
    BY <1>4 DEF Result, Proposal
  <1>7. ASSUME r.all PROVE r.destination = Proposal(a).destination
    <2>1. Shown(Text(a), Answer(a)) = Known(Text(a), Answer(a))
      BY <1>4, <1>7 DEF Result
    <2>2. r.destination = ShownDestination(Text(a), Answer(a), job[a].file)
      BY <1>4 DEF Result
    <2>3. Proposal(a).destination = StoredDestination(Text(a), Answer(a), job[a].file)
      BY DEF Proposal
    <2>4. PICK text, answer, source :
             text = Text(a) /\ answer = Answer(a) /\ source = job[a].file
      OBVIOUS
    <2>5. ShownDestination(text, answer, source) = StoredDestination(text, answer, source)
      BY <2>1, <2>4, WholeResultsAgree
    <2> QED
      BY <2>2, <2>3, <2>4, <2>5
  <1>8. Backed(r)'
    BY <1>5, <1>6, <1>7 DEF Backed
  <1>9. Finish(a, r)
    BY <1>4 DEF Commit
  <1> QED
    BY <1>1, <1>3, <1>4, <1>8, <1>9, Stores

LEMMA ConflictKeeps ==
    ASSUME PdfInv, NEW a \in Analysts, Conflict(a) PROVE AnalysisInv'
  <1>1. job[a] \in Jobs /\ Sound(job[a]) /\ job[a].pc = "store"
    BY DEF PdfInv, PdfTypeOK, AnalystsSound, Conflict, Storing
  <1>2. CASE ~(job[a].attempt < MaxAttempts)
    BY <1>1, <1>2, Fails DEF Conflict
  <1>3. CASE job[a].attempt < MaxAttempts
    <2> DEFINE j == [job[a] EXCEPT !.attempt = job[a].attempt + 1]
    <2>1. job[a].attempt \in 1 .. MaxAttempts /\ MaxAttempts \in Nat
      BY <1>1, BoundsAssumption DEF Jobs
    <2>2. job[a].attempt + 1 \in 1 .. MaxAttempts
      BY <1>3, <2>1
    <2>3. j \in Jobs
      BY <1>1, <2>2 DEF Jobs
    <2>4. Sound(j)
      BY <1>1 DEF Sound, Jobs
    <2>5. job' = [job EXCEPT ![a] = j] /\ j.result = job[a].result /\ UNCHANGED memory
      BY <1>1, <1>3 DEF Conflict, PdfInv, PdfTypeOK, Jobs
    <2> QED
      BY <2>3, <2>4, <2>5, GoesOn
  <1> QED
    BY <1>2, <1>3

LEMMA StoreFailsKeeps ==
    ASSUME PdfInv, NEW a \in Analysts, StoreFails(a) PROVE AnalysisInv'
  <1>1. job[a].pc = "store" /\ Finish(a, Nothing)
    BY DEF StoreFails
  <1>2. CASE Insert(a)
    BY <1>1, <1>2, Stores
  <1>3. CASE UNCHANGED memory
    BY <1>1, <1>3, Fails DEF Fail
  <1> QED
    BY <1>2, <1>3 DEF StoreFails

\* Every step of every analysis keeps what is stored and what is known.
LEMMA AnalystKeeps ==
    ASSUME PdfInv, NEW a \in Analysts, AnalystStep(a)
    PROVE AnalysisInv' /\ UNCHANGED <<disk, batch, edits>>
  <1>1. CASE ModelFails(a)
    <2>1. job[a].pc = "ask" /\ Fail(a)
      BY <1>1 DEF ModelFails
    <2> QED
      BY <1>1, <2>1, Fails DEF ModelFails
  <1>2. AnalysisInv'
    BY <1>1, FingerprintKeeps, ValidateKeeps, ExtractKeeps, AskModelKeeps, CommitKeeps,
       ConflictKeeps, StoreFailsKeeps DEF AnalystStep
  <1>3. UNCHANGED <<disk, batch, edits>>
    BY DEF AnalystStep, Fingerprint, Validate, Extract, AskModel, ModelFails, Commit,
       Conflict, StoreFails
  <1> QED
    BY <1>2, <1>3
------------------------------------------------------------------------------
(* The window.                                                                  *)

\* The parts of the window. A row in review and a progress signal carry a preview.
MarksOK == shell \in Shells /\ closed \in BOOLEAN /\ early \in BOOLEAN /\ history \subseteq Paths
PanelOK ==
    /\ phase \in {"EMPTY", "READY", "SCANNING", "CANCELLING", "COMPLETE", "CANCELLED", "FAILED"}
    /\ enabled \subseteq {"folder", "scan", "cancel", "analyze", "review"}
RowsOK ==
    /\ rows \in Seq(Rows)
    /\ \A i \in DOMAIN rows : rows[i].status = "REVIEW" => rows[i].preview \in Previews
ScanOK == scan \in [held : BOOLEAN, run : ThreadStates, listed : BOOLEAN, todo : SUBSET Paths,
                   records : Seq(Records), cancel : BOOLEAN]
ClsOK == cls \in [held : BOOLEAN, run : ThreadStates, todo : SUBSET [row : Nat, file : Paths]]
QueueOK ==
    /\ posted \in Seq(Signals)
    /\ \A i \in DOMAIN posted : posted[i].kind = "progressed" => posted[i].preview \in Previews
TableOK == table \in [shown : BOOLEAN, entries : SUBSET Entries]
ChoicesOK == clicked \subseteq Decisions /\ deciding \subseteq Decisions

WindowInv ==
    MarksOK /\ PanelOK /\ RowsOK /\ ScanOK /\ ClsOK /\ QueueOK /\ TableOK /\ ChoicesOK

Inv == PdfInv /\ WindowInv

LEMMA WindowTyped == WindowInv => WindowTypeOK
  BY Zenon DEF WindowInv, WindowTypeOK, MarksOK, PanelOK, RowsOK, ScanOK, ClsOK, QueueOK, TableOK,
               ChoicesOK

\* A part stays in order while its variables keep their values.
LEMMA PartsKept ==
    ASSUME WindowInv
    PROVE /\ UNCHANGED <<shell, closed, early, history>> => MarksOK'
          /\ UNCHANGED <<phase, enabled>> => PanelOK'
          /\ UNCHANGED rows => RowsOK'
          /\ UNCHANGED scan => ScanOK'
          /\ UNCHANGED cls => ClsOK'
          /\ UNCHANGED posted => QueueOK'
          /\ UNCHANGED table => TableOK'
          /\ UNCHANGED <<clicked, deciding>> => ChoicesOK'
  BY DEF WindowInv, MarksOK, PanelOK, RowsOK, ScanOK, ClsOK, QueueOK, TableOK, ChoicesOK

LEMMA WindowKept == ASSUME WindowInv, UNCHANGED uiVars PROVE WindowInv'
  BY PartsKept DEF WindowInv, uiVars

LEMMA ButtonsTyped ==
    ASSUME NEW busy, NEW docs, NEW scanning, NEW classifying
    PROVE Buttons(busy, docs, scanning, classifying)
             \subseteq {"folder", "scan", "cancel", "analyze", "review"}
  BY DEF Buttons

LEMMA IdleTyped ==
    /\ IdleScan \in [held : BOOLEAN, run : ThreadStates, listed : BOOLEAN, todo : SUBSET Paths,
                     records : Seq(Records), cancel : BOOLEAN]
    /\ IdleCls \in [held : BOOLEAN, run : ThreadStates, todo : SUBSET [row : Nat, file : Paths]]
    /\ ThreadStates = {"none", "working", "emitted", "quitting", "finishing", "stopped"}
  BY DEF IdleScan, IdleCls, ThreadStates

LEMMA ReviewEntriesTyped ==
    ASSUME NEW docs \in Seq(Rows),
           \A i \in DOMAIN docs : docs[i].status = "REVIEW" => docs[i].preview \in Previews
    PROVE ReviewEntries(docs) \subseteq Entries
  <1>1. DOMAIN docs \subseteq Nat
    OBVIOUS
  <1> QED
    BY <1>1 DEF ReviewEntries, Entries

LEMMA ReopenedTyped ==
    ASSUME TableOK, NEW docs \in Seq(Rows),
           \A i \in DOMAIN docs : docs[i].status = "REVIEW" => docs[i].preview \in Previews
    PROVE Reopened(docs) \in [shown : BOOLEAN, entries : SUBSET Entries]
  BY ReviewEntriesTyped DEF Reopened, TableOK

\* A signal is queued, or the first one is taken.
LEMMA Queues ==
    ASSUME QueueOK, NEW s \in Signals, s.kind = "progressed" => s.preview \in Previews, Post(s)
    PROVE QueueOK'
  BY DEF QueueOK, Post

LEMMA Dequeues ==
    ASSUME QueueOK, posted # <<>>, posted' = Tail(posted)
    PROVE /\ QueueOK'
          /\ Head(posted) \in Signals
          /\ Head(posted).kind = "progressed" => Head(posted).preview \in Previews
  <1>1. /\ posted' \in Seq(Signals) /\ Head(posted) \in Signals
        /\ Head(posted) = posted[1] /\ 1 \in DOMAIN posted
    BY DEF QueueOK
  <1>2. QueueOK'
    <2> SUFFICES ASSUME NEW i \in DOMAIN Tail(posted)
                 PROVE i + 1 \in DOMAIN posted /\ Tail(posted)[i] = posted[i + 1]
      BY <1>1 DEF QueueOK
    <2> QED
      BY DEF QueueOK
  <1> QED
    BY <1>1, <1>2 DEF QueueOK

LEMMA SignalTyped ==
    ASSUME NEW kind \in SignalKinds
    PROVE Signal(kind) \in Signals /\ Signal(kind).kind = kind
  BY DEF Signal, Signals

------------------------------------------------------------------------------
(* The user's actions.                                                          *)

LEMMA FolderKeeps ==
    ASSUME WindowInv, ChooseFolder \/ StartScan \/ CancelScan \/ Close
    PROVE WindowInv'
  <1>1. CASE ChooseFolder
    <2>1. RowsOK' /\ PanelOK'
      BY <1>1 DEF ChooseFolder, RowsOK, PanelOK, WindowInv
    <2> QED
      BY <1>1, <2>1, PartsKept DEF ChooseFolder, WindowInv
  <1>2. CASE StartScan
    <2>1. early' \in BOOLEAN
      BY <1>2, Zenon DEF StartScan, WindowInv, MarksOK
    <2>2. ScanOK' /\ PanelOK'
      <3>1. CASE Active
        BY <1>2, <3>1, PartsKept DEF StartScan
      <3>2. CASE ~Active
        <4>1. scan' = [IdleScan EXCEPT !.held = TRUE, !.run = "working"]
          BY <1>2, <3>2 DEF StartScan
        <4>2. phase' = "SCANNING"
                /\ enabled' = Buttons(TRUE, <<>>, InProgress(scan), InProgress(cls))
          BY <1>2, <3>2 DEF StartScan
        <4>3. ScanOK'
          BY <4>1, IdleTyped DEF ScanOK
        <4> QED
          BY <4>2, <4>3, ButtonsTyped DEF PanelOK
      <3> QED
        BY <3>1, <3>2
    <2>3. /\ rows' = <<>>
          /\ UNCHANGED <<shell, closed, cls, posted, table, clicked, deciding, history>>
      BY <1>2 DEF StartScan
    <2>4. RowsOK'
      BY <2>3 DEF RowsOK
    <2>5. MarksOK'
      BY <2>1, <2>3 DEF MarksOK, WindowInv
    <2> QED
      BY <2>2, <2>3, <2>4, <2>5, PartsKept DEF WindowInv
  <1>3. CASE CancelScan
    <2>1. ScanOK' /\ PanelOK'
      BY <1>3 DEF CancelScan, ScanOK, PanelOK, WindowInv
    <2> QED
      BY <1>3, <2>1, PartsKept DEF CancelScan, WindowInv
  <1>4. CASE Close
    <2>1. RowsOK' /\ PanelOK' /\ QueueOK' /\ TableOK' /\ ScanOK' /\ ClsOK'
      BY <1>4, IdleTyped DEF Close, RowsOK, PanelOK, QueueOK, TableOK, ScanOK, ClsOK
    <2>2. MarksOK'
      BY <1>4 DEF Close, MarksOK, WindowInv
    <2> QED
      BY <1>4, <2>1, <2>2, PartsKept DEF Close, WindowInv
  <1> QED
    BY <1>1, <1>2, <1>3, <1>4

LEMMA TableKeeps ==
    ASSUME WindowInv,
           OpenRow \/ OpenReview \/ CloseReview \/ ClickRow \/ ClickFires \/ ApproveAll
    PROVE WindowInv'
  <1> USE DEF WindowInv
  <1>1. CASE OpenRow
    <2>1. TableOK' /\ PanelOK'
      BY <1>1, ButtonsTyped DEF OpenRow, TableOK, PanelOK
    <2> QED
      BY <1>1, <2>1, PartsKept DEF OpenRow
  <1>2. CASE OpenReview
    <2>1. TableOK'
      BY <1>2, ReopenedTyped DEF OpenReview, TableOK, RowsOK
    <2> QED
      BY <1>2, <2>1, PartsKept DEF OpenReview
  <1>3. CASE CloseReview
    <2>1. TableOK'
      BY <1>3 DEF CloseReview, TableOK
    <2> QED
      BY <1>3, <2>1, PartsKept DEF CloseReview
  <1>4. CASE ClickRow
    <2>1. PICK entry \in table.entries, action \in {"approve", "reject"} :
             clicked' = {[row |-> entry.row, action |-> action]}
      BY <1>4 DEF ClickRow
    <2>2. entry \in Entries
      BY DEF TableOK
    <2>3. [row |-> entry.row, action |-> action] \in Decisions
      BY <2>2 DEF Entries, Decisions
    <2>4. UNCHANGED deciding
      BY <1>4 DEF ClickRow
    <2>5. ChoicesOK'
      BY <2>1, <2>3, <2>4 DEF ChoicesOK
    <2> QED
      BY <1>4, <2>5, PartsKept DEF ClickRow
  <1>5. CASE ClickFires
    <2>1. ChoicesOK'
      BY <1>5 DEF ClickFires, ChoicesOK
    <2> QED
      BY <1>5, <2>1, PartsKept DEF ClickFires
  <1>6. CASE ApproveAll
    <2>1. ReviewEntries(rows) \subseteq Entries
      BY ReviewEntriesTyped DEF RowsOK
    <2>2. \A entry \in Entries : [row |-> entry.row, action |-> "approve"] \in Decisions
      BY DEF Entries, Decisions
    <2>3. deciding' = {[row |-> entry.row, action |-> "approve"] : entry \in ReviewEntries(rows)}
      BY <1>6 DEF ApproveAll
    <2>4. deciding' \subseteq Decisions
      <3> SUFFICES ASSUME NEW d \in deciding' PROVE d \in Decisions
        OBVIOUS
      <3>1. PICK entry \in ReviewEntries(rows) : d = [row |-> entry.row, action |-> "approve"]
        BY <2>3
      <3> QED
        BY <2>1, <2>2, <3>1
    <2>5. UNCHANGED clicked
      BY <1>6 DEF ApproveAll
    <2>6. ChoicesOK'
      BY <2>4, <2>5 DEF ChoicesOK
    <2> QED
      BY <1>6, <2>6, PartsKept DEF ApproveAll
  <1> QED
    BY <1>1, <1>2, <1>3, <1>4, <1>5, <1>6

------------------------------------------------------------------------------
(* The threads.                                                                 *)

LEMMA ScanKeeps == ASSUME WindowInv, ScanStep \/ QuitScan PROVE WindowInv'
  <1> USE DEF WindowInv
  <1>1. ASSUME OnlyTheScan, ScanOK', QueueOK' PROVE WindowInv'
    BY <1>1, PartsKept DEF OnlyTheScan
  <1>2. ASSUME NEW kind \in {"scanCompleted", "scanCancelled", "scanFailed"},
               Emit(Signal(kind)), OnlyTheScan
        PROVE WindowInv'
    <2>1. Signal(kind) \in Signals /\ Signal(kind).kind # "progressed"
      BY SignalTyped DEF SignalKinds
    <2>2. QueueOK'
      BY <1>2, <2>1, Queues DEF Emit
    <2>3. ScanOK'
      BY <1>2 DEF Emit, ScanOK, ThreadStates
    <2> QED
      BY <1>1, <1>2, <2>2, <2>3
  <1>3. CASE DiscoverFiles
    <2>1. ScanOK'
      BY <1>3 DEF DiscoverFiles, ScanOK, Present
    <2> QED
      BY <1>1, <1>3, <2>1, PartsKept DEF DiscoverFiles
  <1>4. CASE InspectFile
    <2>1. PICK p \in scan.todo :
             scan' = [scan EXCEPT !.todo = @ \ {p},
                                  !.records = Append(@, [file |-> p, ready |-> disk[p] \in Pdfs])]
      BY <1>4, Zenon DEF InspectFile
    <2>2. p \in Paths /\ scan.records \in Seq(Records)
      BY DEF ScanOK
    <2>3. \A ready \in BOOLEAN : [file |-> p, ready |-> ready] \in Records
      BY <2>2 DEF Records
    <2>4. PICK r \in Records : r = [file |-> p, ready |-> disk[p] \in Pdfs]
      <3>1. (disk[p] \in Pdfs) \in BOOLEAN
        OBVIOUS
      <3> QED
        BY <2>3, <3>1, Zenon
    <2>5. scan' = [scan EXCEPT !.todo = @ \ {p}, !.records = Append(@, r)]
      BY <2>1, <2>4, Zenon
    <2>6. Append(scan.records, r) \in Seq(Records)
      BY <2>2
    <2>7. ScanOK'
      BY <2>5, <2>6 DEF ScanOK
    <2> QED
      BY <1>1, <1>4, <2>7, PartsKept DEF InspectFile
  <1>5. CASE StopScan
    BY <1>2, <1>5 DEF StopScan
  <1>6. CASE EndScan
    BY <1>2, <1>6 DEF EndScan
  <1>7. CASE ScanFails
    BY <1>2, <1>7 DEF ScanFails
  <1>8. CASE QuitScan
    <2>1. ScanOK'
      BY <1>8 DEF QuitScan, ScanOK, ThreadStates
    <2>2. Signal("scanFinished") \in Signals /\ Signal("scanFinished").kind # "progressed"
      BY SignalTyped DEF SignalKinds
    <2>3. QueueOK'
      BY <1>8, <2>2, Queues, PartsKept DEF QuitScan
    <2> QED
      BY <1>1, <1>8, <2>1, <2>3 DEF QuitScan
  <1> QED
    BY <1>3, <1>4, <1>5, <1>6, <1>7, <1>8 DEF ScanStep

\* What the worker posts of an item.
LEMMA ReportPosts ==
    ASSUME WindowInv, AnalysisInv, ReportItem
    PROVE \E s \in Signals, item \in cls.todo :
             /\ cls' = [cls EXCEPT !.todo = @ \ {item}]
             /\ Post(s)
             /\ \/ s.kind = "itemFailed"
                \/ /\ s.kind = "progressed" /\ s.preview \in Previews
                   /\ s.row = item.row /\ s.preview.from = item.file
  <1>1. PICK item \in cls.todo :
           /\ cls' = [cls EXCEPT !.todo = @ \ {item}]
           /\ Post(IF job["worker"].result = Nothing
                   THEN Signal("itemFailed")
                   ELSE [kind |-> "progressed", row |-> item.row,
                         preview |-> PreviewOf(job["worker"].result, item.file)])
    BY DEF ReportItem
  <1>2. item \in [row : Nat, file : Paths]
    BY DEF WindowInv, ClsOK
  <1>3. CASE job["worker"].result = Nothing
    <2>1. Signal("itemFailed") \in Signals /\ Signal("itemFailed").kind = "itemFailed"
      BY SignalTyped DEF SignalKinds
    <2> QED
      BY <1>1, <1>3, <2>1
  <1>4. CASE job["worker"].result # Nothing
    <2>1. job["worker"] \in Jobs
      BY DEF AnalysisInv, Analysts
    <2>2. job["worker"].result.destination \in Destinations
      BY <1>4, <2>1 DEF Jobs, Results
    <2> DEFINE s == [kind |-> "progressed", row |-> item.row,
                     preview |-> PreviewOf(job["worker"].result, item.file)]
    <2>3. PreviewOf(job["worker"].result, item.file) \in Previews /\ s.preview.from = item.file
      BY <1>2, <2>2, PlaceAssumption DEF PreviewOf, Previews
    <2>4. s \in Signals
      BY <1>2, <2>3 DEF Signals, SignalKinds
    <2>5. Post(s)
      BY <1>1, <1>4
    <2>6. s.kind = "progressed" /\ s.preview \in Previews /\ s.row = item.row
      BY <2>3
    <2> QED
      BY <1>1, <2>3, <2>4, <2>5, <2>6
  <1> QED
    BY <1>3, <1>4

LEMMA WorkerKeeps ==
    ASSUME WindowInv, AnalysisInv, NextItem \/ ReportItem \/ EndItems \/ QuitCls
    PROVE WindowInv'
  <1> USE DEF WindowInv
  <1>1. ASSUME OnlyTheWorker, ClsOK', QueueOK' PROVE WindowInv'
    BY <1>1, PartsKept DEF OnlyTheWorker
  <1>2. CASE NextItem
    BY <1>1, <1>2, PartsKept DEF NextItem
  <1>3. CASE ReportItem
    <2>1. PICK s \in Signals, item \in cls.todo :
             /\ cls' = [cls EXCEPT !.todo = @ \ {item}]
             /\ Post(s) /\ (s.kind = "progressed" => s.preview \in Previews)
      BY <1>3, ReportPosts
    <2>2. ClsOK'
      BY <2>1 DEF ClsOK
    <2>3. QueueOK'
      BY <2>1, Queues
    <2> QED
      BY <1>1, <1>3, <2>2, <2>3 DEF ReportItem
  <1>4. CASE EndItems
    <2>1. ClsOK'
      BY <1>4 DEF EndItems, ClsOK, ThreadStates
    <2>2. Signal("classified") \in Signals /\ Signal("classified").kind # "progressed"
      BY SignalTyped DEF SignalKinds
    <2>3. QueueOK'
      BY <1>4, <2>2, Queues DEF EndItems
    <2> QED
      BY <1>1, <1>4, <2>1, <2>3 DEF EndItems
  <1>5. CASE QuitCls
    <2>1. ClsOK'
      BY <1>5 DEF QuitCls, ClsOK, ThreadStates
    <2>2. Signal("clsFinished") \in Signals /\ Signal("clsFinished").kind # "progressed"
      BY SignalTyped DEF SignalKinds
    <2>3. QueueOK'
      BY <1>5, <2>2, Queues, PartsKept DEF QuitCls
    <2> QED
      BY <1>1, <1>5, <2>1, <2>3 DEF QuitCls
  <1> QED
    BY <1>2, <1>3, <1>4, <1>5

LEMMA AnalyzeKeeps == ASSUME WindowInv, Analyze PROVE WindowInv'
  <1> USE DEF WindowInv
  <1>1. ReadyItems \subseteq [row : Nat, file : Paths]
    <2>1. DOMAIN rows \subseteq Nat /\ \A i \in DOMAIN rows : rows[i] \in Rows
      BY DEF RowsOK
    <2> QED
      BY <2>1 DEF ReadyItems, Rows
  <1>2. cls' = [held |-> TRUE, run |-> "working", todo |-> ReadyItems]
    BY DEF Analyze
  <1>3. ClsOK'
    BY <1>1, <1>2 DEF ClsOK, ThreadStates
  <1>4. enabled' = Buttons(TRUE, rows, InProgress(scan), FALSE)
    BY DEF Analyze
  <1>5. /\ UNCHANGED <<shell, closed, phase, rows, scan, posted, table, clicked, deciding, history>>
        /\ early' \in BOOLEAN
    <2>1. early' \in BOOLEAN
      BY Zenon DEF Analyze
    <2> QED
      BY <2>1 DEF Analyze
  <1>6. PanelOK' /\ MarksOK'
    BY <1>4, <1>5, ButtonsTyped DEF PanelOK, MarksOK
  <1> QED
    BY <1>3, <1>5, <1>6, PartsKept
------------------------------------------------------------------------------
(* The slots of the main thread.                                                *)

\* A slot takes the first signal and leaves the rest of the window.
LEMMA Received ==
    ASSUME WindowInv, NEW kind, Receive(kind)
    PROVE /\ MarksOK' /\ QueueOK' /\ TableOK' /\ ChoicesOK'
          /\ UNCHANGED shell
          /\ Head(posted) \in Signals
          /\ Head(posted).kind = kind
          /\ kind = "progressed" => Head(posted).preview \in Previews
  <1>1. /\ posted # <<>> /\ posted' = Tail(posted) /\ Head(posted).kind = kind
        /\ UNCHANGED <<shell, closed, table, clicked, deciding, history, early>>
    BY DEF Receive
  <1>2. QueueOK
    BY DEF WindowInv
  <1>3. /\ QueueOK' /\ Head(posted) \in Signals
        /\ Head(posted).kind = "progressed" => Head(posted).preview \in Previews
    BY <1>1, <1>2, Dequeues
  <1> QED
    BY <1>1, <1>3, PartsKept

\* The rows of a scan are rows, none of them in review.
LEMMA RowsOfTyped ==
    ASSUME NEW records \in Seq(Records), NEW moved
    PROVE /\ RowsOf(records, moved) \in Seq(Rows)
          /\ \A i \in DOMAIN RowsOf(records, moved) :
                 RowsOf(records, moved)[i].status # "REVIEW"
  <1> DEFINE r == RowsOf(records, moved)
  <1>1. DOMAIN r = 1 .. Len(records)
    BY DEF RowsOf
  <1>2. \A i \in 1 .. Len(records) : r[i] \in Rows /\ r[i].status # "REVIEW"
    <2> SUFFICES ASSUME NEW i \in 1 .. Len(records)
                 PROVE r[i] \in Rows /\ r[i].status # "REVIEW"
      OBVIOUS
    <2>1. records[i] \in Records
      OBVIOUS
    <2>2. records[i].file \in Paths
      BY <2>1 DEF Records
    <2>3. PICK status \in {"MOVED", "READY", "ATTENTION"} :
             r[i] = [file |-> records[i].file, status |-> status, preview |-> Nothing]
      <3>1. r[i] = [file |-> records[i].file,
                    status |-> IF records[i].file \in moved THEN "MOVED"
                               ELSE IF records[i].ready THEN "READY" ELSE "ATTENTION",
                    preview |-> Nothing]
        BY <1>1 DEF RowsOf
      <3>2. (IF records[i].file \in moved THEN "MOVED"
             ELSE IF records[i].ready THEN "READY" ELSE "ATTENTION")
               \in {"MOVED", "READY", "ATTENTION"}
        BY Zenon
      <3> QED
        BY <3>1, <3>2, Zenon
    <2> QED
      BY <2>2, <2>3 DEF Rows
  <1>3. Len(records) \in Nat
    OBVIOUS
  <1>4. r \in [1 .. Len(records) -> Rows]
    BY <1>1, <1>2 DEF RowsOf
  <1> QED
    BY <1>1, <1>2, <1>3, <1>4

\* A slot that changes no row.
LEMMA SlotKeeps ==
    ASSUME WindowInv, NEW kind, Receive(kind), UNCHANGED rows, PanelOK', ScanOK', ClsOK'
    PROVE WindowInv'
  BY Received, PartsKept DEF WindowInv

LEMMA ScanSlotKeeps ==
    ASSUME WindowInv,
           HandleScanCompleted \/ HandleScanCancelled \/ HandleScanFailed \/ HandleScanFinished
    PROVE WindowInv'
  <1>1. ScanOK /\ PanelOK /\ RowsOK /\ scan.records \in Seq(Records)
    BY DEF WindowInv, ScanOK
  <1>2. ASSUME scan' = [scan EXCEPT !.run = "quitting"] PROVE ScanOK'
    BY <1>1, <1>2 DEF ScanOK, ThreadStates
  <1>3. CASE HandleScanCompleted
    <2>1. /\ Receive("scanCompleted") /\ ScanOK' /\ UNCHANGED <<enabled, cls>>
          /\ phase' \in {"COMPLETE", phase}
      BY <1>2, <1>3, Zenon DEF HandleScanCompleted
    <2>2. PICK moved \in {history, {}} :
             rows' = IF Active THEN RowsOf(scan.records, IF shell = "cockpit" THEN moved ELSE {})
                               ELSE rows
      BY <1>3, Zenon DEF HandleScanCompleted
    <2>3. RowsOK'
      <3>1. CASE Active
        <4>1. PICK m : m = IF shell = "cockpit" THEN moved ELSE {}
          OBVIOUS
        <4>2. rows' = RowsOf(scan.records, m)
          BY <2>2, <3>1, <4>1, Zenon
        <4> QED
          BY <1>1, <4>2, RowsOfTyped DEF RowsOK
      <3>2. CASE ~Active
        <4>1. UNCHANGED rows
          BY <2>2, <3>2, Zenon
        <4> QED
          BY <1>1, <4>1 DEF RowsOK
      <3> QED
        BY <3>1, <3>2
    <2>4. PanelOK'
      BY <1>1, <2>1 DEF PanelOK
    <2> QED
      BY <2>1, <2>3, <2>4, Received, PartsKept DEF WindowInv
  <1>4. CASE HandleScanCancelled
    <2>1. /\ Receive("scanCancelled") /\ ScanOK' /\ UNCHANGED <<enabled, cls>>
          /\ phase' \in {"CANCELLED", phase}
          /\ rows' \in {<<>>, rows}
      BY <1>2, <1>4, Zenon DEF HandleScanCancelled
    <2>2. RowsOK'
      <3>1. CASE rows' = <<>>
        BY <3>1 DEF RowsOK
      <3>2. CASE rows' = rows
        BY <1>1, <3>2 DEF RowsOK
      <3> QED
        BY <2>1, <3>1, <3>2
    <2>3. PanelOK'
      BY <1>1, <2>1 DEF PanelOK
    <2> QED
      BY <2>1, <2>2, <2>3, Received, PartsKept DEF WindowInv
  <1>5. CASE HandleScanFailed
    <2>1. /\ Receive("scanFailed") /\ ScanOK' /\ UNCHANGED <<rows, enabled, cls>>
          /\ phase' \in {"FAILED", phase}
      BY <1>2, <1>5, Zenon DEF HandleScanFailed
    <2>2. PanelOK'
      BY <1>1, <2>1 DEF PanelOK
    <2> QED
      BY <2>1, <2>2, SlotKeeps, PartsKept
  <1>6. CASE HandleScanFinished
    <2>1. /\ Receive("scanFinished") /\ UNCHANGED <<phase, rows, cls>>
          /\ scan' = [scan EXCEPT !.held = FALSE]
          /\ enabled' = Buttons(FALSE, rows, FALSE, InProgress(cls))
      BY <1>6 DEF HandleScanFinished
    <2>2. ScanOK'
      BY <1>1, <2>1 DEF ScanOK
    <2>3. PanelOK'
      BY <1>1, <2>1, ButtonsTyped DEF PanelOK
    <2> QED
      BY <2>1, <2>2, <2>3, SlotKeeps, PartsKept
  <1> QED
    BY <1>3, <1>4, <1>5, <1>6

LEMMA ClsSlotKeeps ==
    ASSUME WindowInv,
           HandleProgress \/ HandleItemFailed \/ HandleClassified \/ HandleClsFinished
    PROVE WindowInv'
  <1>1. ClsOK /\ PanelOK /\ RowsOK
    BY DEF WindowInv
  <1>2. CASE HandleProgress
    <2>1. Receive("progressed") /\ UNCHANGED <<phase, enabled, scan, cls>>
      BY <1>2 DEF HandleProgress
    <2>2. Head(posted) \in Signals /\ Head(posted).preview \in Previews
      BY <2>1, Received
    <2>3. PICK preview \in Previews :
             rows' = IF Head(posted).row \in DOMAIN rows
                     THEN [rows EXCEPT ![Head(posted).row].status = "REVIEW",
                                       ![Head(posted).row].preview = preview]
                     ELSE rows
      <3> DEFINE preview == IF disk[Head(posted).preview.from] = Absent
                            THEN [Head(posted).preview EXCEPT !.to = Nothing]
                            ELSE Head(posted).preview
      <3>1. preview \in Previews
        BY <2>2 DEF Previews
      <3>2. rows' = IF Head(posted).row \in DOMAIN rows
                    THEN [rows EXCEPT ![Head(posted).row].status = "REVIEW",
                                      ![Head(posted).row].preview = preview]
                    ELSE rows
        BY <1>2, Zenon DEF HandleProgress
      <3> QED
        BY <3>1, <3>2, Zenon
    <2>4. RowsOK'
      <3>1. CASE Head(posted).row \in DOMAIN rows
        <4>1. PICK r : r = Head(posted).row
          OBVIOUS
        <4> DEFINE new == [rows[r] EXCEPT !.status = "REVIEW", !.preview = preview]
        <4>2. r \in DOMAIN rows /\ rows' = [rows EXCEPT ![r] = new]
          BY <2>3, <3>1, <4>1
        <4>3. rows[r] \in Rows
          BY <1>1, <4>2 DEF RowsOK
        <4>4. new \in Rows /\ new.preview \in Previews
          BY <4>3 DEF Rows
        <4> HIDE DEF new
        <4> QED
          BY <1>1, <4>2, <4>4 DEF RowsOK
      <3>2. CASE Head(posted).row \notin DOMAIN rows
        BY <1>1, <2>3, <3>2 DEF RowsOK
      <3> QED
        BY <3>1, <3>2
    <2> QED
      BY <2>1, <2>4, Received, PartsKept DEF WindowInv
  <1>3. CASE HandleItemFailed
    <2>1. Receive("itemFailed") /\ UNCHANGED <<phase, rows, enabled, scan, cls>>
      BY <1>3 DEF HandleItemFailed
    <2> QED
      BY <2>1, SlotKeeps, PartsKept
  <1>4. CASE HandleClassified
    <2>1. /\ Receive("classified") /\ UNCHANGED <<phase, rows, enabled, scan>>
          /\ cls' = [cls EXCEPT !.run = "quitting"]
      BY <1>4 DEF HandleClassified
    <2>2. ClsOK'
      BY <1>1, <2>1 DEF ClsOK, ThreadStates
    <2> QED
      BY <2>1, <2>2, SlotKeeps, PartsKept
  <1>5. CASE HandleClsFinished
    <2>1. /\ Receive("clsFinished") /\ UNCHANGED <<phase, rows, scan>>
          /\ cls' = [cls EXCEPT !.held = FALSE]
          /\ enabled' = Buttons(FALSE, rows, InProgress(scan), FALSE)
      BY <1>5 DEF HandleClsFinished
    <2>2. ClsOK'
      BY <1>1, <2>1 DEF ClsOK
    <2>3. PanelOK'
      BY <1>1, <2>1, ButtonsTyped DEF PanelOK
    <2> QED
      BY <2>1, <2>2, <2>3, SlotKeeps, PartsKept
  <1> QED
    BY <1>2, <1>3, <1>4, <1>5
------------------------------------------------------------------------------
(* Decisions.                                                                   *)

DiskOK == disk \in [Paths -> Contents \cup {Absent}]

\* A move between two places, the first of which has a file.
LEMMA MovedTyped ==
    ASSUME DiskOK, NEW preview \in Previews, CanMove(preview)
    PROVE preview.to \in Paths /\ Moved(preview) \in [Paths -> Contents \cup {Absent}]
  <1>1. preview.from \in Paths /\ preview.to \in Paths
    BY DEF CanMove, Previews
  <1>2. disk[preview.from] \in Contents \cup {Absent}
    BY <1>1 DEF DiskOK
  <1> QED
    BY <1>1, <1>2 DEF Moved, DiskOK

\* After a decision the table is filled from rows that are in order.
LEMMA NextDecided ==
    ASSUME WindowInv, NEW d \in deciding, NEW docs \in Seq(Rows),
           \A i \in DOMAIN docs : docs[i].status = "REVIEW" => docs[i].preview \in Previews,
           DecideNext(d, docs), UNCHANGED clicked
    PROVE TableOK' /\ ChoicesOK'
  <1>1. TableOK /\ ChoicesOK
    BY DEF WindowInv
  <1>2. deciding' = deciding \ {d} /\ table' \in {Reopened(docs), table}
    BY Zenon DEF DecideNext
  <1>3. Reopened(docs) \in [shown : BOOLEAN, entries : SUBSET Entries]
    BY <1>1, ReopenedTyped
  <1>4. TableOK'
    BY <1>1, <1>2, <1>3 DEF TableOK
  <1>5. ChoicesOK'
    BY <1>1, <1>2 DEF ChoicesOK
  <1> QED
    BY <1>4, <1>5

LEMMA DecideKeeps == ASSUME WindowInv, DiskOK, Decide PROVE WindowInv' /\ DiskOK'
  <1>1. PICK d \in deciding : Approve(d) \/ Reject(d) \/ Blocked(d)
    BY DEF Decide
  <1>2. Undecided
    BY <1>1 DEF Approve, Reject, Blocked
  <1>3. /\ UNCHANGED <<shell, closed, early, phase, scan, cls, posted, clicked>>
        /\ ScanOK' /\ ClsOK' /\ QueueOK'
    BY <1>2, PartsKept DEF Undecided
  <1>4. RowsOK /\ MarksOK /\ PanelOK /\ ChoicesOK
    BY DEF WindowInv
  <1>5. CASE Approve(d)
    <2>1. d.row \in DOMAIN rows /\ rows[d.row].status = "REVIEW"
      BY <1>5 DEF Approve, InReview
    <2>2. PICK i : i = d.row
      OBVIOUS
    <2>3. PICK preview : preview = rows[i].preview
      OBVIOUS
    <2>4. /\ CanMove(preview)
          /\ disk' = Moved(preview)
          /\ history' = history \cup {preview.to}
          /\ rows' = [rows EXCEPT ![i].status = "MOVED", ![i].file = preview.to]
          /\ enabled' = Buttons(FALSE, rows', InProgress(scan), InProgress(cls))
          /\ DecideNext(d, rows')
      BY <1>5, <2>2, <2>3 DEF Approve
    <2>5. i \in DOMAIN rows /\ rows[i] \in Rows /\ preview \in Previews
      BY <1>4, <2>1, <2>2, <2>3 DEF RowsOK
    <2>6. preview.to \in Paths /\ DiskOK'
      BY <2>4, <2>5, MovedTyped DEF DiskOK
    <2> DEFINE new == [rows[i] EXCEPT !.status = "MOVED", !.file = preview.to]
    <2>7. new \in Rows /\ new.status # "REVIEW"
      BY <2>5, <2>6 DEF Rows
    <2>8. rows' = [rows EXCEPT ![i] = new]
      BY <2>4, <2>5 DEF Rows
    <2> HIDE DEF new
    <2>9. RowsOK'
      BY <1>4, <2>5, <2>7, <2>8 DEF RowsOK
    <2>10. MarksOK' /\ PanelOK'
      <3>1. PICK docs : docs = rows'
        OBVIOUS
      <3>2. enabled' \subseteq {"folder", "scan", "cancel", "analyze", "review"}
        BY <2>4, <3>1, ButtonsTyped
      <3> QED
        BY <1>3, <1>4, <2>4, <2>6, <3>2 DEF MarksOK, PanelOK
    <2>11. TableOK' /\ ChoicesOK'
      <3>1. PICK docs : docs = rows'
        OBVIOUS
      <3>2. /\ docs \in Seq(Rows) /\ DecideNext(d, docs)
            /\ \A k \in DOMAIN docs : docs[k].status = "REVIEW" => docs[k].preview \in Previews
        BY <2>4, <2>9, <3>1 DEF RowsOK
      <3> QED
        BY <1>3, <3>2, NextDecided
    <2> QED
      BY <1>3, <2>6, <2>9, <2>10, <2>11 DEF WindowInv
  <1>6. CASE Reject(d)
    <2>1. d.row \in DOMAIN rows
      BY <1>6 DEF Reject, InReview
    <2>2. PICK i : i = d.row
      OBVIOUS
    <2>3. /\ rows' = [rows EXCEPT ![i].status = "REJECTED"]
          /\ enabled' = Buttons(FALSE, rows', InProgress(scan), InProgress(cls))
          /\ DecideNext(d, rows')
          /\ UNCHANGED <<disk, history>>
      BY <1>6, <2>2 DEF Reject
    <2>4. i \in DOMAIN rows /\ rows[i] \in Rows
      BY <1>4, <2>1, <2>2 DEF RowsOK
    <2> DEFINE new == [rows[i] EXCEPT !.status = "REJECTED"]
    <2>5. new \in Rows /\ new.status # "REVIEW"
      BY <2>4 DEF Rows
    <2>6. rows' = [rows EXCEPT ![i] = new]
      BY <2>3, <2>4 DEF Rows
    <2> HIDE DEF new
    <2>7. RowsOK'
      BY <1>4, <2>4, <2>5, <2>6 DEF RowsOK
    <2>8. MarksOK' /\ PanelOK'
      <3>1. PICK docs : docs = rows'
        OBVIOUS
      <3>2. enabled' \subseteq {"folder", "scan", "cancel", "analyze", "review"}
        BY <2>3, <3>1, ButtonsTyped
      <3> QED
        BY <1>3, <1>4, <2>3, <3>2 DEF MarksOK, PanelOK
    <2>9. TableOK' /\ ChoicesOK'
      <3>1. PICK docs : docs = rows'
        OBVIOUS
      <3>2. /\ docs \in Seq(Rows) /\ DecideNext(d, docs)
            /\ \A k \in DOMAIN docs : docs[k].status = "REVIEW" => docs[k].preview \in Previews
        BY <2>3, <2>7, <3>1 DEF RowsOK
      <3> QED
        BY <1>3, <3>2, NextDecided
    <2> QED
      BY <1>3, <2>3, <2>7, <2>8, <2>9 DEF WindowInv, DiskOK
  <1>7. CASE Blocked(d)
    <2>1. UNCHANGED <<rows, enabled, history>>
      BY <1>7 DEF Blocked
    <2>2. MarksOK' /\ PanelOK' /\ RowsOK'
      BY <1>3, <2>1, PartsKept
    <2>3. DiskOK'
      <3>1. CASE UNCHANGED disk
        BY <3>1 DEF DiskOK
      <3>2. CASE /\ InReview(d)
                 /\ CanMove(rows[d.row].preview)
                 /\ disk' = Moved(rows[d.row].preview)
        <4>1. rows[d.row].preview \in Previews
          BY <1>4, <3>2 DEF InReview, RowsOK
        <4> QED
          BY <3>2, <4>1, MovedTyped DEF DiskOK
      <3> QED
        BY <1>7, <3>1, <3>2 DEF Blocked
    <2>4. TableOK' /\ ChoicesOK'
      <3>1. CASE DecideNext(d, rows)
        BY <1>3, <1>4, <3>1, NextDecided DEF RowsOK
      <3>2. CASE deciding' = {} /\ UNCHANGED table
        BY <1>3, <1>4, <3>2, PartsKept DEF ChoicesOK
      <3> QED
        BY <1>7, <3>1, <3>2 DEF Blocked
    <2> QED
      BY <1>3, <2>2, <2>3, <2>4 DEF WindowInv
  <1> QED
    BY <1>1, <1>5, <1>6, <1>7
------------------------------------------------------------------------------
(* The files and the batch commands.                                            *)

FilesOK == DiskOK /\ batch \in [Commands -> Batches] /\ edits \in 0 .. MaxEdits

\* The invariant of the analyses, from its parts.
LEMMA PdfParts ==
    /\ PdfInv <=> AnalysisInv /\ FilesOK
    /\ PdfInv' <=> AnalysisInv' /\ FilesOK'
  BY DEF PdfInv, AnalysisInv, FilesOK, DiskOK, PdfTypeOK

LEMMA AnalysisKept == ASSUME AnalysisInv, UNCHANGED <<memory, job>> PROVE AnalysisInv'
  BY DEF AnalysisInv, AnalystsSound, EvidenceIsOfTheDocument, SuccessIsStored, Backed

LEMMA FilesKept == ASSUME FilesOK, UNCHANGED <<disk, batch, edits>> PROVE FilesOK'
  BY DEF FilesOK, DiskOK

LEMMA PdfKept == ASSUME PdfInv, UNCHANGED pdfVars PROVE PdfInv'
  BY PdfParts, AnalysisKept, FilesKept DEF pdfVars

\* A document is taken or dropped.
LEMMA TakingKeeps ==
    ASSUME PdfInv, NEW a \in Analysts, Takes(a) \/ Drops(a) PROVE AnalysisInv'
  <1>1. job \in [Analysts -> Jobs] /\ AnalystsSound
    BY DEF PdfInv, PdfTypeOK
  <1>2. UNCHANGED memory
    BY DEF Takes, Drops
  <1> QED
    BY <1>1, <1>2, TakenOrDropped, NothingStored

LEMMA EditKeeps == ASSUME FilesOK, NEW p \in Paths, Edit(p) PROVE FilesOK'
  <1>1. PICK c \in Revisions[p] : disk' = [disk EXCEPT ![p] = c]
    BY DEF Edit
  <1>2. c \in Contents \cup {Absent}
    BY <1>1, ContentsAssumption
  <1>3. DiskOK'
    BY <1>1, <1>2 DEF FilesOK, DiskOK
  <1>4. edits' \in 0 .. MaxEdits /\ UNCHANGED batch
    BY BoundsAssumption DEF Edit, FilesOK
  <1> QED
    BY <1>3, <1>4 DEF FilesOK

LEMMA CommandKeeps == ASSUME PdfInv, NEW m \in Commands, Command(m) PROVE PdfInv'
  <1>1. AnalysisInv /\ FilesOK /\ m \in Analysts
    BY PdfParts DEF Analysts
  <1>2. batch[m] \in Batches /\ batch \in [Commands -> Batches]
    BY <1>1 DEF FilesOK
  <1>3. ASSUME NEW b \in Batches, batch' = [batch EXCEPT ![m] = b], UNCHANGED <<disk, edits>>
        PROVE FilesOK'
    BY <1>1, <1>2, <1>3 DEF FilesOK, DiskOK
  <1>4. CASE StartBatch(m)
    <2>1. PICK stop \in BOOLEAN :
             batch' = [batch EXCEPT ![m].state = "running", ![m].todo = Discovered,
                                    ![m].stopOnFailure = stop]
      BY <1>4, Zenon DEF StartBatch
    <2> DEFINE b == [batch[m] EXCEPT !.state = "running", !.todo = Discovered,
                                     !.stopOnFailure = stop]
    <2>2. Discovered \subseteq Paths
      BY DEF Discovered, Present
    <2>3. b \in Batches
      BY <1>2, <2>2 DEF Batches
    <2>4. batch' = [batch EXCEPT ![m] = b]
      BY <1>2, <2>1 DEF Batches
    <2>5. UNCHANGED <<disk, edits, memory, job>>
      BY <1>4 DEF StartBatch
    <2> QED
      BY <1>1, <1>3, <2>3, <2>4, <2>5, AnalysisKept, PdfParts
  <1>5. CASE NextPdf(m)
    <2>1. UNCHANGED <<disk, memory, edits>>
      BY <1>5 DEF NextPdf
    <2>2. CASE batch' = [batch EXCEPT ![m].state = "done"] /\ UNCHANGED job
      <3> DEFINE b == [batch[m] EXCEPT !.state = "done"]
      <3>1. b \in Batches /\ batch' = [batch EXCEPT ![m] = b]
        BY <1>2, <2>2 DEF Batches
      <3> QED
        BY <1>1, <1>3, <2>1, <2>2, <3>1, AnalysisKept, PdfParts
    <2>3. CASE \E p \in batch[m].todo :
                  batch' = [batch EXCEPT ![m].todo = @ \ {p}] /\ Begin(m, p)
      <3>1. PICK p \in batch[m].todo :
               batch' = [batch EXCEPT ![m].todo = @ \ {p}] /\ Begin(m, p)
        BY <2>3
      <3>2. p \in Paths
        BY <1>2 DEF Batches
      <3>3. Takes(m)
        BY <2>1, <3>1, <3>2 DEF Takes
      <3> DEFINE b == [batch[m] EXCEPT !.todo = @ \ {p}]
      <3>4. b \in Batches /\ batch' = [batch EXCEPT ![m] = b]
        BY <1>2, <3>1 DEF Batches
      <3> QED
        BY <1>1, <1>3, <2>1, <3>3, <3>4, TakingKeeps, PdfParts
    <2> QED
      BY <1>5, <2>2, <2>3 DEF NextPdf
  <1>6. CASE ReportPdf(m)
    <2>1. UNCHANGED <<disk, memory, edits>> /\ Drops(m) /\ job[m].pc = "report"
      BY <1>6 DEF ReportPdf, Drops
    <2>2. job[m] \in Jobs /\ job[m].file \in Paths
      BY <1>1, <2>1 DEF AnalysisInv, AnalystsSound, Sound
    <2>3. PICK classified \in BOOLEAN : classified = (job[m].result # Nothing)
      OBVIOUS
    <2>4. PICK todo : todo = IF job[m].result = Nothing /\ batch[m].stopOnFailure
                             THEN {} ELSE batch[m].todo
      OBVIOUS
    <2>5. todo \subseteq Paths
      BY <1>2, <2>4 DEF Batches
    <2> DEFINE entry == [file |-> job[m].file, classified |-> classified]
               b == [batch[m] EXCEPT !.report = Append(@, entry), !.todo = todo]
    <2>6. entry \in Reports
      BY <2>2, <2>3 DEF Reports
    <2>7. b \in Batches
      <3>1. batch[m].report \in Seq(Reports)
        BY <1>2 DEF Batches
      <3>2. Append(batch[m].report, entry) \in Seq(Reports)
        BY <2>6, <3>1
      <3> HIDE DEF entry
      <3>3. PICK report : report = Append(batch[m].report, entry)
        OBVIOUS
      <3>4. b = [batch[m] EXCEPT !.report = report, !.todo = todo]
        BY <1>2, <3>3 DEF Batches
      <3> HIDE DEF b
      <3> QED
        BY <1>2, <2>5, <3>2, <3>3, <3>4 DEF Batches
    <2>8. batch' = [batch EXCEPT ![m].report = Append(@, [file |-> job[m].file,
                                                          classified |-> job[m].result # Nothing]),
                                 ![m].todo = IF job[m].result = Nothing /\ batch[m].stopOnFailure
                                             THEN {} ELSE @]
      BY <1>6, Zenon DEF ReportPdf
    <2>9. batch' = [batch EXCEPT ![m] = b]
      BY <1>2, <2>3, <2>4, <2>8 DEF Batches
    <2> QED
      BY <1>1, <1>3, <2>1, <2>7, <2>9, TakingKeeps, PdfParts
  <1>7. CASE AnalystStep(m)
    BY <1>1, <1>7, AnalystKeeps, FilesKept, PdfParts
  <1> QED
    BY <1>4, <1>5, <1>6, <1>7 DEF Command
------------------------------------------------------------------------------
(* The invariant of the session.                                                *)

LEMMA InitInv == Init => Inv
  <1> SUFFICES ASSUME Init PROVE Inv
    OBVIOUS
  <1>1. AnalysisInv
    <2>1. job = [a \in Analysts |-> IdleJob] /\ memory = [id \in Identities |-> Nothing]
      BY DEF Init, PdfInit
    <2>2. job \in [Analysts -> Jobs] /\ AnalystsSound
      BY <2>1, IdleJobTyped DEF AnalystsSound
    <2>3. EvidenceIsOfTheDocument
      BY <2>1 DEF EvidenceIsOfTheDocument
    <2>4. SuccessIsStored
      BY <2>1, IdleJobTyped DEF SuccessIsStored
    <2> QED
      BY <2>1, <2>2, <2>3, <2>4 DEF AnalysisInv
  <1>2. FilesOK
    <2>1. [state |-> "none", todo |-> {}, stopOnFailure |-> FALSE, report |-> <<>>] \in Batches
      BY DEF Batches
    <2>2. batch \in [Commands -> Batches]
      BY <2>1 DEF Init, PdfInit
    <2>3. DiskOK
      BY ContentsAssumption DEF Init, PdfInit, DiskOK
    <2>4. edits \in 0 .. MaxEdits
      BY BoundsAssumption DEF Init, PdfInit
    <2> QED
      BY <2>2, <2>3, <2>4 DEF FilesOK
  <1>3. MarksOK
    <2>1. closed \in BOOLEAN
      BY Zenon DEF Init
    <2> QED
      BY <2>1 DEF Init, MarksOK
  <1>4. PanelOK
    BY DEF Init, PanelOK
  <1>5. RowsOK /\ QueueOK /\ TableOK /\ ChoicesOK
    BY DEF Init, RowsOK, QueueOK, TableOK, ChoicesOK
  <1>6. ScanOK /\ ClsOK
    BY IdleTyped DEF Init, ScanOK, ClsOK
  <1> QED
    BY <1>1, <1>2, <1>3, <1>4, <1>5, <1>6, PdfParts DEF Inv, WindowInv

LEMMA NextInv == Inv /\ [Next]_vars => Inv'
  <1> SUFFICES ASSUME Inv, [Next]_vars PROVE Inv'
    OBVIOUS
  <1>1. PdfInv /\ WindowInv /\ AnalysisInv /\ FilesOK /\ DiskOK
    BY PdfParts DEF Inv, FilesOK
  <1>2. ASSUME UNCHANGED pdfVars, WindowInv' PROVE Inv'
    BY <1>1, <1>2, PdfKept DEF Inv
  <1>3. CASE UNCHANGED vars
    BY <1>1, <1>2, <1>3, WindowKept DEF vars
  <1>4. CASE ChooseFolder \/ StartScan \/ CancelScan \/ Close
    <2>1. UNCHANGED pdfVars
      BY <1>4 DEF ChooseFolder, StartScan, CancelScan, Close
    <2> QED
      BY <1>1, <1>2, <1>4, <2>1, FolderKeeps
  <1>5. CASE ScanStep \/ QuitScan
    <2>1. UNCHANGED pdfVars
      BY <1>5 DEF ScanStep, QuitScan, DiscoverFiles, InspectFile, StopScan, EndScan, ScanFails,
                  OnlyTheScan
    <2> QED
      BY <1>1, <1>2, <1>5, <2>1, ScanKeeps
  <1>6. CASE Analyze
    <2>1. UNCHANGED pdfVars
      BY <1>6 DEF Analyze
    <2> QED
      BY <1>1, <1>2, <1>6, <2>1, AnalyzeKeeps
  <1>7. CASE NextItem \/ ReportItem \/ EndItems \/ QuitCls
    <2>1. UNCHANGED <<disk, memory, batch, edits>>
      BY <1>7 DEF NextItem, ReportItem, EndItems, QuitCls, OnlyTheWorker
    <2>2. AnalysisInv'
      <3>1. CASE NextItem
        <4>1. PICK item \in cls.todo : Begin("worker", item.file)
          BY <3>1 DEF NextItem
        <4>2. item.file \in Paths
          BY <1>1 DEF WindowInv, ClsOK
        <4>3. Takes("worker")
          BY <2>1, <4>1, <4>2 DEF Takes
        <4> QED
          BY <1>1, <4>3, TakingKeeps DEF Analysts
      <3>2. CASE ReportItem
        <4>1. Drops("worker")
          BY <2>1, <3>2 DEF ReportItem, Drops
        <4> QED
          BY <1>1, <4>1, TakingKeeps DEF Analysts
      <3>3. CASE EndItems \/ QuitCls
        <4>1. UNCHANGED job
          BY <3>3 DEF EndItems, QuitCls
        <4> QED
          BY <1>1, <2>1, <4>1, AnalysisKept
      <3> QED
        BY <1>7, <3>1, <3>2, <3>3
    <2>3. WindowInv'
      BY <1>1, <1>7, WorkerKeeps
    <2> QED
      BY <1>1, <2>1, <2>2, <2>3, FilesKept, PdfParts DEF Inv
  <1>8. CASE AnalystStep("worker") /\ UNCHANGED uiVars
    <2>1. AnalysisInv' /\ UNCHANGED <<disk, batch, edits>>
      BY <1>1, <1>8, AnalystKeeps DEF Analysts
    <2> QED
      BY <1>1, <1>8, <2>1, FilesKept, PdfParts, WindowKept DEF Inv
  <1>9. CASE HandleSignal
    <2>1. UNCHANGED pdfVars
      BY <1>9 DEF HandleSignal, HandleScanCompleted, HandleScanCancelled, HandleScanFailed,
                  HandleScanFinished, HandleProgress, HandleItemFailed, HandleClassified,
                  HandleClsFinished, Receive
    <2>2. WindowInv'
      BY <1>1, <1>9, ScanSlotKeeps, ClsSlotKeeps DEF HandleSignal
    <2> QED
      BY <1>2, <2>1, <2>2
  <1>10. CASE OpenRow \/ OpenReview \/ CloseReview \/ ClickRow \/ ClickFires \/ ApproveAll
    <2>1. UNCHANGED pdfVars
      BY <1>10 DEF OpenRow, OpenReview, CloseReview, ClickRow, ClickFires, ApproveAll
    <2> QED
      BY <1>1, <1>2, <1>10, <2>1, TableKeeps
  <1>11. CASE Decide
    <2>1. UNCHANGED <<memory, job, batch, edits>>
      BY <1>11 DEF Decide, Approve, Reject, Blocked, Undecided
    <2>2. WindowInv' /\ DiskOK'
      BY <1>1, <1>11, DecideKeeps
    <2>3. AnalysisInv' /\ FilesOK'
      BY <1>1, <2>1, <2>2, AnalysisKept DEF FilesOK
    <2> QED
      BY <2>2, <2>3, PdfParts DEF Inv
  <1>12. CASE Owner
    <2>1. PICK p \in Paths : Edit(p)
      BY <1>12 DEF Owner
    <2>2. FilesOK' /\ UNCHANGED <<memory, job>> /\ UNCHANGED uiVars
      BY <1>1, <1>12, <2>1, EditKeeps DEF Owner, Edit
    <2> QED
      BY <1>1, <2>2, AnalysisKept, PdfParts, WindowKept DEF Inv
  <1>13. CASE \E m \in Commands : RunCommand(m)
    <2>1. PICK m \in Commands : Command(m) /\ UNCHANGED uiVars
      BY <1>13 DEF RunCommand
    <2> QED
      BY <1>1, <2>1, CommandKeeps, WindowKept DEF Inv
  <1> QED
    BY <1>3, <1>4, <1>5, <1>6, <1>7, <1>8, <1>9, <1>10, <1>11, <1>12, <1>13
    DEF Next, WorkerStep

\* The invariant of the desktop session holds in every reachable state.
THEOREM SessionInvariant == Spec => []Inv
  <1>1. Init => Inv
    BY InitInv
  <1>2. Inv /\ [Next]_vars => Inv'
    BY NextInv
  <1> QED
    BY <1>1, <1>2, PTL DEF Spec

\* Every variable of the analyses and of the window keeps its type: a table row,
\* a queued signal and a pending decision are always what their handlers expect.
THEOREM TypeCorrect == Spec => []TypeOK
  <1>1. Inv => TypeOK
    BY WindowTyped DEF Inv, PdfInv, TypeOK
  <1> QED
    BY <1>1, SessionInvariant, PTL

\* EvidenceIsOfTheDocument, whatever analysts, retries, edits and windows do.
THEOREM EvidenceCorrect == Spec => []EvidenceIsOfTheDocument
  <1>1. Inv => EvidenceIsOfTheDocument
    BY DEF Inv, PdfInv
  <1> QED
    BY <1>1, SessionInvariant, PTL

\* SuccessIsStored, whatever transactions conflict or lose their acknowledgement.
THEOREM SuccessIsInMemory == Spec => []SuccessIsStored
  <1>1. Inv => SuccessIsStored
    BY DEF Inv, PdfInv
  <1> QED
    BY <1>1, SessionInvariant, PTL
==============================================================================
