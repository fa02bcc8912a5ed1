------------------------ MODULE ClassificationProofs ------------------------
(* What every answer that passes the validation promises to the programs that   *)
(* use it, for every taxonomy, every text and every answer.                     *)
EXTENDS ClassificationAnswer, FiniteSetTheorems, WellFoundedInduction, TLAPS

\* A set of positive integers that is not empty has a least member.
LEMMA LeastMember ==
    ASSUME NEW S \in SUBSET Nat, S # {}
    PROVE \E i \in S : \A j \in S : i <= j
  <1>1. IsWellFoundedOn(OpToRel(<, Nat), Nat)
    BY NatLessThanWellFounded
  <1>2. PICK i \in S : \A j \in S : ~(<<j, i>> \in OpToRel(<, Nat))
    BY <1>1, WFMin
  <1>3. \A j \in S : ~(j < i)
    BY <1>2 DEF OpToRel
  <1> QED
    BY <1>3

\* FirstFault finds a fault when there is one.
LEMMA NoFirstFault ==
    ASSUME NEW n \in Nat, NEW f, DOMAIN f = 1 .. n, FirstFault(f) = "none",
           NEW i \in 1 .. n
    PROVE f[i] = "none"
  <1> SUFFICES ASSUME f[i] # "none" PROVE FALSE
    OBVIOUS
  <1> DEFINE bad == {k \in 1 .. n : f[k] # "none"}
  <1>1. bad \in SUBSET Nat /\ bad # {}
    OBVIOUS
  <1>2. PICK least \in bad : \A j \in bad : least <= j
    BY <1>1, LeastMember
  <1>3. /\ least \in DOMAIN f /\ f[least] # "none"
        /\ \A j \in DOMAIN f : j < least => f[j] = "none"
    <2> SUFFICES ASSUME NEW j \in 1 .. n, j < least, f[j] # "none" PROVE FALSE
      BY <1>2
    <2>1. j \in bad
      OBVIOUS
    <2> QED
      BY <1>2, <2>1
  <1>4. ~(\A k \in DOMAIN f : f[k] = "none")
    OBVIOUS
  <1>5. FirstFault(f) = f[CHOOSE k \in DOMAIN f :
                             /\ f[k] # "none"
                             /\ \A j \in DOMAIN f : j < k => f[j] = "none"]
    BY <1>4, Zenon DEF FirstFault
  <1>6. f[CHOOSE k \in DOMAIN f : /\ f[k] # "none"
                                  /\ \A j \in DOMAIN f : j < k => f[j] = "none"] # "none"
    BY <1>3, Zenon
  <1> QED
    BY <1>5, <1>6

\* The same of a list: no item of an accepted list has a fault.
LEMMA NoListFault ==
    ASSUME NEW n \in Nat, NEW f, DOMAIN f = 1 .. n, NEW maximum,
           ListFault(f, maximum) = "none", NEW i \in 1 .. n
    PROVE f[i] = "none"
  <1>1. FirstFault(f) = "none"
    BY DEF ListFault
  <1> QED
    BY <1>1, NoFirstFault

-----------------------------------------------------------------------------
(* The checks whose success the other programs rely on.                        *)

\* Every item of accepted evidence quotes a span of the document's own text.
LEMMA EvidenceQuotes ==
    ASSUME NEW text \in Texts, NEW items \in Seq(Evidence),
           EvidenceFault(text, items) = "none", NEW i \in 1 .. Len(items)
    PROVE items[i].segment \in DOMAIN text.segments
  <1> DEFINE quoted(k) == /\ items[k].id \in EvidenceIds
                          /\ \A j \in 1 .. k - 1 : items[j].id # items[k].id
                          /\ items[k].segment \in DOMAIN text.segments
                          /\ items[k].supports # {}
                          /\ items[k].supports \subseteq Roles
             check(k) == <<StringFault(items[k].shape), Unless(quoted(k), "evidence_invalid")>>
             faults == [k \in DOMAIN items |-> FirstFault(check(k))]
  <1>1. Len(items) \in Nat /\ DOMAIN items = 1 .. Len(items) /\ DOMAIN faults = 1 .. Len(items)
    OBVIOUS
  <1>2. ListFault(faults, MaximumEvidence) = "none"
    BY Zenon DEF EvidenceFault
  <1>3. faults[i] = "none"
    BY <1>1, <1>2, NoListFault
  <1>4. FirstFault(check(i)) = "none"
    BY <1>1, <1>3
  <1>5. DOMAIN check(i) = 1 .. 2 /\ check(i)[2] = Unless(quoted(i), "evidence_invalid")
    OBVIOUS
  <1>6. check(i)[2] = "none"
    <2>1. 2 \in Nat /\ 2 \in 1 .. 2
      OBVIOUS
    <2> HIDE DEF check
    <2> QED
      BY <1>4, <1>5, <2>1, NoFirstFault
  <1>7. quoted(i)
    <2> HIDE DEF quoted
    <2>1. Unless(quoted(i), "evidence_invalid") = "none"
      BY <1>5, <1>6
    <2> QED
      BY <2>1 DEF Unless
  <1> QED
    BY <1>7

\* A reference of an accepted answer names a citation of the same answer.
LEMMA ReferencesNamed ==
    ASSUME NEW ids, NEW refs \in Seq(EvidenceIds \cup {"malformed"}),
           ReferenceFault(refs, ids) = "none", NEW i \in 1 .. Len(refs)
    PROVE refs[i] \in ids
  <1> DEFINE named == \A k \in DOMAIN refs : refs[k] \in ids
             bounded == Len(refs) <= MaximumEvidence /\ Unrepeated(refs)
             checks == <<Unless(bounded, "schema_invalid"),
                         Unless(named, "evidence_reference_invalid")>>
  <1>1. FirstFault(checks) = "none"
    BY Zenon DEF ReferenceFault
  <1>2. DOMAIN checks = 1 .. 2 /\ checks[2] = Unless(named, "evidence_reference_invalid")
    OBVIOUS
  <1>3. checks[2] = "none"
    <2>1. 2 \in Nat /\ 2 \in 1 .. 2
      OBVIOUS
    <2> HIDE DEF checks
    <2> QED
      BY <1>1, <1>2, <2>1, NoFirstFault
  <1>4. named
    <2> HIDE DEF named
    <2>1. Unless(named, "evidence_reference_invalid") = "none"
      BY <1>2, <1>3
    <2> QED
      BY <2>1 DEF Unless
  <1> QED
    BY <1>4

\* An answer is accepted only when none of its checks finds a fault.
LEMMA ChecksPass ==
    ASSUME NEW text, NEW answer, Fault(text, answer) = "none"
    PROVE /\ answer.class \in Classes
          /\ EvidenceFault(text, answer.evidence) = "none"
          /\ ReferenceFault(answer.rationaleRefs, CitedIds(answer)) = "none"
          /\ answer.rationaleRefs # <<>>
  <1> DEFINE ids == CitedIds(answer)
             known == answer.class \in Classes
             based == answer.rationaleRefs # <<>>
             measured == {answer.strength, answer.coverage, answer.ambiguity} \subseteq Strengths
             checks == <<
                FormFault(answer),
                VersionFault(answer.versions),
                Unless(known, "taxonomy_invalid"),
                LanguageFault(answer.language),
                EvidenceFault(text, answer.evidence),
                StringFault(answer.rationale),
                ReferenceFault(answer.rationaleRefs, ids),
                Unless(based, "evidence_reference_invalid"),
                MetadataFault(answer.metadata, ids),
                AlternativeFault(answer.alternatives, ids, answer.class),
                ContradictionFault(answer.contradictions, ids),
                MissingFault(answer.missing),
                Unless(measured, "schema_invalid"),
                AbstentionFault(answer.abstention, answer.class)>>
  <1>1. FirstFault(checks) = "none"
    BY Zenon DEF Fault
  <1>2. /\ DOMAIN checks = 1 .. 14
        /\ checks[3] = Unless(known, "taxonomy_invalid")
        /\ checks[5] = EvidenceFault(text, answer.evidence)
        /\ checks[7] = ReferenceFault(answer.rationaleRefs, ids)
        /\ checks[8] = Unless(based, "evidence_reference_invalid")
    OBVIOUS
  <1>3. \A i \in 1 .. 14 : checks[i] = "none"
    <2>1. 14 \in Nat
      OBVIOUS
    <2> HIDE DEF checks
    <2> QED
      BY <1>1, <1>2, <2>1, NoFirstFault
  <1> HIDE DEF checks, known, based, ids
  <1>4. known /\ based
    BY <1>2, <1>3 DEF Unless
  <1>5. EvidenceFault(text, answer.evidence) = "none"
    BY <1>2, <1>3
  <1>6. ReferenceFault(answer.rationaleRefs, ids) = "none"
    BY <1>2, <1>3
  <1> QED
    BY <1>4, <1>5, <1>6 DEF known, based, ids

\* An accepted answer quotes the document: its first citation is of a span of the
\* text that was extracted (decode_classification_v1; _evidence_summary relies on it).
THEOREM AcceptedAnswersQuote ==
    ASSUME NEW text \in Texts, NEW answer \in Answers, Accepted(text, answer)
    PROVE /\ answer.class \in Classes
          /\ answer.evidence[1].segment \in DOMAIN text.segments
          /\ EvidenceSummary(text, answer) \in Quotes
  <1>1. Fault(text, answer) = "none"
    BY DEF Accepted
  <1>2. /\ answer.class \in Classes
        /\ EvidenceFault(text, answer.evidence) = "none"
        /\ ReferenceFault(answer.rationaleRefs, CitedIds(answer)) = "none"
        /\ answer.rationaleRefs # <<>>
    BY <1>1, ChecksPass
  <1>3. /\ answer.evidence \in Seq(Evidence)
        /\ answer.rationaleRefs \in Seq(EvidenceIds \cup {"malformed"})
    BY DEF Answers
  <1>4. 1 \in 1 .. Len(answer.rationaleRefs)
    BY <1>2, <1>3
  <1>5. answer.rationaleRefs[1] \in CitedIds(answer)
    BY <1>2, <1>3, <1>4, ReferencesNamed
  <1>6. 1 \in 1 .. Len(answer.evidence)
    <2>1. PICK k \in DOMAIN answer.evidence : TRUE
      BY <1>5 DEF CitedIds
    <2>2. k \in 1 .. Len(answer.evidence) /\ Len(answer.evidence) \in Nat
      BY <1>3, <2>1
    <2> QED
      BY <2>2
  <1>7. answer.evidence[1].segment \in DOMAIN text.segments
    BY <1>2, <1>3, <1>6, EvidenceQuotes
  <1>8. PICK S \in SUBSET SegmentIds : text.segments \in [S -> Quotes]
    BY DEF Texts
  <1>9. text.segments[answer.evidence[1].segment] \in Quotes
    BY <1>7, <1>8
  <1> QED
    BY <1>2, <1>7, <1>9 DEF EvidenceSummary

\* A score is cut off at its two ends.
LEMMA BoundedTyped == ASSUME NEW x \in Int PROVE Bounded(x) \in 0 .. Certain
  BY DEF Bounded, Certain, Lesser, Greater

\* The score is a probability, whatever the signals and penalties
\* (compute_uncalibrated_confidence).
THEOREM ScoreIsBounded == ASSUME NEW answer \in Answers PROVE Score(answer) \in 0 .. Certain
  <1> DEFINE base == ClassificationBase(answer.strength, answer.coverage, answer.ambiguity)
             penalties == Penalties(Len(answer.contradictions), Len(answer.missing),
                                    Len(answer.alternatives))
             score == base - penalties
  <1>1. /\ Len(answer.contradictions) \in Nat
        /\ Len(answer.missing) \in Nat
        /\ Len(answer.alternatives) \in Nat
    BY DEF Answers
  <1>2. penalties \in Int
    BY <1>1 DEF Penalties, Lesser
  <1>3. \A s : Percent(s) \in Nat
    BY DEF Percent
  <1>4. base \in Int
    BY <1>3 DEF ClassificationBase, Certainty
  <1>5. Score(answer) = Bounded(score)
    BY DEF Score
  <1>6. score \in Int
    <2> HIDE DEF base, penalties
    <2> QED
      BY <1>2, <1>4
  <1> HIDE DEF score
  <1> QED
    BY <1>5, <1>6, BoundedTyped

-----------------------------------------------------------------------------
(* Destinations.                                                               *)

\* A metadata field of the run has a value.
LEMMA MetadataTyped ==
    ASSUME NEW text \in Texts, NEW answer \in Answers, NEW f \in Known(text, answer)
    PROVE MetadataValue(text, answer, f) \in Values \cup {Missing}
  <1>1. CASE f \in AnswerFields(answer)
    <2>1. \E i \in DOMAIN answer.metadata : answer.metadata[i].name = f
      BY <1>1 DEF AnswerFields
    <2> DEFINE k == CHOOSE i \in DOMAIN answer.metadata : answer.metadata[i].name = f
    <2>2. k \in DOMAIN answer.metadata
      BY <2>1
    <2>3. MetadataValue(text, answer, f) = answer.metadata[k].value
      BY <1>1 DEF MetadataValue
    <2> HIDE DEF k
    <2>4. answer.metadata \in Seq(Metadata)
      BY DEF Answers
    <2>5. answer.metadata[k] \in Metadata
      BY <2>2, <2>4
    <2> QED
      BY <2>3, <2>5 DEF Metadata
  <1>2. CASE f \notin AnswerFields(answer)
    <2>1. f \in BackfilledFields
      BY <1>2 DEF Known, Labelled
    <2>2. text.labels \in [BackfilledFields -> Values \cup {Missing}]
      BY DEF Texts
    <2> QED
      BY <1>2, <2>1, <2>2 DEF MetadataValue
  <1> QED
    BY <1>1, <1>2

\* The parts of a filename are numbered up to the limit.
LEMMA PartsTyped ==
    ASSUME NEW F, NEW metadata \in [F -> Values \cup {Missing}]
    PROVE FilenameParts(metadata) \in SUBSET ((1 .. MaxParts) \X (Values \cup {Missing}))
  <1> SUFFICES ASSUME NEW i \in DOMAIN Priority, FirstOf(metadata, i),
                      Rank(metadata, i) <= MaxParts
               PROVE <<Rank(metadata, i), metadata[Priority[i]]>>
                        \in (1 .. MaxParts) \X (Values \cup {Missing})
    BY DEF FilenameParts
  <1> DEFINE before == {j \in DOMAIN Priority : j <= i /\ FirstOf(metadata, j)}
  <1>1. IsFiniteSet(before)
    <2>1. DOMAIN Priority = 1 .. Len(Priority) /\ Len(Priority) \in Nat
      BY OrdersAssumption
    <2>2. IsFiniteSet(1 .. Len(Priority))
      BY <2>1, FS_Interval
    <2> QED
      BY <2>1, <2>2, FS_Subset
  <1>2. i \in before
    <2>1. i \in Nat
      BY OrdersAssumption
    <2> QED
      BY <2>1
  <1>3. Cardinality(before) \in Nat /\ Cardinality(before) # 0
    BY <1>1, <1>2, FS_CardinalityType, FS_EmptySet
  <1>4. Rank(metadata, i) \in 1 .. MaxParts
    BY <1>3, LimitsAssumption DEF Rank
  <1>5. metadata[Priority[i]] \in Values \cup {Missing}
    BY DEF FirstOf
  <1> QED
    BY <1>4, <1>5

\* What a result shows is part of what the run knows.
LEMMA ShownIsKnown ==
    ASSUME NEW text, NEW answer PROVE Shown(text, answer) \subseteq Known(text, answer)
  BY DEF Shown

\* Stored and shown destinations are destinations, for every source.
LEMMA DestinationsTyped ==
    ASSUME NEW Sources, NEW text \in Texts, NEW answer \in Answers, answer.class \in Classes,
           NEW source \in Sources
    PROVE LET D == [folder : Classes, parts : SUBSET ((1 .. MaxParts) \X (Values \cup {Missing})),
                    source : Sources \cup {"renamed"}]
          IN  StoredDestination(text, answer, source) \in D
                /\ ShownDestination(text, answer, source) \in D
  <1>1. ASSUME NEW fields \in SUBSET Known(text, answer)
        PROVE FilenameParts(MetadataOf(text, answer, fields))
                 \in SUBSET ((1 .. MaxParts) \X (Values \cup {Missing}))
    <2>1. MetadataOf(text, answer, fields) \in [fields -> Values \cup {Missing}]
      BY MetadataTyped DEF MetadataOf
    <2> QED
      BY <2>1, PartsTyped
  <1>2. /\ FilenameParts(MetadataOf(text, answer, Known(text, answer)))
              \in SUBSET ((1 .. MaxParts) \X (Values \cup {Missing}))
        /\ FilenameParts(MetadataOf(text, answer, Shown(text, answer)))
              \in SUBSET ((1 .. MaxParts) \X (Values \cup {Missing}))
    BY <1>1, ShownIsKnown
  <1> QED
    BY <1>2 DEF StoredDestination, ShownDestination, Destination

\* When nothing was left out of it, a result shows the destination that is stored.
LEMMA WholeResultsAgree ==
    ASSUME NEW text, NEW answer, NEW source, Shown(text, answer) = Known(text, answer)
    PROVE ShownDestination(text, answer, source) = StoredDestination(text, answer, source)
  BY DEF ShownDestination, StoredDestination
=============================================================================
