------------------------ MODULE ClassificationAnswer ------------------------
(* What DocWeave makes of a model's answer: the checks of analysis/validation,  *)
(* the score of analysis/confidence, the fields classification_cli adds from    *)
(* the extracted text and the destination operations/organization derives.      *)
(*                                                                              *)
(* The text of a document is [segments, labels]: its citable spans by segment   *)
(* identifier, and the values found under the labels the command looks for.     *)
(* An answer is the tool input of one response; strings are told apart only by  *)
(* what a check asks of them.                                                   *)
EXTENDS Naturals, Integers, Sequences, FiniteSets

CONSTANTS Classes,        \* the taxonomy's class codes
          Unclassified,   \* the class that abstains
          SegmentIds,     \* identifiers of spans, the same in every document
          Quotes,         \* texts of spans
          EvidenceIds,    \* well-formed evidence identifiers
          Fields,         \* well-formed metadata names
          Values,         \* metadata values, after they are made safe for a filename
          Missing,        \* no value under a label
          Backfilled,     \* the fields looked for in the text, in order
          Priority,       \* the fields a filename may be built from, in order
          MaxParts,       \* how many of them (4 in the code)
          MaxShown        \* fields a result carries for display (6 in the code)

ASSUME TaxonomyAssumption == Unclassified \in Classes
ASSUME MissingAssumption == Missing \notin Values
ASSUME OrdersAssumption == Priority \in Seq(Fields) /\ Backfilled \in Seq(Fields)
ASSUME LimitsAssumption == MaxParts \in Nat /\ MaxShown \in Nat

MaximumEvidence == 50
MaximumMetadata == 50
MaximumAlternatives == 3
MaximumContradictions == 10
MaximumMissing == 20

Strengths == {"strong", "moderate", "weak"}
Roles == {"classification", "metadata", "language", "contradiction"}
Strings == {"ok", "blank", "long", "not_a_string"}

BackfilledFields == {Backfilled[i] : i \in DOMAIN Backfilled}

Texts == [segments : UNION {[S -> Quotes] : S \in SUBSET SegmentIds},
          labels : [BackfilledFields -> Values \cup {Missing}]]

\* Citations, metadata, alternatives and contradictions of an answer; "shape"
\* is the worst of the item's keys and strings.
Evidence == [shape : Strings, id : EvidenceIds \cup {"malformed"},
             segment : SegmentIds \cup {"unknown"}, supports : SUBSET (Roles \cup {"other"})]
Metadata == [shape : Strings, name : Fields \cup {"malformed"}, value : Values,
             refs : Seq(EvidenceIds \cup {"malformed"})]
Alternatives == [shape : Strings, class : Classes \cup {"foreign"},
                 refs : Seq(EvidenceIds \cup {"malformed"})]
Contradictions == [shape : Strings, refs : Seq(EvidenceIds \cup {"malformed"})]

Answers == [form : {"object", "too_large", "not_finite", "wrong_keys"},
            versions : {"current", "contract", "taxonomy"},
            class : Classes \cup {"foreign"},
            language : Strings,
            evidence : Seq(Evidence),
            rationale : Strings,
            rationaleRefs : Seq(EvidenceIds \cup {"malformed"}),
            metadata : Seq(Metadata),
            alternatives : Seq(Alternatives),
            contradictions : Seq(Contradictions),
            missing : Seq(Strings),
            strength : Strengths \cup {"other"},
            coverage : Strengths \cup {"other"},
            ambiguity : Strengths \cup {"other"},
            abstention : Strings \cup {"null"}]
------------------------------------------------------------------------------
(* decode_classification_v1: each check answers "none" or the code of the error *)
(* it raises; the answer is rejected with the first one.                        *)

FirstFault(faults) ==
    IF \A i \in DOMAIN faults : faults[i] = "none"
    THEN "none"
    ELSE faults[CHOOSE i \in DOMAIN faults :
                   /\ faults[i] # "none"
                   /\ \A j \in DOMAIN faults : j < i => faults[j] = "none"]

\* The faults of a list's items count after the check of its length.
ListFault(faults, maximum) ==
    IF Len(faults) > maximum THEN "schema_invalid" ELSE FirstFault(faults)

StringFault(s) ==
    CASE s = "long" -> "text_limit_exceeded"
      [] s \in {"blank", "not_a_string"} -> "schema_invalid"
      [] OTHER -> "none"

Unless(holds, code) == IF holds THEN "none" ELSE code

Unrepeated(seq) == \A i, j \in DOMAIN seq : i # j => seq[i] # seq[j]

\* _evidence_ids: a reference must name evidence of the same answer.
ReferenceFault(refs, ids) ==
    FirstFault(<<Unless(Len(refs) <= MaximumEvidence /\ Unrepeated(refs), "schema_invalid"),
                 Unless(\A i \in DOMAIN refs : refs[i] \in ids, "evidence_reference_invalid")>>)

EvidenceFault(text, items) ==
    ListFault([i \in DOMAIN items |->
                  FirstFault(<<StringFault(items[i].shape),
                               Unless(/\ items[i].id \in EvidenceIds
                                      /\ \A j \in 1 .. i - 1 : items[j].id # items[i].id
                                      /\ items[i].segment \in DOMAIN text.segments
                                      /\ items[i].supports # {}
                                      /\ items[i].supports \subseteq Roles,
                                      "evidence_invalid")>>)],
              MaximumEvidence)

MetadataFault(items, ids) ==
    ListFault([i \in DOMAIN items |->
                  FirstFault(<<StringFault(items[i].shape),
                               ReferenceFault(items[i].refs, ids),
                               Unless(/\ items[i].name \in Fields
                                      /\ \A j \in 1 .. i - 1 : items[j].name # items[i].name
                                      /\ items[i].refs # <<>>,
                                      "metadata_invalid")>>)],
              MaximumMetadata)

AlternativeFault(items, ids, class) ==
    ListFault([i \in DOMAIN items |->
                  FirstFault(<<Unless(items[i].shape # "not_a_string", "schema_invalid"),
                               Unless(items[i].class \in Classes, "taxonomy_invalid"),
                               StringFault(items[i].shape),
                               ReferenceFault(items[i].refs, ids),
                               Unless(/\ items[i].class \notin {class, Unclassified}
                                      /\ \A j \in 1 .. i - 1 : items[j].class # items[i].class,
                                      "alternative_invalid")>>)],
              MaximumAlternatives)

ContradictionFault(items, ids) ==
    ListFault([i \in DOMAIN items |->
                  FirstFault(<<StringFault(items[i].shape),
                               ReferenceFault(items[i].refs, ids),
                               Unless(items[i].refs # <<>>, "evidence_reference_invalid")>>)],
              MaximumContradictions)

MissingFault(items) ==
    FirstFault(<<ListFault([i \in DOMAIN items |->
                               IF items[i] = "blank" THEN "none" ELSE StringFault(items[i])],
                           MaximumMissing),
                 Unless(\A i \in DOMAIN items : items[i] # "blank", "schema_invalid")>>)

AbstentionFault(reason, class) ==
    IF class = Unclassified
    THEN FirstFault(<<Unless(reason \notin {"null", "blank", "not_a_string"}, "abstention_invalid"),
                      StringFault(reason)>>)
    ELSE Unless(reason = "null", "abstention_invalid")

FormFault(answer) ==
    CASE answer.form = "too_large" -> "response_too_large"
      [] answer.form = "not_finite" -> "invalid_json"
      [] answer.form = "wrong_keys" -> "schema_invalid"
      [] OTHER -> "none"

LanguageFault(language) ==
    IF language = "blank" THEN "language_invalid" ELSE StringFault(language)

VersionFault(versions) ==
    CASE versions = "contract" -> "contract_version_invalid"
      [] versions = "taxonomy" -> "taxonomy_invalid"
      [] OTHER -> "none"

CitedIds(answer) == {answer.evidence[i].id : i \in DOMAIN answer.evidence}

Fault(text, answer) ==
    LET ids == CitedIds(answer)
    IN  FirstFault(<<
            FormFault(answer),
            VersionFault(answer.versions),
            Unless(answer.class \in Classes, "taxonomy_invalid"),
            LanguageFault(answer.language),
            EvidenceFault(text, answer.evidence),
            StringFault(answer.rationale),
            ReferenceFault(answer.rationaleRefs, ids),
            Unless(answer.rationaleRefs # <<>>, "evidence_reference_invalid"),
            MetadataFault(answer.metadata, ids),
            AlternativeFault(answer.alternatives, ids, answer.class),
            ContradictionFault(answer.contradictions, ids),
            MissingFault(answer.missing),
            Unless({answer.strength, answer.coverage, answer.ambiguity} \subseteq Strengths,
                   "schema_invalid"),
            AbstentionFault(answer.abstention, answer.class)>>)

Accepted(text, answer) == Fault(text, answer) = "none"

\* The faults for which the gateway asks the model once more.
RetriedFaults == {"abstention_invalid", "alternative_invalid", "evidence_reference_invalid",
                  "metadata_invalid", "schema_invalid"}
------------------------------------------------------------------------------
(* compute_uncalibrated_confidence, in ten-thousandths.                         *)

Lesser(m, n) == IF m < n THEN m ELSE n
Greater(m, n) == IF m > n THEN m ELSE n

Percent(strength) == CASE strength = "strong" -> 85 [] strength = "moderate" -> 60
                       [] OTHER -> 35

Certainty(ambiguity) == 120 - Percent(ambiguity)

ClassificationBase(strength, coverage, ambiguity) ==
    50 * Percent(strength) + 30 * Percent(coverage) + 20 * Certainty(ambiguity)

Penalties(contradictions, missing, alternatives) ==
    Lesser(3000, 1000 * contradictions) + Lesser(1500, 300 * missing)
        + Lesser(1000, 500 * alternatives)

Certain == 10000

Bounded(score) == Lesser(Certain, Greater(0, score))

Score(answer) ==
    Bounded(ClassificationBase(answer.strength, answer.coverage, answer.ambiguity)
            - Penalties(Len(answer.contradictions), Len(answer.missing),
                        Len(answer.alternatives)))
------------------------------------------------------------------------------
(* The metadata of the run and the destination it leads to.                     *)

Labelled(text) == {f \in BackfilledFields : text.labels[f] # Missing}

AnswerFields(answer) == {answer.metadata[i].name : i \in DOMAIN answer.metadata}

\* _enrich_model_run_metadata adds what the text says of fields the model left out.
MetadataValue(text, answer, f) ==
    IF f \in AnswerFields(answer)
    THEN answer.metadata[CHOOSE i \in DOMAIN answer.metadata : answer.metadata[i].name = f].value
    ELSE text.labels[f]

Known(text, answer) == AnswerFields(answer) \cup Labelled(text)

\* What a command result shows of them: the model's fields come first.
Shown(text, answer) ==
    {f \in Known(text, answer) :
        IF f \in AnswerFields(answer)
        THEN \E i \in DOMAIN answer.metadata : i <= MaxShown /\ answer.metadata[i].name = f
        ELSE Cardinality(AnswerFields(answer))
               + Cardinality({g \in Labelled(text) \ AnswerFields(answer) :
                     \E i, j \in DOMAIN Backfilled :
                        Backfilled[i] = g /\ Backfilled[j] = f /\ i <= j})
               <= MaxShown}

\* _metadata_filename_parts: the first distinct values in the order of Priority;
\* "metadata" gives each field that is known its value.
FirstOf(metadata, i) ==
    /\ Priority[i] \in DOMAIN metadata
    /\ \A j \in 1 .. i - 1 :
          Priority[j] \in DOMAIN metadata => metadata[Priority[j]] # metadata[Priority[i]]

\* The position of a part among the parts.
Rank(metadata, i) == Cardinality({j \in DOMAIN Priority : j <= i /\ FirstOf(metadata, j)})

FilenameParts(metadata) ==
    {<<Rank(metadata, i), metadata[Priority[i]]>> :
        i \in {j \in DOMAIN Priority : FirstOf(metadata, j) /\ Rank(metadata, j) <= MaxParts}}

Destination(class, parts, source) ==
    [folder |-> class, parts |-> parts, source |-> IF parts = {} THEN source ELSE "renamed"]

\* The values of some of the known fields.
MetadataOf(text, answer, fields) == [f \in fields |-> MetadataValue(text, answer, f)]

StoredDestination(text, answer, source) ==
    Destination(answer.class, FilenameParts(MetadataOf(text, answer, Known(text, answer))), source)

ShownDestination(text, answer, source) ==
    Destination(answer.class, FilenameParts(MetadataOf(text, answer, Shown(text, answer))), source)

\* _evidence_summary: the first quote, which an accepted answer always has.
EvidenceSummary(text, answer) == text.segments[answer.evidence[1].segment]
==============================================================================
