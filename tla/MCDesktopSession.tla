-------------------------- MODULE MCDesktopSession --------------------------
(* Instances of DesktopSession for TLC.                                         *)
EXTENDS DesktopSession, TLC

CONSTANTS a, b, z, c1, c2, c3, inv, oth, unc, s1, q1, q2, e1, e2, num, iss, v1, v2, m1, m2,
          good, abstains, uncited, repeated, unsure, foreign, endless

MCOrder == SelectSeq(<<z, b, a>>, LAMBDA p : p \in Paths)
MCPriority == <<num, iss>>
MCBackfilled == <<iss>>
MCPlace(d) == z

MCReading == [c \in Contents |->
    CASE c = c1 -> [segments |-> [s \in {s1} |-> q1], labels |-> [f \in {iss} |-> v2]]
      [] c = c2 -> [segments |-> [s \in {s1} |-> q2], labels |-> [f \in {iss} |-> Missing]]
      [] OTHER -> NoText]

Cite(id, s) == [shape |-> "ok", id |-> id, segment |-> s, supports |-> {"classification"}]

Good == [form |-> "object", versions |-> "current", class |-> inv, language |-> "ok",
         evidence |-> <<Cite(e1, s1)>>, rationale |-> "ok", rationaleRefs |-> <<e1>>,
         metadata |-> <<[shape |-> "ok", name |-> num, value |-> v1, refs |-> <<e1>>]>>,
         alternatives |-> <<[shape |-> "ok", class |-> oth, refs |-> <<>>]>>,
         contradictions |-> <<>>, missing |-> <<"ok">>, strength |-> "strong",
         coverage |-> "strong", ambiguity |-> "weak", abstention |-> "null"]

Abstains == [Good EXCEPT !.class = unc, !.abstention = "ok", !.strength = "weak",
                         !.metadata = <<>>]

\* An accepted answer, one that abstains, and answers that fail a check.
MCOffered == [r \in Replies |->
    CASE r = good -> Good
      [] r = abstains -> Abstains
      [] r = uncited -> [Good EXCEPT !.metadata[1].refs = <<>>]
      [] r = repeated -> [Good EXCEPT !.alternatives[1].class = inv]
      [] r = unsure -> [Good EXCEPT !.class = unc]
      [] r = foreign -> [Good EXCEPT !.evidence = <<Cite(e1, "unknown")>>]
      [] r = endless -> [Good EXCEPT !.form = "too_large"]]

\* Between them, the analysts of a session get every response.
MCOffers == [analyst \in Analysts |->
    CASE analyst = "worker" -> Replies \ {abstains}
      [] analyst = m1 -> Replies \ {uncited, foreign}
      [] OTHER -> Replies \ {good}]

\* The owner adds another document, at z or, in a root with three places, at b.
MCRevisions == [p \in Paths |-> IF p = (IF b \in Paths THEN b ELSE z) THEN {c2} ELSE {}]

\* One file, that may move to z or is there already.
MCDisks == {[p \in Paths |-> IF p = q THEN c1 ELSE Absent] : q \in {a, z}}
============================================================================
