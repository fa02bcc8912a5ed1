-------------------------- MODULE MCCloudAnalysis --------------------------
(* Instances of CloudAnalysis for TLC. *)
EXTENDS CloudAnalysis, TLC

CONSTANTS ws1, ws2, k1, k2, a, b, big, j1, j2, w1, w2

\* One key in each of two workspaces, or two keys in one.
TwoWorkspaces == [k \in {k1, k2} |-> IF k = k1 THEN ws1 ELSE ws2]
OneWorkspace == [k \in {k1, k2} |-> ws1]

\* Jobs of one object, the second with the key of the other workspace.
SingleRequests == {[workspace |-> ws1, keys |-> <<k1>>],
                   [workspace |-> ws1, keys |-> <<k2>>]}

\* A job of two objects and one of the first of them.
Overlapping == {[workspace |-> ws1, keys |-> <<k1, k2>>],
                [workspace |-> ws1, keys |-> <<k1>>]}

Symmetry == Permutations({j1, j2}) \cup Permutations({w1, w2})
============================================================================
