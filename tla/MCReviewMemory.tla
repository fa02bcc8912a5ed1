-------------------------- MODULE MCReviewMemory --------------------------
(* Instances of ReviewMemory for TLC. *)
EXTENDS ReviewMemory, TLC

CONSTANTS a, b, t, u, d1, d2

\* The two places a scan finds, and the two a proposal may point to.
Symmetry == Permutations({a, b}) \cup Permutations({t, u})
============================================================================
