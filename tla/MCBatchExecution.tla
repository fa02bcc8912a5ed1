------------------------- MODULE MCBatchExecution -------------------------
(* Instances of BatchExecution for TLC. *)
EXTENDS BatchExecution, TLC

CONSTANTS a, b, x, y, r1, r2, c1, c2

\* Two items that want the same destination.
SharedPaths == {a, b, x}
SharedSrc == <<a, b>>
SharedDst == <<x, x>>

\* Two independent items.
ApartPaths == {a, b, x, y}
ApartSrc == <<a, b>>
ApartDst == <<x, y>>

\* One item.
OnePaths == {a, x}
OneSrc == <<a>>
OneDst == <<x>>

Symmetry == Permutations({r1, r2}) \cup Permutations({c1, c2})
============================================================================
