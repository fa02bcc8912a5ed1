----------------------------- MODULE MCRestore -----------------------------
(* An instance of Restore for TLC: a file was moved from a to x, then the   *)
(* moved file was copied to y.                                              *)
EXTENDS Restore, TLC

CONSTANTS a, x, y, r1, r2, c1, c2

MCOriginal == <<a, x>>
MCCurrent == <<x, y>>
MCOp == <<"MOVE", "COPY">>

Symmetry == Permutations({r1, r2}) \cup Permutations({c1, c2})
============================================================================
