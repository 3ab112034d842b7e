-------------------------- MODULE MCEmailFallback --------------------------
(***************************************************************************)
(* Small instances of EmailFallback for TLC.                                *)
(***************************************************************************)
EXTENDS FallbackPromiseProofs, TLC

CONSTANTS r1, r2, r3

TwoRuns   == {r1, r2}
ThreeRuns == {r1, r2, r3}

SomeMembers == {1}
NoMembers   == {}

\* Runs are interchangeable; only safety is checked under this symmetry.
RunSymmetry == Permutations(Run)
============================================================================
