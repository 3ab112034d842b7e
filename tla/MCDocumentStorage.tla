------------------------- MODULE MCDocumentStorage -------------------------
(* Instances of DocumentStorage for TLC.                                     *)
EXTENDS DocumentStorage, TLC

CONSTANTS d1, d2, o1, o2, s1, s2, q1, q2

StorageSymmetry == Permutations(Offloader) \cup Permutations(Drainer)
============================================================================
