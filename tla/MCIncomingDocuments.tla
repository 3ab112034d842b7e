------------------------ MODULE MCIncomingDocuments ------------------------
(* Instances of IncomingDocuments for TLC.                                   *)
EXTENDS IncomingDocuments, TLC

CONSTANTS w1, w2, w3, a1, a2, h1, h2, t1, o1

MCSymmetry == Permutations(Request) \cup Permutations(Address) \cup Permutations(Reporter)
============================================================================
