----------------------- MODULE MCCompanyVerification -----------------------
(* Instances of CompanyVerification for TLC.                                 *)
EXTENDS CompanyVerification, TLC

CONSTANTS r1, r2, w1, d1, f1, u1

\* Reports are handled alike; no liveness is checked with this symmetry.
Reporters == Permutations({r1, r2})
============================================================================
