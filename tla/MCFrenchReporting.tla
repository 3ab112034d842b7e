------------------------- MODULE MCFrenchReporting -------------------------
(* Instances of FrenchReporting for TLC.                                     *)
EXTENDS FrenchReporting, TLC

CONSTANTS q1, q2, t1, t2, r1, r2

ReportOf(ref, kind, action) == [reference |-> ref, kind |-> kind, action |-> action]

\* A payment that is retried, filed again under another reference, or corrected.
MCPayments == {ReportOf(r1, "payment", "submit"), ReportOf(r2, "payment", "submit"),
             ReportOf(r2, "payment", "correct")}

\* A single report, of no invoice that was paid.
MCSale == {ReportOf(r1, "sale", "submit")}

MCSymmetry == Permutations(Request) \cup Permutations(Tick)
=============================================================================
