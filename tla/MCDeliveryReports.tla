------------------------- MODULE MCDeliveryReports -------------------------
(* Instances of DeliveryReports for TLC.                                    *)
EXTENDS DeliveryReports

CONSTANT q1

OneRequest == {q1}
============================================================================
