------------------------ MODULE MCOutgoingDocuments ------------------------
(* Instances of OutgoingDocuments for TLC.                                   *)
EXTENDS OutgoingDocuments, TLC

CONSTANTS t1, t2, a1, w1, w2, w3

WebhookSymmetry == Permutations(Webhook) \cup Permutations(Send)
============================================================================
