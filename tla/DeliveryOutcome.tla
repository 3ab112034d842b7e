-------------------------- MODULE DeliveryOutcome --------------------------
(***************************************************************************)
(* What the delivery reports of one transmission promise its owner          *)
(* (src/data/deliveries/index.ts): the outcome is settled at most once, the  *)
(* owner is told of it at that very moment, and a report that is kept for a  *)
(* delivery that is open settles it.                                        *)
(***************************************************************************)
EXTENDS Naturals

VARIABLES outcome, told, kept

vars == <<outcome, told, kept>>

Final == {"delivered", "failed"}

Init ==
    /\ outcome = "none"
    /\ told = [s \in Final |-> 0]
    /\ kept = FALSE

\* The transmission is recorded as a pending delivery.
Record ==
    /\ outcome = "none"
    /\ outcome' = "pending"
    /\ UNCHANGED <<told, kept>>

Settle(s) ==
    /\ outcome = "pending"
    /\ outcome' = s
    /\ told' = [told EXCEPT ![s] = @ + 1]
    /\ UNCHANGED kept

\* A report waits; it is let go only when no open delivery could still use it.
Keep ==
    /\ kept' = TRUE
    /\ UNCHANGED <<outcome, told>>

LetGo ==
    /\ outcome # "pending"
    /\ kept' = FALSE
    /\ UNCHANGED <<outcome, told>>

\* The document is deleted with its deliveries.
Forget ==
    /\ outcome # "none"
    /\ outcome' = "gone"
    /\ UNCHANGED <<told, kept>>

SettleOrForget == Forget \/ \E s \in Final : Settle(s)

Next == Record \/ Keep \/ LetGo \/ SettleOrForget

Spec == Init /\ [][Next]_vars

FairSpec == Spec /\ WF_vars(kept /\ SettleOrForget)
============================================================================
