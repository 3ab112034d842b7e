-------------------------- MODULE FallbackPromise --------------------------
(***************************************************************************)
(* What the email fallback promises the sender, without runs, claims or     *)
(* rows: after the Peppol transmission has failed each address is mailed at *)
(* most once, and one step ends it, billing only what was mailed.           *)
(***************************************************************************)
EXTENDS Naturals

CONSTANTS Address, Run

VARIABLES
    failed,  \* the Peppol transmission has failed
    mailed,  \* the addresses each run has mailed
    closed,  \* the fallback is over
    billed   \* transfer events per address

vars == <<failed, mailed, closed, billed>>

Init ==
    /\ failed = FALSE /\ closed = FALSE
    /\ mailed = [r \in Run |-> {}]
    /\ billed = [a \in Address |-> 0]

TransmissionFails ==
    /\ ~failed
    /\ failed' = TRUE
    /\ UNCHANGED <<mailed, closed, billed>>

Mail(r, a) ==
    /\ failed /\ ~closed
    /\ \A s \in Run : a \notin mailed[s]
    /\ mailed' = [mailed EXCEPT ![r] = @ \cup {a}]
    /\ UNCHANGED <<failed, closed, billed>>

Close ==
    /\ failed /\ ~closed
    /\ closed' = TRUE
    /\ billed' \in [Address -> {0, 1}]
    /\ \A a \in Address : billed'[a] = 1 => \E r \in Run : a \in mailed[r]
    /\ UNCHANGED <<failed, mailed>>

Next ==
    \/ TransmissionFails
    \/ \E r \in Run, a \in Address : Mail(r, a)
    \/ Close

Spec == Init /\ [][Next]_vars
============================================================================
