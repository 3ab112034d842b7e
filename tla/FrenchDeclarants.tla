-------------------------- MODULE FrenchDeclarants --------------------------
(***************************************************************************)
(* The registration of a French company for e-reporting                      *)
(* (src/data/fr-reporting-declarants.ts).  The row is written first and       *)
(* synchronised with the reporting service afterwards, by the request or by   *)
(* the worker; an advisory lock lets one of them at a row at a time.  Asking   *)
(* for another registration, and the changes support makes, do not take the   *)
(* lock.                                                                     *)
(***************************************************************************)
EXTENDS Naturals

CONSTANTS
    None,         \* no row, no registration, no transaction
    MaxAttempts,  \* MAX_REGISTRATION_ATTEMPTS
    MaxChange,    \* bound: what the owner and support ask for
    MaxFault      \* bound: crashes, lost calls and failed statements

ASSUME DeclarantAssumption ==
    MaxAttempts \in Nat \ {0} /\ MaxChange \in Nat /\ MaxFault \in Nat

Exigibility   == {"ENCAISSEMENTS", "DEBITS"}
SupportAction == {"suspend", "resume", "remove"}

\* A row that was removed and asked for again is another row.
Id  == 1..MaxChange
Row == [id : Id, state : {"pending", "registered", "blocked"},
        exigibility : Exigibility, enabled : BOOLEAN, attempts : 0..MaxAttempts]

VARIABLES
    declarant,  \* the company's row of peppol_fr_reporting_declarants
    registry,   \* what the reporting service holds of the company
    sync,       \* the transaction that holds the lock of a row, and what it read
    support,    \* the change support is making, and the row it read
    changes,    \* changes asked for so far
    faults      \* faults so far

declarantVars == <<declarant, registry, sync, support, changes, faults>>

InitDeclarant ==
    /\ declarant = None /\ registry = None
    /\ sync = [i \in Id |-> None]
    /\ support = None
    /\ changes = 0 /\ faults = 0

Fault  == faults < MaxFault /\ faults' = faults + 1
Change == changes < MaxChange /\ changes' = changes + 1

\* The row an unguarded "where id = i" finds.
Present(i) == declarant # None /\ declarant.id = i

\* Reports are accepted under a registration that is neither pending, blocked nor
\* suspended.
Ready == declarant # None /\ declarant.state = "registered" /\ declarant.enabled

----------------------------------------------------------------------------
(* A registration.                                                          *)

\* The upsert: whatever the row said, it is pending again.
RequestDeclarant(e) ==
    /\ Change
    /\ declarant' =
         [id |-> IF declarant = None THEN changes + 1 ELSE declarant.id,
          state |-> "pending", exigibility |-> e, enabled |-> TRUE, attempts |-> 0]
    /\ UNCHANGED <<registry, sync, support, faults>>

\* The request that wrote the row, or a tick of the worker, takes the lock and reads.
BeginSync(i) ==
    /\ Present(i) /\ declarant.state = "pending"
    /\ sync[i] = None
    /\ sync' = [sync EXCEPT ![i] = [row |-> declarant, asked |-> FALSE]]
    /\ UNCHANGED <<declarant, registry, support, changes, faults>>

\* The service takes the registration over.
Register(i) ==
    /\ sync[i] # None /\ ~sync[i].asked
    /\ registry' = [exigibility |-> sync[i].row.exigibility,
                    enabled |-> sync[i].row.enabled]
    /\ sync' = [sync EXCEPT ![i].asked = TRUE]
    /\ UNCHANGED <<declarant, support, changes, faults>>

Registered(i) ==
    /\ sync[i] # None /\ sync[i].asked
    /\ declarant' = IF Present(i) THEN [declarant EXCEPT !.state = "registered"]
                                  ELSE declarant
    /\ sync' = [sync EXCEPT ![i] = None]
    /\ UNCHANGED <<registry, support, changes, faults>>

\* The service refuses, does not answer, or its answer is lost.
AfterFailure(row, retryable) ==
    IF ~retryable \/ row.attempts + 1 >= MaxAttempts THEN "blocked" ELSE "pending"

RegisterFails_Forgets(i) ==
    /\ sync[i] # None
    /\ sync' = [sync EXCEPT ![i] = None]
    /\ UNCHANGED <<declarant, registry, support, changes, faults>>

\* The failure counts, and its state is the row's next.
RegisterFails(i) ==
    /\ sync[i] # None
    /\ \E retryable \in BOOLEAN :
         declarant' =
           IF Present(i)
           THEN [declarant EXCEPT !.state = AfterFailure(sync[i].row, retryable),
                                  !.attempts = sync[i].row.attempts + 1]
           ELSE declarant
    /\ sync' = [sync EXCEPT ![i] = None]
    /\ UNCHANGED <<registry, support, changes, faults>>

\* The transaction is rolled back; what the service took over stays.
SyncCrash(i) ==
    /\ sync[i] # None
    /\ Fault
    /\ sync' = [sync EXCEPT ![i] = None]
    /\ UNCHANGED <<declarant, registry, support, changes>>

----------------------------------------------------------------------------
(* What support does to a registration.                                     *)

BeginSupport(action) ==
    /\ support = None /\ declarant # None
    /\ Change
    /\ support' = [action |-> action, row |-> declarant, asked |-> FALSE]
    /\ UNCHANGED <<declarant, registry, sync, faults>>

\* A row that was not registered is removed without asking the service.
CallSupport ==
    /\ support # None /\ ~support.asked
    /\ registry' =
         IF support.action # "remove"
         THEN [exigibility |-> support.row.exigibility,
               enabled |-> support.action = "resume"]
         ELSE IF support.row.state = "registered" THEN None ELSE registry
    /\ support' = [support EXCEPT !.asked = TRUE]
    /\ UNCHANGED <<declarant, sync, changes, faults>>

FinishSupport ==
    /\ support # None /\ support.asked
    /\ declarant' =
         IF ~Present(support.row.id) THEN declarant
         ELSE IF support.action = "remove" THEN None
         ELSE [declarant EXCEPT !.state = "registered",
                                !.enabled = support.action = "resume"]
    /\ support' = None
    /\ UNCHANGED <<registry, sync, changes, faults>>

SupportFails ==
    /\ support # None
    /\ Fault
    /\ support' = None
    /\ UNCHANGED <<declarant, registry, sync, changes>>

----------------------------------------------------------------------------
SyncStep(i) == Register(i) \/ Registered(i) \/ RegisterFails(i)

DeclarantNext ==
    \/ \E e \in Exigibility : RequestDeclarant(e)
    \/ \E i \in Id : BeginSync(i) \/ SyncStep(i) \/ SyncCrash(i)
    \/ \E action \in SupportAction : BeginSupport(action)
    \/ CallSupport \/ FinishSupport \/ SupportFails

\* The worker ticks every minute, and a call to the service ends in time.
DeclarantFairness ==
    \A i \in Id : WF_declarantVars(BeginSync(i)) /\ WF_declarantVars(SyncStep(i))

DeclarantTypeOK ==
    /\ declarant \in Row \cup {None}
    /\ registry \in [exigibility : Exigibility, enabled : BOOLEAN] \cup {None}
    /\ sync \in [Id -> [row : Row, asked : BOOLEAN] \cup {None}]
    /\ support \in [action : SupportAction, row : Row, asked : BOOLEAN] \cup {None}
    /\ changes \in 0..MaxChange
    /\ faults \in 0..MaxFault

\* A registration that was asked for ends registered, blocked for support or removed,
\* however often the service fails and the worker stops: processFrenchReportingDeclarant
\* retries, and nextRegistrationStateAfterFailure counts.
RegistrationSettles ==
    \A i \in Id : Present(i) /\ declarant.state = "pending"
                    ~> ~(Present(i) /\ declarant.state = "pending")
=============================================================================
