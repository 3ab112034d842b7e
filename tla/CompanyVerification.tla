------------------------- MODULE CompanyVerification -------------------------
(***************************************************************************)
(* One company on its way to being verified and published on an SMP          *)
(* (src/data/company-verification.ts, src/data/companies.ts,                 *)
(* src/api/internal/didit-webhook.ts, src/data/at/kyc-onboarding.ts).        *)
(* Links start sessions; a session's form starts an identity check; its       *)
(* reports, the worker that onboards French companies and a contract          *)
(* decide sessions and with them the company, while its owner edits it.       *)
(* Reports and the worker hold the session's advisory lock; updates and       *)
(* contracts hold none.  Every statement and every call is one action.        *)
(***************************************************************************)
EXTENDS Naturals, FiniteSets

CONSTANTS
    Country,    \* the countries the company may be in; "FR" is onboarded
    Strict,     \* whether the team's level is "strict"
    MaxSession, \* bound: verification sessions
    Reporter,   \* reports of the identity provider handled at a time
    Worker,     \* instances running the onboarding cron
    Direct,     \* contract verifications at a time
    Form,       \* identity forms being submitted
    Updater,    \* updates of the company
    None,       \* no session
    MaxBusy,    \* bound: handlers at work at a time
    MaxEdit,    \* bound: updates, contracts and identity checks started again
    MaxFault    \* bound: failed calls and statements, crashes

Handler == Reporter \cup Worker \cup Direct \cup Form \cup Updater
Session == 1..MaxSession

ASSUME VerificationAssumption ==
    /\ Strict \in BOOLEAN /\ MaxSession \in Nat /\ MaxBusy \in Nat
    /\ MaxEdit \in Nat /\ MaxFault \in Nat
    /\ None \notin Session
    /\ Reporter \cap (Worker \cup Direct \cup Form \cup Updater) = {}
    /\ Worker \cap (Direct \cup Form \cup Updater) = {}
    /\ Direct \cap (Form \cup Updater) = {}
    /\ Form \cap Updater = {}

VARIABLES
    company,   \* its row: numbers, country, is_smp_recipient, is_verified
    smp,       \* what the SMP holds: "none", "bare" (no document types) or "full"
    status,    \* of each session; "none" before it is inserted, "revoked" is rejected
               \* with VERIFICATION_REVOKED_MESSAGE
    details,   \* the numbers and country a session was started for
    signed,    \* the form of the session was submitted (names, mandate)
    phase,     \* arratech_onboarding.phase of each session
    linked,    \* sessions started by a link (the others by a contract)
    check,     \* the identity check of each session at the provider (external)
    due,       \* its reports that have not been answered yet
    kyc,       \* mandates of sessions the platform approved (external)
    alone,     \* history: no handlers overlapped, none died, no rollback failed
    told,      \* company.verification events: <<session, status>>
    at,        \* what each handler is doing
    spent      \* edits and faults so far, as MaxEdit and MaxFault bound them

sessions == <<status, details, signed, phase, linked>>
outside  == <<kyc, alone>>
reports  == <<check, due>>
vars     == <<company, smp, sessions, outside, reports, told, at, spent>>

Open      == {"opened", "idVerificationRequested", "inReview"}
Final     == {"verified", "rejected", "revoked", "error"}
Positive  == {"Approved", "Accepted"}
Report    == {"In Review", "Approved", "Declined", "Accepted", "Refused"}
Automated == {"Approved", "Declined"}

\* Phases the worker takes on; "prepared" is submit with its filing saved, "refused"
\* is blocked for identifiers alone.
Onboarding == {"submit", "prepared", "activation"}

Details(c) == [numbers |-> c.numbers, country |-> c.country]
French(c)  == c.country = "FR"

\* requiresCompanyVerification and shouldRegisterWithSmp on the network.
RequiresVerification(c) == Strict \/ French(c)
ShouldRegister(c) == c.recipient /\ (RequiresVerification(c) => c.verified)

Company == [numbers : {1, 2}, country : Country \cup {"FR"}, recipient : BOOLEAN,
            verified : BOOLEAN]

NoCompany == [numbers |-> 1, country |-> "FR", recipient |-> FALSE, verified |-> FALSE]

Idle == [pc |-> "idle", on |-> None, saw |-> NoCompany, goal |-> "none",
         move |-> "none"]

Busy(h) == at[h].pc # "idle"
Holds(s) == \E h \in Reporter \cup Worker : at[h].on = s

Free(h) == ~Busy(h) /\ Cardinality({g \in Handler : Busy(g)}) < MaxBusy

Begin == alone' = (alone /\ \A g \in Handler : ~Busy(g)) /\ UNCHANGED kyc

Go(h, pc) == at' = [at EXCEPT ![h].pc = pc]
Leave(h)  == at' = [at EXCEPT ![h] = Idle]
Fault     == spent.faults < MaxFault /\ spent' = [spent EXCEPT !.faults = @ + 1]
Again     == spent.edits < MaxEdit /\ spent' = [spent EXCEPT !.edits = @ + 1]

Current == {s \in Session : status[s] # "none" /\ \A t \in Session : t > s => status[t] = "none"}
Unused  == {s \in Session : status[s] = "none" /\ \A t \in Session : t < s => status[t] # "none"}

\* A company nobody verified yet, or one a link verified before.
Init ==
    /\ company \in {c \in Company : c.numbers = 1 /\ c.country \in Country}
    /\ smp = IF ShouldRegister(company) THEN "full" ELSE "none"
    /\ status = [s \in Session |-> IF s = 1 /\ company.verified THEN "verified" ELSE "none"]
    /\ details = [s \in Session |-> Details(company)]
    /\ signed = [s \in Session |-> s = 1 /\ company.verified]
    /\ phase = [s \in Session |-> IF s = 1 /\ company.verified /\ French(company)
                                   THEN "complete" ELSE "none"]
    /\ linked = [s \in Session |-> s = 1 /\ company.verified]
    /\ check = [s \in Session |-> "none"]
    /\ due = {}
    /\ kyc = {s \in Session : phase[s] = "complete"}
    /\ alone = TRUE
    /\ told = {<<s, "verified">> : s \in {t \in Session : status[t] = "verified"}}
    /\ at = [h \in Handler |-> Idle]
    /\ spent = [edits |-> 0, faults |-> 0]

----------------------------------------------------------------------------
(* Sessions and their identity checks.                                      *)

CanContinue(s) == status[s] \in Open /\ details[s] = Details(company)

Insert(s, byLink) ==
    /\ status' = [status EXCEPT ![s] = "opened"]
    /\ details' = [details EXCEPT ![s] = Details(company)]
    /\ linked' = [linked EXCEPT ![s] = byLink]

\* createCompanyVerificationLog: the session that cannot be continued is replaced.
StartSession(s) ==
    /\ s \in Unused
    /\ \A t \in Current : ~CanContinue(t)
    /\ Insert(s, TRUE)
    /\ UNCHANGED <<company, smp, signed, phase, outside, reports, told,
                   at, spent>>

\* The form reads the session and the company, and checks the representative.
LoadForm(f, s) ==
    /\ Free(f) /\ status[s] \in {"opened", "idVerificationRequested"}
    /\ at' = [at EXCEPT ![f] = [Idle EXCEPT !.on = s, !.saw = company,
                 !.pc = IF status[s] = "opened" THEN "claim" ELSE "start"]]
    /\ IF status[s] = "opened" THEN UNCHANGED spent ELSE Again
    /\ Begin
    /\ UNCHANGED <<company, smp, sessions, reports, told>>

\* Under the company's row lock: the company is still the one that was checked and
\* the session is still opened.
ClaimForm(f) ==
    /\ at[f].pc = "claim"
    /\ IF Details(at[f].saw) = Details(company) /\ status[at[f].on] = "opened"
       THEN /\ status' = [status EXCEPT ![at[f].on] = "idVerificationRequested"]
            /\ signed' = [signed EXCEPT ![at[f].on] = TRUE]
            /\ Go(f, "start")
       ELSE Leave(f) /\ UNCHANGED <<status, signed>>
    /\ UNCHANGED <<company, smp, details, phase, linked, outside, reports,
                   told, spent>>

\* The check is created at the provider; when that fails the session is restarted.
StartCheck(f) ==
    /\ at[f].pc = "start"
    /\ Leave(f)
    /\ check' = [check EXCEPT ![at[f].on] = "running"]
    /\ UNCHANGED <<company, smp, sessions, outside, due, told, spent>>

\* The provider reports a result, a manual review after "In Review" (external).
Decide(s, o) ==
    /\ \/ check[s] = "running" /\ o \in {"In Review"} \cup Automated
       \/ check[s] = "In Review" /\ o \in {"Accepted", "Refused"}
    /\ check' = [check EXCEPT ![s] = o]
    /\ due' = due \cup {<<s, o>>}
    /\ UNCHANGED <<company, smp, sessions, outside, told, at, spent>>

----------------------------------------------------------------------------
(* The webhook of the identity provider.  A report is repeated until it is  *)
(* answered with success.                                                    *)

Answer(h) ==
    /\ due' = due \ {<<at[h].on, at[h].goal>>}
    /\ Leave(h)

\* Mutant: reports are handled without the session's lock.
TakeReport_Unlocked(h, s, o) ==
    /\ Free(h) /\ <<s, o>> \in due
    /\ IF status[s] \in Final
       THEN due' = due \ {<<s, o>>} /\ UNCHANGED at
       ELSE /\ at' = [at EXCEPT ![h] = [Idle EXCEPT !.on = s, !.goal = o,
                         !.pc = IF o = "In Review" THEN "review" ELSE "company"]]
            /\ UNCHANGED due
    /\ Begin
    /\ UNCHANGED <<company, smp, sessions, check, told, spent>>

\* Mutant: a report of a decided session is answered with an error.
TakeReport_RefusesFinal(h, s, o) ==
    /\ Free(h) /\ <<s, o>> \in due /\ ~Holds(s) /\ status[s] \notin Final
    /\ at' = [at EXCEPT ![h] = [Idle EXCEPT !.on = s, !.goal = o,
                 !.pc = IF o = "In Review" THEN "review" ELSE "company"]]
    /\ Begin
    /\ UNCHANGED <<company, smp, sessions, reports, told, spent>>

\* Under the session's lock; what is decided stays.
TakeReport(h, s, o) ==
    /\ Free(h) /\ <<s, o>> \in due /\ ~Holds(s)
    /\ IF status[s] \in Final
       THEN due' = due \ {<<s, o>>} /\ UNCHANGED at
       ELSE /\ at' = [at EXCEPT ![h] = [Idle EXCEPT !.on = s, !.goal = o,
                         !.pc = IF o = "In Review" THEN "review" ELSE "company"]]
            /\ UNCHANGED due
    /\ Begin
    /\ UNCHANGED <<company, smp, sessions, check, told, spent>>

SetInReview(h) ==
    /\ at[h].pc = "review"
    /\ status' = [status EXCEPT ![at[h].on] = "inReview"]
    /\ Answer(h)
    /\ UNCHANGED <<company, smp, details, signed, phase, linked, outside,
                   check, told, spent>>

\* Mutant: French companies are finalized like any other.
ReadCompany_NoKyc(h) ==
    /\ at[h].pc = "company"
    /\ IF at[h].goal = "Declined" /\ company.verified
       THEN Answer(h)
       ELSE at' = [at EXCEPT ![h].saw = company, ![h].pc = "finalize"] /\ UNCHANGED due
    /\ UNCHANGED <<company, smp, sessions, outside, check, told, spent>>

\* An automated rejection does not touch a verified company.  The register may leave
\* the representative's authority to support, and a French company is for the worker.
ReadCompany(h) ==
    /\ at[h].pc = "company"
    /\ IF at[h].goal = "Declined" /\ company.verified
       THEN Answer(h)
       ELSE /\ \E next \in IF at[h].goal \notin Positive THEN {"finalize"}
                            ELSE IF French(company) THEN {"kycReview"} ELSE {"hold", "finalize"} :
                  at' = [at EXCEPT ![h].saw = company, ![h].pc = next]
            /\ UNCHANGED due
    /\ UNCHANGED <<company, smp, sessions, outside, check, told, spent>>

\* holdVerificationForRepresentativeReview
HoldForReview(h) ==
    /\ at[h].pc = "hold"
    /\ status' = [status EXCEPT ![at[h].on] = "inReview"]
    /\ Answer(h)
    /\ UNCHANGED <<company, smp, details, signed, phase, linked, outside, check,
                   told, spent>>

\* startArratechKycReview; no onboarding is started twice.
StartKycReview(h) ==
    /\ at[h].pc = "kycReview"
    /\ IF phase[at[h].on] = "none" /\ status[at[h].on] \in Open
       THEN /\ status' = [status EXCEPT ![at[h].on] = "inReview"]
            /\ phase' = [phase EXCEPT ![at[h].on] = "submit"]
       ELSE UNCHANGED <<status, phase>>
    /\ Answer(h)
    /\ UNCHANGED <<company, smp, details, signed, linked, outside, check,
                   told, spent>>

\* A manual refusal that gave a reason is mailed with the link of a session to try
\* again.
Retry(h) ==
    /\ at[h].pc = "retry"
    /\ \/ /\ \A s \in Current : ~CanContinue(s)
          /\ \E s \in Unused : Insert(s, TRUE)
       \/ UNCHANGED <<status, details, linked>>
    /\ Answer(h)
    /\ UNCHANGED <<company, smp, signed, phase, outside, check, told, spent>>

----------------------------------------------------------------------------
(* finalizeCompanyVerification, called by reports, the worker and contracts, *)
(* with the company as its caller read it.                                   *)

Outcome(h) == IF at[h].goal \in Positive THEN "verified" ELSE "rejected"

\* A session under review may have put the participant on the French SMP.
WasRegistered(h) ==
    \/ ShouldRegister(at[h].saw)
    \/ status[at[h].on] = "inReview" /\ French(at[h].saw) /\ at[h].saw.recipient

Move(h) ==
    LET should == ShouldRegister([at[h].saw EXCEPT !.verified = (Outcome(h) = "verified")])
    IN  CASE should /\ ~WasRegistered(h) -> "register"
          [] ~should /\ WasRegistered(h) -> "unregister"
          [] OTHER -> "commit"

\* The caller goes on from what finalizing resolved to.
Resolve(h, result) ==
    LET retry == at[h].goal \in {"Accepted", "Refused"} /\ result \in {"rejected", "revoked"}
    IN  CASE h \in Worker -> /\ Go(h, IF result = "verified" THEN "notify" ELSE "block")
                             /\ UNCHANGED due
          [] h \in Reporter /\ retry -> Go(h, "retry") /\ UNCHANGED due
          [] h \in Reporter /\ ~retry -> Answer(h)
          [] OTHER -> Leave(h) /\ UNCHANGED due

ReadSession(h) ==
    /\ at[h].pc = "finalize"
    /\ IF status[at[h].on] \in Final
       THEN Resolve(h, status[at[h].on])
       ELSE /\ at' = [at EXCEPT ![h].pc = Move(h), ![h].move = Move(h)]
            /\ UNCHANGED due
    /\ UNCHANGED <<company, smp, sessions, outside, check, told, spent>>

\* The registration of the company's identifiers; refused before it starts when
\* another recipient holds one of them.
Register(h) ==
    /\ at[h].pc = "register"
    /\ \/ smp' = "full" /\ Go(h, IF h \in Updater THEN "finish" ELSE "commit")
          /\ UNCHANGED spent
       \/ Go(h, IF h \in Updater THEN "restore" ELSE "error") /\ UNCHANGED <<smp, spent>>
       \/ Fault /\ smp' \in {smp, "full"} /\ Go(h, "undo")
    /\ UNCHANGED <<company, sessions, outside, reports, told>>

Unregister(h) ==
    /\ at[h].pc = "unregister"
    /\ \/ smp' = "none" /\ Go(h, IF h \in Updater THEN "finish" ELSE "commit")
          /\ UNCHANGED spent
       \/ Fault /\ smp' \in {smp, "none"} /\ Go(h, "undo")
    /\ UNCHANGED <<company, sessions, outside, reports, told>>

\* Mutant: the transition of the SMP is not rolled back.
Undo_Nothing(h) ==
    /\ at[h].pc \in {"undo", "undoCommit"}
    /\ CASE at[h].pc = "undoCommit" /\ h \in Worker -> Go(h, "failed")
         [] at[h].pc = "undoCommit" /\ h \notin Worker -> Leave(h)
         [] at[h].pc = "undo" /\ h \in Updater -> Go(h, "restore")
         [] OTHER -> Go(h, "error")
    /\ UNCHANGED <<company, smp, sessions, outside, reports, told, spent>>

\* rollbackSmpTransition; when it fails too, it is only logged.
Undo(h) ==
    /\ at[h].pc \in {"undo", "undoCommit"}
    /\ \/ /\ smp' = CASE at[h].move = "register" -> "none"
                      [] at[h].move = "unregister" -> "full"
                      [] OTHER -> smp
          /\ UNCHANGED <<alone, spent>>
       \/ Fault /\ alone' = FALSE /\ UNCHANGED smp
    /\ CASE at[h].pc = "undoCommit" /\ h \in Worker -> Go(h, "failed")
         [] at[h].pc = "undoCommit" /\ h \notin Worker -> Leave(h)
         [] at[h].pc = "undo" /\ h \in Updater -> Go(h, "restore")
         [] OTHER -> Go(h, "error")
    /\ UNCHANGED <<company, sessions, kyc, reports, told>>

SetError(h) ==
    /\ at[h].pc = "error"
    /\ status' = [status EXCEPT ![at[h].on] = "error"]
    /\ Go(h, "publishError")
    /\ UNCHANGED <<company, smp, details, signed, phase, linked, outside,
                   reports, told, spent>>

\* One transaction writes the session and the company.
Commit(h) ==
    /\ at[h].pc = "commit"
    /\ \/ /\ status' = [status EXCEPT ![at[h].on] = Outcome(h)]
          /\ company' = [company EXCEPT !.verified = (Outcome(h) = "verified")]
          /\ Go(h, "publish")
          /\ UNCHANGED spent
       \/ Fault /\ Go(h, "undoCommit") /\ UNCHANGED <<status, company>>
    /\ UNCHANGED <<smp, details, signed, phase, linked, outside, reports, told>>

Publish(h) ==
    /\ at[h].pc \in {"publish", "publishError"}
    /\ LET result == IF at[h].pc = "publish" THEN Outcome(h) ELSE "error" IN
       /\ told' = told \cup {<<at[h].on, result>>}
       /\ Resolve(h, result)
    /\ UNCHANGED <<company, smp, sessions, outside, check, spent>>

----------------------------------------------------------------------------
(* processArratechOnboarding, under the session's lock.                     *)

\* The company still reads as it did when the mandate was signed; identifiers the
\* platform does not take block the onboarding before its filing is prepared.
Signed(s) == French(company) /\ signed[s] /\ details[s] = Details(company)

Onward(s) ==
    IF ~Signed(s) THEN {"block"}
    ELSE CASE phase[s] = "activation" -> {"block", "activation"}
           [] phase[s] = "submit" -> {"block", "refuse", "prepare"}
           [] OTHER -> {"block", "file"}

\* Mutant: the cron leaves sessions that were verified alone.
Select_OnlyInReview(w, s) ==
    /\ Free(w) /\ ~Holds(s)
    /\ phase[s] \in Onboarding /\ status[s] = "inReview"
    /\ \E next \in Onward(s) :
          at' = [at EXCEPT ![w] = [Idle EXCEPT !.on = s, !.goal = "Approved", !.saw = company,
                    !.pc = CASE next \notin {"prepare", "file"} -> next
                             [] next \in {"prepare", "file"} /\ company.recipient -> "participants"
                             [] OTHER -> "kyc"]]
    /\ phase' = IF at'[w].pc \in {"participants", "kyc"}
                THEN [phase EXCEPT ![s] = "prepared"] ELSE phase
    /\ Begin
    /\ UNCHANGED <<company, smp, status, details, signed, linked, reports, told, spent>>

Select(w, s) ==
    /\ Free(w) /\ ~Holds(s)
    /\ phase[s] \in Onboarding /\ status[s] \in {"inReview", "verified"}
    /\ \E next \in IF status[s] = "verified" THEN {"notify"} ELSE Onward(s) :
          at' = [at EXCEPT ![w] = [Idle EXCEPT !.on = s, !.goal = "Approved", !.saw = company,
                    !.pc = CASE next \notin {"prepare", "file"} -> next
                             [] next \in {"prepare", "file"} /\ company.recipient -> "participants"
                             [] OTHER -> "kyc"]]
    /\ phase' = IF at'[w].pc \in {"participants", "kyc"}
                THEN [phase EXCEPT ![s] = "prepared"] ELSE phase
    /\ Begin
    /\ UNCHANGED <<company, smp, status, details, signed, linked, reports, told, spent>>

RegisterParticipants(w) ==
    /\ at[w].pc = "participants"
    /\ smp' = IF smp = "none" THEN "bare" ELSE smp
    /\ Go(w, "kyc")
    /\ UNCHANGED <<company, sessions, outside, reports, told, spent>>

\* ensureApprovedKyc; a mandate the platform turns down blocks the onboarding.
FileKyc(w) ==
    /\ at[w].pc = "kyc"
    /\ \/ kyc' = kyc \cup {at[w].on} /\ Go(w, "filed")
       \/ UNCHANGED kyc /\ Go(w, "block")
    /\ UNCHANGED <<company, smp, sessions, alone, reports, told, spent>>

SaveActivation(w) ==
    /\ at[w].pc = "filed"
    /\ phase' = [phase EXCEPT ![at[w].on] = "activation"]
    /\ Go(w, "activation")
    /\ UNCHANGED <<company, smp, status, details, signed, linked, outside,
                   reports, told, spent>>

\* The platform activates the participant when it pleases.
CheckActivation(w) ==
    /\ at[w].pc = "activation"
    /\ \E next \in {"failed", "block", IF at[w].saw.recipient THEN "sync" ELSE "reload"} :
          Go(w, next)
    /\ UNCHANGED <<company, smp, sessions, outside, reports, told, spent>>

SyncCapabilities(w) ==
    /\ at[w].pc = "sync"
    /\ smp' = "full"
    /\ Go(w, "reload")
    /\ UNCHANGED <<company, sessions, outside, reports, told, spent>>

Reload(w) ==
    /\ at[w].pc = "reload"
    /\ IF status[at[w].on] \in Final THEN Leave(w) ELSE Go(w, "finalize")
    /\ UNCHANGED <<company, smp, sessions, outside, reports, told, spent>>

\* notifyVerificationCompletion, repeated until the onboarding is complete.
Notify(w) ==
    /\ at[w].pc = "notify"
    /\ told' = told \cup {<<at[w].on, "verified">>}
    /\ Go(w, "complete")
    /\ UNCHANGED <<company, smp, sessions, outside, reports, spent>>

\* Mutant: the phase is saved as the worker names it.
SavePhase_Raw(w) ==
    /\ at[w].pc \in {"complete", "block", "refuse"}
    /\ phase' = [phase EXCEPT ![at[w].on] = at[w].pc]
    /\ Leave(w)
    /\ UNCHANGED <<company, smp, status, details, signed, linked, outside,
                   reports, told, spent>>

SavePhase(w) ==
    /\ at[w].pc \in {"complete", "block", "refuse"}
    /\ phase' = [phase EXCEPT ![at[w].on] =
                   CASE at[w].pc = "complete" -> "complete"
                     [] at[w].pc = "block" -> "blocked"
                     [] at[w].pc = "refuse" -> "refused"]
    /\ Leave(w)
    /\ UNCHANGED <<company, smp, status, details, signed, linked, outside,
                   reports, told, spent>>

\* A failed attempt is repeated later, until twelve failed or 72 hours are over.
RetryLater(w) ==
    /\ at[w].pc = "failed"
    /\ Leave(w)
    /\ UNCHANGED <<company, smp, sessions, outside, reports, told, spent>>

\* Mutant: the 72 hours of an onboarding never end.
GiveUp_Attempts(w, s) ==
    /\ at[w].pc = "failed" /\ at[w].on = s /\ phase[s] # "activation"
    /\ Go(w, "block")
    /\ UNCHANGED <<company, smp, sessions, outside, reports, told, spent>>

GiveUp(w, s) ==
    /\ at[w].pc = "failed" /\ at[w].on = s
    /\ Go(w, "block")
    /\ UNCHANGED <<company, smp, sessions, outside, reports, told, spent>>

\* The attempt's phase is saved with its failure.
StepFails(w) ==
    /\ at[w].pc \in {"participants", "kyc", "filed", "activation", "sync", "reload",
                     "finalize", "publish", "publishError", "notify"}
    /\ Fault
    /\ Go(w, "failed")
    /\ smp' \in {smp} \cup (CASE at[w].pc = "participants" /\ smp = "none" -> {"bare"}
                              [] at[w].pc = "sync" -> {"full"}
                              [] OTHER -> {})
    /\ phase' = IF at[w].pc = "filed" THEN [phase EXCEPT ![at[w].on] = "activation"] ELSE phase
    /\ UNCHANGED <<company, status, details, signed, linked, outside, reports, told>>

\* resumeBlockedArratechOnboarding, once support corrected the identifiers.
Resume(s) ==
    /\ phase[s] = "refused" /\ status[s] = "inReview" /\ s \in Current /\ ~Holds(s)
    /\ Signed(s)
    /\ phase' = [phase EXCEPT ![s] = "submit"]
    /\ UNCHANGED <<company, smp, status, details, signed, linked, outside, reports,
                   told, at, spent>>

----------------------------------------------------------------------------
(* verifyCompanyByContract, without the session's lock.                     *)

TakeContract(d) ==
    /\ Free(d) /\ ~company.verified /\ ~French(company)
    /\ at' = [at EXCEPT ![d] = [Idle EXCEPT !.pc = "insert", !.goal = "Approved",
                                            !.saw = company]]
    /\ Again /\ Begin
    /\ UNCHANGED <<company, smp, sessions, reports, told>>

InsertContract(d) ==
    /\ at[d].pc = "insert"
    /\ \/ /\ Details(at[d].saw) = Details(company)
          /\ \E s \in Unused : /\ Insert(s, FALSE)
                               /\ at' = [at EXCEPT ![d].pc = "finalize", ![d].on = s]
       \/ /\ Details(at[d].saw) # Details(company) \/ Unused = {}
          /\ Leave(d) /\ UNCHANGED <<status, details, linked>>
    /\ UNCHANGED <<company, smp, signed, phase, outside, reports, told, spent>>

----------------------------------------------------------------------------
(* updateCompany.                                                           *)

Change == {"numbers", "recipient", "country"}

Edit(c, change) ==
    CASE change = "numbers"   -> [c EXCEPT !.numbers = 2, !.verified = FALSE]
      [] change = "recipient" -> [c EXCEPT !.recipient = ~@]

\* Whether a verified French company receives goes through support.
ReadForUpdate(u, change) ==
    /\ Free(u)
    /\ change = "numbers" => company.numbers = 1
    /\ change = "recipient" => ~(French(company) /\ company.verified)
    /\ change = "country" => Country \ {company.country} # {}
    /\ at' = [at EXCEPT ![u] = [Idle EXCEPT !.saw = company, !.goal = change,
                 !.pc = IF change = "country" THEN "move" ELSE "write"]]
    /\ Again /\ Begin
    /\ UNCHANGED <<company, smp, sessions, reports, told>>

\* Only the fields of the request are written; is_verified with the numbers, when
\* the company was read as verified.
WriteCompany(u) ==
    LET old == at[u].saw
        new == Edit(old, at[u].goal)
        move == CASE ~ShouldRegister(old) /\ ShouldRegister(new) -> "register"
                  [] ShouldRegister(old) /\ ~ShouldRegister(new) -> "unregister"
                  [] OTHER -> "free"
    IN  /\ at[u].pc = "write"
        /\ company' = IF at[u].goal = "numbers"
              THEN [company EXCEPT !.numbers = new.numbers,
                                   !.verified = IF old.verified THEN FALSE ELSE @]
              ELSE [company EXCEPT !.recipient = new.recipient]
        /\ at' = [at EXCEPT ![u].pc = move, ![u].move = move]
        /\ UNCHANGED <<smp, sessions, outside, reports, told, spent>>

\* assertIdentifiersFreeForRecipient alone may refuse the update.
CheckFree(u) ==
    /\ at[u].pc = "free"
    /\ Go(u, "finish") \/ Go(u, "restore")
    /\ UNCHANGED <<company, smp, sessions, outside, reports, told, spent>>

\* The row is written back as it was read.
Restore(u) ==
    /\ at[u].pc = "restore"
    /\ company' = at[u].saw
    /\ Leave(u)
    /\ UNCHANGED <<smp, sessions, outside, reports, told, spent>>

\* revokeOpenCompanyVerificationSessions after a change of the numbers.
FinishUpdate(u) ==
    /\ at[u].pc = "finish"
    /\ LET open == IF at[u].goal = "numbers" THEN {s \in Session : status[s] \in Open} ELSE {} IN
       status' = [s \in Session |-> IF s \in open THEN "revoked" ELSE status[s]]
    /\ Leave(u)
    /\ UNCHANGED <<company, smp, details, signed, phase, linked, outside, reports,
                   told, spent>>

\* isStartedVerificationSession
Started(s) ==
    status[s] \in {"idVerificationRequested", "inReview", "verified", "error"} \/ signed[s]

\* applyCompanyCountryChange: one transaction holding the company's row, refused when
\* the company is not the one that was read.  Links that were handed out move along.
MoveCountry(u) ==
    /\ at[u].pc = "move"
    /\ IF /\ company = at[u].saw /\ ~company.verified /\ ~ShouldRegister(company)
          /\ \A s \in Session : ~Started(s)
       THEN \E to \in Country \ {company.country} :
              /\ ~ShouldRegister([company EXCEPT !.country = to])
              /\ company' = [company EXCEPT !.country = to]
              /\ details' = [s \in Session |->
                    IF status[s] = "opened" THEN Details(company') ELSE details[s]]
       ELSE UNCHANGED <<company, details>>
    /\ Leave(u)
    /\ UNCHANGED <<smp, status, signed, phase, linked, outside, reports,
                   told, spent>>

----------------------------------------------------------------------------
\* The process dies: the lock of its transaction is released.
Crash(h) ==
    /\ Busy(h) /\ Fault
    /\ Leave(h)
    /\ alone' = FALSE
    /\ UNCHANGED <<company, smp, sessions, kyc, reports, told>>

FinalizeStep(h) ==
    \/ ReadSession(h) \/ Register(h) \/ Unregister(h) \/ Undo(h) \/ SetError(h)
    \/ Commit(h) \/ Publish(h)

ReportStep(h) ==
    \/ SetInReview(h) \/ ReadCompany(h) \/ HoldForReview(h) \/ StartKycReview(h)
    \/ Retry(h) \/ FinalizeStep(h)

WorkerStep(w) ==
    \/ RegisterParticipants(w) \/ FileKyc(w) \/ SaveActivation(w)
    \/ CheckActivation(w) \/ SyncCapabilities(w) \/ Reload(w) \/ Notify(w)
    \/ SavePhase(w) \/ RetryLater(w) \/ FinalizeStep(w) \/ (\E s \in Session : GiveUp(w, s))

DirectStep(d) == InsertContract(d) \/ FinalizeStep(d)
FormStep(f)   == ClaimForm(f) \/ StartCheck(f)

UpdateStep(u) ==
    \/ WriteCompany(u) \/ Register(u) \/ Unregister(u) \/ Undo(u) \/ CheckFree(u)
    \/ Restore(u) \/ FinishUpdate(u) \/ MoveCountry(u)

Next ==
    \/ \E s \in Session :
          \/ StartSession(s) \/ Resume(s)
          \/ \E o \in Report : Decide(s, o)
          \/ \E h \in Reporter, o \in Report : TakeReport(h, s, o)
          \/ \E w \in Worker : Select(w, s)
          \/ \E f \in Form : LoadForm(f, s)
    \/ \E h \in Reporter : ReportStep(h)
    \/ \E w \in Worker : WorkerStep(w) \/ StepFails(w)
    \/ \E d \in Direct : TakeContract(d) \/ DirectStep(d)
    \/ \E f \in Form : FormStep(f)
    \/ \E u \in Updater :
          \/ UpdateStep(u)
          \/ \E change \in Change : ReadForUpdate(u, change)
    \/ \E h \in Handler : Crash(h)

Spec == Init /\ [][Next]_vars

\* Handlers that live go on; the provider repeats its reports, the cron takes every
\* session in its turn, and twelve attempts or 72 hours come to an end.
Fairness ==
    /\ WF_vars(\E h \in Reporter : ReportStep(h))
    /\ WF_vars(\E w \in Worker : WorkerStep(w))
    /\ WF_vars(\/ \E d \in Direct : DirectStep(d)
               \/ \E f \in Form : FormStep(f)
               \/ \E u \in Updater : UpdateStep(u))
    /\ SF_vars(\E h \in Reporter, s \in Session, o \in Report : TakeReport(h, s, o))
    /\ \A s \in Session : SF_vars(\E w \in Worker : Select(w, s))
    /\ \A s \in Session : SF_vars(\E w \in Worker : GiveUp(w, s))

FairSpec == Spec /\ Fairness
----------------------------------------------------------------------------
(* Properties.                                                              *)

Pc == {"idle", "claim", "start", "review", "company", "hold", "kycReview", "retry", "finalize",
       "register", "unregister", "undo", "undoCommit", "error", "commit", "publish",
       "publishError", "participants", "kyc", "filed", "activation", "sync",
       "reload", "notify", "complete", "block", "refuse", "failed", "insert", "write",
       "move", "free", "restore", "finish"}

Status   == {"none"} \cup Open \cup Final
Phase    == {"none", "complete", "blocked", "refused"} \cup Onboarding
Snapshot == [numbers : {1, 2}, country : Country \cup {"FR"}]

HandlerState == [pc : Pc, on : Session \cup {None}, saw : Company,
                 goal : Report \cup Change \cup {"none"},
                 move : {"none", "register", "unregister", "commit", "free"}]

TypeOK ==
    /\ company \in Company /\ smp \in {"none", "bare", "full"}
    /\ status \in [Session -> Status]
    /\ details \in [Session -> Snapshot]
    /\ signed \in [Session -> BOOLEAN]
    /\ phase \in [Session -> Phase]
    /\ linked \in [Session -> BOOLEAN]
    /\ check \in [Session -> {"none", "running"} \cup Report]
    /\ due \subseteq Session \X Report
    /\ kyc \subseteq Session
    /\ alone \in BOOLEAN /\ told \subseteq Session \X {"verified", "rejected", "error"}
    /\ at \in [Handler -> HandlerState]
    /\ spent \in [edits : 0..MaxEdit, faults : 0..MaxFault]

\* What was decided of a link's session is kept: late and repeated reports, the
\* worker and updates that revoke sessions do not decide it again.  (A revocation
\* does not wait for the session's lock and may be overwritten.)
DecisionKept ==
    [][\A s \in Session :
          linked[s] /\ status[s] \in Final \ {"revoked"} => status'[s] = status[s]]_vars

\* Integrations are told one outcome of a session, however many reports, attempts and
\* crashes it took.
OneOutcomeTold ==
    \A s \in Session, p, q \in Final :
        linked[s] /\ <<s, p>> \in told /\ <<s, q>> \in told => p = q

\* "The French platform takes a participant only once its KYC is done": a link's
\* session verifies a French company only under a mandate the platform approved.
FrenchIsFiled ==
    \A s \in Session :
        linked[s] /\ status[s] = "verified" /\ details[s].country = "FR" => s \in kyc

\* A call or a statement that fails is made up for: when nothing else interfered, a
\* company is on the SMP whenever it should be, and a company outside France only then
\* (the French SMP takes participants before they are verified).
RegisteredWhenDue ==
    alone /\ (\A h \in Handler : ~Busy(h)) =>
        /\ ShouldRegister(company) => smp = "full"
        /\ smp # "none" => ShouldRegister(company) \/ French(company)

\* Every report of the provider is answered in the end.
ReportsAnswered ==
    \A s \in Session, o \in Report : <<s, o>> \in due ~> <<s, o>> \notin due

\* An onboarding ends: complete, handed to support, or with the session.
OnboardingSettles ==
    \A s \in Session :
        phase[s] \in Onboarding ~>
            phase[s] \notin Onboarding \/ status[s] \in {"rejected", "revoked", "error"}

\* A company the worker verified is told, unless the failure to tell it falls together
\* with the end of the 72 hours.
VerifiedIsTold ==
    \A s \in Session :
        phase[s] # "none" /\ status[s] = "verified" ~> <<s, "verified">> \in told \/ phase[s] = "blocked"

\* "Changing the VAT number or enterprise number revokes any open verification sessions
\* for the company.  If the company was already verified, its verification status is
\* also revoked and the company must be verified again."
NumbersVerified ==
    (\A u \in Updater : ~Busy(u)) /\ company.verified =>
        \E s \in Session : status[s] = "verified" /\ details[s].numbers = company.numbers
============================================================================
