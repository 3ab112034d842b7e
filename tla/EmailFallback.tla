--------------------------- MODULE EmailFallback ---------------------------
(***************************************************************************)
(* The email a sender asked for in case the Peppol transmission fails      *)
(* (src/data/deliveries/email-fallback*.ts), for one document: every        *)
(* statement of the code is keyed by the document, so documents do not      *)
(* interact.  The document row carries the request (NULL once closed) with  *)
(* the start time of the run holding it and the delivery noted per address; *)
(* one row per delivery records what the mail service answered.             *)
(*                                                                          *)
(* A run is one invocation of runEmailFallback.  Each of its awaits is one  *)
(* action: between two of them other runs, reports and crashes happen.      *)
(***************************************************************************)
EXTENDS Naturals

CONSTANTS
    N,          \* how many distinct addresses the sender gave (request.to)
    Member,     \* the addresses of the playground team's own members
    Playground, \* whether the team is a playground
    Run,        \* the invocations that get to claim the request
    NoRun,      \* no run: an empty startedAt, an address without attempt
    SlowRuns,   \* whether a live run may exceed EMAIL_FALLBACK_CLAIM_STALE_MS
    MaxFault    \* bound: statements that fail, crashes, lost calls and answers

Address == 1..N

ASSUME ConstantsAssumption ==
    /\ N \in Nat /\ MaxFault \in Nat
    /\ Member \subseteq Address
    /\ Playground \in BOOLEAN /\ SlowRuns \in BOOLEAN
    /\ NoRun \notin Run

VARIABLES
    peppol,     \* status of the document's Peppol delivery
    due,        \* an invocation for this document is on its way
    open,       \* transmitted_documents.email_fallback IS NOT NULL
    holder,     \* the run whose startedAt the request carries
    stale,      \* that startedAt is older than EMAIL_FALLBACK_CLAIM_STALE_MS
    attempts,   \* request.attempts: the run that noted each address
    pc,         \* the await each run is at
    seen,       \* the attempts in the request a run's claim returned
    at,         \* the address a run's loop is at; N + 1 after the last
    draft,      \* the status of the delivery row a run is about to write
    got,        \* the deliveries array of a run: statuses as read back
    row,        \* document_deliveries: status of the delivery <run, address>
    taken,      \* what the mail service accepted, per sending run (external)
    recipients, \* how often an address is in the document's emailRecipients
    billed,     \* transfer events written per address
    told,       \* statuses announced per delivery (delivery_status events)
    faults      \* faults so far

request == <<open, holder, stale, attempts>>
locals  == <<pc, seen, at, draft, got>>
closing == <<recipients, billed>>
vars    == <<peppol, due, request, locals, row, taken, closing, told, faults>>

\* The code has one status "failed"; "bounced" is that status set by a report
\* on a message whose delivery had been recorded as accepted.
Failed == {"failed", "bounced"}
Status == {"pending", "delivered"} \cup Failed

Live(r) == pc[r] \notin {"idle", "stopped"}

\* The delivery id an address is handled under: the one an earlier run noted,
\* or the run's own.
Sender(r, a) == IF seen[r][a] = NoRun THEN r ELSE seen[r][a]

Init ==
    /\ peppol = "pending" /\ due = FALSE
    /\ open = TRUE /\ holder = NoRun /\ stale = FALSE
    /\ attempts = [a \in Address |-> NoRun]
    /\ pc = [r \in Run |-> "idle"]
    /\ seen = [r \in Run |-> [a \in Address |-> NoRun]]
    /\ at = [r \in Run |-> 1]
    /\ draft = [r \in Run |-> "none"]
    /\ got = [r \in Run |-> [a \in Address |-> "none"]]
    /\ row = [r \in Run |-> [a \in Address |-> "none"]]
    /\ taken = [r \in Run |-> {}]
    /\ recipients = [a \in Address |-> 0]
    /\ billed = [a \in Address |-> 0]
    /\ told = [r \in Run |-> [a \in Address |-> {}]]
    /\ faults = 0

----------------------------------------------------------------------------
(* What makes runs start.                                                   *)

\* A report settles the Peppol delivery; a failure calls the fallback.
PeppolSettled(status) ==
    /\ peppol = "pending"
    /\ peppol' = status
    /\ due' = (status = "failed")
    /\ UNCHANGED <<request, locals, row, taken, closing, told, faults>>

\* A repeated report finds the delivery failed and calls the fallback again.
RepeatedReport ==
    /\ peppol = "failed" /\ ~due
    /\ due' = TRUE
    /\ UNCHANGED <<peppol, request, locals, row, taken, closing, told, faults>>

\* The reconciliation tick selects the requests a stopped run left half done.
Stalled_OnlyDied == open /\ (\E a \in Address : attempts[a] # NoRun) /\ stale
Stalled ==
    /\ open
    /\ \E a \in Address : attempts[a] # NoRun
    /\ holder = NoRun \/ stale

DrainFinds ==
    /\ Stalled /\ ~due
    /\ due' = TRUE
    /\ UNCHANGED <<peppol, request, locals, row, taken, closing, told, faults>>

\* The process dies between committing the failure, or selecting the stalled
\* request, and the call.
CallLost ==
    /\ due /\ faults < MaxFault
    /\ due' = FALSE
    /\ faults' = faults + 1
    /\ UNCHANGED <<peppol, request, locals, row, taken, closing, told>>

\* Fifteen minutes pass since the holder started.
ClaimGoesStale ==
    /\ open /\ holder # NoRun /\ ~stale
    /\ SlowRuns \/ ~Live(holder)
    /\ stale' = TRUE
    /\ UNCHANGED <<peppol, due, open, holder, attempts, locals, row, taken,
                   closing, told, faults>>

----------------------------------------------------------------------------
(* One run.                                                                 *)

Claimable_Unguarded == open
Claimable == open /\ (holder = NoRun \/ stale)

\* The claim statement: takes the request and returns it as it was before.
Claim(r) ==
    /\ due /\ pc[r] = "idle" /\ Claimable
    /\ due' = FALSE
    /\ holder' = r /\ stale' = FALSE
    /\ seen' = [seen EXCEPT ![r] = attempts]
    /\ pc' = [pc EXCEPT ![r] = "load"]
    /\ UNCHANGED <<peppol, open, attempts, at, draft, got, row, taken, closing,
                   told, faults>>

\* The claim finds no request to take: nothing happens.
NothingToClaim ==
    /\ due /\ ~Claimable
    /\ due' = FALSE
    /\ UNCHANGED <<peppol, request, locals, row, taken, closing, told, faults>>

\* loadPayload, and for a playground its members' addresses.
LoadPayload(r) ==
    /\ pc[r] = "load"
    /\ pc' = [pc EXCEPT ![r] = "address"]
    /\ UNCHANGED <<peppol, due, request, seen, at, draft, got, row, taken,
                   closing, told, faults>>

RecordedDelivery_Skips(r) ==
    /\ pc[r] = "address" /\ at[r] \in Address
    /\ seen[r][at[r]] # NoRun
    /\ got' = [got EXCEPT ![r][at[r]] = row[Sender(r, at[r])][at[r]]]
    /\ at' = [at EXCEPT ![r] = @ + 1]
    /\ UNCHANGED <<peppol, due, request, pc, draft, seen, row, taken, closing,
                   told, faults>>

\* An address an earlier run noted: its delivery row, if it was written, stands;
\* if not, the delivery is recorded as failed and not mailed again.
RecordedDelivery(r) ==
    /\ pc[r] = "address" /\ at[r] \in Address
    /\ seen[r][at[r]] # NoRun
    /\ LET a == at[r]
           recorded == row[Sender(r, a)][a]
       IN \/ /\ recorded # "none"
             /\ got' = [got EXCEPT ![r][a] = recorded]
             /\ at' = [at EXCEPT ![r] = a + 1]
             /\ UNCHANGED <<pc, draft>>
          \/ /\ recorded = "none"
             /\ draft' = [draft EXCEPT ![r] = "failed"]
             /\ pc' = [pc EXCEPT ![r] = "record"]
             /\ UNCHANGED <<got, at>>
    /\ UNCHANGED <<peppol, due, request, seen, row, taken, closing, told, faults>>

NoteAttempt_NotBefore(r) ==
    /\ pc[r] = "address" /\ at[r] \in Address
    /\ seen[r][at[r]] = NoRun
    /\ pc' = [pc EXCEPT ![r] = "mail"]
    /\ UNCHANGED <<peppol, due, request, seen, at, draft, got, row, taken,
                   closing, told, faults>>

\* noteAttempt: writes only to a request that is still open, and does not tell
\* whether it did.
NoteAttempt(r) ==
    /\ pc[r] = "address" /\ at[r] \in Address
    /\ seen[r][at[r]] = NoRun
    /\ attempts' = IF open THEN [attempts EXCEPT ![at[r]] = r] ELSE attempts
    /\ pc' = [pc EXCEPT ![r] = "mail"]
    /\ UNCHANGED <<peppol, due, open, holder, stale, seen, at, draft, got, row,
                   taken, closing, told, faults>>

Simulated_Never(a) == FALSE
Simulated(a) == Playground /\ a \notin Member

\* sendDocumentEmails for the one address: simulated, accepted, refused, or
\* accepted with the answer lost, which its catch cannot tell from a refusal.
Mail(r) ==
    /\ pc[r] = "mail"
    /\ \/ /\ Simulated(at[r])
          /\ draft' = [draft EXCEPT ![r] = "delivered"]
          /\ UNCHANGED <<taken, faults>>
       \/ /\ ~Simulated(at[r])
          /\ draft' = [draft EXCEPT ![r] = "pending"]
          /\ taken' = [taken EXCEPT ![r] = @ \cup {at[r]}]
          /\ UNCHANGED faults
       \/ /\ ~Simulated(at[r])
          /\ draft' = [draft EXCEPT ![r] = "failed"]
          /\ UNCHANGED <<taken, faults>>
       \/ /\ ~Simulated(at[r]) /\ faults < MaxFault
          /\ draft' = [draft EXCEPT ![r] = "failed"]
          /\ taken' = [taken EXCEPT ![r] = @ \cup {at[r]}]
          /\ faults' = faults + 1
    /\ pc' = [pc EXCEPT ![r] = "record"]
    /\ UNCHANGED <<peppol, due, request, seen, at, got, row, closing, told>>

\* recordDelivery's insert, which leaves a row with that id alone.
Record(r) ==
    /\ pc[r] = "record"
    /\ row' = [row EXCEPT ![Sender(r, at[r])][at[r]] =
                   IF @ = "none" THEN draft[r] ELSE @]
    /\ pc' = [pc EXCEPT ![r] = "readback"]
    /\ UNCHANGED <<peppol, due, request, seen, at, draft, got, taken, closing,
                   told, faults>>

\* recordDelivery's select: the row as it is now, a report included.
ReadBack(r) ==
    /\ pc[r] = "readback"
    /\ got' = [got EXCEPT ![r][at[r]] = row[Sender(r, at[r])][at[r]]]
    /\ at' = [at EXCEPT ![r] = @ + 1]
    /\ pc' = [pc EXCEPT ![r] = "address"]
    /\ UNCHANGED <<peppol, due, request, seen, draft, row, taken, closing, told,
                   faults>>

\* The deliveries that went out, which are billed except in a playground, and
\* the event that announces each delivery as the run read it.
Sent_WithRefused(r) == Address
Sent_OnlyPending(r) == {a \in Address : got[r][a] = "pending"}
Sent(r) == {a \in Address : got[r][a] \notin Failed}

Transfers(r) == IF Playground THEN {} ELSE Sent(r)

Announced_OnlySent(r) ==
    [s \in Run |-> [a \in Address |->
        IF s = Sender(r, a) /\ a \in Sent(r) THEN told[s][a] \cup {got[r][a]}
                                              ELSE told[s][a]]]
Announced(r) ==
    [s \in Run |-> [a \in Address |->
        IF s = Sender(r, a) THEN told[s][a] \cup {got[r][a]} ELSE told[s][a]]]

Increment(count, S) == [a \in Address |-> count[a] + (IF a \in S THEN 1 ELSE 0)]

\* The closing transaction: only the run that still finds the request open
\* bills, adds the recipients and announces each delivery.
Finish(r) ==
    /\ pc[r] = "address" /\ at[r] = N + 1
    /\ open
    /\ open' = FALSE /\ holder' = NoRun /\ stale' = FALSE
    /\ attempts' = [a \in Address |-> NoRun]
    /\ recipients' = Increment(recipients, Sent(r))
    /\ billed' = Increment(billed, Transfers(r))
    /\ told' = Announced(r)
    /\ pc' = [pc EXCEPT ![r] = "audit"]
    /\ UNCHANGED <<peppol, due, seen, at, draft, got, row, taken, faults>>

\* The run that finds the request closed writes nothing.
FinishedByAnother(r) ==
    /\ pc[r] = "address" /\ at[r] = N + 1
    /\ ~open
    /\ pc' = [pc EXCEPT ![r] = "stopped"]
    /\ UNCHANGED <<peppol, due, request, seen, at, draft, got, row, taken,
                   closing, told, faults>>

\* The audit event after the close; the run returns.
Audit(r) ==
    /\ pc[r] = "audit"
    /\ pc' = [pc EXCEPT ![r] = "stopped"]
    /\ UNCHANGED <<peppol, due, request, seen, at, draft, got, row, taken,
                   closing, told, faults>>

\* An await throws: the database or the storage refuses the statement the run is
\* at, or the answer to the one it just made is lost.
Fail(r) ==
    /\ Live(r) /\ pc[r] # "release" /\ faults < MaxFault
    /\ pc' = [pc EXCEPT ![r] = "release"]
    /\ faults' = faults + 1
    /\ UNCHANGED <<peppol, due, request, seen, at, draft, got, row, taken,
                   closing, told>>

\* The catch hands the request back, whoever holds it by now.
Release(r) ==
    /\ pc[r] = "release"
    /\ IF open THEN holder' = NoRun /\ stale' = FALSE
               ELSE UNCHANGED <<holder, stale>>
    /\ pc' = [pc EXCEPT ![r] = "stopped"]
    /\ UNCHANGED <<peppol, due, open, attempts, seen, at, draft, got, row, taken,
                   closing, told, faults>>

\* The process dies; or the release, or the team read that follows the claim,
\* fails, which leave the claim behind just the same.
Crash(r) ==
    /\ Live(r) /\ faults < MaxFault
    /\ pc' = [pc EXCEPT ![r] = "stopped"]
    /\ faults' = faults + 1
    /\ UNCHANGED <<peppol, due, request, seen, at, draft, got, row, taken,
                   closing, told>>

----------------------------------------------------------------------------
\* The mail service reports on an accepted message once its row is there (a
\* report that overtakes the row is staged until then): a pending delivery moves
\* and its owner is told in the same transaction; a final one does not move.
MailReport(r, a, status) ==
    /\ row[r][a] = "pending"
    /\ row' = [row EXCEPT ![r][a] = status]
    /\ told' = [told EXCEPT ![r][a] = @ \cup {status}]
    /\ UNCHANGED <<peppol, due, request, locals, taken, closing, faults>>

RunStep(r) ==
    \/ LoadPayload(r) \/ RecordedDelivery(r) \/ NoteAttempt(r) \/ Mail(r)
    \/ Record(r) \/ ReadBack(r) \/ Finish(r) \/ FinishedByAnother(r)
    \/ Audit(r) \/ Release(r)

Next ==
    \/ \E status \in {"delivered", "failed"} : PeppolSettled(status)
    \/ RepeatedReport \/ DrainFinds \/ CallLost \/ ClaimGoesStale
    \/ NothingToClaim
    \/ \E r \in Run : Claim(r) \/ RunStep(r) \/ Fail(r) \/ Crash(r)
    \/ \E r \in Run, a \in Address, status \in {"delivered", "bounced"} :
          MailReport(r, a, status)

Spec == Init /\ [][Next]_vars

\* A live run goes on, the reconciliation cron ticks, time passes.  Nothing is
\* assumed of reports, of the mail service or of faults.
Fairness ==
    /\ \A r \in Run : WF_vars(RunStep(r))
    /\ WF_vars(DrainFinds)
    /\ WF_vars(ClaimGoesStale)
    /\ WF_vars(NothingToClaim)
    /\ WF_vars(\E r \in Run : Claim(r))

FairSpec == Spec /\ Fairness
----------------------------------------------------------------------------
(* Properties.                                                              *)

TypeOK ==
    /\ peppol \in {"pending", "delivered", "failed"}
    /\ due \in BOOLEAN /\ open \in BOOLEAN /\ stale \in BOOLEAN
    /\ holder \in Run \cup {NoRun}
    /\ attempts \in [Address -> Run \cup {NoRun}]
    /\ pc \in [Run -> {"idle", "load", "address", "mail", "record", "readback",
                       "audit", "release", "stopped"}]
    /\ seen \in [Run -> [Address -> Run \cup {NoRun}]]
    /\ at \in [Run -> 1..(N + 1)]
    /\ draft \in [Run -> Status \cup {"none"}]
    /\ got \in [Run -> [Address -> Status \cup {"none"}]]
    /\ row \in [Run -> [Address -> Status \cup {"none"}]]
    /\ taken \in [Run -> SUBSET Address]
    /\ recipients \in [Address -> Nat] /\ billed \in [Address -> Nat]
    /\ told \in [Run -> [Address -> SUBSET (Status \cup {"none"})]]
    /\ faults \in 0..MaxFault

\* Of the callers that try to take a request (a report, its repetition, the drain)
\* only one works on it at a time, as long as fifteen minutes are enough for a run.
OneLiveRun == \A r, s \in Run : Live(r) /\ Live(s) => r = s

\* "No address is ever mailed twice": across stopped, failed and resumed runs the
\* mail service accepts at most one message per address.
NeverMailedTwice ==
    \A a \in Address : \A r, s \in Run :
        a \in taken[r] /\ a \in taken[s] => r = s

\* A run that stops halfway leaves no address out: once the request is closed
\* every address has exactly one delivery.
SettledWhenClosed ==
    ~open => \A a \in Address :
        \E r \in Run : \A s \in Run : row[s][a] # "none" <=> s = r

\* The recipients grow, and a transfer event is written, at most once per address,
\* however many runs reach the end; and only for a message the mail service took,
\* none in a playground.
BilledOnceForAcceptedMail ==
    \A a \in Address :
        /\ recipients[a] <= 1 /\ billed[a] <= recipients[a]
        /\ billed[a] = 1 => ~Playground /\ \E r \in Run : a \in taken[r]

\* A delivery recorded as accepted is billed by the close, unless the mail
\* service has reported a bounce.
AcceptedIsBilled ==
    ~open /\ ~Playground =>
        \A r \in Run, a \in Address :
            row[r][a] \in {"pending", "delivered"} => billed[a] = 1

\* Once the request is closed the document's owner has been told the status every
\* delivery is in, whichever of the close and a report came first.
OwnerIsTold ==
    ~open => \A r \in Run, a \in Address :
        row[r][a] # "none" => row[r][a] \in told[r][a]

\* The fallback mails only after the Peppol transmission has failed, and in a
\* playground only the team's own members.
MailedOnlyIfDue ==
    \A r \in Run : taken[r] # {} =>
        peppol = "failed" /\ (Playground => taken[r] \subseteq Member)

\* The detailed fallback implements what it promises the sender.
Promise == INSTANCE FallbackPromise WITH
    failed <- peppol = "failed", mailed <- taken, closed <- ~open

PromiseKept == Promise!Spec

\* A request that a run started on is finished, whatever that run met: the drain
\* resumes it until it is closed.
HalfDoneIsFinished ==
    (open /\ \E a \in Address : attempts[a] # NoRun) ~> ~open
============================================================================
