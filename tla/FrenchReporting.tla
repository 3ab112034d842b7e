--------------------------- MODULE FrenchReporting ---------------------------
(***************************************************************************)
(* Filing the reports of a French company (src/api/reporting/submit.ts) and   *)
(* following them until the tax administration has ruled                      *)
(* (src/data/fr-reporting-submissions.ts).  The reporting service knows a      *)
(* report by the customer's reference and answers a replayed reference with    *)
(* what it filed the first time; here the reference stands for the flow id    *)
(* the service gave it.  The document, its billing and the record that is      *)
(* polled are written one after another, each in a statement of its own.      *)
(***************************************************************************)
EXTENDS FrenchDeclarants

CONSTANTS
    Request,    \* requests to file a report; a retry is another request
    Report,     \* the reports customers send
    Tick        \* the status workers, one per process

Action  == {"submit", "correct", "cancel"}
Kind    == {"payment", "sale"}
Status  == {"accepted", "filed", "superseded", "rejected"}
Outcome == {"open", "accepted"}   \* received and refused deposits are open

Reference == {r.reference : r \in Report}
Standing  == [status : Status, outcome : Outcome]
Heard     == [known : BOOLEAN, stale : BOOLEAN, standing : Standing]

\* The payments are all on one invoice.
ASSUME ReportingAssumption ==
    /\ \A r \in Report : /\ DOMAIN r = {"reference", "kind", "action"}
                         /\ r.kind \in Kind /\ r.action \in Action
    /\ None \notin Report /\ None \notin Request /\ None \notin Standing \cup Status \cup Heard

VARIABLES
    step,       \* the await each request is at
    report,     \* the report it carries
    answered,   \* the status the service answered it with
    doc,        \* the document it ended up with, by the request that wrote it
    filed,      \* at the service: the report filed under a reference
    standing,   \* at the service: where it stands
    gone,       \* at the service: the references it does not know any more
    stale,      \* whose period ended more than STALE_AFTER_PERIOD_END_DAYS ago
    documents,  \* the documents of reports, by the request that wrote them
    older,      \* those that were there when a document was written
    billed,     \* those billed
    recorded,   \* the row of peppol_fr_reporting_submissions of a document
    due,        \* the documents whose row has a next_check_at
    alerted,    \* the documents support was told have no row
    looking,    \* the await each tick is at
    at,         \* the document it looks up
    was,        \* the row it read
    heard       \* what the service answered

registration == <<declarant, registry, sync, support, changes>>
requests == <<step, report, answered, doc>>
written  == <<documents, older, billed>>
service  == <<filed, standing, gone, stale>>
records  == <<recorded, due, alerted>>
polling  == <<looking, at, was, heard>>
vars     == <<declarantVars, requests, service, written, records, polling>>

Ref(q) == report[q].reference

Final_Filed(s) == s.status \in {"superseded", "rejected", "filed"}

\* isFrenchReportingFinal: nothing more will be heard.
Final(s) == \/ s.status \in {"superseded", "rejected"}
            \/ s.status = "filed" /\ s.outcome = "accepted"

Init ==
    /\ InitDeclarant
    /\ step = [q \in Request |-> "idle"]
    /\ report = [q \in Request |-> None]
    /\ answered = [q \in Request |-> None]
    /\ doc = [q \in Request |-> None]
    /\ filed = [r \in Reference |-> None]
    /\ standing = [r \in Reference |-> None]
    /\ gone = {} /\ stale = {}
    /\ documents = {} /\ older = [q \in Request |-> {}] /\ billed = {}
    /\ recorded = [q \in Request |-> None]
    /\ due = {} /\ alerted = {}
    /\ looking = [t \in Tick |-> "idle"]
    /\ at = [t \in Tick |-> None]
    /\ was = [t \in Tick |-> None]
    /\ heard = [t \in Tick |-> None]

Goto(q, next) == step' = [step EXCEPT ![q] = next]

\* The customer has no answer and may retry.
Fail(q) ==
    /\ Goto(q, "failed")
    /\ answered' = [answered EXCEPT ![q] = None]
    /\ doc' = [doc EXCEPT ![q] = None]

----------------------------------------------------------------------------
(* One request to file a report.                                            *)

\* The declarant the report is filed under; payments exist only where VAT is due on
\* payment.
Begin(q, r) ==
    /\ step[q] = "idle"
    /\ report' = [report EXCEPT ![q] = r]
    /\ Goto(q, IF ~Ready THEN "refused"
               ELSE IF r.kind = "payment"
                    THEN IF declarant.exigibility = "DEBITS" THEN "refused" ELSE "assess"
                    ELSE "submit")
    /\ UNCHANGED <<declarantVars, answered, doc, service, written,
                   records, polling>>

\* The payments on the invoice as this side knows them: one that no later cancellation
\* withdrew and that was not polled back as superseded is on file.
Payments == {d \in documents : report[d].kind = "payment"}

OnFile ==
    \E d \in Payments :
        /\ report[d].action # "cancel"
        /\ recorded[d] = None \/ recorded[d].status # "superseded"
        /\ \A e \in Payments : d \in older[e] => report[e].action # "cancel"

IsRetry(r) == \E d \in Payments : Ref(d) = r.reference

Assess(q) ==
    /\ step[q] = "assess"
    /\ Goto(q, IF IsRetry(report[q]) \/ report[q].action # "submit" \/ ~OnFile
               THEN "submit" ELSE "refused")
    /\ UNCHANGED <<declarantVars, report, answered, doc, service, written,
                   records, polling>>

\* The service keeps one payment per invoice, so a payment replaces the one it holds;
\* other reports are replaced or withdrawn only deliberately.
Accepts(r) ==
    /\ registry # None /\ registry.enabled
    /\ r.kind = "payment" => registry.exigibility = "ENCAISSEMENTS"
Replaced(r) ==
    {o \in Reference :
        /\ filed[o] # None /\ standing[o].status = "accepted"
        /\ filed[o].kind = r.kind /\ filed[o].action # "cancel"
        /\ r.kind = "payment" \/ r.action # "submit"}

\* Filing; a reference filed before is answered with what it filed.
File(r) ==
    /\ filed[r.reference] = None /\ Accepts(r)
    /\ filed' = [filed EXCEPT ![r.reference] = r]
    /\ standing' = [o \in Reference |->
                      IF o = r.reference THEN [status |-> "accepted", outcome |-> "open"]
                      ELSE IF o \in Replaced(r)
                      THEN [standing[o] EXCEPT !.status = "superseded"] ELSE standing[o]]
    /\ UNCHANGED <<gone, stale>>

Replay(r) == filed[r.reference] # None /\ r.reference \notin gone /\ UNCHANGED service

\* A status this side does not know counts as accepted.
Submit(q) ==
    /\ step[q] = "submit"
    /\ File(report[q]) \/ Replay(report[q])
    /\ \E status \in {standing'[Ref(q)].status, "accepted"} :
         answered' = [answered EXCEPT ![q] = status]
    /\ Goto(q, "find")
    /\ UNCHANGED <<declarantVars, report, doc, written, records,
                   polling>>

\* The service refuses the report, as it may for what it knows of the period, or it
\* cannot be reached.
SubmitFails(q) ==
    /\ step[q] = "submit"
    /\ Fail(q)
    /\ UNCHANGED <<declarantVars, report, service, written, records, polling>>

\* Filed, but the answer is lost.
SubmitLost(q) ==
    /\ step[q] = "submit"
    /\ Fault
    /\ File(report[q])
    /\ Fail(q)
    /\ UNCHANGED <<registration, report, written, records, polling>>

\* The document of a reference, None when there is none.
DocumentOf(r) ==
    IF \E d \in documents : Ref(d) = r
    THEN CHOOSE d \in documents : Ref(d) = r ELSE None

\* The document that is there may be another report's, which the answer says.
Find(q) ==
    /\ step[q] = "find"
    /\ LET d == DocumentOf(Ref(q)) IN
         /\ doc' = [doc EXCEPT ![q] = d]
         /\ Goto(q, IF d = None THEN "record" ELSE "ensure")
    /\ UNCHANGED <<declarantVars, report, answered, service, written, records,
                   polling>>

\* The insert; a conflict on external_reference_id ends at the document that is there,
\* which was announced and billed by the request that wrote it.
Record(q) ==
    /\ step[q] = "record"
    /\ LET d == DocumentOf(Ref(q)) IN
         IF d = None
         THEN /\ documents' = documents \cup {q}
              /\ older' = [older EXCEPT ![q] = documents]
              /\ doc' = [doc EXCEPT ![q] = q] /\ Goto(q, "bill")
         ELSE /\ doc' = [doc EXCEPT ![q] = d] /\ Goto(q, "follow")
              /\ UNCHANGED <<documents, older>>
    /\ UNCHANGED <<declarantVars, report, answered, service, billed, records,
                   polling>>

\* The document is announced, then billed.
Bill(q) ==
    /\ step[q] = "bill"
    /\ billed' = billed \cup {q}
    /\ Goto(q, "follow")
    /\ UNCHANGED <<declarantVars, report, answered, doc, service, documents, older,
                   records, polling>>

\* recordFrenchReportingSubmission: a row that is there is left alone.
InsertRow(d, status) ==
    IF recorded[d] # None THEN UNCHANGED <<recorded, due>>
    ELSE LET s == [status |-> status, outcome |-> "open"] IN
         /\ recorded' = [recorded EXCEPT ![d] = s]
         /\ due' = IF Final(s) THEN due ELSE due \cup {d}

Ensure_Skips(q) ==
    /\ step[q] = "ensure"
    /\ Goto(q, "answered")
    /\ UNCHANGED <<declarantVars, report, answered, doc, service, written,
                   records, polling>>

\* The row that is polled, rebuilt when a retry finds it missing; support is told when
\* the stored report cannot be read back for it.  The row's document may have been
\* deleted: then it cannot be written and the request fails.
Ensure(q) ==
    /\ step[q] = "ensure"
    /\ \/ /\ doc[q] \in documents
          /\ InsertRow(doc[q], answered[q])
          /\ Goto(q, "answered") /\ UNCHANGED <<answered, doc, alerted, faults>>
       \/ /\ recorded[doc[q]] = None /\ Fault
          /\ alerted' = alerted \cup {doc[q]}
          /\ Goto(q, "answered") /\ UNCHANGED <<answered, doc, recorded, due>>
       \/ doc[q] \notin documents /\ Fail(q) /\ UNCHANGED <<records, faults>>
    /\ UNCHANGED <<registration, report, service, written, polling>>

\* A report that was filed and recorded is answered even if its row cannot be written.
Follow(q) ==
    /\ step[q] = "follow"
    /\ \/ /\ doc[q] \in documents
          /\ InsertRow(doc[q], answered[q])
          /\ UNCHANGED <<alerted, faults>>
       \/ /\ doc[q] \in documents /\ Fault
          /\ alerted' = alerted \cup {doc[q]}
          /\ UNCHANGED <<recorded, due>>
       \/ doc[q] \notin documents /\ UNCHANGED <<records, faults>>
    /\ Goto(q, "answered")
    /\ UNCHANGED <<registration, report, answered, doc,
                   service, written, polling>>

\* A statement fails or the process stops.
RequestCrash(q) ==
    /\ step[q] \in {"find", "ensure", "record", "bill", "follow"}
    /\ Fault
    /\ Fail(q)
    /\ UNCHANGED <<registration, report, service, written, records, polling>>

Delete_KeepsRow(d) ==
    /\ d \in documents
    /\ Change
    /\ documents' = documents \ {d}
    /\ UNCHANGED <<declarant, registry, sync, support, faults, requests, service, older,
                   billed, records, polling>>

\* The owner deletes a document; its row goes with it.
Delete(d) ==
    /\ d \in documents
    /\ Change
    /\ documents' = documents \ {d}
    /\ recorded' = [recorded EXCEPT ![d] = None]
    /\ due' = due \ {d}
    /\ UNCHANGED <<declarant, registry, sync, support, faults, requests, service, older,
                   billed, alerted, polling>>

----------------------------------------------------------------------------
(* The status worker: every five minutes it looks up the reports whose check is due,  *)
(* one after another.                                                       *)

\* planNextStatusCheck: a settled event and a stale one are not looked up again.
Plans(s, isStale) == ~Final(s) /\ ~isStale

\* What a look kept is gone when it ends.
Leave(t) ==
    /\ looking' = [looking EXCEPT ![t] = "idle"]
    /\ at' = [at EXCEPT ![t] = None]
    /\ was' = [was EXCEPT ![t] = None]
    /\ heard' = [heard EXCEPT ![t] = None]

\* A worker skips its ticks while one runs; nothing keeps it from a row another process
\* is looking up.
Look(t, d) ==
    /\ looking[t] = "idle"
    /\ d \in due
    /\ looking' = [looking EXCEPT ![t] = "ask"]
    /\ at' = [at EXCEPT ![t] = d]
    /\ was' = [was EXCEPT ![t] = recorded[d]]
    /\ UNCHANGED <<declarantVars, requests, service, written, records, heard>>

\* The answer: where the report stands, with a status this side may not know, or that
\* there is no such report.
Ask(t) ==
    /\ looking[t] = "ask"
    /\ LET r == Ref(at[t])
           answer(known) == [known |-> known, stale |-> r \in stale,
                             standing |-> standing[r]]
       IN \/ r \in gone /\ UNCHANGED <<heard, faults>>
          \/ r \notin gone /\ heard' = [heard EXCEPT ![t] = answer(TRUE)]
               /\ UNCHANGED faults
          \/ r \notin gone /\ heard' = [heard EXCEPT ![t] = answer(FALSE)] /\ Fault
    /\ looking' = [looking EXCEPT ![t] = "write"]
    /\ UNCHANGED <<registration, requests, service, written, records, at, was>>

\* No answer: another look is planned.
AskFails(t) ==
    /\ looking[t] = "ask"
    /\ due' = due \cup ({at[t]} \cap documents)
    /\ Leave(t)
    /\ UNCHANGED <<declarantVars, requests, service, written, recorded, alerted>>

Learned_StatusOnly(t) ==
    [status  |-> IF heard[t].known THEN heard[t].standing.status ELSE was[t].status,
     outcome |-> was[t].outcome]

\* applyStatusReport: an unknown status leaves the status that is there, and the event
\* is looked at again whatever the plan.
Learned(t) ==
    [status  |-> IF heard[t].known THEN heard[t].standing.status ELSE was[t].status,
     outcome |-> heard[t].standing.outcome]

Stop(t) ==
    /\ looking[t] = "write"
    /\ heard[t] = None
    /\ due' = due \ {at[t]}
    /\ Leave(t)
    /\ UNCHANGED <<declarantVars, requests, service, written, recorded, alerted>>

Write_KeepsPlan(t) ==
    /\ looking[t] = "write"
    /\ heard[t] # None /\ at[t] \in documents
    /\ recorded' = [recorded EXCEPT ![at[t]] = Learned(t)]
    /\ due' = IF heard[t].known => Plans(Learned(t), heard[t].stale)
              THEN due ELSE due \ {at[t]}
    /\ Leave(t)
    /\ UNCHANGED <<declarantVars, requests, service, written, alerted>>

\* What was learned, whatever the row says by now, and another look; a change is then
\* published, which is only logged when it fails.
Write(t) ==
    /\ looking[t] = "write"
    /\ heard[t] # None /\ at[t] \in documents
    /\ recorded' = [recorded EXCEPT ![at[t]] = Learned(t)]
    /\ due' = IF heard[t].known => Plans(Learned(t), heard[t].stale)
              THEN due \cup {at[t]} ELSE due \ {at[t]}
    /\ Leave(t)
    /\ UNCHANGED <<declarantVars, requests, service, written, alerted>>

\* The row was deleted with its document.
WriteNothing(t) ==
    /\ looking[t] = "write"
    /\ heard[t] # None /\ at[t] \notin documents
    /\ Leave(t)
    /\ UNCHANGED <<declarantVars, requests, service, written, records>>

TickCrash(t) ==
    /\ looking[t] # "idle"
    /\ Fault
    /\ Leave(t)
    /\ UNCHANGED <<registration, requests, service, written, records>>

----------------------------------------------------------------------------
(* The reporting service and the tax administration.                        *)

\* The filing of the period is transmitted, and the administration rejects it or accepts
\* its deposit.
Moves(s) ==
    IF s.status = "accepted" THEN {[s EXCEPT !.status = "filed"]}
    ELSE IF s.status = "filed" /\ s.outcome = "open"
    THEN {[s EXCEPT !.outcome = "accepted"], [s EXCEPT !.status = "rejected"]}
    ELSE {}

Ruled(s) == Moves(s) = {}

Rule(r) ==
    /\ filed[r] # None /\ r \notin gone
    /\ \E s \in Moves(standing[r]) : standing' = [standing EXCEPT ![r] = s]
    /\ UNCHANGED <<filed, gone, stale, faults>>

Forget(r) ==
    /\ filed[r] # None /\ Fault
    /\ gone' = gone \cup {r}
    /\ UNCHANGED <<filed, standing, stale>>

GoesStale(r) ==
    /\ filed[r] # None /\ Fault
    /\ stale' = stale \cup {r}
    /\ UNCHANGED <<filed, standing, gone>>

ServiceStep ==
    /\ \E r \in Reference : Rule(r) \/ Forget(r) \/ GoesStale(r)
    /\ UNCHANGED <<registration, requests, written, records, polling>>

----------------------------------------------------------------------------
RequestStep(q) ==
    \/ \E r \in Report : Begin(q, r)
    \/ Assess(q) \/ Submit(q) \/ SubmitFails(q) \/ SubmitLost(q)
    \/ Find(q) \/ Record(q) \/ Bill(q) \/ Ensure(q) \/ Follow(q)
    \/ RequestCrash(q)

Finish(t)   == Stop(t) \/ Write(t) \/ WriteNothing(t)
TickStep(t) == Ask(t) \/ AskFails(t) \/ Finish(t) \/ TickCrash(t)

Next ==
    \/ DeclarantNext
         /\ UNCHANGED <<requests, service, written, records, polling>>
    \/ \E q \in Request : RequestStep(q) \/ Delete(q)
    \/ \E t \in Tick : TickStep(t) \/ \E d \in Request : Look(t, d)
    \/ ServiceStep

Spec == Init /\ [][Next]_vars

\* The worker's batch starts with the rows that waited longest, so none is passed over
\* for ever; a report the service is asked about again and again is answered.
Fairness ==
    /\ DeclarantFairness
    /\ \A t \in Tick : WF_vars(Ask(t) \/ AskFails(t) \/ Finish(t))
    /\ \A d \in Request : SF_vars(\E t \in Tick : Look(t, d))
                            /\ SF_vars(\E t \in Tick : at[t] = d /\ Ask(t))

FairSpec == Spec /\ Fairness

----------------------------------------------------------------------------
Step == {"idle", "assess", "submit", "find", "record", "bill", "follow",
         "ensure", "answered", "refused", "failed"}

TypeOK ==
    /\ DeclarantTypeOK
    /\ step \in [Request -> Step]
    /\ report \in [Request -> Report \cup {None}]
    /\ \A q \in Request : step[q] = "idle" \/ report[q] # None
    /\ answered \in [Request -> Status \cup {None}]
    /\ doc \in [Request -> Request \cup {None}]
    /\ filed \in [Reference -> Report \cup {None}]
    /\ standing \in [Reference -> Standing \cup {None}]
    /\ \A r \in Reference : filed[r] = None <=> standing[r] = None
    /\ gone \subseteq Reference /\ stale \subseteq Reference
    /\ documents \subseteq Request /\ billed \subseteq Request
    /\ older \in [Request -> SUBSET Request]
    /\ recorded \in [Request -> Standing \cup {None}]
    /\ due \subseteq documents /\ alerted \subseteq Request
    /\ looking \in [Tick -> {"idle", "ask", "write"}]
    /\ at \in [Tick -> Request \cup {None}]
    /\ was \in [Tick -> Standing \cup {None}]
    /\ heard \in [Tick -> Heard \cup {None}]

\* A report this side stopped looking up has been ruled on, and its row says how, unless
\* the service does not know it any more or its period ended long ago: a filed report is
\* not settled before its deposit is accepted, a status nobody knows settles nothing, and
\* a ruling that a late answer of another worker overwrites is looked up again
\* (planNextStatusCheck, applyStatusReport, refreshFrenchReportingSubmission).
NotForgotten ==
    \A d \in documents :
        recorded[d] # None /\ d \notin due =>
            \/ Ruled(standing[Ref(d)]) /\ recorded[d] = standing[Ref(d)]
            \/ Ref(d) \in stale \cup gone

\* A report answered as filed is looked up, or support knows it is not, whichever of
\* several requests wrote its document and wherever another one stopped
\* (ensureFrenchReportingSubmissionRecord, recordFrenchReportingSubmission).
AnsweredIsFollowed ==
    \A q \in Request :
        step[q] = "answered" /\ doc[q] \in documents
            => recorded[doc[q]] # None \/ doc[q] \in alerted

\* A ruling on a report with a row reaches the row, its status and its outcome, however
\* often the service does not answer, answers with what this side does not know or is
\* overtaken by a later answer, unless the report is deleted, forgotten by the service or
\* stale (initializeFrenchReportingStatusCron).
Behind ==
    {d \in documents :
        /\ recorded[d] # None /\ Ref(d) \notin stale \cup gone
        /\ Ruled(standing[Ref(d)]) /\ recorded[d] # standing[Ref(d)]}

RulingIsLearned == \A d \in Request : d \in Behind ~> d \notin Behind
=============================================================================
