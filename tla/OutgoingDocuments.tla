------------------------- MODULE OutgoingDocuments -------------------------
(***************************************************************************)
(* Who records a transaction of the access point as a document.  A document  *)
(* we send ourselves is recorded by the request that sends it                *)
(* (src/utils/pipelines/sending); the access point reports every transaction *)
(* it completed, also those it made on its own, until it is answered, and    *)
(* the webhook records the ones no send of ours has claimed                  *)
(* (src/data/provider-sent).  Both record through recordOutgoingDocument.    *)
(* The delivery status a report carries is the subject of DeliveryReports.   *)
(***************************************************************************)
EXTENDS Naturals, FiniteSets

CONSTANTS
    Send,       \* our sends, each a transaction if the access point takes it
    Automatic,  \* transactions the access point makes on its own
    Webhook,    \* concurrent requests of the access point
    None,       \* no transaction
    MaxFault    \* bound: failing statements and requests, lost answers, crashes

Transaction == Send \cup Automatic
Recorder    == Send \cup Webhook
Row         == Recorder \X Transaction
Channel     == {"peppol", "email"}
Label       == {"idle", "claim", "post", "mail", "claimed", "known", "insert", "publish",
                "bill", "answer", "ended"}

ASSUME OutgoingAssumption ==
    /\ Send \cap Automatic = {} /\ Transaction \cap Webhook = {} /\ None \notin Transaction
    /\ MaxFault \in Nat

VARIABLES
    wants,      \* input.email of each send: "none", "always" or "on_failure"
    named,      \* the sends whose report names their envelope, which it need not
    claim,      \* outgoing_envelope_claims: "none", "held", "failed" or "pruned"
    taken,      \* the transactions the access point has completed
    unanswered, \* those whose report it repeats
    pc,         \* the await each request is at
    at,         \* the transaction each webhook request is about
    sent,       \* the sends whose transmission was answered with a transaction id
    mailed,     \* the sends whose email the mail service took
    answered,   \* the sends answered as successful
    rows,       \* transmitted_documents: who recorded them, and the transaction
    holder,     \* the rows with an ap_transaction_id
    announced,  \* the rows with a peppol.document.sent event
    billed,     \* the transfer events: a row and a channel
    faults      \* faults so far

given    == <<wants, named>>
sending  == <<given, sent, mailed, answered>>
provider == <<taken, unanswered>>
records  == <<rows, holder, announced, billed>>
vars     == <<sending, claim, provider, pc, at, records, faults>>

Of(r) == IF r \in Send THEN r ELSE at[r]

\* Each recorder inserts a document with an id of its own.
RowOf(r) == <<r, Of(r)>>

\* The transmission a row stands for has its id: the unique index allows one.
Recorded(t) == \E row \in holder : row[2] = t

Init ==
    /\ wants \in [Send -> {"none", "always", "on_failure"}] /\ named \in SUBSET Send
    /\ claim = [t \in Transaction |-> "none"]
    /\ taken = {} /\ unanswered = {}
    /\ pc = [r \in Recorder |-> "idle"]
    /\ at = [w \in Webhook |-> None]
    /\ sent = {} /\ mailed = {} /\ answered = {}
    /\ rows = {} /\ holder = {} /\ announced = {} /\ billed = {}
    /\ faults = 0

Goto(r, l) == pc' = [pc EXCEPT ![r] = l]
Fault == faults < MaxFault /\ faults' = faults + 1

----------------------------------------------------------------------------
(* The request that sends.                                                  *)

\* Without a transaction the document leaves by email, or not at all.
Unsent(s) == Goto(s, IF wants[s] = "none" THEN "ended" ELSE "mail")

\* A recipient that is not on the network is not transmitted to.
Prepare(s) ==
    /\ pc[s] = "idle"
    /\ Goto(s, "claim") \/ Unsent(s)
    /\ UNCHANGED <<sending, claim, provider, at, records, faults>>

\* The claim is bookkeeping: a failing insert does not stop the send.
ClaimEnvelope(s) ==
    /\ pc[s] = "claim"
    /\ \/ claim' = [claim EXCEPT ![s] = "held"] /\ UNCHANGED faults
       \/ claim' = [claim EXCEPT ![s] = "failed"] /\ Fault
    /\ Goto(s, "post")
    /\ UNCHANGED <<sending, provider, at, records>>

\* The access point takes the document and names its transaction, or refuses it; or
\* takes it and its answer is lost, which reads as a refusal.
Transmit(s) ==
    /\ pc[s] = "post"
    /\ \/ /\ taken' = taken \cup {s} /\ unanswered' = unanswered \cup {s}
          /\ sent' = sent \cup {s}
          /\ Goto(s, IF wants[s] = "always" THEN "mail" ELSE "insert")
          /\ UNCHANGED faults
       \/ Unsent(s) /\ UNCHANGED <<sent, provider, faults>>
       \/ /\ Fault /\ taken' = taken \cup {s} /\ unanswered' = unanswered \cup {s}
          /\ Unsent(s) /\ UNCHANGED sent
    /\ UNCHANGED <<given, mailed, answered, claim, at, records>>

\* With nothing transmitted and nothing mailed the send is refused.
Mail(s) ==
    /\ pc[s] = "mail"
    /\ \/ mailed' = mailed \cup {s} /\ Goto(s, "insert")
       \/ Goto(s, IF s \in sent THEN "insert" ELSE "ended") /\ UNCHANGED mailed
    /\ UNCHANGED <<given, sent, answered, claim, provider, at, records, faults>>

Answer(s) ==
    /\ pc[s] = "answer"
    /\ answered' = answered \cup {s}
    /\ Goto(s, "ended")
    /\ UNCHANGED <<given, sent, mailed, claim, provider, at, records, faults>>

\* A statement fails, and the send with it, or the process dies.
SendStops(s) ==
    /\ pc[s] \notin {"idle", "ended"} /\ Fault
    /\ Goto(s, "ended")
    /\ UNCHANGED <<sending, claim, provider, at, records>>

\* Claims are kept for a day, longer than any send.
PruneClaim(s) ==
    /\ claim[s] = "held" /\ pc[s] = "ended"
    /\ claim' = [claim EXCEPT ![s] = "pruned"]
    /\ UNCHANGED <<sending, provider, pc, at, records, faults>>

----------------------------------------------------------------------------
(* recordOutgoingDocument, by a send or a webhook request.                   *)

HasId(r) == r \in Send => r \in sent

Insert_GoesOn(r) ==
    /\ pc[r] = "insert"
    /\ rows' = rows \cup {RowOf(r)}
    /\ holder' = IF HasId(r) THEN holder \cup {RowOf(r)} ELSE holder
    /\ Goto(r, "publish")
    /\ UNCHANGED <<sending, claim, provider, at, announced, billed, faults>>

\* A transaction that is recorded already is left as it is.
Insert(r) ==
    /\ pc[r] = "insert"
    /\ \/ /\ HasId(r) /\ Recorded(Of(r))
          /\ Goto(r, "answer")
          /\ UNCHANGED <<rows, holder>>
       \/ /\ ~(HasId(r) /\ Recorded(Of(r)))
          /\ rows' = rows \cup {RowOf(r)}
          /\ holder' = IF HasId(r) THEN holder \cup {RowOf(r)} ELSE holder
          /\ Goto(r, "publish")
    /\ UNCHANGED <<sending, claim, provider, at, announced, billed, faults>>

Publish(r) ==
    /\ pc[r] = "publish"
    /\ announced' = announced \cup {RowOf(r)}
    /\ Goto(r, "bill")
    /\ UNCHANGED <<sending, claim, provider, at, rows, holder, billed, faults>>

Channels_OnlyPeppol(r) == {"peppol"}

Channels(r) ==
    (IF HasId(r) THEN {"peppol"} ELSE {}) \cup (IF r \in mailed THEN {"email"} ELSE {})

\* One transfer event for each transmission, in one insert.
Bill(r) ==
    /\ pc[r] = "bill"
    /\ billed' = billed \cup ({RowOf(r)} \X Channels(r))
    /\ Goto(r, "answer")
    /\ UNCHANGED <<sending, claim, provider, at, rows, holder, announced, faults>>

----------------------------------------------------------------------------
(* The access point and its webhook.                                        *)

\* The access point answers a document on its own (external).
SendsItself(t) ==
    /\ t \notin taken
    /\ taken' = taken \cup {t} /\ unanswered' = unanswered \cup {t}
    /\ UNCHANGED <<sending, claim, pc, at, records, faults>>

\* A report, or its repetition while the first is still being handled.
Receive(w, t) ==
    /\ pc[w] = "idle" /\ t \in unanswered
    /\ at' = [at EXCEPT ![w] = t]
    /\ Goto(w, "claimed")
    /\ UNCHANGED <<sending, claim, provider, records, faults>>

FindClaim_Skipped(w) ==
    /\ pc[w] = "claimed"
    /\ Goto(w, "known")
    /\ UNCHANGED <<sending, claim, provider, at, records, faults>>

\* A claimed envelope is left to the request that sent it; a report that does not name
\* its envelope is not looked up.
FindClaim(w) ==
    /\ pc[w] = "claimed"
    /\ Goto(w, IF at[w] \in named /\ claim[at[w]] = "held" THEN "answer" ELSE "known")
    /\ UNCHANGED <<sending, claim, provider, at, records, faults>>

\* The document is downloaded before it is recorded.
FindRecorded(w) ==
    /\ pc[w] = "known"
    /\ Goto(w, IF Recorded(at[w]) THEN "answer" ELSE "insert")
    /\ UNCHANGED <<sending, claim, provider, at, records, faults>>

WebhookFails_Answered(w) ==
    /\ pc[w] \notin {"idle", "ended"} /\ Fault
    /\ unanswered' = unanswered \ {at[w]}
    /\ Goto(w, "idle")
    /\ at' = [at EXCEPT ![w] = None]
    /\ UNCHANGED <<sending, claim, taken, records>>

\* A download or a statement fails, the process dies or the answer is lost: the report
\* will be repeated.
WebhookFails(w) ==
    /\ pc[w] # "idle" /\ Fault
    /\ Goto(w, "idle")
    /\ at' = [at EXCEPT ![w] = None]
    /\ UNCHANGED <<sending, claim, provider, records>>

Acknowledge(w) ==
    /\ pc[w] = "answer"
    /\ unanswered' = unanswered \ {at[w]}
    /\ Goto(w, "idle")
    /\ at' = [at EXCEPT ![w] = None]
    /\ UNCHANGED <<sending, claim, taken, records, faults>>

----------------------------------------------------------------------------
Record(r) == Insert(r) \/ Publish(r) \/ Bill(r)

SendStep(s) ==
    Prepare(s) \/ ClaimEnvelope(s) \/ Transmit(s) \/ Mail(s) \/ Record(s) \/ Answer(s)

WebhookStep(w) == FindClaim(w) \/ FindRecorded(w) \/ Record(w) \/ Acknowledge(w)

Next ==
    \/ \E s \in Send : SendStep(s) \/ SendStops(s) \/ PruneClaim(s)
    \/ \E t \in Automatic : SendsItself(t)
    \/ \E w \in Webhook :
          WebhookStep(w) \/ WebhookFails(w) \/ \E t \in Transaction : Receive(w, t)

Spec == Init /\ [][Next]_vars

\* The access point repeats its reports, and requests that are not stopped go on.
Fairness ==
    /\ \A s \in Send : WF_vars(SendStep(s) /\ pc[s] # "idle")
    /\ \A w \in Webhook : WF_vars(WebhookStep(w))
    /\ \A w \in Webhook, t \in Transaction : SF_vars(Receive(w, t))

FairSpec == Spec /\ Fairness
----------------------------------------------------------------------------
(* Properties.                                                              *)

TypeOK ==
    /\ wants \in [Send -> {"none", "always", "on_failure"}] /\ named \subseteq Send
    /\ claim \in [Transaction -> {"none", "held", "failed", "pruned"}]
    /\ taken \subseteq Transaction /\ unanswered \subseteq taken
    /\ pc \in [Recorder -> Label]
    /\ at \in [Webhook -> Transaction \cup {None}]
    /\ \A w \in Webhook : pc[w] # "idle" <=> at[w] \in Transaction
    /\ sent \subseteq Send /\ mailed \subseteq Send /\ answered \subseteq Send
    /\ holder \subseteq rows /\ rows \subseteq Row
    /\ announced \subseteq rows /\ billed \subseteq rows \X Channel
    /\ faults \in 0..MaxFault

\* A transaction is billed once, however its send, its report and the repetitions of the
\* report overlap, each inserting a document of its own, and whatever stops them.
TransactionBilledOnce ==
    \A b, c \in billed :
        b[2] = "peppol" /\ c[2] = "peppol" /\ b[1][2] = c[1][2] => b = c

\* "There is no window in which both could act on the same transaction": while the claim
\* of a send's envelope is kept, no report that names the envelope records the transaction,
\* also one that overtakes the send or comes after it has stopped.
ClaimKeepsReportsOut ==
    \A s \in Send \cap named : claim[s] = "held" =>
        \A w \in Webhook : <<w, s>> \notin rows

\* A send answered as successful has its document, and if it recorded the document
\* itself, its event and a transfer event for each transmission that left.
AnsweredIsBooked ==
    \A s \in answered :
        /\ s \in sent => Recorded(s)
        /\ <<s, s>> \in rows =>
              /\ <<s, s>> \in announced
              /\ s \in sent => <<<<s, s>>, "peppol">> \in billed
              /\ s \in mailed => <<<<s, s>>, "email">> \in billed

\* The access point's own transactions are documents once it has been answered.
ReportedIsRecorded == \A t \in Automatic : t \in taken \ unanswered => Recorded(t)

\* ... and it is answered in the end.
AutoIsRecorded == \A t \in Automatic : t \in taken ~> Recorded(t)
============================================================================
