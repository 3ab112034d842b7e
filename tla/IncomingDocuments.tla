------------------------- MODULE IncomingDocuments -------------------------
(***************************************************************************)
(* Receiving a document (src/utils/pipelines/receiving).  The access point of *)
(* Arratech reports a transaction until it is answered, and its webhook       *)
(* (src/api/internal/arratech-webhook.ts) looks for the document first; our    *)
(* own access point hands a document over with a call                          *)
(* (src/api/internal/receive-document.ts) that carries no transaction id.     *)
(***************************************************************************)
EXTENDS DocumentNotifications

CONSTANTS
    Transaction, \* received transactions of Arratech's access point
    Call,        \* documents our own access point received
    Charged      \* those among both that are billable

Incoming == Transaction \cup Call
Label == {"idle", "fetch", "insert", "publish", "bill", "load", "next", "mail",
          "refused", "unreachable", "mark", "answer", "ended"}

ASSUME IncomingAssumption == 
    Transaction \cap Call = {} /\ None \notin Incoming /\ Charged \subseteq Incoming

VARIABLES
    unanswered, \* what the access points deliver and deliver again
    at,         \* what each request was delivered
    announced,  \* the documents with a peppol.document.received event
    billed      \* those with a transfer event

books == <<announced, billed>>
vars  == <<notificationVars, unanswered, at, books>>

\* What a request leaves alone while it does not notify anyone.
notifications ==
    <<todo, to, row, addresses, service, clock, applying, found, changes>>

Init ==
    /\ InitNotifications
    /\ unanswered = Incoming
    /\ at = [r \in Request |-> None]
    /\ announced = {} /\ billed = {}

\* A row holds the id of a transaction.
Recorded(t) == t \in Transaction /\ \E d \in Request : doc[d] = "kept" /\ at[d] = t

\* The event or the call, the first time or again.  The webhook answers at once what is
\* recorded already.
Receive(r, t) ==
    /\ pc[r] = "idle" /\ t \in unanswered
    /\ at' = [at EXCEPT ![r] = t]
    /\ Goto(r, IF Recorded(t) THEN "answer" ELSE "fetch")
    /\ UNCHANGED <<notifications, doc, unanswered, books, faults>>

Fetch_Answered(r) ==
    /\ pc[r] = "fetch"
    /\ Goto(r, "insert") \/ Goto(r, "answer")
    /\ UNCHANGED <<notifications, doc, unanswered, at, books, faults>>

\* Download, company, content and validation: a document that cannot be downloaded, is
\* for no company or has the wrong content is refused with an error.
Fetch(r) ==
    /\ pc[r] = "fetch"
    /\ Goto(r, "insert") \/ Goto(r, "ended")
    /\ UNCHANGED <<notifications, doc, unanswered, at, books, faults>>

Insert_Unindexed(r) ==
    /\ pc[r] = "insert"
    /\ doc' = [doc EXCEPT ![r] = "kept"] /\ Goto(r, "publish")
    /\ UNCHANGED <<notifications, unanswered, at, books, faults>>

\* The unique index on the transaction id refuses a second row, and the request fails.
Insert(r) ==
    /\ pc[r] = "insert"
    /\ IF Recorded(at[r])
       THEN Goto(r, "ended") /\ UNCHANGED doc
       ELSE doc' = [doc EXCEPT ![r] = "kept"] /\ Goto(r, "publish")
    /\ UNCHANGED <<notifications, unanswered, at, books, faults>>

Publish(r) ==
    /\ pc[r] = "publish"
    /\ announced' = announced \cup {r}
    /\ Goto(r, "bill")
    /\ UNCHANGED <<notifications, doc, unanswered, at, billed, faults>>

\* Receipts and statuses of the platform are not charged.
Bill(r) ==
    /\ pc[r] = "bill"
    /\ billed' = IF at[r] \in Charged THEN billed \cup {r} ELSE billed
    /\ Goto(r, "load")
    /\ UNCHANGED <<notifications, doc, unanswered, at, announced, faults>>

Answer(r) ==
    /\ pc[r] = "answer"
    /\ unanswered' = unanswered \ {at[r]}
    /\ Goto(r, "ended")
    /\ UNCHANGED <<notifications, doc, at, books, faults>>

\* A statement before the notifications fails, the process dies or the answer is lost:
\* the access point will deliver again.
Stop(r) ==
    /\ pc[r] \notin {"idle", "ended"} /\ Fault
    /\ Goto(r, "ended")
    /\ UNCHANGED <<todo, to, row, addresses, service, clock, applying, found, doc,
                   unanswered, at, books>>

RequestStep(r) ==
    \/ \E t \in Incoming : Receive(r, t)
    \/ Fetch(r) \/ Insert(r) \/ Publish(r) \/ Bill(r) \/ Answer(r)
    \/ Stop(r)

Next ==
    \/ \E r \in Request : RequestStep(r)
    \/ NotificationNext /\ UNCHANGED <<unanswered, at, books>>

Spec == Init /\ [][Next]_vars

----------------------------------------------------------------------------
(* Properties.                                                              *)

TypeOK ==
    /\ NotificationTypeOK
    /\ pc \in [Request -> Label]
    /\ unanswered \in SUBSET Incoming /\ at \in [Request -> Incoming \cup {None}]
    /\ announced \in SUBSET Request /\ billed \in SUBSET Request

\* Whether a request has shown a document to its owner in any way.
Shown(d) ==
    \/ doc[d] # "none" \/ d \in announced \cup billed
    \/ \E a \in Address : mail[<<d, a>>] # "none"

\* However often a transaction is delivered, and although every delivery first looks for
\* it, downloads and uploads before it inserts: the owner gets, is told of and is charged
\* for one document, unless he has deleted it in between.
ReceivedOnce ==
    \A d, e \in Request :
        d # e /\ at[d] = at[e] /\ at[d] \in Transaction /\ Shown(d) /\ Shown(e)
            => doc[d] = "deleted" \/ doc[e] = "deleted"

\* What an access point was answered about has been received: it will not be delivered
\* again.
AnsweredIsReceived ==
    \A t \in Incoming \ unanswered : \E d \in Request : at[d] = t /\ doc[d] # "none"
============================================================================
