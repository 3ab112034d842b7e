----------------------- MODULE DocumentNotifications -----------------------
(***************************************************************************)
(* The emails that tell a company of a document                             *)
(* (src/data/send-document-notifications.ts) and what is kept of them         *)
(* (src/data/document-notifications.ts): a row per email, written before the  *)
(* email leaves and moved by the mail service's reports, and a mark on an     *)
(* address the service takes no mail for.  A report is repeated until it is    *)
(* answered, and reports come in any order.  The request that sends them is a   *)
(* parameter; IncomingDocuments has the one that receives a document.        *)
(***************************************************************************)
EXTENDS Naturals

CONSTANTS
    Request,    \* the requests that record a document, and their documents
    Address,    \* the email addresses of the company
    Reporter,   \* concurrent webhook requests of the mail service
    None,       \* nothing
    MaxChange,  \* bound: changes by the owner, addresses reactivated
    MaxFault    \* bound: failing statements and requests, lost answers, crashes

Notification == Request \X Address
Outcome == {"delivered", "failed"}

ASSUME NotificationAssumption ==
    /\ None \notin Notification
    /\ MaxChange \in Nat /\ MaxFault \in Nat

VARIABLES
    pc,         \* the await each request is at
    todo,       \* the addresses its loop has left
    to,         \* the address it is at
    doc,        \* the document: "none", "kept" or "deleted"
    row,        \* the status of the row of a notification
    configured, \* the addresses with a row in the notification addresses
    mark,       \* unreachable_since of that row; 0 is NULL
    mail,       \* at the mail service: what became of each message
    active,     \* at the mail service: the addresses it takes mail for
    reports,    \* at the mail service: the reports it repeats
    clock,      \* the time of the last event that is dated
    handling,   \* the report each webhook request is about
    stage,      \* the await it is at
    down,       \* auxiliary: the message whose bounce first deactivated an address
    past,       \* auxiliary: the addresses of which that is not the last word
    changes,    \* changes so far
    faults      \* faults so far

sending   == <<pc, todo, to>>
addresses == <<configured, mark>>
service   == <<mail, active, reports>>
found     == <<down, past>>
applying  == <<handling, stage>>
bounds    == <<changes, faults>>
notificationVars ==
    <<sending, doc, row, addresses, service, clock, applying, found, bounds>>

Report == [of : Notification, status : Outcome, deactivated : BOOLEAN, at : Nat]

InitNotifications ==
    /\ pc = [r \in Request |-> "idle"]
    /\ todo = [r \in Request |-> {}]
    /\ to = [r \in Request |-> None]
    /\ doc = [r \in Request |-> "none"]
    /\ row = [n \in Notification |-> "none"]
    /\ configured \in SUBSET Address
    /\ mark = [a \in Address |-> 0]
    /\ mail = [n \in Notification |-> "none"]
    /\ active = Address /\ reports = {} /\ clock = 0
    /\ handling = [h \in Reporter |-> None]
    /\ stage = [h \in Reporter |-> "idle"]
    /\ down = [a \in Address |-> None] /\ past = {}
    /\ changes = 0 /\ faults = 0

Goto(r, l) == pc' = [pc EXCEPT ![r] = l]
Fault  == faults < MaxFault /\ faults' = faults + 1 /\ UNCHANGED changes
Change == changes < MaxChange /\ changes' = changes + 1 /\ UNCHANGED faults

----------------------------------------------------------------------------
(* The loop over the addresses.                                             *)

\* The addresses as they are now; none for a type without notifications.  A failure
\* here is caught by the pipeline, which goes on without notifications.
LoadAddresses(r) ==
    /\ pc[r] = "load"
    /\ \/ /\ todo' = [todo EXCEPT ![r] = configured]
          /\ Goto(r, IF configured = {} THEN "answer" ELSE "next")
          /\ UNCHANGED bounds
       \/ Goto(r, "answer") /\ UNCHANGED <<todo, bounds>>
    /\ UNCHANGED <<to, doc, row, addresses, service, clock, applying, found>>

\* Where the loop goes after an address.
Onward(r) == IF todo[r] = {} THEN "answer" ELSE "next"

\* recordNotificationAttempt: when the row cannot be written, as for a document that
\* was deleted, the email is sent without one.
Attempt(r, a) ==
    /\ pc[r] = "next" /\ a \in todo[r]
    /\ todo' = [todo EXCEPT ![r] = @ \ {a}]
    /\ to' = [to EXCEPT ![r] = a]
    /\ Goto(r, "mail")
    /\ \/ doc[r] = "kept" /\ row' = [row EXCEPT ![<<r, a>>] = "pending"] /\ UNCHANGED bounds
       \/ doc[r] # "kept" /\ UNCHANGED <<row, bounds>>
       \/ Fault /\ UNCHANGED row
    /\ UNCHANGED <<doc, addresses, service, clock, applying, found>>

\* The mail service takes the message, refuses it because of its address, or the send
\* fails otherwise, also when only the answer was lost.
Mail(r) ==
    /\ pc[r] = "mail"
    /\ LET n == <<r, to[r]>> IN
       \/ /\ to[r] \in active
          /\ mail' = [mail EXCEPT ![n] = "taken"]
          /\ Goto(r, Onward(r)) /\ UNCHANGED bounds
       \/ to[r] \notin active /\ Goto(r, "unreachable") /\ UNCHANGED <<mail, bounds>>
       \/ Fault /\ Goto(r, "refused") /\ UNCHANGED mail
       \/ /\ to[r] \in active /\ Fault
          /\ mail' = [mail EXCEPT ![n] = "taken"]
          /\ Goto(r, "refused")
    /\ UNCHANGED <<todo, to, doc, row, addresses, active, reports, clock, applying, found>>

\* recordNotificationRefused, whatever a report has made of the row; a statement that
\* fails is logged and passed over.
RecordRefusal(r) ==
    /\ pc[r] \in {"refused", "unreachable"}
    /\ \/ /\ row' = [row EXCEPT ![<<r, to[r]>>] =
                         IF @ \in {"none", "deleted"} THEN @ ELSE "failed"]
          /\ UNCHANGED bounds
       \/ Fault /\ UNCHANGED row
    /\ Goto(r, IF pc[r] = "unreachable" THEN "mark" ELSE Onward(r))
    /\ UNCHANGED <<todo, to, doc, addresses, service, clock, applying, found>>

\* markNotificationAddressUnreachable: an address already marked keeps its date.
Marked(a, at) ==
    [mark EXCEPT ![a] = IF a \in configured /\ @ = 0 THEN at ELSE @]

MarkRefused(r) ==
    /\ pc[r] = "mark"
    /\ \/ mark' = Marked(to[r], clock + 1) /\ clock' = clock + 1 /\ UNCHANGED bounds
       \/ Fault /\ UNCHANGED <<mark, clock>>
    /\ Goto(r, Onward(r))
    /\ UNCHANGED <<todo, to, doc, row, configured, service, applying, found>>

----------------------------------------------------------------------------
(* The mail service (external).                                             *)

\* What is said of a message that carries the id of its row.
Say(n, status, deactivated) ==
    /\ clock' = clock + 1
    /\ reports' = IF row[n] = "none" THEN reports
                  ELSE reports \cup {[of |-> n, status |-> status,
                                      deactivated |-> deactivated, at |-> clock + 1]}

Deliver(n) ==
    /\ mail[n] = "taken"
    /\ mail' = [mail EXCEPT ![n] = "delivered"]
    /\ Say(n, "delivered", FALSE)
    /\ past' = IF down[n[2]] = None THEN past ELSE past \cup {n[2]}
    /\ UNCHANGED <<sending, doc, row, addresses, active, applying, down, bounds>>

\* A bounce may follow the acceptance of the receiving server; some deactivate the address.
Bounce(n) ==
    /\ mail[n] \in {"taken", "delivered"}
    /\ \/ /\ mail' = [mail EXCEPT ![n] = "bounced"] /\ Say(n, "failed", FALSE)
          /\ UNCHANGED <<active, down>>
       \/ /\ mail' = [mail EXCEPT ![n] = "deactivated"] /\ Say(n, "failed", TRUE)
          /\ active' = active \ {n[2]}
          /\ down' = [down EXCEPT ![n[2]] = IF @ = None THEN n ELSE @]
    /\ UNCHANGED <<sending, doc, row, addresses, applying, past, bounds>>

Reactivate(a) ==
    /\ a \notin active /\ Change
    /\ active' = active \cup {a}
    /\ UNCHANGED <<sending, doc, row, addresses, mail, reports, clock, applying, found>>

----------------------------------------------------------------------------
(* The webhook of the mail service, applyNotificationReport.                 *)

\* A report, or its repetition while the first is still being handled.  One on a row
\* that is gone is answered as unknown.
TakeReport(h, p) ==
    /\ stage[h] = "idle" /\ p \in reports
    /\ \/ /\ row[p.of] # "deleted"
          /\ handling' = [handling EXCEPT ![h] = p]
          /\ stage' = [stage EXCEPT ![h] = "move"]
          /\ UNCHANGED reports
       \/ /\ row[p.of] = "deleted"
          /\ reports' = reports \ {p}
          /\ UNCHANGED applying
    /\ UNCHANGED <<sending, doc, row, addresses, mail, active, clock, found, bounds>>

Movable_Pending(status) == {"pending"}
Movable(status) == IF status = "failed" THEN {"pending", "delivered"} ELSE {"pending"}

\* A pending notification takes either outcome, a delivered one can still fail.
MoveNotification(h) ==
    /\ stage[h] = "move"
    /\ LET p == handling[h] IN
       row' = [row EXCEPT ![p.of] = IF @ \in Movable(p.status) THEN p.status ELSE @]
    /\ stage' = [stage EXCEPT ![h] = "mark"]
    /\ UNCHANGED <<sending, doc, addresses, service, clock, handling, found, bounds>>

Cleared_Always(a, at) == [mark EXCEPT ![a] = 0]
Cleared(a, at) == [mark EXCEPT ![a] = IF @ < at THEN 0 ELSE @]

Idle(h) ==
    /\ handling' = [handling EXCEPT ![h] = None]
    /\ stage' = [stage EXCEPT ![h] = "idle"]

\* The mark is set by a report that deactivated the address, which is passed over when
\* the statement fails, and lifted by one of a delivery after it was set.  Then the
\* report is answered, unless that answer is lost.
MarkReported(h) ==
    /\ stage[h] = "mark"
    /\ LET p == handling[h]
           marks == IF p.status = "delivered" THEN Cleared(p.of[2], p.at)
                    ELSE IF p.deactivated THEN Marked(p.of[2], p.at) ELSE mark
       IN \/ /\ mark' = marks /\ reports' = reports \ {p}
             /\ UNCHANGED <<past, bounds>>
          \/ mark' = marks /\ Fault /\ UNCHANGED <<past, reports>>
          \/ /\ p.deactivated /\ Fault
             /\ reports' = reports \ {p} /\ past' = past \cup {p.of[2]}
             /\ UNCHANGED mark
    /\ Idle(h)
    /\ UNCHANGED <<sending, doc, row, configured, mail, active, clock, down>>

\* A statement fails or the process dies.
ReportFails(h) ==
    /\ stage[h] # "idle" /\ Fault /\ Idle(h)
    /\ UNCHANGED <<sending, doc, row, addresses, service, clock, found>>

----------------------------------------------------------------------------
(* The owner.                                                               *)

\* createCompanyNotificationEmailAddress, or another email in the place of one:
\* the new address starts without a mark.
Configure(a, replaced) ==
    /\ a \notin configured /\ replaced \subseteq configured /\ Change
    /\ configured' = (configured \ replaced) \cup {a}
    /\ mark' = [b \in Address |-> IF b \in replaced \cup {a} THEN 0 ELSE mark[b]]
    /\ past' = IF down[a] = None THEN past ELSE past \cup {a}
    /\ UNCHANGED <<sending, doc, row, service, clock, applying, down>>

Unconfigure(a) ==
    /\ a \in configured /\ Change
    /\ configured' = configured \ {a}
    /\ mark' = [mark EXCEPT ![a] = 0]
    /\ UNCHANGED <<sending, doc, row, service, clock, applying, found>>

\* The rows of its notifications go with a document.
DeleteDocument(d) ==
    /\ doc[d] = "kept" /\ Change
    /\ doc' = [doc EXCEPT ![d] = "deleted"]
    /\ row' = [n \in Notification |->
                  IF n[1] = d /\ row[n] # "none" THEN "deleted" ELSE row[n]]
    /\ UNCHANGED <<sending, addresses, service, clock, applying, found>>

----------------------------------------------------------------------------
NotifyStep(r) ==
    \/ LoadAddresses(r) \/ Mail(r) \/ RecordRefusal(r) \/ MarkRefused(r)
    \/ \E a \in Address : Attempt(r, a)

ReportStep(h) ==
    MoveNotification(h) \/ MarkReported(h) \/ ReportFails(h) \/ \E p \in reports : TakeReport(h, p)

NotificationNext ==
    \/ \E r \in Request : NotifyStep(r) \/ DeleteDocument(r)
    \/ \E n \in Notification : Deliver(n) \/ Bounce(n)
    \/ \E h \in Reporter : ReportStep(h)
    \/ \E a \in Address :
          \/ Reactivate(a) \/ Unconfigure(a)
          \/ \E replaced \in {{}} \cup {{b} : b \in configured} : Configure(a, replaced)

----------------------------------------------------------------------------
(* Properties.                                                              *)

NotificationTypeOK ==
    /\ todo \in [Request -> SUBSET Address]
    /\ to \in [Request -> Address \cup {None}]
    /\ doc \in [Request -> {"none", "kept", "deleted"}]
    /\ row \in [Notification -> {"none", "pending", "deleted"} \cup Outcome]
    /\ configured \in SUBSET Address /\ mark \in [Address -> Nat]
    /\ mail \in [Notification -> {"none", "taken", "delivered", "bounced", "deactivated"}]
    /\ active \in SUBSET Address /\ reports \in SUBSET Report /\ clock \in Nat
    /\ handling \in [Reporter -> Report \cup {None}]
    /\ stage \in [Reporter -> {"idle", "move", "mark"}]
    /\ \A h \in Reporter : stage[h] # "idle" => handling[h] \in Report
    /\ down \in [Address -> Notification \cup {None}] /\ past \in SUBSET Address
    /\ changes \in 0..MaxChange /\ faults \in 0..MaxFault

Outstanding(n) == \E p \in reports : p.of = n

\* A notification that bounced is shown as failed once the reports about it are answered,
\* in whatever order they came, were repeated, or met the request that sends it (the
\* fields of document_notifications, applyNotificationReport).
BounceIsShown ==
    \A n \in Notification :
        mail[n] \in {"bounced", "deactivated"} /\ row[n] \notin {"none", "deleted"}
            => Outstanding(n) \/ row[n] = "failed"

\* The first bounce that deactivates an address marks it, and "a delivery that happened
\* before the bounce says nothing about the address now": until mail to it is delivered
\* again or the address is changed, no late or repeated report lifts the mark (unless
\* the statement that sets it failed).
UnreachableIsShown ==
    \A a \in configured \ past : \A n \in Notification :
        down[a] = n /\ row[n] \notin {"none", "deleted"}
        => Outstanding(n) \/ mark[a] # 0
============================================================================
