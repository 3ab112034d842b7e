---------------------- MODULE IncomingDocumentsProofs ----------------------
(***************************************************************************)
(* A received document is there once, and what its owner is told of his        *)
(* notifications is true, for any number of deliveries, addresses, reports,    *)
(* changes and faults.  A report is about a message that was sent once: its     *)
(* row exists, was written before, and is not written again.                   *)
(***************************************************************************)
EXTENDS IncomingDocuments, TLAPS

\* Where a request stands between its insert and the end of its loop.
Fresh   == {"idle", "fetch", "insert"}
Working == {"publish", "bill", "load", "next", "mail", "refused", "unreachable", "mark"}

\* What was shown is a document, and there is one per transaction.
DocumentInv ==
    /\ \A r \in Request :
          /\ pc[r] \in Fresh => doc[r] = "none"
          /\ pc[r] \in Working => doc[r] # "none"
          /\ pc[r] # "idle" => at[r] \in Incoming
          /\ r \in announced \cup billed => doc[r] # "none"
          /\ \A a \in Address : mail[<<r, a>>] # "none" => doc[r] # "none"
    /\ \A d, e \in Request :
          doc[d] = "kept" /\ doc[e] = "kept" /\ at[d] = at[e] /\ at[d] \in Transaction => d = e

\* Something was received for a delivery.
Received(t) == \E d \in Request : at[d] = t /\ doc[d] # "none"

AnswerInv ==
    /\ AnsweredIsReceived
    /\ \A r \in Request : pc[r] = "answer" => Received(at[r])

\* An address the request has not mailed yet.
Untried(r, a) ==
    \/ pc[r] \in Fresh \cup {"publish", "bill", "load"}
    \/ a \in todo[r]
    \/ pc[r] = "mail" /\ to[r] = a

LoopInv ==
    \A r \in Request :
        /\ pc[r] \in {"mail", "refused", "unreachable", "mark"} => to[r] \in Address
        /\ pc[r] = "mail" => to[r] \notin todo[r]
        /\ \A a \in Address : Untried(r, a) => mail[<<r, a>>] = "none"

\* What the mail service repeats or a webhook request is at.
Heard(p) == p \in reports \/ \E h \in Reporter : stage[h] # "idle" /\ handling[h] = p

ReportOK(p) ==
    /\ row[p.of] # "none" /\ mail[p.of] # "none"
    /\ p.at > 0 /\ p.at <= clock
    /\ p.deactivated => p.status = "failed" /\ down[p.of[2]] # None

ReportInv ==
    /\ \A p \in Report : Heard(p) => ReportOK(p)
    /\ \A h \in Reporter :
          stage[h] = "mark" /\ handling[h].status = "failed"
              => row[handling[h].of] \in {"failed", "deleted"}

\* There is something to show for a notification.
Shows(n) == row[n] \notin {"none", "deleted"}

BounceInv ==
    \A n \in Notification :
        mail[n] \in {"bounced", "deactivated"} /\ Shows(n) =>
            row[n] = "failed" \/ \E p \in reports : p.of = n /\ p.status = "failed"

\* The address of a message that deactivated it.
DownInv ==
    /\ \A a \in Address :
          /\ a \notin active \/ mark[a] # 0 => down[a] # None
          /\ down[a] # None => down[a][2] = a /\ mail[down[a]] # "none"
    /\ \A r \in Request : pc[r] \in {"unreachable", "mark"} => down[to[r]] # None

\* A delivery that says nothing about the address now.
Early(p) ==
    LET a == p.of[2] IN
    /\ mark[a] # 0 => p.at < mark[a]
    /\ \A q \in Report : Heard(q) /\ q.deactivated /\ q.of[2] = a => p.at < q.at

MarkInv ==
    /\ \A p \in Report :
          Heard(p) /\ p.status = "delivered" /\ p.of[2] \notin past => Early(p)
    /\ \A a \in configured \ past :
          down[a] # None /\ Shows(down[a]) =>
              mark[a] # 0 \/ \E q \in reports : q.of = down[a] /\ q.deactivated

IncomingInv ==
    /\ TypeOK /\ DocumentInv /\ AnswerInv
    /\ LoopInv /\ ReportInv /\ BounceInv /\ DownInv /\ MarkInv

----------------------------------------------------------------------------
(* The types.                                                               *)

LEMMA InitialTypes == Init => TypeOK
BY NotificationAssumption, IncomingAssumption
DEF Init, InitNotifications, TypeOK, NotificationTypeOK, Label, Report, Notification

LEMMA LoopTypes ==
    ASSUME TypeOK, NEW r \in Request, NotifyStep(r), UNCHANGED <<unanswered, at, books>>
    PROVE  TypeOK'
<1> USE NotificationAssumption DEF TypeOK, NotificationTypeOK, Label, Notification, Outcome,
        Goto, Onward, Fault, sending, addresses, service, applying, found, bounds, books
<1>1. CASE LoadAddresses(r)
  BY <1>1 DEF LoadAddresses
<1>2. ASSUME NEW a \in Address, Attempt(r, a) PROVE TypeOK'
  <2>1. row' \in [Notification -> {"none", "pending", "deleted"} \cup Outcome]
    BY <1>2 DEF Attempt
  <2>2. changes' \in 0..MaxChange /\ faults' \in 0..MaxFault
    BY <1>2 DEF Attempt
  <2> QED
    BY <1>2, <2>1, <2>2 DEF Attempt
<1>3. CASE Mail(r)
  <2>1. mail' \in [Notification -> {"none", "taken", "delivered", "bounced", "deactivated"}]
    BY <1>3 DEF Mail
  <2>2. changes' \in 0..MaxChange /\ faults' \in 0..MaxFault
    BY <1>3 DEF Mail
  <2>3. pc' \in [Request -> Label]
    BY <1>3 DEF Mail
  <2> QED
    BY <1>3, <2>1, <2>2, <2>3 DEF Mail
<1>4. CASE RecordRefusal(r)
  <2>1. row' \in [Notification -> {"none", "pending", "deleted"} \cup Outcome]
    BY <1>4 DEF RecordRefusal
  <2>2. changes' \in 0..MaxChange /\ faults' \in 0..MaxFault
    BY <1>4 DEF RecordRefusal
  <2> QED
    BY <1>4, <2>1, <2>2 DEF RecordRefusal
<1>5. CASE MarkRefused(r)
  BY <1>5 DEF MarkRefused, Marked
<1> QED
  BY <1>1, <1>2, <1>3, <1>4, <1>5 DEF NotifyStep

LEMMA ServiceTypes ==
    ASSUME TypeOK, UNCHANGED <<unanswered, at, books>>,
           \/ \E n \in Notification : Deliver(n) \/ Bounce(n)
           \/ \E h \in Reporter : ReportStep(h)
    PROVE  TypeOK'
<1> USE NotificationAssumption DEF TypeOK, NotificationTypeOK, Label, Outcome,
        Fault, Idle, sending, addresses, service, applying, found, bounds, books
<1>1. ASSUME NEW n \in Notification, NEW status \in Outcome, NEW deactivated \in BOOLEAN,
             Say(n, status, deactivated)
      PROVE  clock' \in Nat /\ reports' \in SUBSET Report
  BY <1>1 DEF Say, Report
<1>2. ASSUME NEW n \in Notification, Deliver(n) PROVE TypeOK'
  BY <1>1, <1>2 DEF Deliver, Notification
<1>3. ASSUME NEW n \in Notification, Bounce(n) PROVE TypeOK'
  <2>1. clock' \in Nat /\ reports' \in SUBSET Report
    BY <1>1, <1>3 DEF Bounce
  <2>5. \/ mail' = [mail EXCEPT ![n] = "bounced"]
        \/ mail' = [mail EXCEPT ![n] = "deactivated"]
    BY <1>3 DEF Bounce
  <2>2. mail' \in [Notification -> {"none", "taken", "delivered", "bounced", "deactivated"}]
    BY <2>5
  <2>3. down' \in [Address -> Notification \cup {None}]
    BY <1>3 DEF Bounce
  <2>4. active' \in SUBSET Address
    BY <1>3 DEF Bounce
  <2> QED
    BY <1>3, <2>1, <2>2, <2>3, <2>4 DEF Bounce
<1>4. ASSUME NEW h \in Reporter, NEW p \in reports, TakeReport(h, p) PROVE TypeOK'
  BY <1>4 DEF TakeReport
<1>5. ASSUME NEW h \in Reporter, MoveNotification(h) PROVE TypeOK'
  <2>1. handling[h].status \in Outcome
    BY <1>5 DEF MoveNotification, Report
  <2>2. row' \in [Notification -> {"none", "pending", "deleted"} \cup Outcome]
    <3>1. row' = [row EXCEPT ![handling[h].of] =
                    IF @ \in Movable(handling[h].status) THEN handling[h].status ELSE @]
      BY <1>5 DEF MoveNotification
    <3> QED
      BY <2>1, <3>1
  <2> QED
    BY <1>5, <2>2 DEF MoveNotification
<1>6. ASSUME NEW h \in Reporter, MarkReported(h) PROVE TypeOK'
  <2>1. /\ handling[h].of[2] \in Address /\ handling[h].at \in Nat
        /\ handling[h].deactivated \in BOOLEAN
    BY <1>6 DEF MarkReported, Report, Notification
  <2>2. mark' \in [Address -> Nat]
    <3>1. /\ Marked(handling[h].of[2], handling[h].at) \in [Address -> Nat]
          /\ Cleared(handling[h].of[2], handling[h].at) \in [Address -> Nat]
      BY <2>1 DEF Marked, Cleared
    <3> HIDE DEF Marked, Cleared
    <3> QED
      BY <1>6, <3>1 DEF MarkReported
  <2>3. past' \in SUBSET Address /\ reports' \in SUBSET Report
    BY <1>6, <2>1 DEF MarkReported
  <2>4. changes' \in 0..MaxChange /\ faults' \in 0..MaxFault
    BY <1>6 DEF MarkReported
  <2> QED
    BY <1>6, <2>2, <2>3, <2>4 DEF MarkReported
<1>7. ASSUME NEW h \in Reporter, ReportFails(h) PROVE TypeOK'
  BY <1>7 DEF ReportFails
<1> QED
  BY <1>2, <1>3, <1>4, <1>5, <1>6, <1>7 DEF ReportStep

LEMMA OwnerTypes ==
    ASSUME TypeOK, UNCHANGED <<unanswered, at, books>>,
           \/ \E a \in Address : \/ Reactivate(a) \/ Unconfigure(a)
                                \/ \E replaced \in SUBSET Address : Configure(a, replaced)
           \/ \E d \in Request : DeleteDocument(d)
    PROVE  TypeOK'
<1> USE NotificationAssumption DEF TypeOK, NotificationTypeOK, Label, Notification, Outcome,
        Change, sending, addresses, service, applying, found, bounds, books
<1>1. ASSUME NEW a \in Address, Reactivate(a) PROVE TypeOK'
  BY <1>1 DEF Reactivate
<1>2. ASSUME NEW a \in Address, Unconfigure(a) PROVE TypeOK'
  BY <1>2 DEF Unconfigure
<1>3. ASSUME NEW a \in Address, NEW replaced \in SUBSET Address, Configure(a, replaced)
      PROVE  TypeOK'
  BY <1>3 DEF Configure
<1>4. ASSUME NEW d \in Request, DeleteDocument(d) PROVE TypeOK'
  BY <1>4 DEF DeleteDocument
<1> QED
  BY <1>1, <1>2, <1>3, <1>4

LEMMA RequestTypes ==
    ASSUME TypeOK, NEW r \in Request, RequestStep(r) PROVE TypeOK'
<1> USE IncomingAssumption DEF TypeOK, NotificationTypeOK, Label, Goto, Fault,
        notifications, addresses, service, applying, found, books
<1>1. ASSUME NEW t \in Incoming, Receive(r, t) PROVE TypeOK'
  BY <1>1 DEF Receive
<1>2. CASE Fetch(r)
  BY <1>2 DEF Fetch
<1>3. CASE Insert(r)
  BY <1>3 DEF Insert
<1>4. CASE Publish(r)
  BY <1>4 DEF Publish
<1>5. CASE Bill(r)
  BY <1>5 DEF Bill
<1>6. CASE Answer(r)
  BY <1>6 DEF Answer
<1>7. CASE Stop(r)
  BY <1>7, NotificationAssumption DEF Stop
<1> QED
  BY <1>1, <1>2, <1>3, <1>4, <1>5, <1>6, <1>7 DEF RequestStep

LEMMA StepTypes == ASSUME TypeOK, [Next]_vars PROVE TypeOK'
<1>1. CASE UNCHANGED vars
  BY <1>1 DEF vars, notificationVars, sending, addresses, service, applying, found, bounds,
              books, TypeOK, NotificationTypeOK
<1>2. CASE Next
  <2>1. configured \subseteq Address
    BY DEF TypeOK, NotificationTypeOK
  <2> QED
    BY <1>2, <2>1, LoopTypes, ServiceTypes, OwnerTypes, RequestTypes DEF Next, NotificationNext
<1> QED
  BY <1>1, <1>2

----------------------------------------------------------------------------
(* What lasts.                                                              *)

\* What is known of a document, a message or an address stays known.
Lasting ==
    /\ \A r \in Request : doc[r] # "none" => doc'[r] # "none"
    /\ \A r \in Request : pc[r] # "idle" => pc'[r] # "idle" /\ at'[r] = at[r]
    /\ \A n \in Notification : mail[n] # "none" => mail'[n] # "none"
    /\ \A n \in Notification : row[n] # "none" => row'[n] # "none"
    /\ \A a \in Address : down[a] # None => down'[a] = down[a]
    /\ past \subseteq past' /\ clock <= clock'

\* The steps that send no mail and move no request.
Aside ==
    \/ \E n \in Notification : Deliver(n) \/ Bounce(n)
    \/ \E h \in Reporter : ReportStep(h)
    \/ \E a \in Address : \/ Reactivate(a) \/ Unconfigure(a)
                         \/ \E replaced \in SUBSET Address : Configure(a, replaced)

LEMMA Steps ==
    ASSUME TypeOK, [Next]_vars
    PROVE  \/ UNCHANGED vars
           \/ \E r \in Request : RequestStep(r)
           \/ /\ UNCHANGED <<unanswered, at, books>>
              /\ \E r \in Request : NotifyStep(r) \/ DeleteDocument(r)
           \/ Aside /\ UNCHANGED <<unanswered, at, books>>
BY DEF Next, NotificationNext, Aside, TypeOK, NotificationTypeOK

LEMMA AsideFrame ==
    ASSUME TypeOK, Aside PROVE UNCHANGED <<sending, doc>>
<1> USE DEF sending
<1>1. ASSUME NEW n \in Notification, Deliver(n) PROVE UNCHANGED <<sending, doc>>
  BY <1>1 DEF Deliver
<1>2. ASSUME NEW n \in Notification, Bounce(n) PROVE UNCHANGED <<sending, doc>>
  BY <1>2 DEF Bounce
<1>3. ASSUME NEW h \in Reporter, ReportStep(h) PROVE UNCHANGED <<sending, doc>>
  BY <1>3 DEF ReportStep, TakeReport, MoveNotification, MarkReported, ReportFails
<1>4. ASSUME NEW a \in Address, Reactivate(a) \/ Unconfigure(a) PROVE UNCHANGED <<sending, doc>>
  BY <1>4 DEF Reactivate, Unconfigure
<1>5. ASSUME NEW a \in Address, NEW replaced \in SUBSET Address, Configure(a, replaced)
      PROVE  UNCHANGED <<sending, doc>>
  BY <1>5 DEF Configure
<1> QED
  BY <1>1, <1>2, <1>3, <1>4, <1>5 DEF Aside

\* The service only moves on what it has taken.
LEMMA AsideMail ==
    ASSUME TypeOK, Aside
    PROVE  \A m \in Notification : mail'[m] # "none" => mail[m] # "none"
<1> USE DEF TypeOK, NotificationTypeOK
<1>1. ASSUME NEW n \in Notification, Deliver(n) \/ Bounce(n)
      PROVE  mail[n] # "none" /\ \A m \in Notification : m # n => mail'[m] = mail[m]
  BY <1>1 DEF Deliver, Bounce
<1>2. ASSUME NEW h \in Reporter, ReportStep(h) PROVE UNCHANGED mail
  BY <1>2 DEF ReportStep, TakeReport, MoveNotification, MarkReported, ReportFails, service
<1>3. ASSUME NEW a \in Address, Reactivate(a) \/ Unconfigure(a) PROVE UNCHANGED mail
  BY <1>3 DEF Reactivate, Unconfigure, service
<1>4. ASSUME NEW a \in Address, NEW replaced \in SUBSET Address, Configure(a, replaced)
      PROVE  UNCHANGED mail
  BY <1>4 DEF Configure, service
<1> QED
  BY <1>1, <1>2, <1>3, <1>4 DEF Aside

LEMMA AsideLasts ==
    ASSUME TypeOK, Aside, UNCHANGED <<unanswered, at, books>> PROVE Lasting
<1>0. UNCHANGED <<pc, doc, at>>
  BY AsideFrame DEF sending
<1> USE <1>0 DEF Lasting, TypeOK, NotificationTypeOK, applying, found, addresses, service, bounds
<1>1. ASSUME NEW n \in Notification, Deliver(n) PROVE Lasting
  BY <1>1 DEF Deliver, Say
<1>2. ASSUME NEW n \in Notification, Bounce(n) PROVE Lasting
  <2>1. /\ UNCHANGED <<row, past>> /\ clock' = clock + 1
        /\ \A m \in Notification : mail[m] # "none" => mail'[m] # "none"
    BY <1>2 DEF Bounce, Say
  <2>2. \A a \in Address : down[a] # None => down'[a] = down[a]
    BY <1>2 DEF Bounce
  <2> QED
    BY <2>1, <2>2
<1>3. ASSUME NEW h \in Reporter, NEW p \in reports, TakeReport(h, p) PROVE Lasting
  BY <1>3 DEF TakeReport
<1>4. ASSUME NEW h \in Reporter, MoveNotification(h) PROVE Lasting
  <2>1. handling[h].status # "none"
    BY <1>4 DEF MoveNotification, Report, Outcome
  <2>2. \A n \in Notification : row[n] # "none" => row'[n] # "none"
    <3>1. row' = [row EXCEPT ![handling[h].of] =
                    IF @ \in Movable(handling[h].status) THEN handling[h].status ELSE @]
      BY <1>4 DEF MoveNotification
    <3> QED
      BY <2>1, <3>1
  <2> QED
    BY <1>4, <2>2 DEF MoveNotification
<1>5. ASSUME NEW h \in Reporter, MarkReported(h) \/ ReportFails(h) PROVE Lasting
  BY <1>5 DEF MarkReported, ReportFails
<1>6. ASSUME NEW a \in Address, Reactivate(a) \/ Unconfigure(a) PROVE Lasting
  BY <1>6 DEF Reactivate, Unconfigure
<1>7. ASSUME NEW a \in Address, NEW replaced \in SUBSET Address, Configure(a, replaced)
      PROVE  Lasting
  BY <1>7 DEF Configure
<1> QED
  BY <1>1, <1>2, <1>3, <1>4, <1>5, <1>6, <1>7 DEF Aside, ReportStep

LEMMA LoopLasts ==
    ASSUME TypeOK, UNCHANGED <<unanswered, at, books>>,
           NEW r \in Request, NotifyStep(r) \/ DeleteDocument(r)
    PROVE  Lasting
<1> USE DEF Lasting, TypeOK, NotificationTypeOK, Goto, Onward,
            sending, applying, found, addresses, service
<1>1. CASE LoadAddresses(r)
  BY <1>1 DEF LoadAddresses
<1>2. ASSUME NEW a \in Address, Attempt(r, a) PROVE Lasting
  BY <1>2 DEF Attempt
<1>3. CASE Mail(r)
  BY <1>3 DEF Mail
<1>4. CASE RecordRefusal(r)
  BY <1>4 DEF RecordRefusal
<1>5. CASE MarkRefused(r)
  BY <1>5 DEF MarkRefused
<1>6. CASE DeleteDocument(r)
  BY <1>6 DEF DeleteDocument
<1> QED
  BY <1>1, <1>2, <1>3, <1>4, <1>5, <1>6 DEF NotifyStep

LEMMA RequestLasts ==
    ASSUME TypeOK, NEW r \in Request, RequestStep(r) PROVE Lasting
BY DEF Lasting, RequestStep, Receive, Fetch, Insert, Publish, Bill, Answer, Stop, Goto,
       notifications, found, service, TypeOK, NotificationTypeOK

LEMMA Lasts == ASSUME TypeOK, [Next]_vars PROVE Lasting
<1>1. CASE UNCHANGED vars
  BY <1>1 DEF vars, notificationVars, sending, service, found, Lasting, TypeOK, NotificationTypeOK
<1> QED
  BY <1>1, Steps, AsideLasts, LoopLasts, RequestLasts

----------------------------------------------------------------------------
(* One document per transaction, and none unreceived.                       *)

LEMMA DocumentLoop ==
    ASSUME TypeOK, DocumentInv, UNCHANGED <<unanswered, at, books>>,
           NEW r \in Request, NotifyStep(r) \/ DeleteDocument(r)
    PROVE  DocumentInv'
<1> USE DEF DocumentInv, TypeOK, NotificationTypeOK, Goto, Onward, Fresh, Working, books,
            sending, applying, found, addresses, service
<1>1. CASE LoadAddresses(r)
  BY <1>1 DEF LoadAddresses
<1>2. ASSUME NEW a \in Address, Attempt(r, a) PROVE DocumentInv'
  BY <1>2 DEF Attempt
<1>3. CASE Mail(r)
  <2>1. pc[r] = "mail" /\ doc[r] # "none" /\ UNCHANGED doc
    BY <1>3 DEF Mail
  <2>2. \/ pc' = [pc EXCEPT ![r] = "answer"] \/ pc' = [pc EXCEPT ![r] = "next"]
        \/ pc' = [pc EXCEPT ![r] = "unreachable"] \/ pc' = [pc EXCEPT ![r] = "refused"]
    BY <1>3 DEF Mail
  <2>3. \A d \in Request, a \in Address :
           mail'[<<d, a>>] # "none" => mail[<<d, a>>] # "none" \/ d = r
    BY <1>3 DEF Mail, Notification
  <2> QED
    BY <2>1, <2>2, <2>3
<1>4. CASE RecordRefusal(r)
  BY <1>4 DEF RecordRefusal
<1>5. CASE MarkRefused(r)
  BY <1>5 DEF MarkRefused
<1>6. CASE DeleteDocument(r)
  BY <1>6 DEF DeleteDocument
<1> QED
  BY <1>1, <1>2, <1>3, <1>4, <1>5, <1>6 DEF NotifyStep

LEMMA DocumentRequest ==
    ASSUME TypeOK, DocumentInv, NEW r \in Request, RequestStep(r)
    PROVE  DocumentInv'
<1> USE DEF DocumentInv, TypeOK, NotificationTypeOK, Goto, Fresh, Working, books,
            notifications, service
<1>1. ASSUME NEW t \in Incoming, Receive(r, t) PROVE DocumentInv'
  BY <1>1 DEF Receive
<1>2. CASE Fetch(r)
  BY <1>2 DEF Fetch
<1>3. CASE Insert(r)
  BY <1>3 DEF Insert, Recorded
<1>4. CASE Publish(r)
  BY <1>4 DEF Publish
<1>5. CASE Bill(r)
  BY <1>5 DEF Bill
<1>6. CASE Answer(r)
  BY <1>6 DEF Answer
<1>7. CASE Stop(r)
  BY <1>7 DEF Stop
<1> QED
  BY <1>1, <1>2, <1>3, <1>4, <1>5, <1>6, <1>7 DEF RequestStep

LEMMA DocumentAside ==
    ASSUME TypeOK, DocumentInv, Aside, UNCHANGED <<unanswered, at, books>>
    PROVE  DocumentInv'
<1>1. UNCHANGED <<pc, doc, announced, billed>>
  BY AsideFrame DEF sending, books
<1>2. \A m \in Notification : mail'[m] # "none" => mail[m] # "none"
  BY AsideMail
<1>3. ASSUME NEW d \in Request, NEW a \in Address, mail'[<<d, a>>] # "none"
      PROVE  mail[<<d, a>>] # "none"
  BY <1>2, <1>3 DEF Notification
<1> QED
  BY <1>1, <1>3 DEF DocumentInv

LEMMA DocumentStep == ASSUME TypeOK, DocumentInv, [Next]_vars PROVE DocumentInv'
<1>1. CASE UNCHANGED vars
  BY <1>1 DEF vars, notificationVars, sending, service, books, DocumentInv
<1> QED
  BY <1>1, Steps, DocumentLoop, DocumentRequest, DocumentAside

\* An answer needs something received: a document is recorded, or found.
LEMMA AnswerStep ==
    ASSUME TypeOK, DocumentInv, AnswerInv, [Next]_vars PROVE AnswerInv'
<1>1. ASSUME NEW t, Received(t) PROVE Received(t)'
  <2>1. PICK d \in Request : at[d] = t /\ doc[d] # "none"
    BY <1>1 DEF Received
  <2>2. pc[d] # "idle"
    BY <2>1 DEF DocumentInv, Fresh
  <2> QED
    BY <2>1, <2>2, Lasts DEF Lasting, Received
<1>2. ASSUME NEW r \in Request, pc[r] \in Working PROVE Received(at[r])
  BY <1>2 DEF DocumentInv, Received
<1>3. ASSUME NEW r \in Request, pc'[r] = "answer", pc[r] # "answer" PROVE Received(at'[r])
  <2> USE <1>3 DEF TypeOK, NotificationTypeOK, Goto
  <2>1. ASSUME NEW q \in Request, NotifyStep(q) \/ DeleteDocument(q)
        PROVE  pc[r] \in Working
    BY <2>1 DEF NotifyStep, DeleteDocument, LoadAddresses, Attempt, Mail, RecordRefusal,
                MarkRefused, Working, sending
  <2>2. ASSUME NEW q \in Request, RequestStep(q)
        PROVE  pc[r] = "idle" /\ Recorded(at'[r])
    BY <2>2 DEF RequestStep, Receive, Fetch, Insert, Publish, Bill, Answer, Stop
  <2>3. ASSUME Recorded(at'[r]) PROVE Received(at'[r])
    BY <2>3 DEF Recorded, Received
  <2>4. pc[r] \in Working => at'[r] = at[r]
    BY Lasts DEF Lasting, Working
  <2>5. ~ UNCHANGED vars /\ ~ Aside
    BY AsideFrame DEF sending, vars, notificationVars
  <2> QED
    BY <1>2, <2>1, <2>2, <2>3, <2>4, <2>5, Steps
<1>4. ASSUME NEW t \in unanswered, t \notin unanswered' PROVE Received(t)
  <2>1. PICK r \in Request : Answer(r) /\ at[r] = t
    BY <1>4, Steps
    DEF RequestStep, Receive, Fetch, Insert, Publish, Bill, Answer, Stop, vars
  <2> QED
    BY <2>1 DEF Answer, AnswerInv
<1>5. \A r \in Request : pc[r] = "answer" => at'[r] = at[r]
  BY Lasts DEF Lasting
<1>6. \A t \in Incoming \ unanswered' : Received(t)
  BY <1>4 DEF AnswerInv, AnsweredIsReceived, Received
<1>7. \A r \in Request : pc'[r] = "answer" => Received(at'[r])
  BY <1>3, <1>5 DEF AnswerInv
<1> QED
  BY <1>1, <1>6, <1>7 DEF AnswerInv, AnsweredIsReceived, Received

----------------------------------------------------------------------------
(* The loop: a message leaves once.                                         *)

LEMMA LoopStepSends ==
    ASSUME TypeOK, LoopInv, UNCHANGED <<unanswered, at, books>>,
           NEW r \in Request, NotifyStep(r) \/ DeleteDocument(r)
    PROVE  LoopInv'
<1> USE DEF LoopInv, Untried, TypeOK, NotificationTypeOK, Goto, Onward, Fresh,
            sending, applying, found, addresses, service
<1>1. CASE LoadAddresses(r)
  BY <1>1 DEF LoadAddresses
<1>2. ASSUME NEW a \in Address, Attempt(r, a) PROVE LoopInv'
  BY <1>2 DEF Attempt
<1>3. CASE Mail(r)
  <2>1. /\ pc[r] = "mail" /\ to[r] \in Address /\ to[r] \notin todo[r]
        /\ UNCHANGED <<to, todo>>
    BY <1>3 DEF Mail
  <2>2. \/ pc' = [pc EXCEPT ![r] = "answer"] \/ pc' = [pc EXCEPT ![r] = "next"]
        \/ pc' = [pc EXCEPT ![r] = "unreachable"] \/ pc' = [pc EXCEPT ![r] = "refused"]
    BY <1>3 DEF Mail
  <2>3. ASSUME NEW q \in Request, NEW a \in Address, q # r \/ a # to[r]
        PROVE  mail'[<<q, a>>] = mail[<<q, a>>]
    BY <1>3, <2>3 DEF Mail, Notification
  <2> QED
    BY <2>1, <2>2, <2>3
<1>4. CASE RecordRefusal(r)
  BY <1>4 DEF RecordRefusal
<1>5. CASE MarkRefused(r)
  BY <1>5 DEF MarkRefused
<1>6. CASE DeleteDocument(r)
  BY <1>6 DEF DeleteDocument
<1> QED
  BY <1>1, <1>2, <1>3, <1>4, <1>5, <1>6 DEF NotifyStep

LEMMA LoopStep == ASSUME TypeOK, LoopInv, [Next]_vars PROVE LoopInv'
<1> USE DEF LoopInv, Untried, Fresh
<1>1. CASE UNCHANGED vars
  BY <1>1 DEF vars, notificationVars, sending, service
<1>2. ASSUME NEW r \in Request, RequestStep(r) PROVE LoopInv'
  BY <1>2 DEF RequestStep, Receive, Fetch, Insert, Publish, Bill, Answer, Stop, Goto,
              notifications, service, TypeOK, NotificationTypeOK
<1>3. CASE Aside
  <2>1. UNCHANGED <<pc, todo, to>>
    BY <1>3, AsideFrame DEF sending
  <2>2. ASSUME NEW r \in Request, NEW a \in Address, mail[<<r, a>>] = "none"
        PROVE  mail'[<<r, a>>] = "none"
    BY <1>3, <2>2, AsideMail DEF Notification
  <2> QED
    BY <2>1, <2>2
<1> QED
  BY <1>1, <1>2, <1>3, Steps, LoopStepSends

----------------------------------------------------------------------------
(* The reports and the rows.                                                *)

\* The steps that neither say nor apply anything.
LEMMA Elsewhere ==
    ASSUME TypeOK, [Next]_vars,
           ~ \E n \in Notification : Deliver(n) \/ Bounce(n),
           ~ \E h \in Reporter : ReportStep(h)
    PROVE  UNCHANGED <<reports, handling, stage>>
<1>1. CASE UNCHANGED vars
  BY <1>1 DEF vars, notificationVars, service, applying
<1>2. ASSUME NEW r \in Request, RequestStep(r) PROVE UNCHANGED <<reports, handling, stage>>
  BY <1>2 DEF RequestStep, Receive, Fetch, Insert, Publish, Bill, Answer, Stop,
              notifications, service, applying
<1>3. ASSUME NEW r \in Request, NotifyStep(r) \/ DeleteDocument(r)
      PROVE  UNCHANGED <<reports, handling, stage>>
  BY <1>3 DEF NotifyStep, LoadAddresses, Attempt, Mail, RecordRefusal, MarkRefused,
              DeleteDocument, service, applying
<1>4. ASSUME NEW a \in Address, \/ Reactivate(a) \/ Unconfigure(a)
                                \/ \E replaced \in SUBSET Address : Configure(a, replaced)
      PROVE  UNCHANGED <<reports, handling, stage>>
  BY <1>4 DEF Reactivate, Unconfigure, Configure, service, applying
<1> QED
  BY <1>1, <1>2, <1>3, <1>4, Steps DEF Aside

\* The report of a step of the mail service.
Said(n, p) ==
    /\ p.of = n /\ row[n] # "none" /\ p.at = clock + 1 /\ clock' = clock + 1
    /\ reports' = reports \cup {p}
    /\ UNCHANGED <<row, configured, mark, handling, stage>>
    /\ \/ Deliver(n) /\ p.status = "delivered" /\ ~ p.deactivated
       \/ Bounce(n) /\ p.status = "failed" /\ (p.deactivated => down'[n[2]] # None)

LEMMA NewReport ==
    ASSUME TypeOK, [Next]_vars, NEW p \in Report, Heard(p)', ~ Heard(p)
    PROVE  \E n \in Notification : Said(n, p)
<1> USE DEF Heard
<1>1. ASSUME NEW n \in Notification, Deliver(n) PROVE Said(n, p)
  <2>1. /\ clock' = clock + 1 /\ UNCHANGED <<row, configured, mark, handling, stage>>
        /\ p \in reports' /\ p \notin reports
    BY <1>1 DEF Deliver, Say, addresses, applying
  <2>2. /\ p = [of |-> n, status |-> "delivered", deactivated |-> FALSE, at |-> clock + 1]
        /\ row[n] # "none" /\ reports' = reports \cup {p}
    BY <1>1, <2>1 DEF Deliver, Say
  <2>3. p.of = n /\ p.status = "delivered" /\ ~ p.deactivated /\ p.at = clock + 1
    BY <2>2
  <2> QED
    BY <1>1, <2>1, <2>2, <2>3 DEF Said
<1>2. ASSUME NEW n \in Notification, Bounce(n) PROVE Said(n, p)
  <2>1. /\ clock' = clock + 1 /\ UNCHANGED <<row, configured, mark, handling, stage>>
        /\ p \in reports' /\ p \notin reports
    BY <1>2 DEF Bounce, Say, addresses, applying
  <2>2. ASSUME NEW b \in BOOLEAN, Say(n, "failed", b)
        PROVE  /\ p.of = n /\ p.status = "failed" /\ p.deactivated = b /\ p.at = clock + 1
               /\ row[n] # "none" /\ reports' = reports \cup {p}
    <3>1. /\ p = [of |-> n, status |-> "failed", deactivated |-> b, at |-> clock + 1]
          /\ row[n] # "none" /\ reports' = reports \cup {p}
      BY <2>1, <2>2 DEF Say
    <3> QED
      BY <3>1
  <2>3. CASE Say(n, "failed", FALSE)
    BY <1>2, <2>1, <2>2, <2>3 DEF Said
  <2>4. CASE Say(n, "failed", TRUE) /\ down' = [down EXCEPT ![n[2]] = IF @ = None THEN n ELSE @]
    <3>1. n[2] \in Address /\ n # None
      BY NotificationAssumption DEF Notification
    <3>2. down'[n[2]] # None
      BY <2>4, <3>1 DEF TypeOK, NotificationTypeOK
    <3> QED
      BY <1>2, <2>1, <2>2, <2>4, <3>2 DEF Said
  <2> QED
    BY <1>2, <2>3, <2>4 DEF Bounce
<1>3. ASSUME NEW h \in Reporter, ReportStep(h) PROVE FALSE
  <2> USE DEF TypeOK, NotificationTypeOK, service, applying
  <2>1. ASSUME NEW q \in reports, TakeReport(h, q) PROVE FALSE
    BY <2>1 DEF TakeReport
  <2>2. CASE MoveNotification(h)
    BY <2>2 DEF MoveNotification
  <2>3. CASE MarkReported(h)
    BY <2>3 DEF MarkReported, Idle
  <2>4. CASE ReportFails(h)
    BY <2>4 DEF ReportFails, Idle
  <2> QED
    BY <1>3, <2>1, <2>2, <2>3, <2>4 DEF ReportStep
<1> QED
  BY <1>1, <1>2, <1>3, Elsewhere

\* A report is gone when its document is, or it has been applied.
LEMMA Removed ==
    ASSUME TypeOK, [Next]_vars, NEW p \in reports, p \notin reports'
    PROVE  \/ row[p.of] = "deleted"
           \/ \E h \in Reporter : MarkReported(h) /\ handling[h] = p
<1>1. ASSUME NEW n \in Notification, Deliver(n) \/ Bounce(n) PROVE FALSE
  BY <1>1 DEF Deliver, Bounce, Say
<1>2. ASSUME NEW h \in Reporter, ReportStep(h)
      PROVE  row[p.of] = "deleted" \/ (MarkReported(h) /\ handling[h] = p)
  <2>1. ASSUME NEW q \in reports, TakeReport(h, q) PROVE row[p.of] = "deleted"
    BY <2>1 DEF TakeReport
  <2>2. CASE MarkReported(h)
    BY <2>2 DEF MarkReported
  <2>3. CASE MoveNotification(h) \/ ReportFails(h)
    BY <2>3 DEF MoveNotification, ReportFails, service
  <2> QED
    BY <1>2, <2>1, <2>2, <2>3 DEF ReportStep
<1> QED
  BY <1>1, <1>2, Elsewhere

\* A row of a message that left was written before, and what failed stays so.
LEMMA RowLasts ==
    ASSUME TypeOK, LoopInv, [Next]_vars, NEW n \in Notification, mail[n] # "none"
    PROVE  /\ row[n] = "none" => row'[n] = "none"
           /\ row[n] = "deleted" => row'[n] = "deleted"
           /\ row[n] = "failed" => row'[n] \in {"failed", "deleted"}
<1> USE DEF TypeOK, NotificationTypeOK
<1>1. CASE UNCHANGED row
  BY <1>1
<1>2. ASSUME NEW r \in Request, RequestStep(r) PROVE UNCHANGED row
  BY <1>2 DEF RequestStep, Receive, Fetch, Insert, Publish, Bill, Answer, Stop, notifications
<1>3. ASSUME NEW r \in Request, NEW a \in Address, Attempt(r, a) PROVE row'[n] = row[n]
  <2>1. n # <<r, a>>
    BY <1>3 DEF Attempt, LoopInv, Untried
  <2> QED
    BY <1>3, <2>1 DEF Attempt
<1>4. ASSUME NEW r \in Request, RecordRefusal(r)
      PROVE  row'[n] = row[n] \/ (row'[n] = "failed" /\ row[n] \notin {"none", "deleted"})
  <2>1. \/ UNCHANGED row
        \/ row' = [row EXCEPT ![<<r, to[r]>>] =
                       IF @ \in {"none", "deleted"} THEN @ ELSE "failed"]
    BY <1>4 DEF RecordRefusal
  <2> QED
    BY <2>1
<1>5. ASSUME NEW r \in Request, LoadAddresses(r) \/ Mail(r) \/ MarkRefused(r)
      PROVE  UNCHANGED row
  BY <1>5 DEF LoadAddresses, Mail, MarkRefused
<1>6. ASSUME NEW r \in Request, DeleteDocument(r)
      PROVE  row'[n] = row[n] \/ (row'[n] = "deleted" /\ row[n] # "none")
  <2>1. row' = [m \in Notification |->
                   IF m[1] = r /\ row[m] # "none" THEN "deleted" ELSE row[m]]
    BY <1>6 DEF DeleteDocument
  <2> QED
    BY <2>1
<1>7. ASSUME NEW h \in Reporter, MoveNotification(h)
      PROVE  row[n] \in {"none", "deleted", "failed"} => row'[n] = row[n]
  <2>1. row' = [row EXCEPT ![handling[h].of] =
                  IF @ \in Movable(handling[h].status) THEN handling[h].status ELSE @]
    BY <1>7 DEF MoveNotification
  <2> QED
    BY <2>1 DEF Movable
<1>8. ASSUME Aside, ~ \E h \in Reporter : MoveNotification(h) PROVE UNCHANGED row
  BY <1>8 DEF Aside, Deliver, Bounce, ReportStep, TakeReport, MarkReported, ReportFails,
              Reactivate, Unconfigure, Configure
<1>9. CASE UNCHANGED vars
  BY <1>9 DEF vars, notificationVars
<1> QED
  BY <1>1, <1>2, <1>3, <1>4, <1>5, <1>6, <1>7, <1>8, <1>9, Steps DEF NotifyStep


LEMMA ReportStepKeeps ==
    ASSUME TypeOK, LoopInv, ReportInv, [Next]_vars PROVE ReportInv'
<1>1. ASSUME NEW p \in Report, Heard(p) PROVE ReportOK(p)'
  <2>1. ReportOK(p) /\ p.of \in Notification /\ p.of[2] \in Address /\ p.at \in Nat
    BY <1>1 DEF ReportInv, Report, Notification
  <2>2. p.at <= clock'
    BY <2>1, StepTypes, Lasts DEF Lasting, ReportOK, TypeOK, NotificationTypeOK
  <2> QED
    BY <2>1, <2>2, Lasts DEF Lasting, ReportOK
<1>2. ASSUME NEW p \in Report, Heard(p)', ~ Heard(p) PROVE ReportOK(p)'
  <2>1. PICK n \in Notification : Said(n, p)
    BY <1>2, NewReport
  <2>2. mail'[n] # "none"
    <3>1. mail[n] # "none"
      BY <2>1 DEF Said, Deliver, Bounce
    <3> QED
      BY <3>1, Lasts DEF Lasting
  <2> QED
    BY <2>1, <2>2 DEF Said, ReportOK, TypeOK, NotificationTypeOK
<1>3. ASSUME NEW h \in Reporter, stage'[h] = "mark", handling'[h].status = "failed"
      PROVE  row'[handling'[h].of] \in {"failed", "deleted"}
  <2>1. \/ MoveNotification(h)
        \/ stage[h] = "mark" /\ handling'[h] = handling[h]
    <3> USE <1>3 DEF TypeOK, NotificationTypeOK, service, applying
    <3>1. ASSUME NEW g \in Reporter, NEW q \in reports, TakeReport(g, q) PROVE <2>1
      BY <3>1 DEF TakeReport
    <3>2. ASSUME NEW g \in Reporter, MoveNotification(g) PROVE <2>1
      BY <3>2 DEF MoveNotification
    <3>3. ASSUME NEW g \in Reporter, MarkReported(g) \/ ReportFails(g) PROVE <2>1
      BY <3>3 DEF MarkReported, ReportFails, Idle
    <3>4. ASSUME NEW n \in Notification, Deliver(n) \/ Bounce(n) PROVE <2>1
      BY <3>4 DEF Deliver, Bounce
    <3> QED
      BY <3>1, <3>2, <3>3, <3>4, Elsewhere DEF ReportStep
  <2>2. CASE MoveNotification(h)
    <3>1. /\ handling'[h] = handling[h] /\ handling[h].of \in Notification
          /\ row' = [row EXCEPT ![handling[h].of] =
                       IF @ \in Movable(handling[h].status) THEN handling[h].status ELSE @]
      BY <2>2 DEF MoveNotification, TypeOK, NotificationTypeOK, Report
    <3>2. row[handling[h].of] # "none"
      BY <2>2 DEF MoveNotification, ReportInv, ReportOK, Heard, TypeOK, NotificationTypeOK
    <3> QED
      BY <1>3, <3>1, <3>2 DEF Movable, TypeOK, NotificationTypeOK, Outcome
  <2>3. CASE stage[h] = "mark" /\ handling'[h] = handling[h]
    <3>1. handling[h] \in Report /\ handling[h].of \in Notification
      BY <2>3 DEF TypeOK, NotificationTypeOK, Report
    <3>2. mail[handling[h].of] # "none" /\ row[handling[h].of] \in {"failed", "deleted"}
      BY <1>3, <2>3, <3>1 DEF ReportInv, ReportOK, Heard
    <3> QED
      BY <2>3, <3>1, <3>2, RowLasts
  <2> QED
    BY <2>1, <2>2, <2>3
<1> QED
  BY <1>1, <1>2, <1>3 DEF ReportInv

LEMMA BounceStep ==
    ASSUME TypeOK, LoopInv, ReportInv, BounceInv, [Next]_vars PROVE BounceInv'
<1> SUFFICES ASSUME NEW n \in Notification,
                    mail'[n] \in {"bounced", "deactivated"}, Shows(n)', row'[n] # "failed"
             PROVE  \E p \in reports' : p.of = n /\ p.status = "failed"
  BY DEF BounceInv
<1>1. CASE mail[n] \in {"bounced", "deactivated"}
  <2>1. row[n] \notin {"none", "deleted", "failed"}
    BY <1>1, RowLasts DEF Shows
  <2>2. PICK p \in reports : p.of = n /\ p.status = "failed"
    BY <1>1, <2>1 DEF BounceInv, Shows
  <2>3. ~ \E h \in Reporter : MarkReported(h) /\ handling[h] = p
    BY <2>1, <2>2 DEF MarkReported, ReportInv
  <2> QED
    BY <2>1, <2>2, <2>3, Removed
<1>2. CASE mail[n] \notin {"bounced", "deactivated"}
  <2>1. Bounce(n)
    <3> USE DEF TypeOK, NotificationTypeOK
    <3>1. ASSUME NEW r \in Request, RequestStep(r) PROVE UNCHANGED mail
      BY <3>1 DEF RequestStep, Receive, Fetch, Insert, Publish, Bill, Answer, Stop,
                  notifications, service
    <3>2. ASSUME NEW r \in Request, NotifyStep(r) \/ DeleteDocument(r)
          PROVE  mail'[n] = mail[n] \/ mail'[n] = "taken"
      <4>1. CASE Mail(r)
        BY <4>1 DEF Mail
      <4>2. CASE ~ Mail(r)
        BY <3>2, <4>2 DEF NotifyStep, LoadAddresses, Attempt, RecordRefusal, MarkRefused,
                          DeleteDocument, service
      <4> QED
        BY <4>1, <4>2
    <3>3. ASSUME NEW m \in Notification, Deliver(m) PROVE mail'[n] = mail[n] \/ mail'[n] = "delivered"
      BY <3>3 DEF Deliver
    <3>4. ASSUME NEW m \in Notification, Bounce(m), m # n PROVE mail'[n] = mail[n]
      BY <3>4 DEF Bounce
    <3>5. ASSUME NEW h \in Reporter, ReportStep(h) PROVE UNCHANGED mail
      BY <3>5 DEF ReportStep, TakeReport, MoveNotification, MarkReported, ReportFails, service
    <3>6. ASSUME NEW a \in Address, \/ Reactivate(a) \/ Unconfigure(a)
                                    \/ \E replaced \in SUBSET Address : Configure(a, replaced)
          PROVE  UNCHANGED mail
      BY <3>6 DEF Reactivate, Unconfigure, Configure, service
    <3>7. ~ UNCHANGED mail
      BY <1>2
    <3>8. mail'[n] \notin {"taken", "delivered"} /\ mail'[n] # mail[n]
      BY <1>2
    <3> QED
      BY <3>1, <3>2, <3>3, <3>4, <3>5, <3>6, <3>7, <3>8, Steps
      DEF Aside, vars, notificationVars, service
  <2>2. PICK b \in BOOLEAN : Say(n, "failed", b) /\ UNCHANGED row
    BY <2>1 DEF Bounce
  <2>3. [of |-> n, status |-> "failed", deactivated |-> b, at |-> clock + 1] \in reports'
    BY <2>2 DEF Say, Shows
  <2> QED
    BY <2>3
<1> QED
  BY <1>1, <1>2


----------------------------------------------------------------------------
(* The marks.                                                               *)

\* Mail to the address of a was delivered to late, as a webhook request is about to apply.
Lifts(h, a) ==
    /\ stage[h] = "mark" /\ handling[h].status = "delivered"
    /\ handling[h].of[2] = a /\ mark[a] < handling[h].at

\* A report that deactivated the address a is about to be applied.
Marks(h, a) ==
    stage[h] = "mark" /\ handling[h].deactivated /\ handling[h].of[2] = a

\* How a mark changes.
LEMMA MarkChanges ==
    ASSUME TypeOK, [Next]_vars, NEW a \in Address, mark'[a] # mark[a]
    PROVE  \/ /\ mark'[a] = 0
              /\ \/ a \notin configured' \/ (down[a] # None => a \in past')
                 \/ \E h \in Reporter : Lifts(h, a)
           \/ mark'[a] = clock + 1 /\ \E r \in Request : pc[r] = "mark" /\ to[r] = a
           \/ \E h \in Reporter : Marks(h, a) /\ mark'[a] = handling[h].at
<1> USE DEF TypeOK, NotificationTypeOK
<1>1. ASSUME NEW r \in Request, RequestStep(r) PROVE UNCHANGED mark
  BY <1>1 DEF RequestStep, Receive, Fetch, Insert, Publish, Bill, Answer, Stop,
              notifications, addresses
<1>2. ASSUME NEW r \in Request, MarkRefused(r)
      PROVE  mark'[a] = clock + 1 /\ pc[r] = "mark" /\ to[r] = a
  <2>1. mark' = Marked(to[r], clock + 1)
    BY <1>2 DEF MarkRefused
  <2> QED
    BY <1>2, <2>1 DEF MarkRefused, Marked
<1>3. ASSUME NEW r \in Request,
             LoadAddresses(r) \/ Mail(r) \/ RecordRefusal(r) \/ DeleteDocument(r)
      PROVE  UNCHANGED mark
  BY <1>3 DEF LoadAddresses, Mail, RecordRefusal, DeleteDocument, addresses
<1>4. ASSUME NEW r \in Request, NEW b \in Address, Attempt(r, b) PROVE UNCHANGED mark
  BY <1>4 DEF Attempt, addresses
<1>5. ASSUME NEW h \in Reporter, MarkReported(h)
      PROVE  \/ Lifts(h, a) /\ mark'[a] = 0
             \/ Marks(h, a) /\ mark'[a] = handling[h].at
  <2>1. stage[h] = "mark" /\ handling[h].of[2] \in Address
    BY <1>5 DEF MarkReported, Report, Notification
  <2>2. CASE handling[h].status = "delivered" /\ mark' = Cleared(handling[h].of[2], handling[h].at)
    BY <2>1, <2>2 DEF Lifts, Cleared
  <2>3. CASE handling[h].deactivated /\ mark' = Marked(handling[h].of[2], handling[h].at)
    BY <2>1, <2>3 DEF Marks, Marked
  <2> QED
    BY <1>5, <2>2, <2>3 DEF MarkReported
<1>6. ASSUME NEW n \in Notification, Deliver(n) \/ Bounce(n) PROVE UNCHANGED mark
  BY <1>6 DEF Deliver, Bounce, addresses
<1>7. ASSUME NEW h \in Reporter, ReportStep(h), ~ MarkReported(h) PROVE UNCHANGED mark
  BY <1>7 DEF ReportStep, TakeReport, MoveNotification, ReportFails, addresses
<1>8. ASSUME NEW b \in Address, Reactivate(b) PROVE UNCHANGED mark
  BY <1>8 DEF Reactivate, addresses
<1>9. ASSUME NEW b \in Address, Unconfigure(b) PROVE mark'[a] = 0 /\ a \notin configured'
  BY <1>9 DEF Unconfigure
<1>10. ASSUME NEW b \in Address, NEW replaced \in SUBSET Address, Configure(b, replaced)
       PROVE  mark'[a] = 0 /\ (a \notin configured' \/ (down[a] # None => a \in past'))
  BY <1>10 DEF Configure
<1>11. ~ UNCHANGED vars
  BY DEF vars, notificationVars, addresses
<1> QED
  BY <1>1, <1>2, <1>3, <1>4, <1>5, <1>6, <1>7, <1>8, <1>9, <1>10, <1>11, Steps
  DEF Aside, NotifyStep


\* A bounce that deactivates the address a.
Deactivates(n, a) ==
    /\ Bounce(n) /\ n[2] = a /\ Say(n, "failed", TRUE)
    /\ down'[a] = IF down[a] = None THEN n ELSE down[a]

LEMMA DownChanges ==
    ASSUME TypeOK, [Next]_vars, NEW a \in Address,
           down'[a] # down[a] \/ (a \in active /\ a \notin active')
    PROVE  \E n \in Notification : Deactivates(n, a)
<1> USE DEF TypeOK, NotificationTypeOK
<1>1. ASSUME NEW r \in Request, RequestStep(r) PROVE UNCHANGED <<down, active>>
  BY <1>1 DEF RequestStep, Receive, Fetch, Insert, Publish, Bill, Answer, Stop,
              notifications, service, found
<1>2. ASSUME NEW r \in Request, NotifyStep(r) \/ DeleteDocument(r)
      PROVE  UNCHANGED <<down, active>>
  BY <1>2 DEF NotifyStep, LoadAddresses, Attempt, Mail, RecordRefusal, MarkRefused,
              DeleteDocument, service, found
<1>3. ASSUME NEW n \in Notification, Deliver(n) PROVE UNCHANGED <<down, active>>
  BY <1>3 DEF Deliver
<1>4. ASSUME NEW n \in Notification, Bounce(n) PROVE Deactivates(n, a)
  <2>1. \/ UNCHANGED <<active, down>>
        \/ /\ Say(n, "failed", TRUE) /\ active' = active \ {n[2]}
           /\ down' = [down EXCEPT ![n[2]] = IF @ = None THEN n ELSE @]
    BY <1>4 DEF Bounce
  <2> QED
    BY <1>4, <2>1 DEF Deactivates, Notification
<1>5. ASSUME NEW h \in Reporter, ReportStep(h) PROVE UNCHANGED <<down, active>>
  BY <1>5 DEF ReportStep, TakeReport, MoveNotification, MarkReported, ReportFails,
              service, found
<1>6. ASSUME NEW b \in Address, \/ Reactivate(b) \/ Unconfigure(b)
                                \/ \E replaced \in SUBSET Address : Configure(b, replaced)
      PROVE  UNCHANGED down /\ active \subseteq active'
  BY <1>6 DEF Reactivate, Unconfigure, Configure, service, found
<1> QED
  BY <1>1, <1>2, <1>3, <1>4, <1>5, <1>6, Steps DEF Aside, vars, notificationVars, service, found

LEMMA DownStep ==
    ASSUME TypeOK, LoopInv, ReportInv, DownInv, [Next]_vars PROVE DownInv'
<1>1. ASSUME NEW n \in Notification, NEW a \in Address, Deactivates(n, a)
      PROVE  down'[a] # None /\ n[2] = a /\ mail'[n] # "none"
  <2>1. mail[n] # "none" /\ n # None
    BY <1>1, NotificationAssumption DEF Deactivates, Bounce
  <2> QED
    BY <1>1, <2>1, Lasts DEF Deactivates, Lasting
<1>2. ASSUME NEW a \in Address, a \notin active' \/ mark'[a] # 0 PROVE down'[a] # None
  <2>1. CASE a \notin active \/ mark[a] # 0 \/ down[a] # None
    BY <2>1, Lasts DEF Lasting, DownInv
  <2>2. CASE a \in active /\ a \notin active'
    BY <1>1, <2>2, DownChanges
  <2>3. CASE mark'[a] # 0 /\ mark[a] = 0
    <3>1. CASE \E r \in Request : pc[r] = "mark" /\ to[r] = a
      BY <3>1, Lasts DEF DownInv, Lasting
    <3>2. CASE \E h \in Reporter : Marks(h, a)
      BY <3>2, Lasts
      DEF Marks, ReportInv, ReportOK, Heard, Lasting, TypeOK, NotificationTypeOK
    <3> QED
      BY <2>3, <3>1, <3>2, MarkChanges
  <2> QED
    BY <1>2, <2>1, <2>2, <2>3
<1>3. ASSUME NEW a \in Address, down'[a] # None
      PROVE  down'[a][2] = a /\ mail'[down'[a]] # "none"
  <2>1. CASE down[a] # None
    BY <2>1, Lasts DEF Lasting, DownInv, TypeOK, NotificationTypeOK
  <2>2. CASE down[a] = None
    <3>1. PICK n \in Notification : Deactivates(n, a)
      BY <1>3, <2>2, DownChanges
    <3> QED
      BY <1>1, <2>2, <3>1 DEF Deactivates
  <2> QED
    BY <2>1, <2>2
<1>4. ASSUME NEW r \in Request, pc'[r] \in {"unreachable", "mark"} PROVE down'[to'[r]] # None
  <2>1. /\ to'[r] = to[r] /\ to[r] \in Address
        /\ pc[r] \in {"unreachable", "mark"} \/ to[r] \notin active
    <3> USE <1>4 DEF LoopInv, TypeOK, NotificationTypeOK, Goto, Onward
    <3>1. ASSUME NEW q \in Request, RequestStep(q) PROVE <2>1
      BY <3>1 DEF RequestStep, Receive, Fetch, Insert, Publish, Bill, Answer, Stop, notifications
    <3>2. ASSUME NEW q \in Request, Mail(q) PROVE <2>1
      BY <3>2 DEF Mail
    <3>3. ASSUME NEW q \in Request, RecordRefusal(q) PROVE <2>1
      BY <3>3 DEF RecordRefusal
    <3>4. ASSUME NEW q \in Request, NEW a \in Address, Attempt(q, a) PROVE <2>1
      BY <3>4 DEF Attempt
    <3>5. ASSUME NEW q \in Request, LoadAddresses(q) \/ MarkRefused(q) \/ DeleteDocument(q)
          PROVE  <2>1
      BY <3>5 DEF LoadAddresses, MarkRefused, DeleteDocument, sending
    <3>6. CASE UNCHANGED sending
      BY <3>6 DEF sending
    <3> QED
      BY <3>1, <3>2, <3>3, <3>4, <3>5, <3>6, Steps, AsideFrame
      DEF NotifyStep, vars, notificationVars
  <2> QED
    BY <2>1, Lasts DEF DownInv, Lasting
<1> QED
  BY <1>2, <1>3, <1>4 DEF DownInv


LEMMA ConfiguredGrows ==
    ASSUME TypeOK, [Next]_vars, NEW a \in configured', a \notin configured
    PROVE  \E replaced \in SUBSET Address : Configure(a, replaced)
<1>1. ASSUME NEW r \in Request, RequestStep(r) PROVE UNCHANGED configured
  BY <1>1 DEF RequestStep, Receive, Fetch, Insert, Publish, Bill, Answer, Stop,
              notifications, addresses
<1>2. ASSUME NEW r \in Request, NotifyStep(r) \/ DeleteDocument(r) PROVE UNCHANGED configured
  BY <1>2 DEF NotifyStep, LoadAddresses, Attempt, Mail, RecordRefusal, MarkRefused,
              DeleteDocument, addresses
<1>3. ASSUME NEW n \in Notification, Deliver(n) \/ Bounce(n) PROVE UNCHANGED configured
  BY <1>3 DEF Deliver, Bounce, addresses
<1>4. ASSUME NEW h \in Reporter, ReportStep(h) PROVE UNCHANGED configured
  BY <1>4 DEF ReportStep, TakeReport, MoveNotification, MarkReported, ReportFails, addresses
<1>5. ASSUME NEW b \in Address, Reactivate(b) \/ Unconfigure(b)
      PROVE  configured' \subseteq configured
  BY <1>5 DEF Reactivate, Unconfigure, addresses
<1>6. ASSUME NEW b \in Address, NEW replaced \in SUBSET Address, Configure(b, replaced)
      PROVE  configured' \subseteq configured \cup {b}
  BY <1>6 DEF Configure
<1> QED
  BY <1>1, <1>2, <1>3, <1>4, <1>5, <1>6, Steps DEF Aside, vars, notificationVars, addresses

LEMMA MarkStep ==
    ASSUME TypeOK, LoopInv, ReportInv, DownInv, MarkInv, [Next]_vars PROVE MarkInv'
<1>1. ASSUME NEW p \in Report, Heard(p), p.status = "delivered", p.of[2] \notin past'
      PROVE  Early(p)'
  <2> DEFINE a == p.of[2]
  <2>1. /\ a \in Address /\ a \notin past /\ Early(p)
        /\ p.at \in Nat /\ p.at <= clock /\ clock \in Nat
    BY <1>1, Lasts DEF Lasting, MarkInv, ReportInv, ReportOK, Report, Notification,
                       TypeOK, NotificationTypeOK
  <2>2. ASSUME mark'[a] # 0 PROVE p.at < mark'[a]
    <3>1. CASE mark'[a] = mark[a]
      BY <2>1, <2>2, <3>1 DEF Early
    <3>2. CASE mark'[a] = clock + 1
      BY <2>1, <3>2
    <3>3. ASSUME NEW h \in Reporter, Marks(h, a), mark'[a] = handling[h].at
          PROVE  p.at < mark'[a]
      <4>1. handling[h] \in Report /\ Heard(handling[h])
        BY <3>3 DEF Marks, Heard, TypeOK, NotificationTypeOK
      <4> QED
        BY <2>1, <3>3, <4>1 DEF Marks, Early
    <3> QED
      BY <2>1, <2>2, <3>1, <3>2, <3>3, MarkChanges
  <2>3. ASSUME NEW q \in Report, Heard(q)', q.deactivated, q.of[2] = a PROVE p.at < q.at
    <3>1. CASE Heard(q)
      BY <2>1, <2>3, <3>1 DEF Early
    <3>2. CASE ~ Heard(q)
      BY <2>1, <2>3, <3>2, NewReport DEF Said
    <3> QED
      BY <3>1, <3>2
  <2> QED
    BY <2>2, <2>3 DEF Early
<1>2. ASSUME NEW p \in Report, Heard(p)', ~ Heard(p), p.status = "delivered",
             p.of[2] \notin past'
      PROVE  Early(p)'
  <2> DEFINE a == p.of[2]
  <2>1. a \in Address
    BY DEF Report, Notification
  <2>2. PICK n \in Notification : Said(n, p) /\ Deliver(n)
    BY <1>2, NewReport DEF Said
  <2>3. down[a] = None
    BY <1>2, <2>2 DEF Said, Deliver
  <2>4. mark'[a] = 0
    BY <2>1, <2>2, <2>3 DEF Said, DownInv
  <2>5. ASSUME NEW q \in Report, Heard(q)', q.deactivated, q.of[2] = a PROVE FALSE
    <3>0. q # p
      BY <1>2, <2>2, <2>5 DEF Said
    <3>1. Heard(q)
      BY <2>2, <2>5, <3>0 DEF Said, Heard
    <3> QED
      BY <2>3, <2>5, <3>1 DEF ReportInv, ReportOK
  <2> QED
    BY <2>4, <2>5 DEF Early
<1>3. ASSUME NEW a \in configured' \ past', down'[a] # None, row'[down'[a]] \notin {"none", "deleted"}
      PROVE  mark'[a] # 0 \/ \E q \in reports' : q.of = down'[a] /\ q.deactivated
  <2>0. a \in Address /\ a \notin past
    BY <1>3, StepTypes, Lasts DEF Lasting, TypeOK, NotificationTypeOK
  <2>1. CASE down[a] = None
    <3>1. PICK n \in Notification : Deactivates(n, a)
      BY <1>3, <2>0, <2>1, DownChanges
    <3>2. down'[a] = n /\ row'[n] # "none" /\ UNCHANGED row
      BY <1>3, <2>1, <3>1 DEF Deactivates, Bounce, Shows
    <3>3. [of |-> n, status |-> "failed", deactivated |-> TRUE, at |-> clock + 1] \in reports'
      BY <3>1, <3>2 DEF Deactivates, Say
    <3> QED
      BY <3>2, <3>3
  <2>2. CASE down[a] # None
    <3> DEFINE n == down[a]
    <3>1. down'[a] = n /\ n \in Notification /\ mail[n] # "none"
      BY <2>0, <2>2, Lasts DEF Lasting, DownInv, TypeOK, NotificationTypeOK
    <3>2. Shows(n)
      BY <1>3, <3>1, RowLasts DEF Shows
    <3>3. ASSUME mark[a] # 0 PROVE mark'[a] # 0
      <4>1. ~ \E h \in Reporter : Lifts(h, a)
        <5> SUFFICES ASSUME NEW h \in Reporter, Lifts(h, a) PROVE FALSE
          OBVIOUS
        <5>1. handling[h] \in Report /\ Heard(handling[h])
          BY DEF Lifts, Heard, TypeOK, NotificationTypeOK
        <5>2. Early(handling[h])
          BY <2>0, <5>1 DEF Lifts, MarkInv
        <5> QED
          BY <2>0, <3>3, <5>1, <5>2 DEF Lifts, Early, Report, TypeOK, NotificationTypeOK
      <4>2. ASSUME NEW h \in Reporter, Marks(h, a) PROVE handling[h].at # 0
        BY <4>2 DEF Marks, ReportInv, ReportOK, Heard, TypeOK, NotificationTypeOK
      <4>3. clock + 1 # 0
        BY DEF TypeOK, NotificationTypeOK
      <4> QED
        BY <1>3, <2>0, <2>2, <3>3, <4>1, <4>2, <4>3, MarkChanges
    <3>4. ASSUME NEW q \in reports, q.of = n, q.deactivated
          PROVE  q \in reports' \/ mark'[a] # 0
      <4> SUFFICES ASSUME q \notin reports' PROVE mark'[a] # 0
        OBVIOUS
      <4>1. PICK h \in Reporter : MarkReported(h) /\ handling[h] = q
        BY <3>2, <3>4, Removed DEF Shows
      <4>2. q \in Report /\ ReportOK(q) /\ q.of[2] = a
        BY <2>0, <2>2, <3>4 DEF ReportInv, Heard, DownInv, TypeOK, NotificationTypeOK
      <4>3. mark' = Marked(a, q.at)
        BY <1>3, <3>4, <4>1, <4>2 DEF MarkReported, ReportOK
      <4>4. a \in configured
        BY <1>3, <4>1 DEF MarkReported
      <4> QED
        BY <2>0, <4>2, <4>3, <4>4 DEF Marked, ReportOK, TypeOK, NotificationTypeOK
    <3>5. a \in configured \/ mark'[a] # 0 \/ \E q \in reports' : q.of = n /\ q.deactivated
      <4>1. ASSUME a \notin configured PROVE a \in past'
        <5>1. PICK replaced \in SUBSET Address : Configure(a, replaced)
          BY <1>3, <4>1, ConfiguredGrows
        <5> QED
          BY <2>2, <5>1 DEF Configure
      <4> QED
        BY <1>3, <4>1
    <3> QED
      BY <2>0, <2>2, <3>1, <3>2, <3>3, <3>4, <3>5 DEF MarkInv
  <2> QED
    BY <2>1, <2>2
<1>4. \A p \in Report :
         Heard(p)' /\ p.status = "delivered" /\ p.of[2] \notin past' => Early(p)'
  BY <1>1, <1>2
<1> QED
  BY <1>3, <1>4 DEF MarkInv, Shows


----------------------------------------------------------------------------
(* The theorems.                                                            *)

LEMMA InitialInv == Init => IncomingInv
<1> SUFFICES ASSUME Init PROVE IncomingInv
  OBVIOUS
<1>1. TypeOK
  BY InitialTypes
<1>2. ~ \E p \in Report : Heard(p)
  BY DEF Init, InitNotifications, Heard
<1>3. ReportInv /\ MarkInv /\ BounceInv
  BY <1>2 DEF Init, InitNotifications, ReportInv, MarkInv, BounceInv
<1>4. DownInv
  BY DEF Init, InitNotifications, DownInv
<1>5. LoopInv
  BY DEF Init, InitNotifications, LoopInv, Notification
<1>6. DocumentInv /\ AnswerInv
  BY DEF Init, InitNotifications, DocumentInv, AnswerInv, AnsweredIsReceived, Fresh, Working,
         Notification
<1> QED
  BY <1>1, <1>3, <1>4, <1>5, <1>6 DEF IncomingInv

LEMMA AlwaysIncomingInv == Spec => []IncomingInv
<1>1. IncomingInv /\ [Next]_vars => IncomingInv'
  BY StepTypes, DocumentStep, AnswerStep, LoopStep, ReportStepKeeps, BounceStep, DownStep,
     MarkStep
  DEF IncomingInv
<1> QED
  BY InitialInv, <1>1, PTL DEF Spec

\* The variables keep their types.
THEOREM TypeCorrect == Spec => []TypeOK
<1>1. IncomingInv => TypeOK
  BY DEF IncomingInv
<1> QED
  BY AlwaysIncomingInv, <1>1, PTL

\* A transaction that is delivered again or twice at once is received once: the unique
\* index refuses what the look before the download could not see.
THEOREM TransactionReceivedOnce == Spec => []ReceivedOnce
<1>1. ASSUME IncomingInv PROVE ReceivedOnce
  <2>1. \A d \in Request : Shown(d) => doc[d] # "none"
    BY <1>1 DEF IncomingInv, DocumentInv, Shown
  <2>2. \A d \in Request : doc[d] \in {"none", "kept", "deleted"}
    BY <1>1 DEF IncomingInv, TypeOK, NotificationTypeOK
  <2> QED
    BY <1>1, <2>1, <2>2 DEF IncomingInv, DocumentInv, ReceivedOnce
<1> QED
  BY AlwaysIncomingInv, <1>1, PTL

\* An access point is answered only about what was received.
THEOREM AnswerMeansReceived == Spec => []AnsweredIsReceived
<1>1. IncomingInv => AnsweredIsReceived
  BY DEF IncomingInv, AnswerInv
<1> QED
  BY AlwaysIncomingInv, <1>1, PTL

\* A bounce is shown whatever the order, the repetition and the company of its reports.
THEOREM BounceShown == Spec => []BounceIsShown
<1>1. IncomingInv => BounceIsShown
  BY DEF IncomingInv, BounceInv, BounceIsShown, Shows, Outstanding
<1> QED
  BY AlwaysIncomingInv, <1>1, PTL

\* A delivery that happened before the bounce does not lift the mark of its address.
THEOREM UnreachableShown == Spec => []UnreachableIsShown
<1>1. ASSUME IncomingInv PROVE UnreachableIsShown
  <2> SUFFICES ASSUME NEW a \in configured \ past, NEW n \in Notification,
                      down[a] = n, row[n] \notin {"none", "deleted"}
               PROVE  Outstanding(n) \/ mark[a] # 0
    BY DEF UnreachableIsShown
  <2>1. n # None
    BY NotificationAssumption
  <2> QED
    BY <1>1, <2>1 DEF IncomingInv, MarkInv, Shows, Outstanding
<1> QED
  BY AlwaysIncomingInv, <1>1, PTL


============================================================================
