---------------------- MODULE OutgoingDocumentsProofs ----------------------
(***************************************************************************)
(* Recording the transactions of the access point, for any number of sends,  *)
(* transactions, concurrent webhook requests and faults: a report that names *)
(* a claimed envelope leaves it to its send, a transaction is billed once    *)
(* whoever records it, an answered send is booked and an answered report of  *)
(* the access point's own is recorded.                                       *)
(***************************************************************************)
EXTENDS OutgoingDocuments, TLAPS

\* Before the transmission there is no transaction, and the claim comes before it; a
\* webhook request is about a transaction of the access point.
ProviderInv ==
    /\ \A s \in Send : pc[s] \in {"idle", "claim", "post"} => s \notin sent
    /\ \A s \in Send : pc[s] \in {"idle", "claim"} => s \notin taken /\ claim[s] = "none"
    /\ \A t \in Automatic : claim[t] = "none"
    /\ \A w \in Webhook : pc[w] # "idle" => at[w] \in taken
    /\ \A row \in rows : row[1] \in Webhook => row[2] \in taken

\* No request with a report that names its envelope gets past a claim that is held.
ClaimInv ==
    /\ ClaimKeepsReportsOut
    /\ \A w \in Webhook :
          at[w] \in named /\ claim[at[w]] = "held" /\ pc[w] # "idle" =>
             pc[w] \in {"claimed", "answer"}

\* One row has a transaction's id, and only that row's recorder publishes and bills it.
HolderInv ==
    /\ \A x, y \in holder : x[2] = y[2] => x = y
    /\ \A b \in billed : b[2] = "peppol" => b[1] \in holder
    /\ \A r \in Recorder : pc[r] \in {"publish", "bill"} =>
          RowOf(r) \in rows /\ (HasId(r) => RowOf(r) \in holder)

\* How far the books of a send are: from its row to its events.
Booked(s) ==
    /\ s \in sent => Recorded(s)
    /\ <<s, s>> \in rows =>
          /\ <<s, s>> \in announced
          /\ s \in sent => <<<<s, s>>, "peppol">> \in billed
          /\ s \in mailed => <<<<s, s>>, "email">> \in billed

BookInv ==
    \A s \in Send :
        /\ s \in answered => pc[s] = "ended" /\ Booked(s)
        /\ pc[s] = "answer" => Booked(s)
        /\ pc[s] = "bill" => <<s, s>> \in announced
        /\ pc[s] \in {"idle", "claim", "post", "mail", "insert"} =>
              <<s, s>> \notin rows

\* A webhook request about a transaction of the access point's own that is past the
\* insert found or made its document.
ReportInv ==
    /\ ReportedIsRecorded
    /\ \A w \in Webhook : at[w] \in Automatic /\ pc[w] \in {"publish", "bill", "answer"} =>
          Recorded(at[w])

OutgoingInv == TypeOK /\ ProviderInv /\ ClaimInv /\ HolderInv /\ BookInv /\ ReportInv

\* At first there are no transactions and no documents.
LEMMA InitOutgoing == Init => OutgoingInv
<1> SUFFICES ASSUME Init PROVE OutgoingInv
  OBVIOUS
<1> USE OutgoingAssumption DEF Init, Transaction, Recorder, Label
<1>1. TypeOK
  BY DEF TypeOK
<1>2. ProviderInv
  BY DEF ProviderInv
<1>5. HolderInv
  BY DEF HolderInv
<1>6. BookInv
  BY DEF BookInv
<1>3. ClaimInv
  BY DEF ClaimInv, ClaimKeepsReportsOut
<1>4. ReportInv
  BY DEF ReportInv, ReportedIsRecorded
<1> QED
  BY <1>1, <1>2, <1>3, <1>4, <1>5, <1>6 DEF OutgoingInv

\* Every step keeps the types; an event or a bill follows its row.
LEMMA TypeStep == OutgoingInv /\ [Next]_vars => TypeOK'
<1> SUFFICES ASSUME OutgoingInv, [Next]_vars PROVE TypeOK'
  OBVIOUS
<1> TypeOK
  BY DEF OutgoingInv
<1> USE OutgoingAssumption DEF TypeOK, given, sending, provider, records, Transaction,
        Recorder, Label, Goto
<1>0. Fault => faults' \in 0..MaxFault
  BY DEF Fault
<1>1. ASSUME NEW s \in Send, Prepare(s) \/ Mail(s) \/ Answer(s) PROVE TypeOK'
  <2>1. CASE Prepare(s)
    BY <2>1 DEF Prepare, Unsent
  <2>2. CASE Mail(s)
    BY <2>2 DEF Mail
  <2>3. CASE Answer(s)
    BY <2>3 DEF Answer
  <2> QED
    BY <1>1, <2>1, <2>2, <2>3
<1>2. ASSUME NEW s \in Send, ClaimEnvelope(s) \/ SendStops(s) \/ PruneClaim(s)
      PROVE TypeOK'
  BY <1>0, <1>2 DEF ClaimEnvelope, SendStops, PruneClaim
<1>3. ASSUME NEW s \in Send, Transmit(s) PROVE TypeOK'
  <2>1. faults' \in 0..MaxFault /\ pc' \in [Recorder -> Label]
    BY <1>0, <1>3 DEF Transmit, Unsent
  <2>2. sent' \subseteq Send /\ taken' \subseteq Transaction /\ unanswered' \subseteq taken'
    BY <1>3 DEF Transmit, Unsent
  <2>3. \A w \in Webhook : pc'[w] = pc[w]
    BY <1>3 DEF Transmit, Unsent
  <2> QED
    BY <1>3, <2>1, <2>2, <2>3 DEF Transmit
<1>4. ASSUME NEW t \in Automatic, SendsItself(t) PROVE TypeOK'
  BY <1>4 DEF SendsItself
<1>5. ASSUME NEW r \in Recorder, pc[r] # "idle" PROVE RowOf(r) \in Row
  BY <1>5 DEF RowOf, Of, Row
<1>6. ASSUME NEW r \in Recorder, Insert(r) PROVE TypeOK'
  BY <1>5, <1>6 DEF Insert
<1>7. ASSUME NEW r \in Recorder, Publish(r) PROVE TypeOK'
  <2>1. RowOf(r) \in rows
    BY <1>7 DEF Publish, OutgoingInv, HolderInv
  <2> QED
    BY <1>7, <2>1 DEF Publish
<1>8. ASSUME NEW r \in Recorder, Bill(r) PROVE TypeOK'
  <2>1. RowOf(r) \in rows
    BY <1>8 DEF Bill, OutgoingInv, HolderInv
  <2>2. Channels(r) \subseteq Channel
    BY DEF Channels, Channel
  <2>3. billed' \subseteq rows \X Channel
    BY <1>8, <2>1, <2>2 DEF Bill
  <2> QED
    BY <1>8, <2>3 DEF Bill
<1>9. ASSUME NEW w \in Webhook, NEW t \in Transaction, Receive(w, t) PROVE TypeOK'
  BY <1>9 DEF Receive
<1>10. ASSUME NEW w \in Webhook, FindClaim(w) \/ FindRecorded(w) PROVE TypeOK'
  BY <1>10 DEF FindClaim, FindRecorded
<1>11. ASSUME NEW w \in Webhook, WebhookFails(w) \/ Acknowledge(w) PROVE TypeOK'
  BY <1>0, <1>11 DEF WebhookFails, Acknowledge
<1>12. CASE UNCHANGED vars
  BY <1>12 DEF vars
<1> QED
  BY <1>1, <1>2, <1>3, <1>4, <1>6, <1>7, <1>8, <1>9, <1>10, <1>11, <1>12
  DEF Next, SendStep, WebhookStep, Record

(* The actions, by who takes them.                                          *)
SendAction(s) ==
    Prepare(s) \/ ClaimEnvelope(s) \/ Transmit(s) \/ Mail(s) \/ Answer(s)
    \/ SendStops(s) \/ PruneClaim(s)

WebhookAction(w) ==
    FindClaim(w) \/ FindRecorded(w) \/ Acknowledge(w) \/ WebhookFails(w)
    \/ \E t \in Transaction : Receive(w, t)

\* A step is of a send, of a webhook request, of a recording or of the access point.
LEMMA NextCases ==
    ASSUME [Next]_vars
    PROVE  \/ \E s \in Send : SendAction(s)
           \/ \E w \in Webhook : WebhookAction(w)
           \/ \E r \in Recorder : Record(r)
           \/ \E t \in Automatic : SendsItself(t)
           \/ UNCHANGED vars
  BY DEF Next, SendStep, WebhookStep, SendAction, WebhookAction, Recorder

\* A transaction follows its claim, and a report its transaction.
LEMMA ProviderStep ==
    ASSUME OutgoingInv, [Next]_vars PROVE ProviderInv'
<1> USE OutgoingAssumption DEF OutgoingInv, TypeOK, ProviderInv, given, sending, provider,
        records, Transaction, Recorder, Goto
<1>1. ASSUME NEW s \in Send, SendAction(s) PROVE ProviderInv'
  <2>1. CASE Prepare(s) \/ Mail(s) \/ Answer(s) \/ SendStops(s) \/ PruneClaim(s)
    BY <2>1 DEF Prepare, Mail, Answer, SendStops, PruneClaim, Unsent
  <2>2. CASE ClaimEnvelope(s)
    BY <2>2 DEF ClaimEnvelope
  <2>3. CASE Transmit(s)
    BY <2>3 DEF Transmit, Unsent
  <2> QED
    BY <1>1, <2>1, <2>2, <2>3 DEF SendAction
<1>2. ASSUME NEW w \in Webhook, WebhookAction(w) PROVE ProviderInv'
  BY <1>2 DEF WebhookAction, FindClaim, FindRecorded, Acknowledge, WebhookFails, Receive
<1>3. ASSUME NEW r \in Recorder, Record(r) PROVE ProviderInv'
  <2>1. RowOf(r)[1] \in Webhook => RowOf(r)[2] \in taken \/ pc[r] = "idle"
    BY DEF RowOf, Of
  <2>2. CASE Insert(r)
    BY <2>1, <2>2 DEF Insert
  <2>3. CASE Publish(r) \/ Bill(r)
    BY <2>3 DEF Publish, Bill
  <2> QED
    BY <1>3, <2>2, <2>3 DEF Record
<1>4. ASSUME NEW t \in Automatic, SendsItself(t) PROVE ProviderInv'
  BY <1>4 DEF SendsItself
<1>5. CASE UNCHANGED vars
  BY <1>5 DEF vars
<1> QED
  BY <1>1, <1>2, <1>3, <1>4, <1>5, NextCases

\* A claim is held before there is a report that could overlook it.
LEMMA ClaimStep ==
    ASSUME OutgoingInv, [Next]_vars PROVE ClaimInv'
<1> USE OutgoingAssumption DEF OutgoingInv, TypeOK, ClaimInv, ClaimKeepsReportsOut,
        given, sending, provider, records, Transaction, Recorder, Goto
<1>1. ASSUME NEW s \in Send, SendAction(s) PROVE ClaimInv'
  <2>1. CASE ClaimEnvelope(s)
    <3>1. s \notin taken /\ \A w \in Webhook : <<w, s>> \notin rows
      BY <2>1 DEF ClaimEnvelope, ProviderInv
    <3>2. \A w \in Webhook : pc[w] # "idle" => at[w] # s
      BY <3>1 DEF ProviderInv
    <3>3. \A w \in Webhook : pc'[w] = pc[w] /\ at'[w] = at[w]
      BY <2>1 DEF ClaimEnvelope
    <3>4. (\A t \in Transaction \ {s} : claim'[t] = claim[t]) /\ UNCHANGED <<rows, named>>
      BY <2>1 DEF ClaimEnvelope
    <3> QED
      BY <3>1, <3>2, <3>3, <3>4
  <2>2. CASE PruneClaim(s)
    BY <2>2 DEF PruneClaim
  <2>3. CASE Prepare(s) \/ Transmit(s) \/ Mail(s) \/ Answer(s) \/ SendStops(s)
    BY <2>3 DEF Prepare, Transmit, Mail, Answer, SendStops, Unsent
  <2> QED
    BY <1>1, <2>1, <2>2, <2>3 DEF SendAction
<1>2. ASSUME NEW w \in Webhook, WebhookAction(w) PROVE ClaimInv'
  BY <1>2 DEF WebhookAction, FindClaim, FindRecorded, Acknowledge, WebhookFails, Receive
<1>3. ASSUME NEW r \in Recorder, Insert(r) PROVE ClaimInv'
  <2>1. \A s \in Send \cap named, w \in Webhook : RowOf(r) = <<w, s>> =>
           claim[s] # "held"
    BY <1>3 DEF Insert, RowOf, Of
  <2>2. \A w \in Webhook : pc'[w] = pc[w] \/ (w = r /\ ~(at[w] \in named /\ claim[at[w]] = "held"))
                          \/ pc'[w] = "answer"
    BY <1>3 DEF Insert
  <2>3. rows' \subseteq rows \cup {RowOf(r)} /\ UNCHANGED <<claim, at, named>>
    BY <1>3 DEF Insert
  <2>4. \A w \in Webhook : pc'[w] # "idle" => pc[w] # "idle"
    BY <1>3 DEF Insert
  <2> QED
    BY <2>1, <2>2, <2>3, <2>4
<1>4. ASSUME NEW r \in Recorder, Publish(r) \/ Bill(r) PROVE ClaimInv'
  BY <1>4 DEF Publish, Bill
<1>5. ASSUME NEW t \in Automatic, SendsItself(t) PROVE ClaimInv'
  BY <1>5 DEF SendsItself
<1>6. CASE UNCHANGED vars
  BY <1>6 DEF vars
<1> QED
  BY <1>1, <1>2, <1>3, <1>4, <1>5, <1>6, NextCases DEF Record

\* The rows keep their ids, and the sends past their transmission what became of it.
LEMMA OnlyGrows ==
    ASSUME OutgoingInv, [Next]_vars
    PROVE  /\ rows \subseteq rows' /\ holder \subseteq holder'
           /\ announced \subseteq announced' /\ billed \subseteq billed'
           /\ \A t \in Transaction : Recorded(t) => Recorded(t)'
           /\ \A s \in Send : pc[s] \notin {"idle", "claim", "post"} =>
                 (s \in sent' <=> s \in sent)
           /\ \A s \in Send : pc[s] # "mail" => (s \in mailed' <=> s \in mailed)
           /\ \A s \in Send : pc[s] # "answer" => (s \in answered' <=> s \in answered)
<1> USE DEF given, sending, provider, records
<1> DEFINE Goal == /\ rows \subseteq rows' /\ holder \subseteq holder'
                   /\ announced \subseteq announced' /\ billed \subseteq billed'
                   /\ \A s \in Send : pc[s] \notin {"idle", "claim", "post"} =>
                         (s \in sent' <=> s \in sent)
                   /\ \A s \in Send : pc[s] # "mail" => (s \in mailed' <=> s \in mailed)
                   /\ \A s \in Send : pc[s] # "answer" =>
                         (s \in answered' <=> s \in answered)
<1>1. ASSUME NEW s \in Send, SendAction(s) PROVE Goal
  BY <1>1 DEF SendAction, Prepare, ClaimEnvelope, Transmit, Mail, Answer, SendStops,
              PruneClaim
<1>2. ASSUME NEW w \in Webhook, WebhookAction(w) PROVE Goal
  BY <1>2 DEF WebhookAction, FindClaim, FindRecorded, Acknowledge, WebhookFails, Receive
<1>3. ASSUME NEW r \in Recorder, Record(r) PROVE Goal
  BY <1>3 DEF Record, Insert, Publish, Bill
<1>4. ASSUME NEW t \in Automatic, SendsItself(t) PROVE Goal
  BY <1>4 DEF SendsItself
<1>5. ASSUME UNCHANGED vars PROVE Goal
  BY <1>5 DEF vars
<1>6. Goal
  BY <1>1, <1>2, <1>3, <1>4, <1>5, NextCases
<1> QED
  BY <1>6 DEF Recorded

\* The unique index gives the id of a transaction to one row.
LEMMA HolderStep ==
    ASSUME OutgoingInv, [Next]_vars PROVE HolderInv'
<1> USE OutgoingAssumption DEF OutgoingInv, TypeOK, given, sending, provider, records,
        Transaction, Recorder, Goto, RowOf, Of, HasId
\* A recorder that does not move keeps what HolderInv says of it.
<1>1. ASSUME NEW r \in Recorder, pc'[r] \in {"publish", "bill"},
             pc[r] \in {"publish", "bill"}, r \in Webhook => at'[r] = at[r]
      PROVE RowOf(r)' \in rows' /\ (HasId(r)' => RowOf(r)' \in holder')
  <2>1. RowOf(r) \in rows /\ (HasId(r) => RowOf(r) \in holder)
    BY <1>1 DEF HolderInv
  <2>2. r \in Send => (r \in sent' <=> r \in sent)
    BY <1>1, OnlyGrows
  <2> QED
    BY <1>1, <2>1, <2>2, OnlyGrows
<1>2. ASSUME UNCHANGED <<holder, billed>>,
             \A r \in Recorder : pc'[r] \in {"publish", "bill"} =>
                pc[r] \in {"publish", "bill"} /\ (r \in Webhook => at'[r] = at[r])
      PROVE HolderInv'
  BY <1>1, <1>2 DEF HolderInv
<1>3. ASSUME NEW s \in Send, SendAction(s) PROVE HolderInv'
  <2>1. UNCHANGED <<holder, billed, at>>
    BY <1>3 DEF SendAction, Prepare, ClaimEnvelope, Transmit, Mail, Answer, SendStops,
                PruneClaim
  <2>2. \A r \in Recorder : pc'[r] \in {"publish", "bill"} => pc'[r] = pc[r]
    BY <1>3 DEF SendAction, Prepare, ClaimEnvelope, Transmit, Mail, Answer, SendStops,
                PruneClaim, Unsent
  <2> QED
    BY <1>2, <2>1, <2>2
<1>4. ASSUME NEW w \in Webhook, WebhookAction(w) PROVE HolderInv'
  <2>1. UNCHANGED <<holder, billed>>
    BY <1>4 DEF WebhookAction, FindClaim, FindRecorded, Acknowledge, WebhookFails, Receive
  <2>2. \A r \in Recorder : pc'[r] \in {"publish", "bill"} =>
           pc[r] \in {"publish", "bill"} /\ (r \in Webhook => at'[r] = at[r])
    BY <1>4 DEF WebhookAction, FindClaim, FindRecorded, Acknowledge, WebhookFails, Receive
  <2> QED
    BY <1>2, <2>1, <2>2
<1>5. ASSUME NEW r \in Recorder, Insert(r) PROVE HolderInv'
  <2>1. \A q \in Recorder \ {r} : pc'[q] = pc[q]
    BY <1>5 DEF Insert
  <2>2. UNCHANGED <<sent, at, billed>>
    BY <1>5 DEF Insert
  <2>3. pc'[r] = "publish" =>
           RowOf(r) \in rows' /\ (HasId(r) => RowOf(r) \in holder')
    BY <1>5 DEF Insert
  <2>4. \A x, y \in holder' : x[2] = y[2] => x = y
    BY <1>5 DEF Insert, Recorded, HolderInv
  <2>5. pc'[r] \in {"publish", "answer"}
    BY <1>5 DEF Insert
  <2>6. \A q \in Recorder : pc'[q] \in {"publish", "bill"} =>
           RowOf(q)' \in rows' /\ (HasId(q)' => RowOf(q)' \in holder')
    BY <1>1, <2>1, <2>2, <2>3, <2>5
  <2>7. \A b \in billed' : b[2] = "peppol" => b[1] \in holder'
    BY <2>2, OnlyGrows DEF HolderInv
  <2> QED
    BY <2>4, <2>6, <2>7 DEF HolderInv
<1>6. ASSUME NEW r \in Recorder, Publish(r) PROVE HolderInv'
  BY <1>2, <1>6 DEF Publish
<1>7. ASSUME NEW r \in Recorder, Bill(r) PROVE HolderInv'
  <2>1. HasId(r) => RowOf(r) \in holder
    BY <1>7 DEF Bill, HolderInv
  <2>2. "peppol" \in Channels(r) => RowOf(r) \in holder
    BY <2>1 DEF Channels
  <2>3. \A b \in billed' : b[2] = "peppol" => b[1] \in holder
    BY <1>7, <2>2 DEF Bill, HolderInv
  <2>4. UNCHANGED <<holder, rows, at, sent>>
    BY <1>7 DEF Bill
  <2>5. \A q \in Recorder : pc'[q] \in {"publish", "bill"} => pc'[q] = pc[q]
    BY <1>7 DEF Bill
  <2> QED
    BY <1>1, <2>3, <2>4, <2>5 DEF HolderInv
<1>8. ASSUME NEW t \in Automatic, SendsItself(t) PROVE HolderInv'
  BY <1>2, <1>8 DEF SendsItself
<1>9. CASE UNCHANGED vars
  BY <1>2, <1>9 DEF vars
<1> QED
  BY <1>3, <1>4, <1>5, <1>6, <1>7, <1>8, <1>9, NextCases DEF Record

\* A request is answered after its document exists.
LEMMA ReportStep ==
    ASSUME OutgoingInv, [Next]_vars PROVE ReportInv'
<1> USE OutgoingAssumption DEF OutgoingInv, TypeOK, given, sending, provider, records,
        Transaction, Recorder, Goto
<1> DEFINE RecordedNow(t) == \E row \in holder' : row[2] = t
<1>1. ASSUME \A t \in Automatic : t \in taken' \ unanswered' =>
                t \in taken \ unanswered \/ Recorded(t),
             \A w \in Webhook :
                at'[w] \in Automatic /\ pc'[w] \in {"publish", "bill", "answer"} =>
                   \/ at'[w] = at[w] /\ pc[w] \in {"publish", "bill", "answer"}
                   \/ RecordedNow(at'[w])
      PROVE ReportInv'
  <2>1. \A t \in Transaction : Recorded(t) => RecordedNow(t)
    BY OnlyGrows DEF Recorded
  <2>2. \A t \in Automatic : t \in taken' \ unanswered' => RecordedNow(t)
    BY <1>1, <2>1 DEF ReportInv, ReportedIsRecorded
  <2>3. \A w \in Webhook :
           at'[w] \in Automatic /\ pc'[w] \in {"publish", "bill", "answer"} =>
              RecordedNow(at'[w])
    BY <1>1, <2>1 DEF ReportInv
  <2> QED
    BY <2>2, <2>3 DEF ReportInv, ReportedIsRecorded, Recorded
<1>2. ASSUME NEW s \in Send, SendAction(s) PROVE ReportInv'
  <2>1. UNCHANGED at /\ \A w \in Webhook : pc'[w] = pc[w]
    BY <1>2 DEF SendAction, Prepare, ClaimEnvelope, Transmit, Mail, Answer, SendStops,
                PruneClaim, Unsent
  <2>2. \A t \in Automatic : t \in taken' \ unanswered' => t \in taken \ unanswered
    BY <1>2 DEF SendAction, Prepare, ClaimEnvelope, Transmit, Mail, Answer, SendStops,
                PruneClaim
  <2> QED
    BY <1>1, <2>1, <2>2
<1>3. ASSUME NEW w \in Webhook, Acknowledge(w) PROVE ReportInv'
  <2>1. at[w] \in Automatic => Recorded(at[w])
    BY <1>3 DEF Acknowledge, ReportInv
  <2> QED
    BY <1>1, <1>3, <2>1 DEF Acknowledge
<1>4. ASSUME NEW w \in Webhook, FindClaim(w) PROVE ReportInv'
  <2>1. at[w] \in Automatic => pc'[w] = "known"
    BY <1>4 DEF FindClaim, ProviderInv
  <2> QED
    BY <1>1, <1>4, <2>1 DEF FindClaim
<1>5. ASSUME NEW w \in Webhook, FindRecorded(w) PROVE ReportInv'
  <2>1. /\ UNCHANGED <<holder, at, taken, unanswered>>
        /\ pc'[w] = "answer" => Recorded(at[w])
        /\ pc'[w] \in {"answer", "insert"}
        /\ \A v \in Webhook \ {w} : pc'[v] = pc[v]
    BY <1>5 DEF FindRecorded
  <2>2. Recorded(at[w]) => RecordedNow(at'[w])
    BY <2>1 DEF Recorded
  <2> QED
    BY <1>1, <2>1, <2>2
<1>6. ASSUME NEW w \in Webhook,
             WebhookFails(w) \/ \E t \in Transaction : Receive(w, t)
      PROVE ReportInv'
  BY <1>1, <1>6 DEF WebhookFails, Receive
<1>7. ASSUME NEW r \in Recorder, Insert(r) PROVE ReportInv'
  <2>1. UNCHANGED <<at, taken, unanswered>> /\ \A q \in Recorder \ {r} : pc'[q] = pc[q]
    BY <1>7 DEF Insert
  <2>2. r \in Webhook => HasId(r) /\ RowOf(r)[2] = at[r] /\ Of(r) = at[r]
    BY DEF HasId, RowOf, Of
  <2>4. r \in Webhook => RecordedNow(at'[r])
    BY <1>7, <2>1, <2>2 DEF Insert, Recorded
  <2> QED
    BY <1>1, <2>1, <2>4
<1>8. ASSUME NEW r \in Recorder, Publish(r) \/ Bill(r) PROVE ReportInv'
  BY <1>1, <1>8 DEF Publish, Bill
<1>9. ASSUME NEW t \in Automatic, SendsItself(t) PROVE ReportInv'
  BY <1>1, <1>9 DEF SendsItself
<1>10. CASE UNCHANGED vars
  BY <1>1, <1>10 DEF vars
<1> QED
  BY <1>2, <1>3, <1>4, <1>5, <1>6, <1>7, <1>8, <1>9, <1>10, NextCases
  DEF Record, WebhookAction

\* A send goes from its row to its event, its bill and its answer, in this order.
LEMMA BookStep ==
    ASSUME OutgoingInv, [Next]_vars PROVE BookInv'
<1> USE OutgoingAssumption DEF OutgoingInv, TypeOK, given, sending, provider, records,
        Transaction, Recorder, Goto
<1> DEFINE Early == {"idle", "claim", "post", "mail", "insert"}
           BookedNow(s) ==
             /\ s \in sent' => Recorded(s)'
             /\ <<s, s>> \in rows' =>
                   /\ <<s, s>> \in announced'
                   /\ s \in sent' => <<<<s, s>>, "peppol">> \in billed'
                   /\ s \in mailed' => <<<<s, s>>, "email">> \in billed'
           BookNow(s) ==
             /\ s \in answered' => pc'[s] = "ended" /\ BookedNow(s)
             /\ pc'[s] = "answer" => BookedNow(s)
             /\ pc'[s] = "bill" => <<s, s>> \in announced'
             /\ pc'[s] \in Early => <<s, s>> \notin rows'
\* What was booked stays booked once the send is past its transmission and its emails.
<1>1. ASSUME NEW s \in Send, Booked(s), pc[s] \in {"answer", "ended"},
             <<s, s>> \in rows' => <<s, s>> \in rows
      PROVE BookedNow(s)
  <2>1. (s \in sent' <=> s \in sent) /\ (s \in mailed' <=> s \in mailed)
    BY <1>1, OnlyGrows
  <2> QED
    BY <1>1, <2>1, OnlyGrows DEF Booked
\* A send that this step neither moves nor writes a row for.
<1>2. ASSUME NEW s \in Send, pc'[s] = pc[s],
             <<s, s>> \in rows' => <<s, s>> \in rows,
             s \in answered' => s \in answered
      PROVE BookNow(s)
  BY <1>1, <1>2, OnlyGrows DEF BookInv
<1>3. ASSUME \A s \in Send : BookNow(s) PROVE BookInv'
  BY <1>3 DEF BookInv, Booked
<1>4. ASSUME NEW s \in Send, SendAction(s) PROVE BookInv'
  <2>1. \A z \in Send \ {s} : pc'[z] = pc[z] /\ (z \in answered' => z \in answered)
    BY <1>4 DEF SendAction, Prepare, ClaimEnvelope, Transmit, Mail, Answer, SendStops,
                PruneClaim, Unsent
  <2>2. UNCHANGED rows
    BY <1>4 DEF SendAction, Prepare, ClaimEnvelope, Transmit, Mail, Answer, SendStops,
                PruneClaim
  <2>3. BookNow(s)
    <3>1. CASE Answer(s)
      <4>1. Booked(s) /\ pc[s] = "answer" /\ pc'[s] = "ended"
        BY <3>1 DEF Answer, BookInv
      <4> QED
        BY <1>1, <2>2, <4>1
    <3>2. CASE PruneClaim(s)
      BY <1>2, <3>2 DEF PruneClaim
    <3>3. CASE Prepare(s) \/ ClaimEnvelope(s) \/ Transmit(s) \/ Mail(s)
      <4>1. /\ pc[s] \in Early
            /\ pc'[s] \in {"claim", "post", "mail", "insert", "ended"}
            /\ s \in answered' => s \in answered
        BY <3>3 DEF Prepare, ClaimEnvelope, Transmit, Mail, Unsent
      <4> QED
        BY <2>2, <4>1 DEF BookInv
    <3>4. CASE SendStops(s)
      <4>1. pc[s] # "ended" /\ pc'[s] = "ended" /\ (s \in answered' => s \in answered)
        BY <3>4 DEF SendStops
      <4> QED
        BY <4>1 DEF BookInv
    <3> QED
      BY <1>4, <3>1, <3>2, <3>3, <3>4 DEF SendAction
  <2> QED
    BY <1>2, <1>3, <2>1, <2>2, <2>3
<1>5. ASSUME UNCHANGED <<rows, answered>>, \A s \in Send : pc'[s] = pc[s]
      PROVE BookInv'
  BY <1>2, <1>3, <1>5
<1>6. ASSUME NEW w \in Webhook, WebhookAction(w) PROVE BookInv'
  BY <1>5, <1>6 DEF WebhookAction, FindClaim, FindRecorded, Acknowledge, WebhookFails,
                   Receive
<1>7. ASSUME NEW r \in Recorder, Record(r) PROVE BookInv'
  <2>1. \A s \in Send \ {r} : <<s, s>> \in rows' => <<s, s>> \in rows
    BY <1>7 DEF Record, Insert, Publish, Bill, RowOf, Of
  <2>2. /\ \A s \in Send \ {r} : pc'[s] = pc[s]
        /\ UNCHANGED <<sent, mailed, answered>>
    BY <1>7 DEF Record, Insert, Publish, Bill
  <2>3. ASSUME r \in Send, Insert(r) PROVE BookNow(r)
    <3>1. r \notin answered /\ <<r, r>> \notin rows
      BY <2>3 DEF Insert, BookInv
    <3>2. CASE HasId(r) /\ Recorded(Of(r))
      <4>1. pc'[r] = "answer" /\ UNCHANGED rows /\ Recorded(r)
        BY <2>3, <3>2 DEF Insert, Of
      <4> QED
        BY <2>2, <3>1, <4>1, OnlyGrows
    <3>3. CASE ~(HasId(r) /\ Recorded(Of(r)))
      BY <2>2, <2>3, <3>1, <3>3 DEF Insert
    <3> QED
      BY <3>2, <3>3
  <2>4. ASSUME r \in Send, Publish(r) PROVE BookNow(r)
    <3>1. r \notin answered /\ pc'[r] = "bill" /\ <<r, r>> \in announced'
      BY <2>4 DEF Publish, BookInv, RowOf, Of
    <3> QED
      BY <2>2, <3>1
  <2>5. ASSUME r \in Send, Bill(r) PROVE BookNow(r)
    <3>1. r \notin answered /\ pc'[r] = "answer" /\ UNCHANGED <<rows, holder, announced>>
      BY <2>5 DEF Bill, BookInv
    <3>2. <<r, r>> \in announced
      BY <2>5 DEF Bill, BookInv
    <3>3. r \in sent => Recorded(r)
      <4>1. HasId(r) => <<r, r>> \in holder
        BY <2>5 DEF Bill, HolderInv, RowOf, Of
      <4> QED
        BY <4>1, <2>5 DEF HasId, Recorded
    <3>4. /\ r \in sent => <<<<r, r>>, "peppol">> \in billed'
          /\ r \in mailed => <<<<r, r>>, "email">> \in billed'
      BY <2>5 DEF Bill, Channels, HasId, RowOf, Of
    <3> QED
      BY <2>2, <3>1, <3>2, <3>3, <3>4, OnlyGrows
  <2>6. r \in Send => BookNow(r)
    BY <1>7, <2>3, <2>4, <2>5 DEF Record
  <2> QED
    BY <1>2, <1>3, <2>1, <2>2, <2>6
<1>8. ASSUME NEW t \in Automatic, SendsItself(t) PROVE BookInv'
  BY <1>5, <1>8 DEF SendsItself
<1>9. CASE UNCHANGED vars
  BY <1>5, <1>9 DEF vars
<1> QED
  BY <1>4, <1>6, <1>7, <1>8, <1>9, NextCases

\* Every step of the sends, the webhook and the access point keeps the invariant.
THEOREM OutgoingInvariant == Spec => []OutgoingInv
<1>1. OutgoingInv /\ [Next]_vars => OutgoingInv'
  BY TypeStep, ProviderStep, ClaimStep, HolderStep, BookStep, ReportStep DEF OutgoingInv
<1> QED
  BY InitOutgoing, <1>1, PTL DEF Spec

\* Recording keeps its types, and no event or bill is without its row.
THEOREM OutgoingTypes == Spec => []TypeOK
<1>1. OutgoingInv => TypeOK
  BY DEF OutgoingInv
<1> QED
  BY OutgoingInvariant, <1>1, PTL

\* recordProviderSentTransaction never records the transaction of a send from a report
\* that names its envelope while the claim of the envelope is there to be found.
THEOREM ClaimedIsLeftToItsSend == Spec => []ClaimKeepsReportsOut
<1>1. OutgoingInv => ClaimKeepsReportsOut
  BY DEF OutgoingInv, ClaimInv
<1> QED
  BY OutgoingInvariant, <1>1, PTL

\* Any number of requests may insert a document of their own for one transaction: the
\* unique ap_transaction_id and the early return on its conflict leave one to bill.
THEOREM BilledOncePerTransaction == Spec => []TransactionBilledOnce
<1>1. ASSUME OutgoingInv, NEW b \in billed, NEW c \in billed,
             b[2] = "peppol", c[2] = "peppol", b[1][2] = c[1][2]
      PROVE b = c
  <2>1. b[1] = c[1]
    BY <1>1 DEF OutgoingInv, HolderInv
  <2>2. b \in Row \X Channel /\ c \in Row \X Channel
    BY <1>1 DEF OutgoingInv, TypeOK
  <2> QED
    BY <1>1, <2>1, <2>2
<1>2. OutgoingInv => TransactionBilledOnce
  BY <1>1 DEF TransactionBilledOnce
<1> QED
  BY OutgoingInvariant, <1>2, PTL

\* A send is answered as successful only once recordOutgoingDocument has returned with
\* its document announced and billed, or with the document of its transaction.
THEOREM AnsweredSendIsBooked == Spec => []AnsweredIsBooked
<1>1. OutgoingInv => AnsweredIsBooked
  BY DEF OutgoingInv, TypeOK, BookInv, Booked, AnsweredIsBooked
<1> QED
  BY OutgoingInvariant, <1>1, PTL

\* The webhook answers a report of the access point's own transaction only once the
\* document exists.
THEOREM AnsweredReportIsRecorded == Spec => []ReportedIsRecorded
<1>1. OutgoingInv => ReportedIsRecorded
  BY DEF OutgoingInv, ReportInv
<1> QED
  BY OutgoingInvariant, <1>1, PTL
============================================================================
