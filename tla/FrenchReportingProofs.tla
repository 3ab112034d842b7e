----------------------- MODULE FrenchReportingProofs -----------------------
(***************************************************************************)
(* A French report that was answered is followed until it is ruled on and its *)
(* row says how, for any number of requests, reports, workers that look at    *)
(* one row at a time or at once, changes and faults.  The argument rests on    *)
(* the reports' standing at the service, which only ever moves towards a      *)
(* ruling: whoever hears of a ruling hears of the same one, and whoever        *)
(* writes anything else plans another look.                                  *)
(***************************************************************************)
EXTENDS FrenchReporting, TLAPS

\* A registration that is tried again has attempts left.
DeclarantInv ==
    /\ DeclarantTypeOK
    /\ declarant # None /\ declarant.state = "pending" => declarant.attempts < MaxAttempts
    /\ \A i \in Id : sync[i] # None => sync[i].row.attempts < MaxAttempts

Types == TypeOK /\ DeclarantInv

\* Where a document's request is when others see it, and where a filed report's is.
Past   == {"bill", "follow", "answered", "failed"}
Beyond == {"find", "record", "ensure", "bill", "follow"}

RequestOK(q) ==
    /\ step[q] \in {"idle", "assess", "submit", "refused"} =>
          answered[q] = None /\ doc[q] = None
    /\ step[q] \in Beyond => answered[q] # None
    /\ answered[q] # None => filed[Ref(q)] # None
    /\ answered[q] \in {"superseded", "rejected"} => standing[Ref(q)].status = answered[q]
    /\ step[q] \in {"ensure", "bill", "follow"} => doc[q] # None
    /\ doc[q] # None => step[doc[q]] \in Past /\ Ref(doc[q]) = Ref(q)

RequestInv == \A q \in Request : RequestOK(q)

\* A deposit that was accepted is a filed report's.
StandingInv ==
    \A r \in Reference :
        standing[r] # None /\ standing[r].outcome = "accepted" => standing[r].status = "filed"

\* A settled row says what the service says, and a row that is not looked up is settled.
RowOK(d) ==
    /\ d \in documents => step[d] \in Past /\ filed[Ref(d)] # None
    /\ recorded[d] # None => d \in documents
    /\ d \in due => recorded[d] # None
    /\ recorded[d] # None /\ Final(recorded[d]) => recorded[d] = standing[Ref(d)]
    /\ recorded[d] # None /\ d \notin due =>
          Final(recorded[d]) \/ Ref(d) \in stale \cup gone

RowInv == \A d \in Request : RowOK(d)

\* What a tick heard, as it is about to write it.
HeardInv(t) ==
    LET s == heard[t].standing IN
    /\ s.outcome = "accepted" => s.status = "filed"
    /\ heard[t].stale => Ref(at[t]) \in stale
    /\ Final(s) => standing[Ref(at[t])] = s
    /\ Final(was[t]) => s = was[t]

\* The row a tick read is there unless it was deleted, and was right if it was settled.
TickOK(t) ==
    /\ looking[t] # "write" => heard[t] = None
    /\ looking[t] # "idle" =>
          /\ at[t] \in Request /\ was[t] # None
          /\ step[at[t]] \in Past /\ filed[Ref(at[t])] # None
          /\ at[t] \in documents => recorded[at[t]] # None
          /\ Final(was[t]) => standing[Ref(at[t])] = was[t]
    /\ looking[t] = "write" =>
          IF heard[t] = None THEN Ref(at[t]) \in gone ELSE HeardInv(t)

TickInv == \A t \in Tick : TickOK(t)

ReportingInv ==
    /\ Types /\ RequestInv /\ StandingInv /\ RowInv /\ TickInv /\ AnsweredIsFollowed

----------------------------------------------------------------------------
(* The types.                                                               *)

LEMMA InitialTypes == Init => Types
BY DeclarantAssumption DEF Init, InitDeclarant, Types, TypeOK, DeclarantInv, DeclarantTypeOK, Step

LEMMA DeclarantStep ==
    ASSUME DeclarantInv, DeclarantNext PROVE DeclarantInv'
<1> USE DeclarantAssumption DEF DeclarantInv, DeclarantTypeOK, Row, Id, Present
<1>1. ASSUME NEW e \in Exigibility, RequestDeclarant(e) PROVE DeclarantInv'
  BY <1>1 DEF RequestDeclarant, Change
<1>2. ASSUME NEW i \in Id, BeginSync(i) PROVE DeclarantInv'
  BY <1>2 DEF BeginSync
<1>3. ASSUME NEW i \in Id, Register(i) PROVE DeclarantInv'
  BY <1>3 DEF Register
<1>4. ASSUME NEW i \in Id, Registered(i) PROVE DeclarantInv'
  BY <1>4 DEF Registered
<1>5. ASSUME NEW i \in Id, RegisterFails(i) PROVE DeclarantInv'
  <2>1. PICK retryable \in BOOLEAN :
          declarant' = IF Present(i)
                       THEN [declarant EXCEPT
                               !.state = AfterFailure(sync[i].row, retryable),
                               !.attempts = sync[i].row.attempts + 1]
                       ELSE declarant
    BY <1>5 DEF RegisterFails
  <2>2. sync[i] # None /\ sync[i].row \in Row /\ sync[i].row.attempts + 1 \in 0..MaxAttempts
    BY <1>5 DEF RegisterFails
  <2>3. /\ AfterFailure(sync[i].row, retryable) \in {"blocked", "pending"}
        /\ AfterFailure(sync[i].row, retryable) = "pending"
              => sync[i].row.attempts + 1 < MaxAttempts
    BY <2>2 DEF AfterFailure
  <2>4. /\ declarant' \in Row \cup {None}
        /\ declarant' # None /\ declarant'.state = "pending"
              => declarant'.attempts < MaxAttempts
    BY <2>1, <2>2, <2>3
  <2> QED
    BY <1>5, <2>4 DEF RegisterFails
<1>6. ASSUME NEW i \in Id, SyncCrash(i) PROVE DeclarantInv'
  BY <1>6 DEF SyncCrash, Fault
<1>7. ASSUME NEW action \in SupportAction, BeginSupport(action) PROVE DeclarantInv'
  BY <1>7 DEF BeginSupport, Change
<1>8. CASE CallSupport
  BY <1>8 DEF CallSupport
<1>9. CASE FinishSupport
  BY <1>9 DEF FinishSupport
<1>10. CASE SupportFails
  BY <1>10 DEF SupportFails, Fault
<1> QED
  BY <1>1, <1>2, <1>3, <1>4, <1>5, <1>6, <1>7, <1>8, <1>9, <1>10
  DEF DeclarantNext, SyncStep

\* A report has a reference, and what is filed under it is a report.
LEMMA ReferenceKnown ==
    ASSUME TypeOK, NEW q \in Request, report[q] # None
    PROVE  report[q] \in Report /\ Ref(q) \in Reference
BY DEF TypeOK, Ref, Reference

\* Outside the registration, only its counters change.
LEMMA DeclarantFrame ==
    ASSUME DeclarantInv, UNCHANGED <<declarant, registry, sync, support>>,
           UNCHANGED changes \/ Change, UNCHANGED faults \/ Fault
    PROVE  DeclarantInv'
BY DeclarantAssumption
   DEF DeclarantInv, DeclarantTypeOK, Change, Fault, Id, Row
----------------------------------------------------------------------------
(* What only grows.                                                         *)

\* A settled standing is one nothing follows.
LEMMA FinalIsRuled ==
    ASSUME NEW s \in Standing PROVE Final(s) <=> Ruled(s)
BY DEF Standing, Status, Outcome, Final, Ruled, Moves

\* What may become of the service.
ServiceGrows ==
    \A r \in Reference :
        /\ filed[r] # None => filed'[r] = filed[r]
        /\ standing[r] # None /\ Final(standing[r]) => standing'[r] = standing[r]
        /\ standing[r] # None /\ standing[r].status \in {"superseded", "rejected"} =>
              standing'[r] = standing[r]
        /\ r \in gone => r \in gone'
        /\ r \in stale => r \in stale'

ServiceTypes ==
    /\ filed \in [Reference -> Report \cup {None}]
    /\ standing \in [Reference -> Standing \cup {None}]
    /\ \A r \in Reference : filed[r] = None <=> standing[r] = None
    /\ gone \subseteq Reference /\ stale \subseteq Reference

LEMMA FileGrows ==
    ASSUME ServiceTypes, StandingInv, NEW r \in Report, File(r)
    PROVE  ServiceTypes' /\ StandingInv' /\ ServiceGrows /\ filed'[r.reference] # None
<1> USE ReportingAssumption DEF ServiceTypes
<1>1. r.reference \in Reference
  BY DEF Reference
<1>2. \A o \in Replaced(r) :
        /\ standing[o] \in Standing /\ standing[o].status = "accepted"
        /\ [standing[o] EXCEPT !.status = "superseded"] \in Standing
        /\ [standing[o] EXCEPT !.status = "superseded"].status = "superseded"
        /\ [standing[o] EXCEPT !.status = "superseded"].outcome = standing[o].outcome
  BY DEF Replaced, Standing, Status
<1>3. \A o \in Reference :
        standing'[o] = IF o = r.reference THEN [status |-> "accepted", outcome |-> "open"]
                       ELSE IF o \in Replaced(r)
                       THEN [standing[o] EXCEPT !.status = "superseded"] ELSE standing[o]
  BY DEF File
<1>4. [status |-> "accepted", outcome |-> "open"] \in Standing
  BY DEF Standing, Status, Outcome
<1>5. standing' \in [Reference -> Standing \cup {None}]
  BY <1>2, <1>4 DEF File
<1>6. ServiceTypes'
  <2>1. \A o \in Reference : filed'[o] = None <=> standing'[o] = None
    BY <1>1, <1>2, <1>3, <1>4 DEF File, Replaced
  <2> QED
    BY <1>5, <2>1 DEF File
<1>7. StandingInv'
  <2>1. \A o \in Replaced(r) : standing[o].outcome # "accepted"
    BY <1>2 DEF StandingInv, Replaced
  <2>2. ASSUME NEW o \in Reference, standing'[o] # None, standing'[o].outcome = "accepted"
        PROVE  standing'[o].status = "filed"
    <3>1. CASE o = r.reference
      <4>1. standing'[o] = [status |-> "accepted", outcome |-> "open"]
        BY <1>3, <3>1
      <4>2. standing'[o].outcome = "open"
        BY <4>1
      <4> QED
        BY <2>2, <4>2
    <3>2. CASE o # r.reference /\ o \in Replaced(r)
      <4>1. standing'[o] = [standing[o] EXCEPT !.status = "superseded"]
        BY <1>3, <3>2
      <4>2. standing'[o].outcome = standing[o].outcome
        BY <1>2, <3>2, <4>1
      <4> QED
        BY <2>1, <2>2, <3>2, <4>2
    <3>3. CASE o # r.reference /\ o \notin Replaced(r)
      <4>1. standing'[o] = standing[o]
        BY <1>3, <3>3
      <4> QED
        BY <2>2, <4>1 DEF StandingInv
    <3> QED
      BY <3>1, <3>2, <3>3
  <2> QED
    BY <2>2 DEF StandingInv
<1>8. ServiceGrows
  BY <1>1, <1>2, <1>3 DEF ServiceGrows, File, Final
<1> QED
  BY <1>1, <1>6, <1>7, <1>8 DEF File

LEMMA RuleGrows ==
    ASSUME ServiceTypes, StandingInv, NEW r \in Reference,
           Rule(r) \/ Forget(r) \/ GoesStale(r)
    PROVE  ServiceTypes' /\ StandingInv' /\ ServiceGrows
<1> USE ReportingAssumption DEF ServiceTypes
<1>1. CASE Rule(r)
  <2>1. PICK s \in Moves(standing[r]) : standing' = [standing EXCEPT ![r] = s]
    BY <1>1 DEF Rule
  <2>2. /\ standing[r] \in Standing
        /\ UNCHANGED <<filed, gone, stale>>
    BY <1>1 DEF Rule
  <2>3. /\ s \in Standing /\ ~Final(standing[r])
        /\ standing[r].status \notin {"superseded", "rejected"}
        /\ standing[r].status = "accepted" => s.outcome = standing[r].outcome
        /\ s.outcome = "accepted" /\ standing[r].outcome = "open" => s.status = "filed"
        /\ standing[r].outcome = "accepted" => standing[r].status = "filed"
    BY <2>1, <2>2 DEF Moves, Standing, Status, Outcome, Final, StandingInv
  <2>4. s.outcome = "accepted" => s.status = "filed"
    BY <2>1, <2>2, <2>3 DEF Moves, Standing, Outcome
  <2> QED
    BY <2>1, <2>2, <2>3, <2>4 DEF StandingInv, ServiceGrows
<1>2. CASE Forget(r)
  BY <1>2 DEF Forget, StandingInv, ServiceGrows
<1>3. CASE GoesStale(r)
  BY <1>3 DEF GoesStale, StandingInv, ServiceGrows
<1> QED
  BY <1>1, <1>2, <1>3

\* A request that is past its document stays there, with its report.
PastStays ==
    \A q \in Request :
        step[q] # "idle" => report'[q] = report[q] /\ step'[q] # "idle" /\
            (step[q] \in Past => step'[q] \in Past)

LEMMA RequestGoesOn ==
    ASSUME TypeOK, NEW q \in Request, RequestStep(q) PROVE PastStays
BY DEF TypeOK, RequestStep, PastStays, Past, Goto, Fail, Begin, Assess, Submit, SubmitFails,
       SubmitLost, Find, Record, Bill, Ensure, Follow, RequestCrash
\* Who changes the service: requests that file, and the service itself.
LEMMA ServiceMoves ==
    ASSUME TypeOK, StandingInv, [Next]_vars
    PROVE  ServiceTypes' /\ StandingInv' /\ ServiceGrows
<1> USE DEF TypeOK
<1>1. ServiceTypes
  BY DEF ServiceTypes
<1>2. CASE UNCHANGED service
  BY <1>1, <1>2 DEF service, ServiceTypes, StandingInv, ServiceGrows
<1>3. ASSUME NEW q \in Request, step[q] = "submit", File(report[q])
      PROVE  ServiceTypes' /\ StandingInv' /\ ServiceGrows
  BY <1>1, <1>3, FileGrows
<1>4. ASSUME NEW q \in Request, RequestStep(q)
      PROVE  UNCHANGED service \/ (step[q] = "submit" /\ File(report[q]))
  BY <1>4 DEF RequestStep, Begin, Assess, Submit, Replay, SubmitFails, SubmitLost, Find, Record,
       Bill, Ensure, Follow, RequestCrash
<1>5. ASSUME NEW t \in Tick, TickStep(t) PROVE UNCHANGED service
  BY <1>5 DEF TickStep, Finish, Ask, AskFails, Stop, Write, WriteNothing, TickCrash
<1>6. ASSUME ServiceStep PROVE ServiceTypes' /\ StandingInv' /\ ServiceGrows
  BY <1>1, <1>6, RuleGrows DEF ServiceStep
<1> QED
  BY <1>2, <1>3, <1>4, <1>5, <1>6 DEF Next, vars, Delete, Look, service

\* Nobody but a request's own handler moves it.
LEMMA OnlyOwnSteps ==
    ASSUME [Next]_vars
    PROVE  UNCHANGED requests \/ \E q \in Request : RequestStep(q)
<1>1. ASSUME NEW t \in Tick, TickStep(t) PROVE UNCHANGED requests
  BY <1>1 DEF TickStep, Finish, Ask, AskFails, Stop, Write, WriteNothing, TickCrash
<1> QED
  BY <1>1 DEF Next, vars, Delete, Look, ServiceStep

LEMMA RequestsGoOn ==
    ASSUME TypeOK, [Next]_vars PROVE PastStays
<1>1. CASE UNCHANGED requests
  BY <1>1 DEF requests, PastStays
<1> QED
  BY <1>1, OnlyOwnSteps, RequestGoesOn

\* The documents and their rows change in few places.
LEMMA WhoWrites ==
    ASSUME [Next]_vars
    PROVE  \/ \E q \in Request : Record(q) \/ Ensure(q) \/ Follow(q) \/ Delete(q)
           \/ \E t \in Tick : TickStep(t) \/ \E d \in Request : Look(t, d)
           \/ UNCHANGED <<documents, older, records, polling>>
<1>1. ASSUME NEW q \in Request, RequestStep(q), ~Record(q), ~Ensure(q), ~Follow(q)
      PROVE  UNCHANGED <<documents, older, records, polling>>
  BY <1>1 DEF RequestStep, Begin, Assess, Submit, SubmitFails, SubmitLost, Find, Bill,
       RequestCrash, written
<1> QED
  BY <1>1 DEF Next, vars, ServiceStep, written

----------------------------------------------------------------------------
(* Requests.                                                                *)

LEMMA DocumentFound ==
    ASSUME NEW r, NEW d, d = DocumentOf(r), d # None
    PROVE  d \in documents /\ Ref(d) = r
BY DEF DocumentOf

\* A request nobody moved.
LEMMA RequestKept ==
    ASSUME ReportingInv, ServiceGrows, PastStays, NEW p \in Request,
           step'[p] = step[p], report'[p] = report[p], answered'[p] = answered[p],
           doc'[p] = doc[p]
    PROVE  RequestOK(p)'
<1> USE DEF ReportingInv, Types
<1>1. RequestOK(p)
  BY DEF RequestInv
<1>2. CASE step[p] = "idle"
  BY <1>1, <1>2, ReportingAssumption
      DEF RequestOK, Beyond, Status, Ref
<1>3. CASE step[p] # "idle"
  <2>1. report[p] # None /\ Ref(p) \in Reference /\ Ref(p)' = Ref(p)
    BY <1>3, ReferenceKnown DEF TypeOK, Ref
  <2>2. standing[Ref(p)] \in Standing \cup {None} /\ (filed[Ref(p)] = None <=> standing[Ref(p)] = None)
    BY <2>1 DEF TypeOK
  <2>3. ASSUME doc[p] # None PROVE step'[doc[p]] \in Past /\ report'[doc[p]].reference = Ref(doc[p])
    BY <1>1, <2>3 DEF RequestOK, PastStays, Past, TypeOK, Ref
  <2> QED
    <3>1. answered[p] # None => filed'[Ref(p)] # None
      BY <1>1, <2>1 DEF RequestOK, ServiceGrows
    <3>2. answered[p] \in {"superseded", "rejected"} => standing'[Ref(p)].status = answered[p]
      BY <1>1, <2>1, <2>2, ReportingAssumption DEF RequestOK, ServiceGrows, Status
    <3> QED
      BY <1>1, <2>1, <2>3, <3>1, <3>2 DEF RequestOK, Beyond, Ref
<1> QED
  BY <1>2, <1>3

\* A request that failed or was refused holds nothing.
LEMMA FailLeaves ==
    ASSUME TypeOK, NEW q \in Request, Fail(q)
    PROVE  step'[q] = "failed" /\ answered'[q] = None /\ doc'[q] = None
BY DEF TypeOK, Fail, Goto

LEMMA RequestLeft ==
    ASSUME NEW q \in Request, step'[q] \in {"failed", "refused", "assess", "submit"},
           answered'[q] = None, doc'[q] = None
    PROVE  RequestOK(q)'
BY ReportingAssumption
      DEF RequestOK, Beyond, Status, Ref

\* A request that goes on with its answer and its document.
LEMMA RequestGoes ==
    ASSUME ReportingInv, ServiceGrows, PastStays, NEW q \in Request, answered[q] # None,
           step[q] # "idle", step'[q] \in Beyond \cup {"answered"}, answered'[q] = answered[q],
           step'[q] \in {"ensure", "bill", "follow"} => doc'[q] # None,
           doc'[q] # None => /\ doc'[q] \in Request /\ step'[doc'[q]] \in Past
                             /\ report'[doc'[q]].reference = Ref(q)
    PROVE  RequestOK(q)'
<1> USE DEF ReportingInv, Types
<1>1. RequestOK(q)
  BY DEF RequestInv
<1>2. report[q] # None /\ Ref(q) \in Reference /\ Ref(q)' = Ref(q)
  BY ReferenceKnown DEF TypeOK, Ref, PastStays
<1>3. filed[Ref(q)] = None <=> standing[Ref(q)] = None
  BY <1>2 DEF TypeOK
<1>4. filed'[Ref(q)] # None
  BY <1>1, <1>2 DEF RequestOK, ServiceGrows
<1>5. answered[q] \in {"superseded", "rejected"} => standing'[Ref(q)].status = answered[q]
  BY <1>1, <1>2, <1>3, ReportingAssumption DEF RequestOK, ServiceGrows, Status
<1> QED
  BY <1>1, <1>2, <1>4, <1>5 DEF RequestOK, Beyond, Ref

LEMMA RequestsStep ==
    ASSUME ReportingInv, [Next]_vars PROVE RequestInv'
<1> USE DEF ReportingInv, Types
<1>1. ServiceGrows /\ ServiceTypes' /\ PastStays
  BY ServiceMoves, RequestsGoOn
<1>2. CASE UNCHANGED requests
  BY <1>1, <1>2, RequestKept DEF RequestInv, requests
<1>3. ASSUME NEW q \in Request, RequestStep(q) PROVE RequestInv'
  <2>1. ASSUME NEW p \in Request, p # q PROVE RequestOK(p)'
    <3>1. /\ step'[p] = step[p] /\ report'[p] = report[p]
          /\ answered'[p] = answered[p] /\ doc'[p] = doc[p]
      BY <1>3, <2>1 DEF TypeOK, RequestStep, Goto, Fail, Begin, Assess, Submit, SubmitFails,
           SubmitLost, Find, Record, Bill, Ensure, Follow, RequestCrash
    <3> QED
      BY <1>1, <3>1, RequestKept
  <2>2. RequestOK(q)
    BY DEF RequestInv
  <2>3. ASSUME NEW r \in Report, Begin(q, r) PROVE RequestOK(q)'
    BY <2>2, <2>3, RequestLeft DEF Begin, Goto, RequestOK, TypeOK
  <2>4. ASSUME Assess(q) PROVE RequestOK(q)'
    <3>1. /\ step'[q] \in {"submit", "refused"}
          /\ answered'[q] = None /\ doc'[q] = None
      BY <2>2, <2>4 DEF Assess, Goto, RequestOK, TypeOK
    <3> QED
      BY <3>1, RequestLeft DEF RequestOK, Ref
  <2>5. ASSUME SubmitFails(q) \/ SubmitLost(q) \/ RequestCrash(q) PROVE RequestOK(q)'
    BY <2>5, FailLeaves, RequestLeft DEF SubmitFails, SubmitLost, RequestCrash, RequestOK, Ref
  <2>6. ASSUME Submit(q) PROVE RequestOK(q)'
    <3>1. report[q] \in Report /\ Ref(q) \in Reference /\ Ref(q)' = Ref(q)
      BY <2>6, ReferenceKnown DEF Submit, TypeOK, Ref
    <3>2. filed'[Ref(q)] # None
      <4>1. CASE File(report[q])
        BY <3>1, <4>1, FileGrows DEF ServiceTypes, TypeOK, Ref
      <4>2. CASE Replay(report[q])
        BY <4>2 DEF Replay, service, Ref
      <4> QED
        BY <2>6, <4>1, <4>2 DEF Submit
    <3>3. answered'[q] \in {standing'[Ref(q)].status, "accepted"}
      BY <2>6 DEF Submit, TypeOK
    <3>4. step'[q] = "find" /\ doc'[q] = None
      BY <2>2, <2>6 DEF Submit, Goto, TypeOK, RequestOK
    <3>5. standing'[Ref(q)].status \in Status
      BY <1>1, <3>1, <3>2 DEF ServiceTypes, Standing
    <3>6. answered'[q] \in Status
      BY <3>3, <3>5 DEF Status
    <3> QED
      BY <3>1, <3>2, <3>3, <3>4, <3>6, ReportingAssumption DEF RequestOK, Beyond, Ref
  <2>7. ASSUME step[q] \in Beyond, answered'[q] = answered[q], step'[q] \in Beyond \cup {"answered"},
               step'[q] \in {"ensure", "bill", "follow"} => doc'[q] # None,
               \/ doc'[q] \in {None, doc[q], DocumentOf(Ref(q))}
               \/ doc'[q] = q /\ step'[q] \in Past
        PROVE  RequestOK(q)'
    <3>1. answered[q] # None /\ step[q] # "idle" /\ Ref(q)' = Ref(q)
      BY <1>1, <2>2, <2>7 DEF RequestOK, Beyond, PastStays, Ref
    <3>2. CASE doc'[q] = doc[q]
      <4>1. ASSUME doc[q] # None
            PROVE  /\ doc[q] \in Request /\ step'[doc[q]] \in Past
                   /\ report'[doc[q]].reference = Ref(q)
        BY <1>1, <2>2, <4>1 DEF RequestOK, PastStays, Past, TypeOK, Ref
      <4> QED
        BY <1>1, <2>7, <3>1, <3>2, <4>1, RequestGoes DEF RequestOK, Ref
    <3>3. CASE doc'[q] = DocumentOf(Ref(q)) /\ doc'[q] # None
      <4>1. /\ doc'[q] \in documents /\ Ref(doc'[q]) = Ref(q)
        BY <3>3, DocumentFound
      <4>2. doc'[q] \in Request /\ step[doc'[q]] \in Past
        BY <4>1 DEF RowInv, RowOK, TypeOK
      <4>3. step'[doc'[q]] \in Past /\ report'[doc'[q]].reference = Ref(q)
        BY <1>1, <4>1, <4>2 DEF PastStays, Past, Ref
      <4> QED
        BY <1>1, <2>7, <3>1, <4>2, <4>3, RequestGoes DEF RequestOK, Ref
    <3>4. CASE doc'[q] = None
      BY <1>1, <2>7, <3>1, <3>4, RequestGoes DEF RequestOK, Ref
    <3>5. CASE doc'[q] = q /\ step'[q] \in Past
      BY <1>1, <2>7, <3>1, <3>5, RequestGoes, ReportingAssumption DEF RequestOK, Ref
    <3> QED
      BY <2>7, <3>2, <3>3, <3>4, <3>5
  <2>8. ASSUME Find(q) PROVE RequestOK(q)'
    <3>1. /\ step[q] \in Beyond /\ answered'[q] = answered[q]
          /\ doc'[q] = DocumentOf(Ref(q))
          /\ \/ step'[q] = "record"
             \/ step'[q] = "ensure" /\ doc'[q] # None
      BY <2>8 DEF Find, Goto, TypeOK, Beyond
    <3> QED
      BY <2>7, <3>1 DEF Past, Beyond
  <2>9. ASSUME Record(q) PROVE RequestOK(q)'
    <3>1. /\ step[q] \in Beyond /\ answered'[q] = answered[q]
          /\ \/ doc'[q] = q /\ step'[q] = "bill"
             \/ doc'[q] = DocumentOf(Ref(q)) /\ doc'[q] # None /\ step'[q] = "follow"
      BY <2>9 DEF Record, Goto, TypeOK, Beyond
    <3> QED
      BY <2>7, <3>1, ReportingAssumption DEF Past, Beyond
  <2>10. ASSUME Bill(q) \/ Follow(q) PROVE RequestOK(q)'
    <3>1. /\ step[q] \in Beyond /\ answered'[q] = answered[q]
          /\ doc'[q] = doc[q] /\ doc[q] # None /\ step'[q] \in {"follow", "answered"}
      BY <2>2, <2>10 DEF Bill, Follow, Goto, TypeOK, Beyond, RequestOK
    <3> QED
      BY <2>7, <3>1 DEF Past, Beyond
  <2>11. ASSUME Ensure(q) PROVE RequestOK(q)'
    <3>1. CASE Goto(q, "answered") /\ UNCHANGED <<answered, doc>>
      <4>1. /\ step[q] \in Beyond /\ answered'[q] = answered[q]
            /\ doc'[q] = doc[q] /\ step'[q] = "answered"
        BY <2>11, <3>1 DEF Ensure, Goto, TypeOK, Beyond
      <4> QED
        BY <2>7, <4>1 DEF Past, Beyond
    <3>2. CASE Fail(q) /\ UNCHANGED report
      BY <3>2, FailLeaves, RequestLeft DEF RequestOK, Ref
    <3> QED
      BY <2>11, <3>1, <3>2 DEF Ensure
  <2> QED
    BY <1>3, <2>1, <2>3, <2>4, <2>5, <2>6, <2>8, <2>9, <2>10,
       <2>11
    DEF RequestStep, RequestInv
<1> QED
  BY <1>2, <1>3, OnlyOwnSteps

----------------------------------------------------------------------------
(* Rows.                                                                    *)

\* A document's reference is one, and the service knows it where it was filed.
LEMMA DocumentReference ==
    ASSUME TypeOK, PastStays, NEW d \in Request, step[d] # "idle"
    PROVE  /\ Ref(d) \in Reference /\ report'[d].reference = Ref(d)
           /\ filed[Ref(d)] # None => standing[Ref(d)] \in Standing
BY ReferenceKnown DEF TypeOK, PastStays, Ref

LEMMA RowKept ==
    ASSUME TypeOK, PastStays, ServiceGrows, NEW d \in Request, RowOK(d),
           d \in documents' <=> d \in documents, recorded'[d] = recorded[d],
           d \in due' <=> d \in due
    PROVE  RowOK(d)'
<1>1. CASE d \in documents
  <2>1. /\ step[d] # "idle" /\ step'[d] \in Past
    BY <1>1 DEF RowOK, Past, PastStays
  <2>2. /\ Ref(d) \in Reference /\ report'[d].reference = Ref(d)
        /\ standing[Ref(d)] \in Standing
    BY <1>1, <2>1, DocumentReference DEF RowOK
  <2>3. standing[Ref(d)] # None
    BY <2>2, ReportingAssumption
  <2> QED
    BY <1>1, <2>1, <2>2, <2>3 DEF RowOK, ServiceGrows, Ref
<1>2. CASE d \notin documents
  BY <1>2 DEF RowOK
<1> QED
  BY <1>1, <1>2

\* A row is looked up again, or not any more because its report is gone.
LEMMA RowDue ==
    ASSUME TypeOK, PastStays, ServiceGrows, NEW d \in Request, RowOK(d),
           d \in documents' <=> d \in documents, recorded'[d] = recorded[d],
           recorded[d] # None, d \in due' \/ Ref(d) \in gone
    PROVE  RowOK(d)'
<1>1. d \in documents
  BY DEF RowOK
<1>2. /\ step[d] # "idle" /\ step'[d] \in Past
  BY <1>1 DEF RowOK, Past, PastStays
<1>3. /\ Ref(d) \in Reference /\ report'[d].reference = Ref(d)
      /\ standing[Ref(d)] \in Standing
  BY <1>1, <1>2, DocumentReference DEF RowOK
<1>4. standing[Ref(d)] # None
  BY <1>3, ReportingAssumption
<1> QED
  BY <1>1, <1>2, <1>3, <1>4 DEF RowOK, ServiceGrows, Ref

\* A row that is inserted says what the service answered.
LEMMA InsertedRow ==
    ASSUME ReportingInv, PastStays, ServiceGrows, UNCHANGED <<service, documents>>,
           NEW q \in Request, step[q] \in {"ensure", "follow"}, doc[q] \in documents,
           InsertRow(doc[q], answered[q])
    PROVE  RowInv'
<1> USE DEF ReportingInv, Types
<1>1. ASSUME NEW d \in Request, d # doc[q] \/ recorded[d] # None PROVE RowOK(d)'
  <2>1. recorded'[d] = recorded[d] /\ (d \in due' <=> d \in due)
    BY <1>1 DEF InsertRow, TypeOK
  <2> QED
    BY <1>1, <2>1, RowKept DEF RowInv
<1>2. ASSUME NEW d \in Request, d = doc[q], recorded[d] = None PROVE RowOK(d)'
  <2> DEFINE s == [status |-> answered[q], outcome |-> "open"]
  <2>1. /\ d \in Request /\ d \in documents /\ step[d] \in Past /\ filed[Ref(d)] # None
        /\ answered[q] \in Status /\ Ref(d) = Ref(q)
        /\ answered[q] \in {"superseded", "rejected"} =>
              standing[Ref(q)].status = answered[q]
    BY <1>2 DEF RowInv, RowOK, TypeOK, RequestInv, RequestOK, Beyond
  <2>2. /\ Ref(d) \in Reference /\ report'[d].reference = Ref(d)
        /\ standing[Ref(d)] \in Standing /\ standing[Ref(d)] # None
        /\ step'[d] \in Past
    BY <2>1, DocumentReference, ReportingAssumption DEF Past, PastStays
  <2>3. recorded'[d] = s /\ s # None /\ (Final(s) \/ d \in due')
    BY <1>2, <2>1, ReportingAssumption DEF InsertRow, TypeOK, Standing, Outcome
  <2>4. ASSUME Final(s) PROVE s = standing[Ref(d)]
    <3>1. answered[q] \in {"superseded", "rejected"}
      BY <2>4 DEF Final
    <3>2. standing[Ref(d)].status = answered[q] /\ standing[Ref(d)].outcome = "open"
      BY <2>1, <2>2, <3>1 DEF StandingInv, Standing, Outcome
    <3> QED
      BY <2>2, <3>2 DEF Standing
  <2> HIDE DEF s
  <2> QED
    BY <2>1, <2>2, <2>3, <2>4 DEF RowOK, service, Ref
<1> QED
  BY <1>1, <1>2 DEF RowInv, TypeOK

\* What a tick writes is what the service said of the report, or what the row said.
LEMMA LearnedRow ==
    ASSUME ReportingInv, NEW t \in Tick, looking[t] = "write", heard[t] # None
    PROVE  /\ Learned(t) \in Standing
           /\ Final(Learned(t)) => Learned(t) = standing[Ref(at[t])]
<1> USE DEF ReportingInv, Types
<1>1. TickOK(t) /\ HeardInv(t)
  BY DEF TickInv, TickOK
<1>2. /\ heard[t].known \in BOOLEAN /\ heard[t].standing \in Standing
      /\ was[t] \in Standing
  BY <1>1 DEF TypeOK, TickOK, Heard
<1>3. Learned(t) \in Standing
  BY <1>2 DEF Learned, Standing
<1>4. ASSUME Final(was[t]) PROVE Learned(t) = was[t]
  BY <1>1, <1>2, <1>4 DEF HeardInv, Learned, Standing
<1>5. ASSUME Final(Learned(t)) PROVE Learned(t) = standing[Ref(at[t])]
  <2>1. CASE heard[t].known
    <3>1. Learned(t) = heard[t].standing
      BY <1>2, <2>1 DEF Learned, Standing
    <3> QED
      BY <1>1, <1>5, <3>1 DEF HeardInv
  <2>2. CASE ~heard[t].known /\ Final(was[t])
    <3>1. Learned(t) = heard[t].standing
      BY <1>1, <1>4, <1>5, <2>2 DEF HeardInv
    <3> QED
      BY <1>1, <1>5, <3>1 DEF HeardInv
  <2>3. CASE ~heard[t].known /\ ~Final(was[t])
    <3>1. /\ Learned(t).status = was[t].status
          /\ Learned(t).outcome = heard[t].standing.outcome
      BY <2>3 DEF Learned
    <3>2. was[t].status = "filed" /\ heard[t].standing.outcome = "accepted"
      BY <1>5, <2>3, <3>1 DEF Final
    <3>3. heard[t].standing.status = "filed"
      BY <1>1, <3>2 DEF HeardInv
    <3>4. Learned(t) = heard[t].standing
      BY <1>2, <1>3, <3>1, <3>2, <3>3 DEF Standing
    <3> QED
      BY <1>1, <1>5, <3>4 DEF HeardInv
  <2> QED
    BY <2>1, <2>2, <2>3
<1> QED
  BY <1>3, <1>5

\* The look of a tick only moves its own report's row.
LEMMA RowsStep ==
    ASSUME ReportingInv, [Next]_vars PROVE RowInv'
<1> USE DEF ReportingInv, Types
<1>1. ServiceGrows /\ ServiceTypes' /\ PastStays
  BY ServiceMoves, RequestsGoOn
<1>2. CASE UNCHANGED <<documents, recorded, due>>
  BY <1>1, <1>2, RowKept DEF RowInv
<1>3. ASSUME NEW q \in Request, Record(q) PROVE RowInv'
  <2>1. CASE UNCHANGED documents
    BY <1>2, <1>3, <2>1 DEF Record, records
  <2>2. CASE documents' = documents \cup {q} /\ DocumentOf(Ref(q)) = None
    <3>1. ASSUME NEW d \in Request, d # q PROVE RowOK(d)'
      BY <1>1, <1>3, <2>2, <3>1, RowKept DEF Record, records, RowInv
    <3>2. q \notin documents /\ recorded[q] = None /\ q \notin due
      BY <1>3 DEF Record, RowInv, RowOK, Past
    <3>3. step'[q] = "bill" /\ filed'[Ref(q)] # None /\ report'[q].reference = Ref(q)
      BY <1>3, <2>2 DEF Record, Goto, service, TypeOK, RequestInv, RequestOK, Beyond, Ref
    <3>4. RowOK(q)'
      BY <1>3, <3>2, <3>3 DEF RowOK, Record, records, Past, Ref
    <3> QED
      BY <3>1, <3>4 DEF RowInv
  <2> QED
    BY <1>3, <2>1, <2>2 DEF Record
<1>4. ASSUME NEW q \in Request, Ensure(q) \/ Follow(q) PROVE RowInv'
  <2>1. CASE UNCHANGED <<recorded, due>>
    BY <1>2, <1>4, <2>1 DEF Ensure, Follow, written
  <2>2. CASE doc[q] \in documents /\ InsertRow(doc[q], answered[q])
    BY <1>1, <1>4, <2>2, InsertedRow DEF Ensure, Follow, written
  <2> QED
    BY <1>4, <2>1, <2>2 DEF Ensure, Follow, records
<1>5. ASSUME NEW q \in Request, Delete(q) PROVE RowInv'
  <2>1. ASSUME NEW d \in Request, d # q PROVE RowOK(d)'
    BY <1>1, <1>5, <2>1, RowKept DEF Delete, TypeOK, RowInv
  <2>2. q \notin documents' /\ recorded'[q] = None /\ q \notin due'
    BY <1>5 DEF Delete, TypeOK
  <2>3. RowOK(q)'
    BY <2>2 DEF RowOK
  <2> QED
    BY <2>1, <2>3 DEF RowInv
<1>6. ASSUME NEW t \in Tick, TickStep(t) PROVE RowInv'
  <2>1. CASE Ask(t) \/ WriteNothing(t) \/ TickCrash(t)
    BY <1>2, <2>1 DEF Ask, WriteNothing, TickCrash, records, written
  <2>2. TickOK(t)
    BY DEF TickInv
  <2>3. CASE AskFails(t)
    <3>1. ASSUME NEW d \in Request, d # at[t] \/ at[t] \notin documents PROVE RowOK(d)'
      BY <1>1, <2>3, <3>1, RowKept DEF AskFails, written, TypeOK, RowInv
    <3>2. ASSUME NEW d \in Request, d = at[t], d \in documents PROVE RowOK(d)'
      <4>1. recorded[d] # None
        BY <2>2, <2>3, <3>2 DEF TickOK, AskFails
      <4>2. d \in documents' /\ recorded'[d] = recorded[d] /\ d \in due'
        BY <2>3, <3>2 DEF AskFails, written
      <4> QED
        BY <1>1, <3>2, <4>1, <4>2, RowDue DEF RowInv
    <3> QED
      BY <3>1, <3>2 DEF RowInv
  <2>4. CASE Stop(t)
    <3>1. ASSUME NEW d \in Request, d # at[t] PROVE RowOK(d)'
      BY <1>1, <2>4, <3>1, RowKept DEF Stop, written, RowInv
    <3>2. ASSUME NEW d \in Request, d = at[t] PROVE RowOK(d)'
      <4>1. Ref(d) \in gone /\ recorded'[d] = recorded[d] /\ documents' = documents
        BY <2>2, <2>4, <3>2 DEF TickOK, Stop, written
      <4>2. CASE recorded[d] # None
        BY <1>1, <4>1, <4>2, RowDue DEF RowInv
      <4>3. CASE recorded[d] = None
        BY <1>1, <2>4, <4>1, <4>3, RowKept DEF RowInv, RowOK, Stop
      <4> QED
        BY <4>2, <4>3
    <3> QED
      BY <3>1, <3>2 DEF RowInv
  <2>5. CASE Write(t)
    <3>1. ASSUME NEW d \in Request, d # at[t] PROVE RowOK(d)'
      BY <1>1, <2>5, <3>1, RowKept DEF Write, written, RowInv, TypeOK
    <3>2. ASSUME NEW d \in Request, d = at[t] PROVE RowOK(d)'
      <4>1. /\ d \in documents /\ UNCHANGED <<documents, service, requests>>
            /\ recorded'[d] = Learned(t)
            /\ d \in due' \/ ~Plans(Learned(t), heard[t].stale)
        BY <2>5, <3>2 DEF Write, written, TypeOK
      <4>2. Learned(t) # None /\ (Final(Learned(t)) => Learned(t) = standing[Ref(d)])
        BY <2>5, <3>2, <4>1, LearnedRow, ReportingAssumption DEF Write
      <4>3. heard[t].stale => Ref(d) \in stale
        BY <2>2, <2>5, <3>2 DEF TickOK, HeardInv, Write
      <4>4. step[d] \in Past /\ filed[Ref(d)] # None
        BY <4>1 DEF RowInv, RowOK
      <4> QED
        BY <4>1, <4>2, <4>3, <4>4 DEF RowOK, service, requests, Plans, Ref
    <3> QED
      BY <3>1, <3>2 DEF RowInv
  <2> QED
    BY <1>6, <2>1, <2>3, <2>4, <2>5 DEF TickStep, Finish
<1>7. ASSUME NEW t \in Tick, NEW d \in Request, Look(t, d) PROVE RowInv'
  BY <1>2, <1>7 DEF Look, records, written
<1> QED
  BY <1>2, <1>3, <1>4, <1>5, <1>6, <1>7, WhoWrites DEF records

----------------------------------------------------------------------------
(* Ticks.                                                                   *)

\* A tick nobody moved, while the row it read is there, or gone.
LEMMA TickKept ==
    ASSUME TypeOK, PastStays, ServiceGrows, NEW t \in Tick, TickOK(t),
           looking'[t] = looking[t], at'[t] = at[t], was'[t] = was[t], heard'[t] = heard[t],
           looking[t] # "idle" /\ at[t] \in documents' =>
               at[t] \in documents /\ recorded'[at[t]] # None
    PROVE  TickOK(t)'
<1>1. CASE looking[t] = "idle"
  BY <1>1 DEF TickOK
<1>2. CASE looking[t] # "idle"
  <2>1. at[t] \in Request /\ step[at[t]] # "idle" /\ step'[at[t]] \in Past
    BY <1>2 DEF TickOK, Past, PastStays
  <2>2. /\ Ref(at[t]) \in Reference /\ report'[at[t]].reference = Ref(at[t])
        /\ standing[Ref(at[t])] \in Standing /\ standing[Ref(at[t])] # None
    BY <1>2, <2>1, DocumentReference, ReportingAssumption DEF TickOK
  <2>3. /\ filed'[Ref(at[t])] # None
        /\ Ref(at[t]) \in gone => Ref(at[t]) \in gone'
        /\ Ref(at[t]) \in stale => Ref(at[t]) \in stale'
        /\ Final(standing[Ref(at[t])]) => standing'[Ref(at[t])] = standing[Ref(at[t])]
    BY <1>2, <2>2 DEF ServiceGrows, TickOK
  <2> QED
    BY <1>2, <2>1, <2>2, <2>3 DEF TickOK, HeardInv, Ref
<1> QED
  BY <1>1, <1>2

\* A tick that left looks at nothing.
LEMMA LeaveTick ==
    ASSUME TypeOK, NEW t \in Tick, Leave(t)
    PROVE  /\ TickOK(t)' /\ looking'[t] = "idle"
           /\ \A u \in Tick : u # t => /\ looking'[u] = looking[u] /\ at'[u] = at[u]
                                       /\ was'[u] = was[u] /\ heard'[u] = heard[u]
<1>1. looking'[t] = "idle" /\ heard'[t] = None
  BY DEF Leave, TypeOK
<1>2. \A u \in Tick : u # t => /\ looking'[u] = looking[u] /\ at'[u] = at[u]
                               /\ was'[u] = was[u] /\ heard'[u] = heard[u]
  BY DEF Leave, TypeOK
<1>3. TickOK(t)'
  BY <1>1 DEF TickOK
<1> QED
  BY <1>1, <1>2, <1>3

LEMMA TicksStep ==
    ASSUME ReportingInv, [Next]_vars PROVE TickInv'
<1> USE DEF ReportingInv, Types
<1>1. ServiceGrows /\ ServiceTypes' /\ PastStays
  BY ServiceMoves, RequestsGoOn
<1>2. ASSUME UNCHANGED polling,
             \A t \in Tick : looking[t] # "idle" /\ at[t] \in documents' =>
                 at[t] \in documents /\ recorded'[at[t]] # None
      PROVE  TickInv'
  BY <1>1, <1>2, TickKept DEF TickInv, polling
<1>3. ASSUME NEW q \in Request, Record(q) \/ Ensure(q) \/ Follow(q) \/ Delete(q)
      PROVE  TickInv'
  <2>1. UNCHANGED polling
    BY <1>3 DEF Record, Ensure, Follow, Delete
  <2>2. ASSUME NEW t \in Tick, looking[t] # "idle", at[t] \in documents'
        PROVE  at[t] \in documents /\ recorded'[at[t]] # None
    <3>1. at[t] \in Request /\ step[at[t]] \in Past /\ was[t] # None
      BY <2>2 DEF TickInv, TickOK
    <3>2. at[t] \in documents
      BY <1>3, <2>2, <3>1 DEF Past, Record, Ensure, Follow, Delete, written
    <3>3. recorded[at[t]] # None
      BY <2>2, <3>1, <3>2 DEF TickInv, TickOK
    <3> QED
      BY <1>3, <2>2, <3>1, <3>2, <3>3
      DEF Record, Ensure, Follow, Delete, written, records, InsertRow, TypeOK
  <2> QED
    BY <1>2, <2>1, <2>2
<1>4. ASSUME NEW t \in Tick, NEW d \in Request, Look(t, d) PROVE TickInv'
  <2>1. ASSUME NEW u \in Tick, u # t PROVE TickOK(u)'
    <3>1. /\ looking'[u] = looking[u] /\ at'[u] = at[u]
          /\ was'[u] = was[u] /\ heard'[u] = heard[u]
          /\ UNCHANGED <<documents, recorded>>
      BY <1>4, <2>1 DEF Look, TypeOK, written, records
    <3> QED
      BY <1>1, <3>1, TickKept DEF TickInv, TickOK
  <2>2. /\ Final(recorded[d]) => recorded[d] = standing[Ref(d)]
        /\ d \in documents /\ recorded[d] # None /\ step[d] \in Past /\ filed[Ref(d)] # None
    BY <1>4 DEF Look, RowInv, RowOK, TypeOK
  <2>3. /\ looking'[t] = "ask" /\ at'[t] = d /\ was'[t] = recorded[d] /\ heard'[t] = None
        /\ UNCHANGED <<requests, service, documents, recorded>>
    BY <1>4 DEF Look, TypeOK, TickInv, TickOK, written, records
  <2>4. TickOK(t)'
    BY <2>2, <2>3 DEF TickOK, requests, service, Ref
  <2> QED
    BY <2>1, <2>4 DEF TickInv
<1>5. ASSUME NEW t \in Tick, Ask(t) PROVE TickInv'
  <2>1. ASSUME NEW u \in Tick, u # t PROVE TickOK(u)'
    <3>1. /\ looking'[u] = looking[u] /\ at'[u] = at[u]
          /\ was'[u] = was[u] /\ heard'[u] = heard[u]
          /\ UNCHANGED <<documents, recorded>>
      BY <1>5, <2>1 DEF Ask, TypeOK, written, records
    <3> QED
      BY <1>1, <3>1, TickKept DEF TickInv, TickOK
  <2>2. TickOK(t) /\ heard[t] = None
    BY <1>5 DEF TickInv, TickOK, Ask
  <2>3. /\ at[t] \in Request /\ step[at[t]] # "idle" /\ filed[Ref(at[t])] # None
        /\ Final(was[t]) => standing[Ref(at[t])] = was[t]
    BY <1>5, <2>2 DEF TickOK, Ask, Past
  <2>4. /\ Ref(at[t]) \in Reference
        /\ standing[Ref(at[t])] \in Standing /\ standing[Ref(at[t])] # None
    BY <1>1, <2>3, DocumentReference, ReportingAssumption
  <2>5. /\ looking'[t] = "write" /\ at'[t] = at[t] /\ was'[t] = was[t]
        /\ UNCHANGED <<requests, service, documents, recorded>>
    BY <1>5 DEF Ask, TypeOK, written, records
  <2>6. \/ Ref(at[t]) \in gone /\ heard'[t] = None
        \/ \E known, late \in BOOLEAN :
             /\ late => Ref(at[t]) \in stale
             /\ heard'[t] = [known |-> known, stale |-> late,
                             standing |-> standing[Ref(at[t])]]
    <3>1. (Ref(at[t]) \in stale) \in BOOLEAN
      OBVIOUS
    <3>2. \/ Ref(at[t]) \in gone /\ heard'[t] = None
          \/ \E known \in BOOLEAN :
               heard'[t] = [known |-> known, stale |-> Ref(at[t]) \in stale,
                            standing |-> standing[Ref(at[t])]]
      BY <1>5, <2>2 DEF Ask, TypeOK
    <3> QED
      BY <3>1, <3>2, Zenon
  <2>7. ASSUME heard'[t] = None, Ref(at[t]) \in gone PROVE TickOK(t)'
    BY <1>5, <2>2, <2>5, <2>7 DEF TickOK, requests, service, Ref, Ask
  <2>8. ASSUME NEW known \in BOOLEAN, NEW late \in BOOLEAN, late => Ref(at[t]) \in stale,
               heard'[t] = [known |-> known, stale |-> late,
                            standing |-> standing[Ref(at[t])]]
        PROVE  TickOK(t)'
    <3>1. /\ heard'[t].standing = standing[Ref(at[t])]
          /\ heard'[t].stale => Ref(at[t]) \in stale
      BY <2>8
    <3>4. heard'[t] # None
      BY <2>4, <2>8, ReportingAssumption DEF Heard
    <3>2. standing[Ref(at[t])].outcome = "accepted" => standing[Ref(at[t])].status = "filed"
      BY <2>4 DEF StandingInv
    <3>3. Final(was[t]) => standing[Ref(at[t])] = was[t]
      BY <2>3
    <3> QED
      BY <1>5, <2>2, <2>5, <2>8, <3>1, <3>2, <3>3, <3>4
      DEF TickOK, HeardInv, requests, service, Ref, Ask
  <2>9. TickOK(t)'
    BY <2>6, <2>7, <2>8
  <2> QED
    BY <2>1, <2>9 DEF TickInv
<1>6. ASSUME NEW t \in Tick, looking[t] # "idle", Leave(t),
             \A d \in documents' : d \in documents /\ (recorded[d] # None => recorded'[d] # None)
      PROVE  TickInv'
  <2>1. ASSUME NEW u \in Tick, u # t PROVE TickOK(u)'
    BY <1>1, <1>6, <2>1, LeaveTick, TickKept DEF TickInv, TickOK
  <2> QED
    BY <1>6, <2>1, LeaveTick DEF TickInv
<1>7. ASSUME NEW t \in Tick, TickStep(t), ~Ask(t) PROVE TickInv'
  <2>1. looking[t] # "idle" /\ Leave(t)
    BY <1>7 DEF TickStep, Finish, AskFails, Stop, Write, WriteNothing, TickCrash
  <2>2. ASSUME NEW d \in documents'
        PROVE  d \in documents /\ (recorded[d] # None => recorded'[d] # None)
    BY <1>7, <2>2, LearnedRow, ReportingAssumption
    DEF TickStep, Finish, AskFails, Stop, Write, WriteNothing, TickCrash, written, records,
        TypeOK
  <2> QED
    BY <1>6, <2>1, <2>2
<1>8. CASE UNCHANGED <<documents, records, polling>>
  BY <1>2, <1>8 DEF records, TickInv, TickOK
<1> QED
  BY <1>3, <1>4, <1>5, <1>7, <1>8, WhoWrites

----------------------------------------------------------------------------
(* Answers.                                                                 *)

\* A row is written once and stays as long as its document, and support's list grows.
LEMMA RowsStay ==
    ASSUME ReportingInv, [Next]_vars, NEW d \in Request, d \in documents,
           d \in documents', recorded[d] # None
    PROVE  recorded'[d] # None
<1> USE DEF ReportingInv, Types
<1>1. ASSUME NEW t \in Tick, Write(t)
      PROVE  recorded'[d] # None
  <2>1. CASE d # at[t]
    BY <1>1, <2>1 DEF Write, TypeOK
  <2>2. CASE d = at[t]
    <3>1. recorded'[d] = Learned(t)
      BY <1>1, <2>2 DEF Write, TypeOK, TickInv, TickOK
    <3> QED
      BY <1>1, <2>2, <3>1, LearnedRow, ReportingAssumption DEF Write
  <2> QED
    BY <2>1, <2>2
<1>2. ASSUME NEW t \in Tick, TickStep(t), ~Write(t) PROVE recorded'[d] = recorded[d]
  BY <1>2 DEF TickStep, Finish, Ask, AskFails, Stop, WriteNothing, TickCrash, records
<1>3. ASSUME NEW q \in Request, Record(q) \/ Ensure(q) \/ Follow(q) \/ Delete(q)
      PROVE  recorded'[d] = recorded[d]
  BY <1>3 DEF Record, Ensure, Follow, Delete, records, InsertRow, TypeOK
<1>4. ASSUME NEW t \in Tick, NEW e \in Request, Look(t, e) PROVE recorded'[d] = recorded[d]
  BY <1>4 DEF Look, records
<1> QED
  BY <1>1, <1>2, <1>3, <1>4, WhoWrites DEF records

LEMMA AlertsStay ==
    ASSUME [Next]_vars PROVE alerted \subseteq alerted'
<1>1. ASSUME NEW q \in Request, Record(q) \/ Ensure(q) \/ Follow(q) \/ Delete(q)
      PROVE  alerted \subseteq alerted'
  BY <1>1 DEF Record, Ensure, Follow, Delete, records
<1>2. ASSUME NEW t \in Tick, TickStep(t) \/ \E d \in Request : Look(t, d)
      PROVE  alerted \subseteq alerted'
  BY <1>2 DEF TickStep, Finish, Ask, AskFails, Stop, Write, WriteNothing, TickCrash, Look,
       records
<1> QED
  BY <1>1, <1>2, WhoWrites DEF records

\* Documents are only written by their own request.
LEMMA DocumentsComeFromRecord ==
    ASSUME [Next]_vars, NEW d \in documents', d \notin documents
    PROVE  d \in Request /\ step[d] = "record"
<1>1. ASSUME NEW q \in Request, Record(q) \/ Ensure(q) \/ Follow(q) \/ Delete(q)
      PROVE  d \in Request /\ step[d] = "record"
  BY <1>1 DEF Record, Ensure, Follow, Delete, written
<1>2. ASSUME NEW t \in Tick, TickStep(t) \/ \E e \in Request : Look(t, e)
      PROVE  UNCHANGED documents
  BY <1>2 DEF TickStep, Finish, Ask, AskFails, Stop, Write, WriteNothing, TickCrash, Look,
       written
<1> QED
  BY <1>1, <1>2, WhoWrites

LEMMA AnswersStep ==
    ASSUME ReportingInv, [Next]_vars PROVE AnsweredIsFollowed'
<1> USE DEF ReportingInv, Types
<1> SUFFICES ASSUME NEW q \in Request, step'[q] = "answered", doc'[q] \in documents'
             PROVE  recorded'[doc'[q]] # None \/ doc'[q] \in alerted'
  BY DEF AnsweredIsFollowed
<1>1. CASE step[q] = "answered" /\ doc'[q] = doc[q]
  <2>1. doc[q] \in Request
    BY <1>1, DocumentsComeFromRecord DEF TypeOK
  <2>2. doc[q] \in documents
    BY <1>1, <2>1, DocumentsComeFromRecord, ReportingAssumption
    DEF RequestInv, RequestOK, Past
  <2>3. recorded[doc[q]] # None \/ doc[q] \in alerted
    BY <1>1, <2>2 DEF AnsweredIsFollowed
  <2> QED
    BY <1>1, <2>1, <2>2, <2>3, RowsStay, AlertsStay
<1>2. CASE Ensure(q) \/ Follow(q)
  <2>1. doc'[q] = doc[q] /\ doc[q] \in documents
    <3>1. ~Fail(q)
      BY FailLeaves
    <3>2. doc'[q] = doc[q] /\ documents' = documents
      BY <1>2, <3>1 DEF Ensure, Follow, written
    <3> QED
      BY <3>2
  <2>2. CASE InsertRow(doc[q], answered[q])
    <3>1. answered[q] \in Status /\ doc[q] \in Request
      BY <1>2, <2>1 DEF Ensure, Follow, RequestInv, RequestOK, Beyond, TypeOK
    <3>2. [status |-> answered[q], outcome |-> "open"] # None
      BY <3>1, ReportingAssumption DEF Standing, Outcome
    <3> QED
      BY <2>1, <2>2, <3>1, <3>2 DEF InsertRow, TypeOK
  <2>3. CASE alerted' = alerted \cup {doc[q]}
    BY <2>1, <2>3
  <2> QED
    BY <1>2, <2>1, <2>2, <2>3 DEF Ensure, Follow
<1>3. CASE UNCHANGED requests
  BY <1>1, <1>3 DEF requests
<1>4. ASSUME NEW p \in Request, RequestStep(p), p # q \/ (~Ensure(q) /\ ~Follow(q))
      PROVE  step[q] = "answered" /\ doc'[q] = doc[q]
  BY <1>4
  DEF TypeOK, RequestStep, Goto, Fail, Begin, Assess, Submit, SubmitFails, SubmitLost, Find,
      Record, Bill, Ensure, Follow, RequestCrash
<1> QED
  BY <1>1, <1>2, <1>3, <1>4, OnlyOwnSteps

----------------------------------------------------------------------------
(* The types again.                                                         *)

LEMMA RegistrationStep ==
    ASSUME ReportingInv, [Next]_vars PROVE DeclarantInv'
<1> USE DEF ReportingInv, Types, registration, declarantVars
<1>1. CASE UNCHANGED declarantVars
  BY <1>1, DeclarantFrame
<1>2. ASSUME NEW q \in Request, RequestStep(q) PROVE DeclarantInv'
  <2>1. /\ UNCHANGED registration
        /\ UNCHANGED faults \/ Fault
    BY <1>2 DEF RequestStep, Begin, Assess, Submit, SubmitFails, SubmitLost, Find, Record, Bill,
         Ensure, Follow, RequestCrash
  <2> QED
    BY <2>1, DeclarantFrame
<1>3. ASSUME NEW q \in Request, Delete(q) PROVE DeclarantInv'
  BY <1>3, DeclarantFrame DEF Delete
<1>4. ASSUME NEW t \in Tick, TickStep(t) \/ \E d \in Request : Look(t, d) PROVE DeclarantInv'
  <2>1. /\ UNCHANGED registration
        /\ UNCHANGED faults \/ Fault
    BY <1>4 DEF TickStep, Finish, Ask, AskFails, Stop, Write, WriteNothing, TickCrash, Look
  <2> QED
    BY <2>1, DeclarantFrame
<1>5. CASE ServiceStep
  <2>1. UNCHANGED faults \/ Fault
    BY <1>5 DEF ServiceStep, Rule, Forget, GoesStale
  <2> QED
    BY <1>5, <2>1, DeclarantFrame DEF ServiceStep
<1> QED
  BY <1>1, <1>2, <1>3, <1>4, <1>5, DeclarantStep DEF Next, vars

RequestTypes ==
    /\ step \in [Request -> Step]
    /\ report \in [Request -> Report \cup {None}]
    /\ \A q \in Request : step[q] = "idle" \/ report[q] # None
    /\ answered \in [Request -> Status \cup {None}]
    /\ doc \in [Request -> Request \cup {None}]

LEMMA RequestTypesStep ==
    ASSUME ReportingInv, [Next]_vars PROVE RequestTypes'
<1> USE DEF ReportingInv, Types, TypeOK, RequestTypes, Step, Goto
<1>1. CASE UNCHANGED requests
  BY <1>1 DEF requests
<1>2. ASSUME NEW q \in Request, NEW r \in Report, Begin(q, r) PROVE RequestTypes'
  BY <1>2, ReportingAssumption DEF Begin
<1>3. ASSUME NEW q \in Request, Assess(q) PROVE RequestTypes'
  BY <1>3 DEF Assess
<1>4. ASSUME NEW q \in Request, Submit(q) PROVE RequestTypes'
  <2>1. report[q] \in Report /\ Ref(q) \in Reference
    BY <1>4, ReferenceKnown DEF Submit
  <2>2. filed'[Ref(q)] # None /\ ServiceTypes'
    <3>1. CASE File(report[q])
      BY <2>1, <3>1, FileGrows DEF ServiceTypes, Ref
    <3>2. CASE Replay(report[q])
      BY <3>2, ServiceMoves DEF Replay, service, Ref
    <3> QED
      BY <1>4, <3>1, <3>2 DEF Submit
  <2>3. standing'[Ref(q)].status \in Status
    BY <2>1, <2>2 DEF ServiceTypes, Standing
  <2>4. \E s \in Status : answered' = [answered EXCEPT ![q] = s]
    BY <1>4, <2>3 DEF Submit, Status
  <2> QED
    BY <1>4, <2>4 DEF Submit
<1>5. ASSUME NEW q \in Request, SubmitFails(q) \/ SubmitLost(q) \/ RequestCrash(q)
      PROVE  RequestTypes'
  BY <1>5 DEF SubmitFails, SubmitLost, RequestCrash, Fail
<1>6. ASSUME NEW q \in Request, Find(q) PROVE RequestTypes'
  <2>1. DocumentOf(Ref(q)) \in Request \cup {None}
    BY DEF DocumentOf
  <2> QED
    BY <1>6, <2>1 DEF Find
<1>7. ASSUME NEW q \in Request, Record(q) PROVE RequestTypes'
  <2>1. DocumentOf(Ref(q)) \in Request \cup {None}
    BY DEF DocumentOf
  <2> QED
    BY <1>7, <2>1 DEF Record
<1>8. ASSUME NEW q \in Request, Bill(q) \/ Ensure(q) \/ Follow(q) PROVE RequestTypes'
  BY <1>8 DEF Bill, Ensure, Follow, Fail
<1> QED
  BY <1>1, <1>2, <1>3, <1>4, <1>5, <1>6, <1>7, <1>8, OnlyOwnSteps DEF RequestStep

RecordTypes ==
    /\ documents \subseteq Request
    /\ older \in [Request -> SUBSET Request]
    /\ recorded \in [Request -> Standing \cup {None}]
    /\ due \subseteq documents /\ alerted \subseteq Request

LEMMA RecordTypesStep ==
    ASSUME ReportingInv, [Next]_vars PROVE RecordTypes'
<1> USE DEF ReportingInv, Types, TypeOK, RecordTypes, records, written
<1>1. ASSUME NEW q \in Request, Record(q) PROVE RecordTypes'
  BY <1>1 DEF Record
<1>2. ASSUME NEW q \in Request, Ensure(q) \/ Follow(q) PROVE RecordTypes'
  <2>1. answered[q] \in Status /\ doc[q] \in Request
    BY <1>2 DEF Ensure, Follow, RequestInv, RequestOK, Beyond
  <2>2. [status |-> answered[q], outcome |-> "open"] \in Standing
    BY <2>1 DEF Standing, Outcome
  <2>3. CASE doc[q] \in documents /\ InsertRow(doc[q], answered[q])
    BY <1>2, <2>2, <2>3 DEF Ensure, Follow, InsertRow
  <2>4. CASE UNCHANGED <<recorded, due>>
    BY <1>2, <2>1, <2>4 DEF Ensure, Follow
  <2> QED
    BY <1>2, <2>3, <2>4 DEF Ensure, Follow
<1>3. ASSUME NEW q \in Request, Delete(q) PROVE RecordTypes'
  BY <1>3 DEF Delete
<1>4. ASSUME NEW t \in Tick, Write(t) PROVE RecordTypes'
  BY <1>4, LearnedRow DEF Write
<1>5. ASSUME NEW t \in Tick, TickStep(t), ~Write(t) PROVE RecordTypes'
  BY <1>5 DEF TickStep, Finish, Ask, AskFails, Stop, WriteNothing, TickCrash
<1>6. ASSUME NEW t \in Tick, NEW d \in Request, Look(t, d) PROVE RecordTypes'
  BY <1>6 DEF Look
<1> QED
  BY <1>1, <1>2, <1>3, <1>4, <1>5, <1>6, WhoWrites

LEMMA BilledStep ==
    ASSUME TypeOK, [Next]_vars PROVE (billed \subseteq Request)'
<1> USE DEF TypeOK, written
<1>1. ASSUME NEW q \in Request, RequestStep(q) PROVE (billed \subseteq Request)'
  BY <1>1 DEF RequestStep, Begin, Assess, Submit, SubmitFails, SubmitLost, Find, Record, Bill,
       Ensure, Follow, RequestCrash
<1>2. ASSUME NEW t \in Tick, TickStep(t) \/ \E d \in Request : Look(t, d)
      PROVE  UNCHANGED billed
  BY <1>2 DEF TickStep, Finish, Ask, AskFails, Stop, Write, WriteNothing, TickCrash, Look
<1> QED
  BY <1>1, <1>2 DEF Next, vars, Delete, ServiceStep

PollingTypes ==
    /\ looking \in [Tick -> {"idle", "ask", "write"}]
    /\ at \in [Tick -> Request \cup {None}]
    /\ was \in [Tick -> Standing \cup {None}]
    /\ heard \in [Tick -> Heard \cup {None}]

LEMMA PollingTypesStep ==
    ASSUME ReportingInv, [Next]_vars PROVE PollingTypes'
<1> USE DEF ReportingInv, Types, TypeOK, PollingTypes
<1>1. CASE UNCHANGED polling
  BY <1>1 DEF polling
<1>2. ASSUME NEW t \in Tick, Leave(t) PROVE PollingTypes'
  BY <1>2 DEF Leave
<1>3. ASSUME NEW t \in Tick, NEW d \in Request, Look(t, d) PROVE PollingTypes'
  BY <1>3 DEF Look
<1>4. ASSUME NEW t \in Tick, Ask(t) PROVE PollingTypes'
  <2>1. TickOK(t) /\ at[t] \in Request /\ step[at[t]] # "idle" /\ filed[Ref(at[t])] # None
    BY <1>4 DEF TickInv, TickOK, Ask, Past
  <2>2. standing[Ref(at[t])] \in Standing
    BY <2>1, RequestsGoOn, DocumentReference
  <2>3. ASSUME NEW known \in BOOLEAN, NEW late \in BOOLEAN
        PROVE  [known |-> known, stale |-> late, standing |-> standing[Ref(at[t])]] \in Heard
    BY <2>2 DEF Heard
  <2>4. (Ref(at[t]) \in stale) \in BOOLEAN
    OBVIOUS
  <2>5. heard' = heard \/ \E h \in Heard : heard' = [heard EXCEPT ![t] = h]
    <3>1. \A known \in BOOLEAN :
            [known |-> known, stale |-> Ref(at[t]) \in stale,
             standing |-> standing[Ref(at[t])]] \in Heard
      BY <2>3, <2>4, Zenon
    <3> QED
      BY <1>4, <3>1, Zenon DEF Ask
  <2> QED
    BY <1>4, <2>5 DEF Ask
<1>5. ASSUME NEW t \in Tick, TickStep(t), ~Ask(t) PROVE Leave(t)
  BY <1>5 DEF TickStep, Finish, AskFails, Stop, Write, WriteNothing, TickCrash
<1>6. ASSUME NEW q \in Request, Record(q) \/ Ensure(q) \/ Follow(q) \/ Delete(q)
      PROVE  UNCHANGED polling
  BY <1>6 DEF Record, Ensure, Follow, Delete
<1> QED
  BY <1>1, <1>2, <1>3, <1>4, <1>5, <1>6, WhoWrites

----------------------------------------------------------------------------
(* The theorems.                                                            *)

LEMMA InvariantHolds == Spec => []ReportingInv
<1>1. Init => ReportingInv
  <2>1. Init => RequestInv
    BY ReportingAssumption DEF Init, RequestInv, RequestOK, Beyond, Status
  <2>2. Init => StandingInv /\ RowInv /\ TickInv /\ AnsweredIsFollowed
    BY DEF Init, StandingInv, RowInv, RowOK, TickInv, TickOK, AnsweredIsFollowed
  <2> QED
    BY <2>1, <2>2, InitialTypes DEF ReportingInv
<1>2. ReportingInv /\ [Next]_vars => ReportingInv'
  <2> SUFFICES ASSUME ReportingInv, [Next]_vars PROVE ReportingInv'
    OBVIOUS
  <2>1. Types'
    BY RegistrationStep, RequestTypesStep, RecordTypesStep, BilledStep, PollingTypesStep,
       ServiceMoves
    DEF ReportingInv, Types, TypeOK, DeclarantInv, RequestTypes, RecordTypes, PollingTypes,
        ServiceTypes
  <2> QED
    BY <2>1, RequestsStep, RowsStep, TicksStep, AnswersStep, ServiceMoves
    DEF ReportingInv, Types
<1> QED
  BY <1>1, <1>2, PTL DEF Spec

\* The registrations, requests, filings, documents, rows and ticks keep their types, for
\* any number of requests, reports, ticks, attempts, changes and faults.
THEOREM ReportingTypesHold == Spec => []TypeOK
<1>1. ReportingInv => TypeOK
  BY DEF ReportingInv, Types
<1> QED
  BY <1>1, InvariantHolds, PTL

\* A report that was answered as filed is looked up, or support was told, for any number of
\* requests under any references.
THEOREM AnsweredReportsAreFollowed == Spec => []AnsweredIsFollowed
<1>1. ReportingInv => AnsweredIsFollowed
  BY DEF ReportingInv
<1> QED
  BY <1>1, InvariantHolds, PTL

\* A report that is not looked up any more has been ruled on as its row says, or is unknown
\* to the service, or is stale, whichever workers looked at it at the same time.
THEOREM NothingIsForgotten == Spec => []NotForgotten
<1>1. ReportingInv => NotForgotten
  <2> SUFFICES ASSUME ReportingInv, NEW d \in documents, recorded[d] # None, d \notin due,
                      Ref(d) \notin stale \cup gone
               PROVE  /\ Ruled(standing[Ref(d)])
                      /\ recorded[d] = standing[Ref(d)]
    BY DEF NotForgotten
  <2>1. d \in Request /\ recorded[d] \in Standing
    BY DEF ReportingInv, Types, TypeOK
  <2>2. Final(recorded[d]) /\ recorded[d] = standing[Ref(d)]
    BY <2>1 DEF ReportingInv, RowInv, RowOK
  <2> QED
    BY <2>1, <2>2, FinalIsRuled
<1> QED
  BY <1>1, InvariantHolds, PTL
=============================================================================
