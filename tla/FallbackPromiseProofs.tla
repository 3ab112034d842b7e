----------------------- MODULE FallbackPromiseProofs -----------------------
(***************************************************************************)
(* What is billed was accepted by the mail service, EmailFallback           *)
(* implements FallbackPromise, and a closed request has settled, billed and *)
(* told all of its deliveries, for any number of addresses, runs and faults.*)
(***************************************************************************)
EXTENDS EmailFallbackProofs

(***************************************************************************)
(* Nothing starts before the Peppol transmission has failed.                *)
(***************************************************************************)
CausedByFailure ==
    \/ peppol = "failed"
    \/ /\ ~due /\ open
       /\ \A r \in Run : pc[r] = "idle"
       /\ \A a \in Address : attempts[a] = NoRun

(* What a run has mailed lies behind it.                                    *)
MailedBehind ==
    \A r \in Run, a \in Address : a \in taken[r] =>
        /\ pc[r] # "idle"
        /\ a < at[r] \/ (a = at[r] /\ pc[r] \notin {"load", "address", "mail"})

(***************************************************************************)
(* Every status other than a failure stands for a message the mail service  *)
(* took (or a playground simulated), along the whole way from its answer to *)
(* the close: the row to be written, the row, and the row as read back.     *)
(***************************************************************************)
Went == {"pending", "delivered"}

Accepted(a) == Simulated(a) \/ \E s \in Run : a \in taken[s]

MailsAsItself == \A r \in Run : pc[r] = "mail" => seen[r][at[r]] = NoRun

DraftAccepted ==
    \A r \in Run : pc[r] = "record" =>
        draft[r] = "failed" \/ (draft[r] \in Went /\ Accepted(at[r]))

RowAccepted ==
    \A r \in Run, a \in Address : row[r][a] \in Went => Accepted(a)

RowWritten ==
    \A r \in Run : pc[r] = "readback" => row[Sender(r, at[r])][at[r]] # "none"

GotAccepted ==
    \A r \in Run, a \in Address : got[r][a] \in Went => Accepted(a)

GotBehind ==
    \A r \in Run : Working(r) =>
        \A a \in Address : a < at[r] => got[r][a] # "none"

StartsAtFirst == \A r \in Run : pc[r] = "idle" => at[r] = 1

AnswerInv ==
    /\ DraftAccepted /\ RowAccepted /\ RowWritten /\ GotAccepted /\ GotBehind
    /\ StartsAtFirst

(* The request is closed once, which is what bills and adds recipients.     *)
BilledByClose ==
    /\ open => \A a \in Address : recipients[a] = 0 /\ billed[a] = 0
    /\ BilledOnceForAcceptedMail

PromiseInv ==
    CausedByFailure /\ MailedBehind /\ MailsAsItself /\ AnswerInv /\ BilledByClose

\* At first nothing is billed or closed.
LEMMA PromiseInit == Init => PromiseInv
  <1> SUFFICES ASSUME Init PROVE PromiseInv
    OBVIOUS
  <1>1. CausedByFailure /\ MailedBehind /\ MailsAsItself
    BY DEF Init, CausedByFailure, MailedBehind, MailsAsItself
  <1>2. AnswerInv
    BY DEF Init, AnswerInv, DraftAccepted, RowAccepted, RowWritten, GotAccepted,
           GotBehind, StartsAtFirst, Working, Went
  <1>3. BilledByClose
    BY DEF Init, BilledByClose, BilledOnceForAcceptedMail
  <1> QED
    BY <1>1, <1>2, <1>3 DEF PromiseInv

\* No run starts without a failed transmission.
LEMMA CausedStep ==
    ASSUME CausedByFailure, TypeOK, [Next]_vars PROVE CausedByFailure'
  <1> USE DEF CausedByFailure, request, locals
  <1>1. ASSUME NEW r \in Run, Claim(r) PROVE CausedByFailure'
    BY <1>1 DEF Claim
  <1>2. ASSUME NEW r \in Run, RunStep(r) \/ Fail(r) \/ Crash(r)
        PROVE  CausedByFailure'
    <2>1. pc[r] # "idle"
      BY <1>2 DEF RunStep, LoadPayload, RecordedDelivery, NoteAttempt, Mail,
                  Record, ReadBack, Finish, FinishedByAnother, Audit, Release,
                  Fail, Crash, Live
    <2>2. peppol' = peppol
      BY <1>2 DEF RunStep, LoadPayload, RecordedDelivery, NoteAttempt, Mail,
                  Record, ReadBack, Finish, FinishedByAnother, Audit, Release,
                  Fail, Crash
    <2> QED
      BY <2>1, <2>2
  <1>3. ASSUME NEW status \in {"delivered", "failed"}, PeppolSettled(status)
        PROVE  CausedByFailure'
    BY <1>3 DEF PeppolSettled
  <1>4. ASSUME NEW r, NEW a, NEW status, MailReport(r, a, status)
        PROVE  CausedByFailure'
    BY <1>4 DEF MailReport
  <1>5. CASE DrainFinds
    BY <1>5 DEF DrainFinds, Stalled
  <1>6. CASE RepeatedReport \/ CallLost \/ ClaimGoesStale \/ NothingToClaim
               \/ UNCHANGED vars
    BY <1>6 DEF RepeatedReport, CallLost, ClaimGoesStale, NothingToClaim, vars
  <1> QED
    BY <1>1, <1>2, <1>3, <1>4, <1>5, <1>6 DEF Next

(* What a run's own steps do to the other runs, and to what they mailed.    *)
Elsewhere(r) ==
    \A q \in Run : q # r =>
        UNCHANGED <<pc[q], seen[q], at[q], draft[q], got[q], taken[q]>>

\* The steps of a run leave the other runs where they are.
LEMMA LocalSteps ==
    ASSUME TypeInv, NEW r \in Run, Claim(r) \/ RunStep(r) \/ Fail(r) \/ Crash(r)
    PROVE  Elsewhere(r)
  <1> USE DEF Elsewhere, TypeInv, TypeOK
  <1>1. CASE Claim(r) \/ LoadPayload(r)
    BY <1>1 DEF Claim, LoadPayload
  <1>2. CASE RecordedDelivery(r)
    BY <1>2 DEF RecordedDelivery
  <1>3. CASE NoteAttempt(r)
    BY <1>3 DEF NoteAttempt
  <1>4. CASE Mail(r)
    BY <1>4 DEF Mail
  <1>5. CASE Record(r) \/ ReadBack(r)
    BY <1>5 DEF Record, ReadBack
  <1>6. CASE Finish(r) \/ FinishedByAnother(r) \/ Audit(r) \/ Release(r)
    BY <1>6 DEF Finish, FinishedByAnother, Audit, Release
  <1>7. CASE Fail(r) \/ Crash(r)
    BY <1>7 DEF Fail, Crash
  <1> QED
    BY <1>1, <1>2, <1>3, <1>4, <1>5, <1>6, <1>7 DEF RunStep

\* What a run has mailed lies behind it.
LEMMA BehindStep ==
    ASSUME MailedBehind, MailsAsItself, TypeInv, [Next]_vars
    PROVE  MailedBehind' /\ MailsAsItself'
  <1> USE DEF MailedBehind, MailsAsItself
  <1>1. CASE UNCHANGED <<pc, at, taken, seen>>
    BY <1>1
  <1>2. ASSUME NEW r \in Run, Elsewhere(r),
               \A a \in Address : a \in taken'[r] =>
                   /\ pc'[r] # "idle"
                   /\ \/ a < at'[r]
                      \/ a = at'[r] /\ pc'[r] \notin {"load", "address", "mail"},
               pc'[r] = "mail" => seen'[r][at'[r]] = NoRun
        PROVE  MailedBehind' /\ MailsAsItself'
    BY <1>2 DEF Elsewhere
  <1>3. ASSUME NEW r \in Run, Claim(r) PROVE MailedBehind' /\ MailsAsItself'
    <2>1. pc'[r] = "load" /\ pc[r] = "idle" /\ taken' = taken
      BY <1>3 DEF Claim, TypeInv, TypeOK
    <2> QED
      BY <1>2, <1>3, <2>1, LocalSteps
  <1>4. ASSUME NEW r \in Run, LoadPayload(r) PROVE MailedBehind' /\ MailsAsItself'
    <2>1. pc'[r] = "address" /\ pc[r] = "load" /\ UNCHANGED <<taken, at>>
      BY <1>4 DEF LoadPayload, TypeInv, TypeOK
    <2> QED
      BY <1>2, <1>4, <2>1, LocalSteps DEF RunStep
  <1>5. ASSUME NEW r \in Run, RecordedDelivery(r)
        PROVE  MailedBehind' /\ MailsAsItself'
    <2>1. /\ pc'[r] \in {"address", "record"} /\ pc[r] = "address"
          /\ taken' = taken /\ at[r] \in Address /\ at'[r] \in {at[r], at[r] + 1}
      BY <1>5 DEF RecordedDelivery, TypeInv, TypeOK
    <2>2. \A a \in Address : a < at[r] => a < at'[r]
      BY <2>1 DEF Address
    <2> QED
      BY <1>2, <1>5, <2>1, <2>2, LocalSteps DEF RunStep
  <1>6. ASSUME NEW r \in Run, NoteAttempt(r) PROVE MailedBehind' /\ MailsAsItself'
    <2>1. /\ pc'[r] = "mail" /\ pc[r] = "address" /\ seen'[r][at'[r]] = NoRun
          /\ UNCHANGED <<taken, at>>
      BY <1>6 DEF NoteAttempt, TypeInv, TypeOK
    <2> QED
      BY <1>2, <1>6, <2>1, LocalSteps DEF RunStep
  <1>7. ASSUME NEW r \in Run, Mail(r) PROVE MailedBehind' /\ MailsAsItself'
    <2>1. /\ pc'[r] = "record" /\ pc[r] = "mail" /\ at' = at
          /\ taken'[r] \subseteq taken[r] \cup {at[r]}
      BY <1>7 DEF Mail, TypeInv, TypeOK
    <2> QED
      BY <1>2, <1>7, <2>1, LocalSteps DEF RunStep
  <1>8. ASSUME NEW r \in Run, ReadBack(r) PROVE MailedBehind' /\ MailsAsItself'
    <2>1. /\ pc'[r] = "address" /\ pc[r] = "readback" /\ taken' = taken
          /\ at[r] \in Address /\ at'[r] = at[r] + 1
      BY <1>8 DEF ReadBack, TypeInv, TypeOK, Positioned
    <2>2. \A a \in Address : a < at[r] \/ a = at[r] => a < at'[r]
      BY <2>1 DEF Address
    <2> QED
      BY <1>2, <1>8, <2>1, <2>2, LocalSteps DEF RunStep
  <1>9. ASSUME NEW r \in Run,
               \/ Record(r) \/ Finish(r) \/ FinishedByAnother(r) \/ Audit(r)
               \/ Release(r) \/ Fail(r) \/ Crash(r)
        PROVE  MailedBehind' /\ MailsAsItself'
    <2>1. /\ pc'[r] \in {"readback", "audit", "release", "stopped"}
          /\ UNCHANGED <<taken, at>>
      BY <1>9 DEF Record, Finish, FinishedByAnother, Audit, Release, Fail, Crash,
                  TypeInv, TypeOK
    <2> QED
      BY <1>2, <1>9, <2>1, LocalSteps DEF RunStep
  <1>10. ASSUME NEW r, NEW a, NEW status,
                PeppolSettled(status) \/ MailReport(r, a, status)
         PROVE  MailedBehind' /\ MailsAsItself'
    BY <1>1, <1>10 DEF PeppolSettled, MailReport, locals
  <1>11. CASE RepeatedReport \/ DrainFinds \/ CallLost \/ ClaimGoesStale
                \/ NothingToClaim \/ UNCHANGED vars
    BY <1>1, <1>11 DEF RepeatedReport, DrainFinds, CallLost, ClaimGoesStale,
                       NothingToClaim, vars, locals
  <1> QED
    BY <1>3, <1>4, <1>5, <1>6, <1>7, <1>8, <1>9, <1>10, <1>11 DEF Next, RunStep

(***************************************************************************)
(* The answer of the mail service, along its way.                           *)
(***************************************************************************)
LEMMA AcceptedStays ==
    ASSUME TypeInv, [Next]_vars, NEW a \in Address, Accepted(a)
    PROVE  Accepted(a)'
  <1>1. \A q \in Run : taken[q] \subseteq taken'[q]
    <2>1. CASE taken' = taken
      BY <2>1
    <2>2. ASSUME NEW r \in Run, Mail(r) PROVE \A q \in Run : taken[q] \subseteq taken'[q]
      <3>1. taken' = taken \/ taken' = [taken EXCEPT ![r] = @ \cup {at[r]}]
        BY <2>2 DEF Mail
      <3> QED
        BY <3>1 DEF TypeInv, TypeOK
    <2> QED
      BY <2>1, <2>2 DEF Next, RunStep, vars, PeppolSettled, RepeatedReport,
           DrainFinds, CallLost, ClaimGoesStale, NothingToClaim, Claim, Fail,
           Crash, MailReport, LoadPayload, RecordedDelivery, NoteAttempt, Record,
           ReadBack, Finish, FinishedByAnother, Audit, Release
  <1> QED
    BY <1>1 DEF Accepted, Simulated

\* What a row says went out was accepted, and no row is removed.
LEMMA RowStep ==
    ASSUME TypeInv, MailsAsItself, AnswerInv, [Next]_vars
    PROVE  /\ RowAccepted'
           /\ \A r \in Run, a \in Address : row[r][a] # "none" => row'[r][a] # "none"
  <1> USE DEF AnswerInv, RowAccepted
  <1>1. CASE row' = row
    BY <1>1, AcceptedStays
  <1>2. ASSUME NEW r \in Run, Record(r)
        PROVE  /\ RowAccepted'
               /\ \A q \in Run, a \in Address : row[q][a] # "none" => row'[q][a] # "none"
    <2> DEFINE a == at[r]
               s == Sender(r, a)
    <2>1. a \in Address /\ s \in Run /\ pc[r] = "record"
      BY <1>2 DEF Record, TypeInv, TypeOK, Positioned, Sender
    <2>2. /\ row'[s][a] = IF row[s][a] = "none" THEN draft[r] ELSE row[s][a]
          /\ \A q \in Run, b \in Address :
                <<q, b>> # <<s, a>> => row'[q][b] = row[q][b]
      BY <1>2, <2>1 DEF Record, TypeInv, TypeOK
    <2>3. draft[r] = "failed" \/ Accepted(a)
      BY <2>1 DEF DraftAccepted
    <2> QED
      BY <2>1, <2>2, <2>3, AcceptedStays DEF Went
  <1>3. ASSUME NEW r \in Run, NEW a \in Address,
               NEW status \in {"delivered", "bounced"}, MailReport(r, a, status)
        PROVE  /\ RowAccepted'
               /\ \A q \in Run, b \in Address : row[q][b] # "none" => row'[q][b] # "none"
    <2>1. /\ row[r][a] = "pending" /\ row'[r][a] = status
          /\ \A q \in Run, b \in Address :
                <<q, b>> # <<r, a>> => row'[q][b] = row[q][b]
      BY <1>3 DEF MailReport, TypeInv, TypeOK
    <2> QED
      BY <2>1, AcceptedStays DEF Went
  <1> QED
    BY <1>1, <1>2, <1>3 DEF Next, RunStep, vars, PeppolSettled, RepeatedReport,
         DrainFinds, CallLost, ClaimGoesStale, NothingToClaim, Claim, Fail,
         Crash, LoadPayload, RecordedDelivery, NoteAttempt, Mail, ReadBack,
         Finish, FinishedByAnother, Audit, Release

(* What the step of one run has to establish for its own locals.            *)
OwnAnswer(r) ==
    /\ pc[r] = "record" => draft[r] = "failed" \/ (draft[r] \in Went /\ Accepted(at[r]))
    /\ pc[r] = "readback" => row[Sender(r, at[r])][at[r]] # "none"
    /\ \A a \in Address : got[r][a] \in Went => Accepted(a)
    /\ Working(r) => \A a \in Address : a < at[r] => got[r][a] # "none"
    /\ pc[r] = "idle" => at[r] = 1

\* AnswerInv, run by run.
LEMMA AnswerByOwn ==
    AnswerInv <=> RowAccepted /\ \A r \in Run : OwnAnswer(r)
  BY DEF AnswerInv, OwnAnswer, DraftAccepted, RowWritten, GotAccepted, GotBehind,
         StartsAtFirst

\* A run's own answers are kept until it records them.
LEMMA OwnKept ==
    ASSUME TypeInv, MailsAsItself, AnswerInv, [Next]_vars, NEW q \in Run,
           UNCHANGED <<pc[q], seen[q], at[q], draft[q], got[q]>>
    PROVE  OwnAnswer(q)'
  <1>1. OwnAnswer(q)
    BY AnswerByOwn
  <1>2. pc[q] = "record" \/ pc[q] = "readback" => at[q] \in Address
    BY DEF TypeInv, Positioned
  <1>3. pc[q] = "readback" => Sender(q, at[q]) \in Run
    BY <1>2 DEF Sender, TypeInv, TypeOK
  <1>4. Sender(q, at[q])' = Sender(q, at[q])
    BY DEF Sender
  <1>5. pc'[q] = "readback" => row'[Sender(q, at[q])'][at'[q]] # "none"
    BY <1>1, <1>2, <1>3, <1>4, RowStep DEF OwnAnswer
  <1>6. pc'[q] = "record" =>
           draft'[q] = "failed" \/ (draft'[q] \in Went /\ Accepted(at[q])')
    BY <1>1, <1>2, AcceptedStays DEF OwnAnswer, Went
  <1>7. \A a \in Address : got'[q][a] \in Went => Accepted(a)'
    BY <1>1, AcceptedStays DEF OwnAnswer, Went
  <1>8. Working(q)' => \A a \in Address : a < at'[q] => got'[q][a] # "none"
    BY <1>1 DEF OwnAnswer, Working
  <1> QED
    BY <1>1, <1>5, <1>6, <1>7, <1>8 DEF OwnAnswer

\* An accepted message is recorded or still with the run it was answered to.
LEMMA AnswerStep ==
    ASSUME TypeInv, MailsAsItself, AnswerInv, [Next]_vars
    PROVE  AnswerInv'
  <1> DEFINE Kept(q) == UNCHANGED <<pc[q], seen[q], at[q], draft[q], got[q]>>
  <1>0. ASSUME \A q \in Run : OwnAnswer(q)' PROVE AnswerInv'
    BY <1>0, RowStep DEF AnswerInv, OwnAnswer, DraftAccepted, RowWritten,
                         GotAccepted, GotBehind, StartsAtFirst
  <1>1. ASSUME NEW r \in Run, Elsewhere(r), OwnAnswer(r)' PROVE AnswerInv'
    <2>1. \A q \in Run : q # r => OwnAnswer(q)'
      BY <1>1, OwnKept DEF Elsewhere
    <2> QED
      BY <1>0, <1>1, <2>1
  <1>2. CASE UNCHANGED locals
    <2>1. \A q \in Run : Kept(q)
      BY <1>2 DEF locals
    <2> QED
      BY <1>0, <2>1, OwnKept
  <1>3. ASSUME NEW r \in Run PROVE OwnAnswer(r)
    BY AnswerByOwn
  <1>4. ASSUME NEW r \in Run, got'[r] = got[r], at'[r] = at[r],
               pc'[r] \notin {"idle", "record", "readback"},
               Working(r)' => Working(r) \/ pc[r] = "idle"
        PROVE  OwnAnswer(r)'
    <2>1. \A a \in Address : got'[r][a] \in Went => Accepted(a)'
      BY <1>3, <1>4, AcceptedStays DEF OwnAnswer, Went
    <2>2. pc[r] = "idle" => \A a \in Address : ~(a < at[r])
      BY <1>3 DEF OwnAnswer, Address
    <2>3. Working(r)' => \A a \in Address : a < at'[r] => got'[r][a] # "none"
      BY <1>3, <1>4, <2>2 DEF OwnAnswer
    <2> QED
      BY <1>4, <2>1, <2>3 DEF OwnAnswer
  <1>5. ASSUME NEW r \in Run,
               \/ Claim(r) \/ LoadPayload(r) \/ NoteAttempt(r) \/ Finish(r)
               \/ FinishedByAnother(r) \/ Audit(r) \/ Release(r) \/ Fail(r)
               \/ Crash(r)
        PROVE  AnswerInv'
    <2>1. /\ got'[r] = got[r] /\ at'[r] = at[r]
          /\ pc'[r] \notin {"idle", "record", "readback"}
          /\ Working(r)' => Working(r) \/ pc[r] = "idle"
      BY <1>5 DEF Claim, LoadPayload, NoteAttempt, Finish, FinishedByAnother,
                  Audit, Release, Fail, Crash, Working, TypeInv, TypeOK
    <2> QED
      BY <1>1, <1>4, <1>5, <2>1, LocalSteps DEF RunStep
  <1>6. ASSUME NEW r \in Run, RecordedDelivery(r) PROVE AnswerInv'
    <2> DEFINE a == at[r]
               s == Sender(r, a)
    <2>1. a \in Address /\ seen[r][a] # NoRun /\ pc[r] = "address"
      BY <1>6 DEF RecordedDelivery
    <2>2. s \in Run
      BY <2>1 DEF Sender, TypeInv, TypeOK
    <2>3. CASE /\ row[s][a] # "none" /\ UNCHANGED pc
               /\ got' = [got EXCEPT ![r][a] = row[s][a]]
               /\ at' = [at EXCEPT ![r] = a + 1]
      <3>1. /\ at'[r] = a + 1 /\ pc'[r] = "address" /\ got'[r][a] = row[s][a]
            /\ \A b \in Address : b # a => got'[r][b] = got[r][b]
        BY <2>1, <2>3 DEF TypeInv, TypeOK
      <3>2. row[s][a] \in Went => Accepted(a)
        BY <2>1, <2>2 DEF AnswerInv, RowAccepted
      <3>3. \A b \in Address : got'[r][b] \in Went => Accepted(b)'
        BY <1>3, <2>1, <3>1, <3>2, AcceptedStays DEF OwnAnswer
      <3>4. \A b \in Address : b < at'[r] => b = a \/ b < at[r]
        BY <2>1, <3>1 DEF Address
      <3>5. \A b \in Address : b < at'[r] => got'[r][b] # "none"
        BY <1>3, <2>1, <2>3, <3>1, <3>4 DEF OwnAnswer, Working
      <3>6. OwnAnswer(r)'
        BY <3>1, <3>3, <3>5 DEF OwnAnswer
      <3> QED
        BY <1>1, <1>6, <3>6, LocalSteps DEF RunStep
    <2>4. CASE /\ draft' = [draft EXCEPT ![r] = "failed"]
               /\ pc' = [pc EXCEPT ![r] = "record"]
               /\ UNCHANGED <<got, at>>
      <3>1. draft'[r] = "failed" /\ pc'[r] = "record"
        BY <2>4 DEF TypeInv, TypeOK
      <3>2. \A b \in Address : got'[r][b] \in Went => Accepted(b)'
        BY <1>3, <2>4, AcceptedStays DEF OwnAnswer
      <3>3. OwnAnswer(r)'
        BY <1>3, <2>1, <2>4, <3>1, <3>2 DEF OwnAnswer, Working
      <3> QED
        BY <1>1, <1>6, <3>3, LocalSteps DEF RunStep
    <2> QED
      BY <1>6, <2>3, <2>4 DEF RecordedDelivery
  <1>7. ASSUME NEW r \in Run, Mail(r) PROVE AnswerInv'
    <2>1. /\ at[r] \in Address /\ pc[r] = "mail" /\ pc'[r] = "record"
          /\ UNCHANGED <<got, at>>
      BY <1>7 DEF Mail, TypeInv, TypeOK, Positioned
    <2>2. draft'[r] = "failed" \/ (draft'[r] \in Went /\ Accepted(at[r])')
      <3>1. CASE Simulated(at[r]) /\ draft' = [draft EXCEPT ![r] = "delivered"]
        BY <2>1, <3>1 DEF TypeInv, TypeOK, Went, Accepted, Simulated
      <3>2. CASE /\ draft' = [draft EXCEPT ![r] = "pending"]
                 /\ taken' = [taken EXCEPT ![r] = @ \cup {at[r]}]
        <4>1. at'[r] \in taken'[r] /\ draft'[r] = "pending"
          BY <2>1, <3>2 DEF TypeInv, TypeOK
        <4> QED
          BY <2>1, <4>1 DEF Accepted, Went
      <3>3. CASE draft' = [draft EXCEPT ![r] = "failed"]
        BY <3>3 DEF TypeInv, TypeOK
      <3> QED
        BY <1>7, <3>1, <3>2, <3>3 DEF Mail
    <2>3. \A b \in Address : got'[r][b] \in Went => Accepted(b)'
      BY <1>3, <2>1, AcceptedStays DEF OwnAnswer
    <2>4. OwnAnswer(r)'
      BY <1>3, <2>1, <2>2, <2>3 DEF OwnAnswer, Working
    <2> QED
      BY <1>1, <1>7, <2>4, LocalSteps DEF RunStep
  <1>8. ASSUME NEW r \in Run, Record(r) PROVE AnswerInv'
    <2> DEFINE a == at[r]
               s == Sender(r, a)
    <2>1. a \in Address /\ s \in Run /\ pc[r] = "record" /\ pc'[r] = "readback"
      BY <1>8 DEF Record, TypeInv, TypeOK, Positioned, Sender
    <2>2. UNCHANGED <<got, at, seen>> /\ s' = s
      BY <1>8 DEF Record, Sender
    <2>3. row'[s][a] # "none"
      <3>1. draft[r] # "none"
        BY <1>3, <2>1 DEF OwnAnswer, Went
      <3>2. row'[s][a] = IF row[s][a] = "none" THEN draft[r] ELSE row[s][a]
        BY <1>8, <2>1 DEF Record, TypeInv, TypeOK
      <3> QED
        BY <3>1, <3>2
    <2>4. \A b \in Address : got'[r][b] \in Went => Accepted(b)'
      BY <1>3, <2>2, AcceptedStays DEF OwnAnswer
    <2>5. OwnAnswer(r)'
      BY <1>3, <2>1, <2>2, <2>3, <2>4 DEF OwnAnswer, Working
    <2> QED
      BY <1>1, <1>8, <2>5, LocalSteps DEF RunStep
  <1>9. ASSUME NEW r \in Run, ReadBack(r) PROVE AnswerInv'
    <2> DEFINE a == at[r]
               s == Sender(r, a)
    <2>1. a \in Address /\ s \in Run /\ pc[r] = "readback" /\ pc'[r] = "address"
      BY <1>9 DEF ReadBack, TypeInv, TypeOK, Positioned, Sender
    <2>2. /\ at'[r] = a + 1 /\ got'[r][a] = row[s][a]
          /\ \A b \in Address : b # a => got'[r][b] = got[r][b]
      BY <1>9, <2>1 DEF ReadBack, TypeInv, TypeOK
    <2>3. row[s][a] # "none" /\ (row[s][a] \in Went => Accepted(a))
      BY <1>3, <2>1 DEF OwnAnswer, AnswerInv, RowAccepted
    <2>4. \A b \in Address : got'[r][b] \in Went => Accepted(b)'
      BY <1>3, <2>1, <2>2, <2>3, AcceptedStays DEF OwnAnswer
    <2>5. \A b \in Address : b < at'[r] => b = a \/ b < at[r]
      BY <2>1, <2>2 DEF Address
    <2>6. \A b \in Address : b < at'[r] => got'[r][b] # "none"
      BY <1>3, <2>1, <2>2, <2>3, <2>5 DEF OwnAnswer, Working
    <2>7. OwnAnswer(r)'
      BY <2>1, <2>4, <2>6 DEF OwnAnswer
    <2> QED
      BY <1>1, <1>9, <2>7, LocalSteps DEF RunStep
  <1>10. ASSUME NEW r, NEW a, NEW status,
                PeppolSettled(status) \/ MailReport(r, a, status)
         PROVE  AnswerInv'
    BY <1>2, <1>10 DEF PeppolSettled, MailReport
  <1>11. CASE RepeatedReport \/ DrainFinds \/ CallLost \/ ClaimGoesStale
                \/ NothingToClaim \/ UNCHANGED vars
    BY <1>2, <1>11 DEF RepeatedReport, DrainFinds, CallLost, ClaimGoesStale,
                       NothingToClaim, vars
  <1> QED
    BY <1>5, <1>6, <1>7, <1>8, <1>9, <1>10, <1>11 DEF Next, RunStep

(***************************************************************************)
(* Billing.                                                                 *)
(***************************************************************************)
(* What a run that reached the end bills was accepted.                      *)
LEMMA TransfersAccepted ==
    ASSUME AnswerInv, TypeInv, NEW r \in Run, pc[r] = "address", at[r] = N + 1,
           NEW a \in Transfers(r)
    PROVE  a \in Address /\ ~Playground /\ \E s \in Run : a \in taken[s]
  <1>1. a \in Address /\ ~Playground /\ got[r][a] \notin Failed
    BY DEF Transfers, Sent
  <1>2. a < at[r]
    BY <1>1, ConstantsAssumption DEF Address
  <1>3. got[r][a] # "none"
    BY <1>1, <1>2 DEF AnswerInv, GotBehind, Working
  <1>4. got[r][a] \in Went
    BY <1>1, <1>3 DEF TypeInv, TypeOK, Status, Went
  <1> QED
    BY <1>1, <1>4 DEF AnswerInv, GotAccepted, Accepted, Simulated

\* Only the run that closes the request bills.
LEMMA BilledStep ==
    ASSUME TypeInv, AnswerInv, BilledByClose, [Next]_vars
    PROVE  BilledByClose'
  <1> USE DEF BilledByClose, BilledOnceForAcceptedMail
  <1>1. CASE UNCHANGED <<open, recipients, billed, taken>>
    BY <1>1
  <1>2. ASSUME NEW r \in Run, Mail(r) PROVE BilledByClose'
    <2>1. UNCHANGED <<open, recipients, billed>>
      BY <1>2 DEF Mail, request, closing
    <2>2. taken' = taken \/ taken' = [taken EXCEPT ![r] = @ \cup {at[r]}]
      BY <1>2 DEF Mail
    <2>3. \A q \in Run : taken[q] \subseteq taken'[q]
      BY <2>2 DEF TypeInv, TypeOK
    <2> QED
      BY <2>1, <2>3
  <1>3. ASSUME NEW r \in Run, Finish(r) PROVE BilledByClose'
    <2>1. /\ ~open' /\ taken' = taken
          /\ \A a \in Address :
                /\ recipients'[a] = IF a \in Sent(r) THEN 1 ELSE 0
                /\ billed'[a] = IF a \in Transfers(r) THEN 1 ELSE 0
      BY <1>3 DEF Finish, Increment
    <2>2. Transfers(r) \subseteq Sent(r)
      BY DEF Transfers
    <2>3. \A a \in Address : billed'[a] = 1 =>
             ~Playground /\ \E s \in Run : a \in taken[s]
      <3> SUFFICES ASSUME NEW a \in Address, billed'[a] = 1
                   PROVE  ~Playground /\ \E s \in Run : a \in taken[s]
        OBVIOUS
      <3>1. a \in Transfers(r)
        BY <2>1
      <3> QED
        BY <1>3, <3>1, TransfersAccepted DEF Finish
    <2> QED
      BY <2>1, <2>2, <2>3
  <1> QED
    BY <1>1, <1>2, <1>3 DEF Next, RunStep, vars, request, closing, PeppolSettled,
         RepeatedReport, DrainFinds, CallLost, ClaimGoesStale, NothingToClaim,
         Claim, Fail, Crash, MailReport, LoadPayload, RecordedDelivery,
         NoteAttempt, Record, ReadBack, FinishedByAnother, Audit, Release

\* The invariant of the billing holds in every reachable state.
LEMMA PromiseInvariant == Spec => [](TypeInv /\ PromiseInv)
  <1>1. Init => TypeInv /\ PromiseInv
    BY TypeInit, PromiseInit
  <1>2. TypeInv /\ PromiseInv /\ [Next]_vars => (TypeInv /\ PromiseInv)'
    <2> SUFFICES ASSUME TypeInv, PromiseInv, [Next]_vars
                 PROVE  TypeInv' /\ PromiseInv'
      OBVIOUS
    <2>1. TypeInv'
      BY TypeStep, PositionStep DEF TypeInv
    <2>2. CausedByFailure' /\ MailedBehind' /\ MailsAsItself'
      BY CausedStep, BehindStep DEF PromiseInv, TypeInv
    <2>3. AnswerInv' /\ BilledByClose'
      BY AnswerStep, BilledStep DEF PromiseInv
    <2> QED
      BY <2>1, <2>2, <2>3 DEF PromiseInv
  <1> QED
    BY <1>1, <1>2, PTL DEF Spec

(* However many runs reach the end, and however slow they are, an address is *)
(* added and billed once, for a message the mail service took.               *)
THEOREM BilledOnce == Spec => []BilledOnceForAcceptedMail
  <1>1. PromiseInv => BilledOnceForAcceptedMail
    BY DEF PromiseInv, BilledByClose
  <1> QED
    BY <1>1, PromiseInvariant, PTL

(***************************************************************************)
(* The refinement.                                                          *)
(***************************************************************************)
LEMMA PromiseStep ==
    ASSUME FallbackInv, PromiseInv, [Next]_vars
    PROVE  [Promise!Next]_(Promise!vars)
  <1> USE DEF Promise!vars, Promise!Next, FallbackInv
  <1>1. CASE UNCHANGED <<peppol, taken, open, billed>>
    BY <1>1
  <1>2. ASSUME NEW status \in {"delivered", "failed"}, PeppolSettled(status)
        PROVE  [Promise!Next]_(Promise!vars)
    <2>1. peppol = "pending" /\ peppol' = status /\ UNCHANGED <<taken, open, billed>>
      BY <1>2 DEF PeppolSettled, request, closing
    <2> QED
      BY <2>1 DEF Promise!TransmissionFails
  <1>3. ASSUME NEW r \in Run, Mail(r) PROVE [Promise!Next]_(Promise!vars)
    <2>1. /\ at[r] \in Address /\ pc[r] = "mail"
          /\ UNCHANGED <<peppol, open, billed>>
      BY <1>3 DEF Mail, TypeInv, Positioned, request, closing
    <2>2. open /\ peppol = "failed"
      BY <2>1 DEF MutexInv, OpenWhileWork, Working, PromiseInv, CausedByFailure
    <2>3. \A s \in Run : at[r] \notin taken[s]
      <3>1. attempts[at[r]] = r
        BY <2>1 DEF MailInv, NotedByMailer
      <3>2. \A s \in Run : at[r] \in taken[s] => s = r
        BY <2>1, <2>2, <3>1 DEF MailInv, NotedIfMailed
      <3>3. at[r] \notin taken[r]
        BY <2>1 DEF PromiseInv, MailedBehind, TypeInv, TypeOK, Address
      <3> QED
        BY <3>2, <3>3
    <2>4. taken' = taken \/ taken' = [taken EXCEPT ![r] = @ \cup {at[r]}]
      BY <1>3 DEF Mail
    <2> QED
      BY <2>1, <2>2, <2>3, <2>4 DEF Promise!Mail
  <1>4. ASSUME NEW r \in Run, Finish(r) PROVE [Promise!Next]_(Promise!vars)
    <2>1. open /\ ~open' /\ UNCHANGED <<peppol, taken>> /\ pc[r] = "address"
      BY <1>4 DEF Finish
    <2>2. peppol = "failed"
      BY <2>1 DEF PromiseInv, CausedByFailure
    <2>3. billed' = [a \in Address |-> IF a \in Transfers(r) THEN 1 ELSE 0]
      <3>1. \A a \in Address : billed[a] = 0
        BY <2>1 DEF PromiseInv, BilledByClose
      <3> QED
        BY <1>4, <3>1 DEF Finish, Increment
    <2>4. \A a \in Address : billed'[a] = 1 => \E s \in Run : a \in taken[s]
      BY <1>4, <2>3, TransfersAccepted DEF Finish, PromiseInv
    <2> QED
      BY <2>1, <2>2, <2>3, <2>4 DEF Promise!Close
  <1> QED
    BY <1>1, <1>2, <1>3, <1>4 DEF Next, RunStep, vars, request, closing,
         RepeatedReport, DrainFinds, CallLost, ClaimGoesStale, NothingToClaim,
         Claim, Fail, Crash, MailReport, LoadPayload, RecordedDelivery,
         NoteAttempt, Record, ReadBack, FinishedByAnother, Audit, Release

(* Runs, claims, crashes and resumptions only ever do what the sender was    *)
(* promised: each address mailed at most once, after the failure, and one    *)
(* close that bills only what was mailed.                                    *)
THEOREM FallbackKeepsPromise ==
    ASSUME ~SlowRuns PROVE Spec => PromiseKept
  <1>1. Init => Promise!Init
    BY DEF Init, Promise!Init
  <1>2. FallbackInv /\ (TypeInv /\ PromiseInv) /\ [Next]_vars
           => [Promise!Next]_(Promise!vars)
    BY PromiseStep
  <1> QED
    BY <1>1, <1>2, FallbackInvariant, PromiseInvariant, PTL
    DEF Spec, PromiseKept, Promise!Spec

(***************************************************************************)
(* Mail goes out only when it is due.                                       *)
(***************************************************************************)
MembersOnly == Playground => \A r \in Run : taken[r] \subseteq Member

\* Nothing but the call of the mail service adds to what it accepted, and a
\* playground's call for anyone but a member is simulated.
LEMMA MembersStep ==
    ASSUME TypeInv, MembersOnly, [Next]_vars PROVE MembersOnly'
  <1> USE DEF MembersOnly
  <1>1. CASE taken' = taken
    BY <1>1
  <1>2. ASSUME NEW r \in Run, Mail(r) PROVE MembersOnly'
    <2>1. \/ taken' = taken
          \/ taken' = [taken EXCEPT ![r] = @ \cup {at[r]}] /\ ~Simulated(at[r])
      BY <1>2 DEF Mail
    <2>2. \A q \in Run :
             taken'[q] \subseteq taken[q] \cup (IF Simulated(at[r]) THEN {} ELSE {at[r]})
      BY <2>1 DEF TypeInv, TypeOK
    <2>3. Playground => (Simulated(at[r]) <=> at[r] \notin Member)
      BY DEF Simulated
    <2>4. ASSUME Playground, NEW q \in Run PROVE taken'[q] \subseteq Member
      <3>1. taken[q] \subseteq Member
        BY <2>4
      <3> QED
        BY <2>2, <2>3, <2>4, <3>1
    <2> QED
      BY <2>4
  <1> QED
    BY <1>1, <1>2 DEF Next, RunStep, vars, PeppolSettled, RepeatedReport,
         DrainFinds, CallLost, ClaimGoesStale, NothingToClaim, Claim, Fail,
         Crash, MailReport, LoadPayload, RecordedDelivery, NoteAttempt, Record,
         ReadBack, Finish, FinishedByAnother, Audit, Release

(* However slow the runs are, the fallback mails only after the Peppol       *)
(* transmission failed, and in a playground only the team's own members      *)
(* (runEmailFallback's callers and sendDocumentEmails).                      *)
THEOREM MailsOnlyWhenDue == Spec => []MailedOnlyIfDue
  <1>1. Init => MembersOnly
    BY DEF Init, MembersOnly
  <1>2. TypeInv /\ PromiseInv /\ MembersOnly /\ [Next]_vars => MembersOnly'
    BY MembersStep
  <1>3. TypeInv /\ PromiseInv /\ MembersOnly => MailedOnlyIfDue
    <2> SUFFICES ASSUME TypeInv, PromiseInv, MembersOnly, NEW r \in Run,
                        taken[r] # {}
                 PROVE  peppol = "failed" /\ (Playground => taken[r] \subseteq Member)
      BY DEF MailedOnlyIfDue
    <2>1. PICK a \in Address : a \in taken[r]
      BY DEF TypeInv, TypeOK
    <2>2. pc[r] # "idle"
      BY <2>1 DEF PromiseInv, MailedBehind
    <2> QED
      BY <2>2 DEF PromiseInv, CausedByFailure, MembersOnly
  <1> QED
    BY <1>1, <1>2, <1>3, PromiseInvariant, PTL DEF Spec

(***************************************************************************)
(* What the close finds.  An address the live run has come to is noted in    *)
(* the request under the delivery the run handles it by; only a noted        *)
(* delivery has a row; and a row behind the run is as the run read it, or a  *)
(* report has moved it since and has told its owner.                         *)
(***************************************************************************)
Handled(r, a) == a < at[r] \/ (a = at[r] /\ pc[r] \in {"mail", "record", "readback"})

NotedWhenHandled(r) ==
    \A a \in Address : Handled(r, a) => attempts[a] = Sender(r, a)

KnownDelivery(r, s, a) ==
    /\ row[s][a] # "none"
    /\ \/ row[s][a] = got[r][a]
       \/ got[r][a] = "pending" /\ row[s][a] \in told[s][a]

KnowsBehind(r) ==
    \A a \in Address : a < at[r] => KnownDelivery(r, Sender(r, a), a)

RowNoted ==
    open => \A r \in Run, a \in Address : row[r][a] # "none" => attempts[a] = r

Closed == ~open => SettledWhenClosed /\ AcceptedIsBilled /\ OwnerIsTold

SettleInv ==
    /\ \A r \in Run : Working(r) => NotedWhenHandled(r) /\ KnowsBehind(r)
    /\ RowNoted /\ Closed

\* At first the request is open, and nothing is behind a run or recorded.
LEMMA SettleInit == Init => SettleInv
  BY DEF Init, SettleInv, RowNoted, Closed, Working

\* A run that was claimed before the first address knows nothing yet; one that
\* stops, or another than the only one at work, has nothing to know.
LEMMA SettleByWorker ==
    ASSUME MutexInv', RowNoted', Closed', NEW r \in Run, Working(r)',
           NotedWhenHandled(r)', KnowsBehind(r)'
    PROVE  SettleInv'
  <1>1. \A q \in Run : Working(q)' => q = r
    BY DEF MutexInv, OneLiveRun, Working, Live
  <1> QED
    BY <1>1 DEF SettleInv

LEMMA SettleByNone ==
    ASSUME RowNoted', Closed', \A q \in Run : ~Working(q)'
    PROVE  SettleInv'
  BY DEF SettleInv

\* An open request owes nothing to the rows.
LEMMA ClosedLater == ASSUME open' PROVE Closed'
  BY DEF Closed

\* Neither the rows nor what the close wrote changes.
LEMMA ClosedKept ==
    ASSUME Closed, UNCHANGED <<open, row, billed, told>>
    PROVE  Closed'
  BY DEF Closed, SettledWhenClosed, AcceptedIsBilled, OwnerIsTold

\* Only the end of the run, and a step of another actor, leave a run at its
\* address with what it has read.
LEMMA SettleUnmoved ==
    ASSUME SettleInv, UNCHANGED <<open, attempts, pc, seen, at, got, row, billed, told>>
    PROVE  SettleInv'
  <1>1. Closed'
    BY ClosedKept DEF SettleInv
  <1>2. RowNoted'
    BY DEF SettleInv, RowNoted
  <1>3. ASSUME NEW r \in Run, Working(r)'
        PROVE  NotedWhenHandled(r)' /\ KnowsBehind(r)'
    BY <1>3 DEF SettleInv, Working, NotedWhenHandled, Handled, KnowsBehind,
                KnownDelivery, Sender
  <1> QED
    BY <1>1, <1>2, <1>3 DEF SettleInv

\* Where a run has come to is one address on.
LEMMA HandledOn ==
    ASSUME TypeInv, NEW r \in Run, at[r] \in Address, at'[r] = at[r] + 1,
           NEW b \in Address, b < at'[r]
    PROVE  b = at[r] \/ b < at[r]
  BY DEF Address

\* The loop goes one address on, over one whose row it has read.
LEMMA SettleByRead ==
    ASSUME TypeInv, MutexInv', SettleInv, NEW r \in Run, Working(r),
           at[r] \in Address, attempts[at[r]] = Sender(r, at[r]),
           row[Sender(r, at[r])][at[r]] # "none",
           UNCHANGED <<open, attempts, seen, row, billed, told>>,
           pc'[r] = "address", at'[r] = at[r] + 1,
           got' = [got EXCEPT ![r][at[r]] = row[Sender(r, at[r])][at[r]]]
    PROVE  SettleInv'
  <1> DEFINE a == at[r]
             s == Sender(r, a)
  <1>1. RowNoted' /\ Closed'
    BY ClosedKept DEF SettleInv, RowNoted
  <1>2. /\ got'[r][a] = row[s][a]
        /\ \A b \in Address : b # a => got'[r][b] = got[r][b]
    BY DEF TypeInv, TypeOK
  <1>3. \A b \in Address : Sender(r, b)' = Sender(r, b)
    BY DEF Sender
  <1>4. \A b \in Address : b < at'[r] => b = a \/ b < a
    BY HandledOn
  <1>5. NotedWhenHandled(r) /\ KnowsBehind(r)
    BY DEF SettleInv
  <1>6. NotedWhenHandled(r)'
    <2> SUFFICES ASSUME NEW b \in Address, Handled(r, b)'
                 PROVE  attempts'[b] = Sender(r, b)'
      BY DEF NotedWhenHandled
    <2>1. b = a \/ b < a
      BY <1>4 DEF Handled
    <2> QED
      BY <1>3, <1>5, <2>1 DEF NotedWhenHandled, Handled
  <1>7. KnowsBehind(r)'
    <2> SUFFICES ASSUME NEW b \in Address, b < at'[r]
                 PROVE  KnownDelivery(r, Sender(r, b), b)'
      BY DEF KnowsBehind
    <2>1. CASE b = a
      BY <1>2, <1>3, <2>1 DEF KnownDelivery
    <2>2. CASE b # a /\ b < a
      <3>1. KnownDelivery(r, Sender(r, b), b)
        BY <1>5, <2>2 DEF KnowsBehind
      <3> QED
        BY <1>2, <1>3, <2>2, <3>1 DEF KnownDelivery
    <2> QED
      BY <1>4, <2>1, <2>2
  <1>8. Working(r)'
    BY DEF Working
  <1> QED
    BY <1>1, <1>6, <1>7, <1>8, SettleByWorker

\* The close finds every address with one delivery, bills those that went out and
\* tells the owner what the run read.
LEMMA SettleByFinish ==
    ASSUME TypeInv, MutexInv, MutexInv', AnswerInv, BilledByClose, SettleInv,
           NEW r \in Run, Finish(r)
    PROVE  SettleInv'
  <1>1. open /\ ~open' /\ pc[r] = "address" /\ at[r] = N + 1 /\ row' = row
    BY DEF Finish
  <1>2. \A q \in Run : ~Working(q)'
    <2>1. \A q \in Run : q # r => ~Working(q)
      BY <1>1, OnlyWorker DEF Working
    <2> QED
      BY <2>1 DEF Finish, Working, TypeInv, TypeOK
  <1>3. ASSUME NEW a \in Address
        PROVE  /\ Sender(r, a) \in Run /\ attempts[a] = Sender(r, a)
               /\ KnownDelivery(r, Sender(r, a), a)
    <2>1. Working(r) /\ a < at[r]
      BY <1>1, ConstantsAssumption DEF Working, Address
    <2> QED
      BY <2>1 DEF SettleInv, NotedWhenHandled, KnowsBehind, Handled, Sender,
                  TypeInv, TypeOK
  <1>4. \A q \in Run, a \in Address : row[q][a] # "none" => q = Sender(r, a)
    BY <1>1, <1>3 DEF SettleInv, RowNoted
  <1>5. SettledWhenClosed'
    BY <1>1, <1>3, <1>4 DEF SettledWhenClosed, KnownDelivery
  <1>6. AcceptedIsBilled'
    <2> SUFFICES ASSUME ~Playground, NEW q \in Run, NEW a \in Address,
                        row[q][a] \in {"pending", "delivered"}
                 PROVE  billed'[a] = 1
      BY <1>1 DEF AcceptedIsBilled
    <2>1. q = Sender(r, a) /\ KnownDelivery(r, q, a)
      BY <1>3, <1>4
    <2>2. a \in Transfers(r)
      BY <2>1 DEF KnownDelivery, Transfers, Sent, Failed
    <2>3. billed[a] = 0
      BY <1>1 DEF BilledByClose
    <2> QED
      BY <2>2, <2>3 DEF Finish, Increment
  <1>7. OwnerIsTold'
    <2> SUFFICES ASSUME NEW q \in Run, NEW a \in Address, row[q][a] # "none"
                 PROVE  row[q][a] \in told'[q][a]
      BY <1>1 DEF OwnerIsTold
    <2>1. q = Sender(r, a) /\ KnownDelivery(r, q, a)
      BY <1>3, <1>4
    <2>2. told'[q][a] = told[q][a] \cup {got[r][a]}
      BY <2>1 DEF Finish, Announced
    <2> QED
      BY <2>1, <2>2 DEF KnownDelivery
  <1> QED
    BY <1>1, <1>2, <1>5, <1>6, <1>7, SettleByNone DEF RowNoted, Closed

\* A report moves a delivery that is still pending, and tells its owner.
LEMMA SettleByReport ==
    ASSUME TypeInv, SettleInv, NEW q \in Run, NEW a \in Address,
           NEW status \in {"delivered", "bounced"}, MailReport(q, a, status)
    PROVE  SettleInv'
  <1>1. /\ row[q][a] = "pending" /\ row'[q][a] = status /\ status # "none"
        /\ \A p \in Run, b \in Address : <<p, b>> # <<q, a>> => row'[p][b] = row[p][b]
    BY DEF MailReport, TypeInv, TypeOK
  <1>2. /\ told'[q][a] = told[q][a] \cup {status}
        /\ \A p \in Run, b \in Address : <<p, b>> # <<q, a>> => told'[p][b] = told[p][b]
    BY DEF MailReport, TypeInv, TypeOK
  <1>3. UNCHANGED <<open, attempts, pc, seen, at, got, billed>>
    BY DEF MailReport, request, locals, closing
  <1>4. RowNoted'
    BY <1>1, <1>3 DEF SettleInv, RowNoted
  <1>5. ASSUME NEW r \in Run, Working(r)'
        PROVE  NotedWhenHandled(r)' /\ KnowsBehind(r)'
    <2>1. NotedWhenHandled(r) /\ KnowsBehind(r)
      BY <1>3, <1>5 DEF SettleInv, Working
    <2>2. \A b \in Address : Sender(r, b)' = Sender(r, b) /\ Sender(r, b) \in Run
      BY <1>3 DEF Sender, TypeInv, TypeOK
    <2>3. ASSUME NEW b \in Address, b < at'[r]
          PROVE  KnownDelivery(r, Sender(r, b), b)'
      <3> DEFINE s == Sender(r, b)
      <3>1. KnownDelivery(r, s, b)
        BY <1>3, <2>1, <2>3 DEF KnowsBehind
      <3>2. CASE <<s, b>> = <<q, a>>
        BY <1>1, <1>2, <1>3, <2>2, <3>1, <3>2 DEF KnownDelivery
      <3>3. CASE <<s, b>> # <<q, a>>
        BY <1>1, <1>2, <1>3, <2>2, <3>1, <3>3 DEF KnownDelivery
      <3> QED
        BY <3>2, <3>3
    <2> QED
      BY <1>3, <2>1, <2>2, <2>3 DEF NotedWhenHandled, Handled, KnowsBehind
  <1>6. Closed'
    <2> SUFFICES ASSUME ~open, SettledWhenClosed, AcceptedIsBilled, OwnerIsTold
                 PROVE  SettledWhenClosed' /\ AcceptedIsBilled' /\ OwnerIsTold'
      BY <1>3 DEF SettleInv, Closed
    <2>1. \A p \in Run, b \in Address : row'[p][b] # "none" <=> row[p][b] # "none"
      BY <1>1
    <2>2. SettledWhenClosed'
      BY <2>1 DEF SettledWhenClosed
    <2>3. AcceptedIsBilled'
      BY <1>1, <1>3 DEF AcceptedIsBilled
    <2>4. OwnerIsTold'
      BY <1>1, <1>2 DEF OwnerIsTold
    <2> QED
      BY <2>2, <2>3, <2>4
  <1> QED
    BY <1>4, <1>5, <1>6 DEF SettleInv

\* The lone worker moves on at its address, whose attempt is noted by then; what
\* it has read, and the rows, stay.
LEMMA SettleByMove ==
    ASSUME TypeInv, MutexInv', SettleInv, NEW r \in Run, Working(r), Working(r)',
           UNCHANGED <<open, attempts, seen, at, got, row, billed, told>>,
           Handled(r, at[r])' => attempts[at[r]] = Sender(r, at[r])
    PROVE  SettleInv'
  <1>1. RowNoted' /\ Closed'
    BY ClosedKept DEF SettleInv, RowNoted
  <1>2. NotedWhenHandled(r) /\ KnowsBehind(r)
    BY DEF SettleInv
  <1>3. \A b \in Address : Sender(r, b)' = Sender(r, b)
    BY DEF Sender
  <1>4. NotedWhenHandled(r)'
    BY <1>2, <1>3 DEF NotedWhenHandled, Handled
  <1>5. KnowsBehind(r)'
    BY <1>2, <1>3 DEF KnowsBehind, KnownDelivery
  <1> QED
    BY <1>1, <1>4, <1>5, SettleByWorker

\* A run stops, or its claim is handed back, with nothing else changed.
LEMMA SettleByStop ==
    ASSUME TypeInv, SettleInv, NEW r \in Run, ~Working(r)',
           \A q \in Run : q # r => pc'[q] = pc[q],
           UNCHANGED <<open, attempts, seen, at, got, row, billed, told>>
    PROVE  SettleInv'
  <1>1. RowNoted' /\ Closed'
    BY ClosedKept DEF SettleInv, RowNoted
  <1>2. ASSUME NEW q \in Run, Working(q)'
        PROVE  NotedWhenHandled(q)' /\ KnowsBehind(q)'
    <2>1. q # r /\ pc'[q] = pc[q] /\ Working(q)
      BY <1>2 DEF Working
    <2>2. NotedWhenHandled(q) /\ KnowsBehind(q)
      BY <2>1 DEF SettleInv
    <2> QED
      BY <2>1, <2>2 DEF NotedWhenHandled, Handled, KnowsBehind, KnownDelivery, Sender
  <1> QED
    BY <1>1, <1>2 DEF SettleInv

\* The request, the rows and what the runs have read agree at every step, so that
\* the close finds what it needs.
LEMMA SettleStep ==
    ASSUME FallbackInv, FallbackInv', PromiseInv, SettleInv, [Next]_vars
    PROVE  SettleInv'
  <1> USE DEF FallbackInv, PromiseInv
  <1>1. ASSUME NEW r \in Run, Claim(r) PROVE SettleInv'
    <2>1. /\ UNCHANGED <<open, attempts, at, got, row, billed, told>> /\ open
          /\ pc[r] = "idle" /\ pc'[r] = "load"
      BY <1>1 DEF Claim, Claimable, closing, TypeInv, TypeOK
    <2>2. at'[r] = 1
      BY <2>1 DEF AnswerInv, StartsAtFirst
    <2>3. \A a \in Address : ~(a < at'[r]) /\ ~Handled(r, a)'
      BY <2>1, <2>2 DEF Handled, Address
    <2>4. NotedWhenHandled(r)' /\ KnowsBehind(r)'
      BY <2>3 DEF NotedWhenHandled, KnowsBehind
    <2>5. RowNoted' /\ Closed'
      BY <2>1, ClosedLater DEF SettleInv, RowNoted
    <2> QED
      BY <2>1, <2>4, <2>5, SettleByWorker DEF Working
  <1>2. ASSUME NEW r \in Run, LoadPayload(r) PROVE SettleInv'
    <2>1. /\ UNCHANGED <<open, attempts, seen, at, got, row, billed, told>>
          /\ pc[r] = "load" /\ pc'[r] = "address"
      BY <1>2 DEF LoadPayload, request, closing, TypeInv, TypeOK
    <2>2. ~Handled(r, at[r])'
      BY <2>1 DEF Handled, TypeInv, TypeOK
    <2> QED
      BY <2>1, <2>2, SettleByMove DEF Working
  <1>3. ASSUME NEW r \in Run, RecordedDelivery(r) PROVE SettleInv'
    <2> DEFINE a == at[r]
               s == Sender(r, a)
    <2>1. /\ a \in Address /\ seen[r][a] # NoRun /\ pc[r] = "address"
          /\ UNCHANGED <<open, attempts, seen, row, billed, told>>
      BY <1>3 DEF RecordedDelivery, request, closing
    <2>2. attempts[a] = s
      BY <2>1 DEF MailInv, SnapshotHolds, Working, Ahead, Sender
    <2>3. CASE /\ row[s][a] # "none" /\ UNCHANGED pc
               /\ got' = [got EXCEPT ![r][a] = row[s][a]]
               /\ at' = [at EXCEPT ![r] = a + 1]
      <3>1. pc'[r] = "address" /\ at'[r] = a + 1 /\ Working(r)
        BY <2>1, <2>3 DEF TypeInv, TypeOK, Working
      <3> QED
        BY <2>1, <2>2, <2>3, <3>1, SettleByRead
    <2>4. CASE pc' = [pc EXCEPT ![r] = "record"] /\ UNCHANGED <<got, at>>
      <3>1. Working(r) /\ Working(r)'
        BY <2>1, <2>4 DEF TypeInv, TypeOK, Working
      <3> QED
        BY <2>1, <2>2, <2>4, <3>1, SettleByMove
    <2> QED
      BY <1>3, <2>3, <2>4 DEF RecordedDelivery
  <1>4. ASSUME NEW r \in Run, NoteAttempt(r) PROVE SettleInv'
    <2> DEFINE a == at[r]
    <2>1. /\ a \in Address /\ seen[r][a] = NoRun /\ pc[r] = "address"
          /\ pc'[r] = "mail" /\ Working(r) /\ Working(r)'
          /\ UNCHANGED <<open, seen, at, got, row, billed, told>>
      BY <1>4 DEF NoteAttempt, closing, TypeInv, TypeOK, Working
    <2>2. open /\ attempts[a] = NoRun
      BY <2>1 DEF MutexInv, OpenWhileWork, MailInv, SnapshotHolds, Ahead
    <2>3. /\ attempts'[a] = r
          /\ \A b \in Address : b # a => attempts'[b] = attempts[b]
      BY <1>4, <2>1, <2>2 DEF NoteAttempt, TypeInv, TypeOK
    <2>4. RowNoted' /\ Closed'
      <3>1. \A q \in Run : row[q][a] = "none"
        BY <2>1, <2>2, ConstantsAssumption DEF SettleInv, RowNoted
      <3>2. RowNoted'
        BY <2>1, <2>2, <2>3, <3>1 DEF SettleInv, RowNoted
      <3> QED
        BY <2>1, <2>2, <3>2, ClosedLater
    <2>5. NotedWhenHandled(r) /\ KnowsBehind(r)
      BY <2>1 DEF SettleInv
    <2>6. Sender(r, a)' = r /\ \A b \in Address : Sender(r, b)' = Sender(r, b)
      BY <2>1 DEF Sender
    <2>7. NotedWhenHandled(r)'
      BY <2>1, <2>3, <2>5, <2>6 DEF NotedWhenHandled, Handled, TypeInv, TypeOK, Address
    <2>8. KnowsBehind(r)'
      BY <2>1, <2>5, <2>6 DEF KnowsBehind, KnownDelivery
    <2> QED
      BY <2>1, <2>4, <2>7, <2>8, SettleByWorker
  <1>5. ASSUME NEW r \in Run, Mail(r) PROVE SettleInv'
    <2>1. /\ UNCHANGED <<open, attempts, seen, at, got, row, billed, told>>
          /\ pc[r] = "mail" /\ pc'[r] = "record" /\ at[r] \in Address
      BY <1>5 DEF Mail, request, closing, TypeInv, TypeOK, Positioned
    <2>2. attempts[at[r]] = Sender(r, at[r])
      BY <2>1 DEF SettleInv, NotedWhenHandled, Handled, Working
    <2> QED
      BY <2>1, <2>2, SettleByMove DEF Working
  <1>6. ASSUME NEW r \in Run, Record(r) PROVE SettleInv'
    <2> DEFINE a == at[r]
               s == Sender(r, a)
    <2>1. /\ UNCHANGED <<open, attempts, seen, at, got, billed, told>>
          /\ pc[r] = "record" /\ pc'[r] = "readback" /\ a \in Address /\ s \in Run
      BY <1>6 DEF Record, request, closing, TypeInv, TypeOK, Positioned, Sender
    <2>2. open /\ Working(r) /\ Working(r)'
      BY <2>1 DEF MutexInv, OpenWhileWork, Working
    <2>3. NotedWhenHandled(r) /\ KnowsBehind(r) /\ attempts[a] = s
      BY <2>1, <2>2 DEF SettleInv, NotedWhenHandled, Handled
    <2>4. \A q \in Run, b \in Address : <<q, b>> # <<s, a>> => row'[q][b] = row[q][b]
      BY <1>6, <2>1 DEF Record, TypeInv, TypeOK
    <2>5. RowNoted' /\ Closed'
      BY <2>1, <2>2, <2>3, <2>4, ClosedLater DEF SettleInv, RowNoted
    <2>6. \A b \in Address : Sender(r, b)' = Sender(r, b) /\ Sender(r, b) \in Run
      BY <2>1 DEF Sender, TypeInv, TypeOK
    <2>7. NotedWhenHandled(r)'
      BY <2>1, <2>3, <2>6 DEF NotedWhenHandled, Handled
    <2>8. KnowsBehind(r)'
      <3> SUFFICES ASSUME NEW b \in Address, b < at[r]
                   PROVE  KnownDelivery(r, Sender(r, b), b)'
        BY <2>1, <2>6 DEF KnowsBehind
      <3>1. b # a
        BY <2>1 DEF Address
      <3>2. row'[Sender(r, b)][b] = row[Sender(r, b)][b]
        BY <2>4, <2>6, <3>1
      <3> QED
        BY <2>1, <2>3, <2>6, <3>2 DEF KnowsBehind, KnownDelivery
    <2> QED
      BY <2>2, <2>5, <2>7, <2>8, SettleByWorker
  <1>7. ASSUME NEW r \in Run, ReadBack(r) PROVE SettleInv'
    <2>1. /\ UNCHANGED <<open, attempts, seen, row, billed, told>>
          /\ pc[r] = "readback" /\ pc'[r] = "address" /\ at[r] \in Address
          /\ at'[r] = at[r] + 1 /\ Working(r)
          /\ got' = [got EXCEPT ![r][at[r]] = row[Sender(r, at[r])][at[r]]]
      BY <1>7 DEF ReadBack, request, closing, TypeInv, TypeOK, Positioned, Working
    <2>2. attempts[at[r]] = Sender(r, at[r])
      BY <2>1 DEF SettleInv, NotedWhenHandled, Handled
    <2>3. row[Sender(r, at[r])][at[r]] # "none"
      BY <2>1 DEF AnswerInv, RowWritten
    <2> QED
      BY <2>1, <2>2, <2>3, SettleByRead
  <1>8. ASSUME NEW r \in Run, Finish(r) PROVE SettleInv'
    BY <1>8, SettleByFinish
  <1>9. ASSUME NEW r \in Run,
               FinishedByAnother(r) \/ Audit(r) \/ Release(r) \/ Fail(r) \/ Crash(r)
        PROVE  SettleInv'
    <2>1. /\ UNCHANGED <<open, attempts, seen, at, got, row, billed, told>>
          /\ pc'[r] \in {"stopped", "release"}
          /\ \A q \in Run : q # r => pc'[q] = pc[q]
      BY <1>9 DEF FinishedByAnother, Audit, Release, Fail, Crash, request, closing,
                  TypeInv, TypeOK
    <2> QED
      BY <2>1, SettleByStop DEF Working
  <1>10. ASSUME NEW r \in Run, NEW a \in Address,
                NEW status \in {"delivered", "bounced"}, MailReport(r, a, status)
         PROVE  SettleInv'
    BY <1>10, SettleByReport
  <1>11. ASSUME NEW status, PeppolSettled(status) PROVE SettleInv'
    BY <1>11, SettleUnmoved DEF PeppolSettled, request, locals, closing
  <1>12. CASE RepeatedReport \/ DrainFinds \/ CallLost \/ ClaimGoesStale
                \/ NothingToClaim \/ UNCHANGED vars
    BY <1>12, SettleUnmoved DEF RepeatedReport, DrainFinds, CallLost,
       ClaimGoesStale, NothingToClaim, vars, request, locals, closing
  <1> QED
    BY <1>1, <1>2, <1>3, <1>4, <1>5, <1>6, <1>7, <1>8, <1>9, <1>10, <1>11, <1>12
    DEF Next, RunStep

\* What the close finds holds in every reachable state.
LEMMA SettleInvariant ==
    ASSUME ~SlowRuns PROVE Spec => []SettleInv
  <1>1. FallbackInv /\ FallbackInv' /\ (TypeInv /\ PromiseInv) /\ SettleInv
           /\ [Next]_vars => SettleInv'
    BY SettleStep
  <1> QED
    BY <1>1, SettleInit, FallbackInvariant, PromiseInvariant, PTL DEF Spec

(* A run that stopped halfway leaves no address out and none twice: once the *)
(* request is closed every address has exactly one delivery.                 *)
THEOREM ClosedMeansSettled ==
    ASSUME ~SlowRuns PROVE Spec => []SettledWhenClosed
  <1>1. SettleInv => SettledWhenClosed
    BY DEF SettleInv, Closed, SettledWhenClosed
  <1> QED
    BY <1>1, SettleInvariant, PTL

(* A delivery the mail service took, by whichever run, is billed by the      *)
(* close, however late it is recorded or reported on; only a bounce that was *)
(* known by then is not.                                                     *)
THEOREM AcceptedMailIsBilled ==
    ASSUME ~SlowRuns PROVE Spec => []AcceptedIsBilled
  <1>1. SettleInv => AcceptedIsBilled
    BY DEF SettleInv, Closed, AcceptedIsBilled
  <1> QED
    BY <1>1, SettleInvariant, PTL

(* After the close, the document's owner has been told of every delivery the *)
(* status it is in, whether the close or a report came first.                *)
THEOREM OwnerHasBeenTold ==
    ASSUME ~SlowRuns PROVE Spec => []OwnerIsTold
  <1>1. SettleInv => OwnerIsTold
    BY DEF SettleInv, Closed, OwnerIsTold
  <1> QED
    BY <1>1, SettleInvariant, PTL
============================================================================
