------------------------ MODULE EmailFallbackProofs ------------------------
(***************************************************************************)
(* Proofs about EmailFallback, for any number of addresses, runs and faults.*)
(***************************************************************************)
EXTENDS EmailFallback, TLAPS

(* What the sums over addresses need. *)
LEMMA IncrementType ==
    ASSUME NEW count \in [Address -> Nat], NEW S
    PROVE  Increment(count, S) \in [Address -> Nat]
  BY DEF Increment

(***************************************************************************)
(* Type correctness.  The loop variable alone does not tell that a run which *)
(* is mailing or recording still has an address; its position does.          *)
(***************************************************************************)
Positioned ==
    \A r \in Run : pc[r] \in {"mail", "record", "readback"} => at[r] \in Address

TypeInv == TypeOK /\ Positioned

\* No run is under way at first.
LEMMA TypeInit == Init => TypeInv
  <1> SUFFICES ASSUME Init PROVE TypeInv
    OBVIOUS
  <1>1. 1 \in 1..(N + 1) /\ 0 \in 0..MaxFault
    BY ConstantsAssumption
  <1>2. at \in [Run -> 1..(N + 1)] /\ faults \in 0..MaxFault
    BY <1>1 DEF Init
  <1>3. /\ recipients \in [Address -> Nat] /\ billed \in [Address -> Nat]
        /\ taken \in [Run -> SUBSET Address]
        /\ told \in [Run -> [Address -> SUBSET (Status \cup {"none"})]]
    BY DEF Init
  <1>4. /\ got \in [Run -> [Address -> Status \cup {"none"}]]
        /\ row \in [Run -> [Address -> Status \cup {"none"}]]
        /\ draft \in [Run -> Status \cup {"none"}]
    BY DEF Init
  <1>5. /\ seen \in [Run -> [Address -> Run \cup {NoRun}]]
        /\ attempts \in [Address -> Run \cup {NoRun}]
        /\ holder \in Run \cup {NoRun}
    BY DEF Init
  <1> QED
    BY <1>2, <1>3, <1>4, <1>5 DEF Init, TypeInv, TypeOK, Positioned

\* A run is where its recorded steps say.
LEMMA PositionStep == TypeInv /\ [Next]_vars => Positioned'
  <1> SUFFICES ASSUME TypeInv, [Next]_vars, NEW q \in Run,
                      pc'[q] \in {"mail", "record", "readback"}
               PROVE  at'[q] \in Address
    BY DEF Positioned, Address
  <1> USE DEF TypeInv, TypeOK, Positioned
  <1>1. CASE UNCHANGED <<pc, at>>
    BY <1>1
  <1>2. ASSUME NEW r \in Run, RecordedDelivery(r) PROVE at'[q] \in Address
    BY <1>2 DEF RecordedDelivery
  <1>3. ASSUME NEW r \in Run, NoteAttempt(r) PROVE at'[q] \in Address
    BY <1>3 DEF NoteAttempt
  <1>4. ASSUME NEW r \in Run, ReadBack(r) PROVE at'[q] \in Address
    BY <1>4 DEF ReadBack
  <1>5. ASSUME NEW r \in Run, Mail(r) \/ Record(r) PROVE at'[q] \in Address
    BY <1>5 DEF Mail, Record
  <1>6. ASSUME NEW r \in Run,
               \/ Claim(r) \/ LoadPayload(r) \/ Finish(r) \/ FinishedByAnother(r)
               \/ Audit(r) \/ Release(r) \/ Fail(r) \/ Crash(r)
        PROVE  at'[q] \in Address
    BY <1>6 DEF Claim, LoadPayload, Finish, FinishedByAnother, Audit, Release,
                Fail, Crash
  <1>7. ASSUME NEW status, PeppolSettled(status) PROVE at'[q] \in Address
    BY <1>1, <1>7 DEF PeppolSettled, locals
  <1>8. ASSUME NEW r, NEW a, NEW status, MailReport(r, a, status)
        PROVE  at'[q] \in Address
    BY <1>1, <1>8 DEF MailReport, locals
  <1>9. CASE RepeatedReport \/ DrainFinds \/ CallLost \/ ClaimGoesStale
               \/ NothingToClaim \/ UNCHANGED vars
    BY <1>1, <1>9 DEF RepeatedReport, DrainFinds, CallLost, ClaimGoesStale,
                      NothingToClaim, vars, locals
  <1> QED
    BY <1>2, <1>3, <1>4, <1>5, <1>6, <1>7, <1>8, <1>9 DEF Next, RunStep

\* Every step keeps the types.
LEMMA TypeStep == TypeInv /\ [Next]_vars => TypeOK'
  <1> SUFFICES ASSUME TypeInv, [Next]_vars PROVE TypeOK'
    OBVIOUS
  <1> USE ConstantsAssumption DEF TypeInv, TypeOK, request, locals, closing
  <1>1. ASSUME NEW status \in {"delivered", "failed"}, PeppolSettled(status)
        PROVE  TypeOK'
    BY <1>1 DEF PeppolSettled
  <1>2. CASE RepeatedReport
    BY <1>2 DEF RepeatedReport
  <1>3. CASE DrainFinds
    BY <1>3 DEF DrainFinds
  <1>4. CASE CallLost
    <2>1. faults' \in 0..MaxFault
      BY <1>4 DEF CallLost
    <2> QED
      BY <1>4, <2>1 DEF CallLost
  <1>5. CASE ClaimGoesStale
    BY <1>5 DEF ClaimGoesStale
  <1>6. CASE NothingToClaim
    BY <1>6 DEF NothingToClaim
  <1>7. ASSUME NEW r \in Run, Claim(r) PROVE TypeOK'
    BY <1>7 DEF Claim
  <1>8. ASSUME NEW r \in Run, LoadPayload(r) PROVE TypeOK'
    BY <1>8 DEF LoadPayload
  <1>9. ASSUME NEW r \in Run, RecordedDelivery(r) PROVE TypeOK'
    <2> DEFINE a == at[r]
               s == Sender(r, a)
    <2>0. a \in Address /\ seen[r][a] # NoRun
      BY <1>9 DEF RecordedDelivery
    <2>1. s \in Run /\ a \in Address /\ a + 1 \in 1..(N + 1)
      BY <2>0 DEF Sender, Address
    <2>2. row[s][a] \in Status \cup {"none"} /\ "failed" \in Status
      BY <2>1 DEF Status, Failed
    <2>3. /\ got' \in [Run -> [Address -> Status \cup {"none"}]]
          /\ draft' \in [Run -> Status \cup {"none"}]
      <3>1. CASE got' = [got EXCEPT ![r][a] = row[s][a]] /\ UNCHANGED draft
        BY <2>1, <2>2, <3>1
      <3>2. CASE draft' = [draft EXCEPT ![r] = "failed"] /\ UNCHANGED got
        BY <2>2, <3>2
      <3> QED
        BY <1>9, <3>1, <3>2 DEF RecordedDelivery
    <2>4. at' \in [Run -> 1..(N + 1)]
      BY <1>9, <2>1 DEF RecordedDelivery
    <2>5. pc' \in [Run -> {"idle", "load", "address", "mail", "record",
                          "readback", "audit", "release", "stopped"}]
      BY <1>9 DEF RecordedDelivery
    <2> QED
      BY <1>9, <2>3, <2>4, <2>5 DEF RecordedDelivery
  <1>10. ASSUME NEW r \in Run, NoteAttempt(r) PROVE TypeOK'
    BY <1>10 DEF NoteAttempt
  <1>11. ASSUME NEW r \in Run, Mail(r) PROVE TypeOK'
    <2>1. faults' \in 0..MaxFault
      BY <1>11 DEF Mail
    <2>2. {"delivered", "pending", "failed"} \subseteq Status
      BY DEF Status, Failed
    <2>3. draft' \in [Run -> Status \cup {"none"}]
      BY <1>11, <2>2 DEF Mail
    <2>4. taken' \in [Run -> SUBSET Address]
      <3>1. at[r] \in Address
        BY <1>11 DEF Mail, Positioned
      <3>2. [taken EXCEPT ![r] = @ \cup {at[r]}] \in [Run -> SUBSET Address]
        BY <3>1
      <3> QED
        BY <1>11, <3>2 DEF Mail
    <2> QED
      BY <1>11, <2>1, <2>3, <2>4 DEF Mail
  <1>12. ASSUME NEW r \in Run, Record(r) PROVE TypeOK'
    <2> DEFINE a == at[r]
               s == Sender(r, a)
    <2>1. a \in Address
      BY <1>12 DEF Record, Positioned
    <2>2. s \in Run
      BY <2>1 DEF Sender
    <2>3. row' \in [Run -> [Address -> Status \cup {"none"}]]
      BY <1>12, <2>1, <2>2 DEF Record
    <2>4. pc' \in [Run -> {"idle", "load", "address", "mail", "record",
                          "readback", "audit", "release", "stopped"}]
      BY <1>12 DEF Record
    <2> QED
      BY <1>12, <2>3, <2>4 DEF Record
  <1>13. ASSUME NEW r \in Run, ReadBack(r) PROVE TypeOK'
    <2> DEFINE a == at[r]
               s == Sender(r, a)
    <2>1. a \in Address /\ a + 1 \in 1..(N + 1)
      BY <1>13 DEF ReadBack, Positioned, Address
    <2>2. s \in Run
      BY <2>1 DEF Sender
    <2>3. got' \in [Run -> [Address -> Status \cup {"none"}]]
      BY <1>13, <2>1, <2>2 DEF ReadBack
    <2>4. at' \in [Run -> 1..(N + 1)]
      BY <1>13, <2>1 DEF ReadBack
    <2>5. pc' \in [Run -> {"idle", "load", "address", "mail", "record",
                          "readback", "audit", "release", "stopped"}]
      BY <1>13 DEF ReadBack
    <2> QED
      BY <1>13, <2>3, <2>4, <2>5 DEF ReadBack
  <1>14. ASSUME NEW r \in Run, Finish(r) PROVE TypeOK'
    <2>1. /\ recipients' \in [Address -> Nat]
          /\ billed' \in [Address -> Nat]
      BY <1>14, IncrementType DEF Finish
    <2>2. told' \in [Run -> [Address -> SUBSET (Status \cup {"none"})]]
      BY <1>14 DEF Finish, Announced
    <2>3. pc' \in [Run -> {"idle", "load", "address", "mail", "record",
                          "readback", "audit", "release", "stopped"}]
      BY <1>14 DEF Finish
    <2>4. /\ attempts' \in [Address -> Run \cup {NoRun}]
          /\ holder' \in Run \cup {NoRun}
          /\ open' \in BOOLEAN /\ stale' \in BOOLEAN
      BY <1>14 DEF Finish
    <2> QED
      BY <1>14, <2>1, <2>2, <2>3, <2>4 DEF Finish
  <1>15. ASSUME NEW r \in Run, FinishedByAnother(r) PROVE TypeOK'
    BY <1>15 DEF FinishedByAnother
  <1>16. ASSUME NEW r \in Run, Audit(r) PROVE TypeOK'
    BY <1>16 DEF Audit
  <1>17. ASSUME NEW r \in Run, Release(r) PROVE TypeOK'
    BY <1>17 DEF Release
  <1>18. ASSUME NEW r \in Run, Fail(r) PROVE TypeOK'
    BY <1>18 DEF Fail
  <1>19. ASSUME NEW r \in Run, Crash(r) PROVE TypeOK'
    BY <1>19 DEF Crash
  <1>20. ASSUME NEW r \in Run, NEW a \in Address,
                NEW status \in {"delivered", "bounced"}, MailReport(r, a, status)
         PROVE  TypeOK'
    BY <1>20 DEF MailReport, Status, Failed
  <1>21. CASE UNCHANGED vars
    BY <1>21 DEF vars
  <1> QED
    BY <1>1, <1>2, <1>3, <1>4, <1>5, <1>6, <1>7, <1>8, <1>9, <1>10, <1>11,
       <1>12, <1>13, <1>14, <1>15, <1>16, <1>17, <1>18, <1>19, <1>20, <1>21,
       SMTT(30)
    DEF Next, RunStep

\* The rows of the fallback and the runs keep their types through every step and fault.
THEOREM TypeCorrect == Spec => []TypeOK
  <1>1. TypeInv /\ [Next]_vars => TypeInv'
    BY TypeStep, PositionStep DEF TypeInv
  <1>2. TypeInv => TypeOK
    BY DEF TypeInv
  <1> QED
    BY TypeInit, <1>1, <1>2, PTL DEF Spec

(***************************************************************************)
(* One run at a time.  The request names the live run for as long as it is  *)
(* open; a claim is stale only once its run has stopped, which is what      *)
(* ~SlowRuns assumes; and a run that works still finds the request open.    *)
(***************************************************************************)
Working(r) == pc[r] \in {"load", "address", "mail", "record", "readback"}

HeldByLive    == open => \A r \in Run : Live(r) => holder = r
StaleIsDead   == stale => holder \in Run /\ ~Live(holder)
OpenWhileWork == \A r \in Run : Working(r) => open

MutexInv == OneLiveRun /\ HeldByLive /\ StaleIsDead /\ OpenWhileWork

\* At first no run holds the claim.
LEMMA MutexInit == Init => MutexInv
  BY DEF Init, MutexInv, OneLiveRun, HeldByLive, StaleIsDead, OpenWhileWork,
         Live, Working

(* A live run that moves on, or stops, without touching the request.        *)
Moves(r) ==
    /\ Live(r)
    /\ \E next : /\ pc' = [pc EXCEPT ![r] = next]
                 /\ next \in {"load", "address", "mail", "record", "readback"}
                      => Working(r)
    /\ UNCHANGED <<open, holder, stale>>

\* A run moves only itself.
LEMMA RunMoves ==
    ASSUME TypeOK, NEW r \in Run,
           \/ LoadPayload(r) \/ RecordedDelivery(r) \/ NoteAttempt(r) \/ Mail(r)
           \/ Record(r) \/ ReadBack(r) \/ FinishedByAnother(r) \/ Audit(r)
           \/ Fail(r) \/ Crash(r)
    PROVE  Moves(r)
  <1>1. ASSUME NEW next, pc[r] = next, pc' = pc PROVE pc' = [pc EXCEPT ![r] = next]
    BY <1>1 DEF TypeOK
  <1>2. CASE RecordedDelivery(r)
    <2>1. /\ pc[r] = "address" /\ UNCHANGED <<open, holder, stale>>
          /\ pc' = [pc EXCEPT ![r] = "record"] \/ pc' = pc
      BY <1>2 DEF RecordedDelivery, request
    <2> QED
      BY <1>1, <2>1 DEF Moves, Live, Working
  <1>3. CASE LoadPayload(r) \/ NoteAttempt(r) \/ Mail(r)
    BY <1>3 DEF LoadPayload, NoteAttempt, Mail, Moves, Live, Working, request
  <1>4. CASE Record(r) \/ ReadBack(r) \/ FinishedByAnother(r) \/ Audit(r)
    BY <1>4 DEF Record, ReadBack, FinishedByAnother, Audit, Moves, Live, Working,
                request
  <1>5. CASE Fail(r) \/ Crash(r)
    BY <1>5 DEF Fail, Crash, Moves, Live, Working, request
  <1> QED
    BY <1>2, <1>3, <1>4, <1>5

\* The claim of the row keeps a second run out.
LEMMA MutexStep ==
    ASSUME ~SlowRuns, TypeOK, MutexInv, [Next]_vars
    PROVE  MutexInv'
  <1> USE DEF MutexInv, OneLiveRun, HeldByLive, StaleIsDead, OpenWhileWork
  <1>1. CASE UNCHANGED <<pc, open, holder, stale>>
    BY <1>1 DEF Live, Working
  <1>2. ASSUME NEW r \in Run, Moves(r) PROVE MutexInv'
    <2>1. \A q \in Run : Live(q)' => Live(q)
      BY <1>2 DEF Moves, Live, TypeOK
    <2>2. \A q \in Run : Working(q)' => Working(q)
      BY <1>2 DEF Moves, Working, TypeOK
    <2>3. UNCHANGED <<open, holder, stale>>
      BY <1>2 DEF Moves
    <2> QED
      BY <2>1, <2>2, <2>3
  <1>3. ASSUME NEW r \in Run, Claim(r) PROVE MutexInv'
    <2>1. open /\ \A q \in Run : ~Live(q)
      BY <1>3, ConstantsAssumption DEF Claim, Claimable
    <2>2. \A q \in Run : Live(q)' => q = r
      BY <1>3, <2>1 DEF Claim, Live, TypeOK
    <2>3. open' /\ holder' = r /\ ~stale'
      BY <1>3, <2>1 DEF Claim
    <2> QED
      BY <2>2, <2>3 DEF Working, Live
  <1>4. ASSUME NEW r \in Run, Finish(r) PROVE MutexInv'
    <2>1. Live(r) /\ \A q \in Run : Live(q) => q = r
      BY <1>4 DEF Finish, Live
    <2>2. \A q \in Run : Live(q)' => q = r /\ ~Working(q)'
      BY <1>4, <2>1 DEF Finish, Live, Working, TypeOK
    <2>3. ~open' /\ ~stale'
      BY <1>4 DEF Finish
    <2> QED
      BY <2>2, <2>3 DEF Working, Live
  <1>5. ASSUME NEW r \in Run, Release(r) PROVE MutexInv'
    <2>1. Live(r) /\ \A q \in Run : Live(q) => q = r
      BY <1>5 DEF Release, Live
    <2>2. \A q \in Run : ~Live(q)'
      BY <1>5, <2>1 DEF Release, Live, TypeOK
    <2>3. CASE open
      BY <1>5, <2>2, <2>3 DEF Release, Live, Working
    <2>4. CASE ~open
      BY <1>5, <2>2, <2>4 DEF Release, Live, Working
    <2> QED
      BY <2>3, <2>4
  <1>6. CASE ClaimGoesStale
    BY <1>6 DEF ClaimGoesStale, locals, Live, Working, TypeOK
  <1>7. ASSUME NEW status, PeppolSettled(status) PROVE MutexInv'
    BY <1>1, <1>7 DEF PeppolSettled, request, locals
  <1>8. ASSUME NEW r, NEW a, NEW status, MailReport(r, a, status) PROVE MutexInv'
    BY <1>1, <1>8 DEF MailReport, request, locals
  <1>9. CASE RepeatedReport \/ DrainFinds \/ CallLost \/ NothingToClaim
               \/ UNCHANGED vars
    BY <1>1, <1>9 DEF RepeatedReport, DrainFinds, CallLost, NothingToClaim, vars,
                      request, locals
  <1> QED
    BY RunMoves, <1>2, <1>3, <1>4, <1>5, <1>6, <1>7, <1>8, <1>9
    DEF Next, RunStep

(* Of the callers that take a request only one works on it at a time.       *)
THEOREM OneRunAtATime ==
    ASSUME ~SlowRuns PROVE Spec => []OneLiveRun
  <1>1. TypeOK /\ MutexInv /\ [Next]_vars => MutexInv'
    BY MutexStep
  <1>2. MutexInv => OneLiveRun
    BY DEF MutexInv
  <1> QED
    BY MutexInit, <1>1, <1>2, TypeCorrect, PTL DEF Spec

(***************************************************************************)
(* No address is mailed twice.  While the request is open it names the run  *)
(* that mailed an address, and the addresses the live run has not come to   *)
(* are in the request as its claim returned them.                           *)
(***************************************************************************)
NotedIfMailed ==
    open => \A r \in Run, a \in Address : a \in taken[r] => attempts[a] = r

Ahead(r, a) == a > at[r] \/ (a = at[r] /\ pc[r] \in {"load", "address"})

SnapshotHolds ==
    \A r \in Run : Working(r) =>
        \A a \in Address : Ahead(r, a) => attempts[a] = seen[r][a]

NotedByMailer ==
    \A r \in Run : pc[r] = "mail" => attempts[at[r]] = r

MailInv == NotedIfMailed /\ SnapshotHolds /\ NotedByMailer /\ NeverMailedTwice

FallbackInv == TypeInv /\ MutexInv /\ MailInv

\* At first nothing is noted or mailed.
LEMMA MailInit == Init => MailInv
  BY DEF Init, MailInv, NotedIfMailed, SnapshotHolds, NotedByMailer,
         NeverMailedTwice, Working

(* What another run's snapshot rests on: only one run is at work.           *)
LEMMA OnlyWorker ==
    ASSUME MutexInv, NEW r \in Run, Working(r), NEW q \in Run, Working(q)
    PROVE  q = r
  BY DEF MutexInv, OneLiveRun, Working, Live

\* An address is noted before it is mailed, and not mailed when it was noted before.
LEMMA MailStep ==
    ASSUME TypeInv, MutexInv, MailInv, [Next]_vars
    PROVE  MailInv'
  <1> USE DEF MailInv, NotedIfMailed, SnapshotHolds, NotedByMailer,
              NeverMailedTwice
  <1>1. CASE UNCHANGED <<open, attempts, pc, at, seen, taken>>
    BY <1>1 DEF Working, Ahead
  <1>2. ASSUME NEW r \in Run, Moves(r), UNCHANGED <<attempts, seen, at, taken>>,
               pc'[r] \notin {"load", "address", "mail"}
        PROVE  MailInv'
    <2>1. \A q \in Run : q # r => pc'[q] = pc[q]
      BY <1>2 DEF Moves, TypeInv, TypeOK
    <2>2. \A q \in Run, a \in Address :
             /\ Working(q)' => Working(q)
             /\ Ahead(q, a)' => Ahead(q, a)
      BY <1>2, <2>1 DEF Moves, Working, Ahead
    <2>3. open' = open
      BY <1>2 DEF Moves
    <2> QED
      BY <1>2, <2>1, <2>2, <2>3
  <1>3. ASSUME NEW r \in Run, Claim(r) PROVE MailInv'
    <2>1. /\ UNCHANGED <<open, attempts, at, taken>>
          /\ seen'[r] = attempts /\ pc'[r] = "load"
          /\ \A q \in Run : q # r => pc'[q] = pc[q] /\ seen'[q] = seen[q]
      BY <1>3 DEF Claim, TypeInv, TypeOK
    <2> QED
      BY <2>1 DEF Working, Ahead
  <1>4. ASSUME NEW r \in Run, LoadPayload(r) PROVE MailInv'
    <2>1. /\ UNCHANGED <<open, attempts, at, taken, seen>>
          /\ pc[r] = "load" /\ pc'[r] = "address"
          /\ \A q \in Run : q # r => pc'[q] = pc[q]
      BY <1>4 DEF LoadPayload, TypeInv, TypeOK, request
    <2> QED
      BY <2>1 DEF Working, Ahead
  <1>5. ASSUME NEW r \in Run, RecordedDelivery(r) PROVE MailInv'
    <2>1. /\ UNCHANGED <<open, attempts, taken, seen>>
          /\ pc[r] = "address" /\ pc'[r] \in {"address", "record"}
          /\ at[r] \in Address /\ at'[r] \in {at[r], at[r] + 1}
          /\ \A q \in Run : q # r => pc'[q] = pc[q] /\ at'[q] = at[q]
      BY <1>5 DEF RecordedDelivery, TypeInv, TypeOK, request
    <2>2. \A a \in Address : Ahead(r, a)' => Ahead(r, a)
      BY <2>1 DEF Ahead, Address
    <2> QED
      BY <2>1, <2>2 DEF Working, Ahead
  <1>6. ASSUME NEW r \in Run, NoteAttempt(r) PROVE MailInv'
    <2> DEFINE a == at[r]
    <2>1. /\ a \in Address /\ pc[r] = "address" /\ pc'[r] = "mail"
          /\ seen[r][a] = NoRun
          /\ UNCHANGED <<open, at, seen, taken>>
          /\ \A q \in Run : q # r => pc'[q] = pc[q]
      BY <1>6 DEF NoteAttempt, TypeInv, TypeOK
    <2>2. open
      BY <2>1 DEF MutexInv, OpenWhileWork, Working
    <2>3. attempts' = [attempts EXCEPT ![a] = r]
      BY <1>6, <2>2 DEF NoteAttempt
    <2>4. attempts[a] = NoRun
      BY <2>1 DEF Working, Ahead
    <2>5. \A q \in Run : a \notin taken[q]
      BY <2>1, <2>2, <2>4, ConstantsAssumption
    <2>6. \A q \in Run : Working(q)' => q = r
      BY <2>1, OnlyWorker DEF Working
    <2>7. SnapshotHolds'
      BY <2>1, <2>3, <2>6 DEF Ahead, TypeInv, TypeOK, Working, Address
    <2>8. NotedByMailer'
      BY <2>1, <2>3, <2>6 DEF TypeInv, TypeOK, Working
    <2>9. NotedIfMailed' /\ NeverMailedTwice'
      BY <2>1, <2>3, <2>5 DEF TypeInv, TypeOK
    <2> QED
      BY <2>7, <2>8, <2>9
  <1>7. ASSUME NEW r \in Run, Mail(r) PROVE MailInv'
    <2> DEFINE a == at[r]
    <2>1. /\ a \in Address /\ pc[r] = "mail" /\ pc'[r] = "record"
          /\ UNCHANGED <<open, attempts, at, seen>>
          /\ \A q \in Run : q # r => pc'[q] = pc[q] /\ taken'[q] = taken[q]
          /\ taken'[r] \in {taken[r], taken[r] \cup {a}}
      BY <1>7 DEF Mail, TypeInv, TypeOK, Positioned, request
    <2>2. open /\ attempts[a] = r
      BY <2>1 DEF MutexInv, OpenWhileWork, Working
    <2>3. \A q \in Run : a \in taken[q] => q = r
      BY <2>1, <2>2
    <2>4. NeverMailedTwice' /\ NotedIfMailed'
      BY <2>1, <2>2, <2>3
    <2>5. SnapshotHolds' /\ NotedByMailer'
      BY <2>1 DEF Working, Ahead
    <2> QED
      BY <2>4, <2>5
  <1>8. ASSUME NEW r \in Run, ReadBack(r) PROVE MailInv'
    <2>1. /\ UNCHANGED <<open, attempts, taken, seen>>
          /\ pc[r] = "readback" /\ pc'[r] = "address"
          /\ at[r] \in Address /\ at'[r] = at[r] + 1
          /\ \A q \in Run : q # r => pc'[q] = pc[q] /\ at'[q] = at[q]
      BY <1>8 DEF ReadBack, TypeInv, TypeOK, Positioned, request
    <2>2. \A a \in Address : Ahead(r, a)' => Ahead(r, a)
      BY <2>1 DEF Ahead, Address
    <2> QED
      BY <2>1, <2>2 DEF Working, Ahead
  <1>9. ASSUME NEW r \in Run, Finish(r) PROVE MailInv'
    <2>1. /\ ~open' /\ UNCHANGED <<at, seen, taken>>
          /\ pc[r] = "address" /\ pc'[r] = "audit"
          /\ \A q \in Run : q # r => pc'[q] = pc[q]
      BY <1>9 DEF Finish, TypeInv, TypeOK
    <2>2. \A q \in Run : ~Working(q)'
      BY <2>1, OnlyWorker DEF Working
    <2> QED
      BY <2>1, <2>2 DEF Working
  <1>10. ASSUME NEW r \in Run, Release(r) PROVE MailInv'
    <2>1. /\ UNCHANGED <<open, attempts, at, seen, taken>>
          /\ pc'[r] = "stopped"
          /\ \A q \in Run : q # r => pc'[q] = pc[q]
      BY <1>10 DEF Release, TypeInv, TypeOK
    <2> QED
      BY <2>1 DEF Working, Ahead
  <1>11. ASSUME NEW r \in Run,
                Record(r) \/ FinishedByAnother(r) \/ Audit(r) \/ Fail(r) \/ Crash(r)
         PROVE  MailInv'
    <2>1. Moves(r) /\ UNCHANGED <<attempts, seen, at, taken>>
      BY <1>11, RunMoves DEF Record, FinishedByAnother, Audit, Fail, Crash,
                             TypeInv, request
    <2>2. pc'[r] \notin {"load", "address", "mail"}
      BY <1>11 DEF Record, FinishedByAnother, Audit, Fail, Crash, TypeInv, TypeOK
    <2> QED
      BY <1>2, <2>1, <2>2
  <1>12. ASSUME NEW status, PeppolSettled(status) PROVE MailInv'
    BY <1>1, <1>12 DEF PeppolSettled, request, locals
  <1>13. ASSUME NEW r, NEW a, NEW status, MailReport(r, a, status) PROVE MailInv'
    BY <1>1, <1>13 DEF MailReport, request, locals
  <1>14. CASE RepeatedReport \/ DrainFinds \/ CallLost \/ ClaimGoesStale
                \/ NothingToClaim \/ UNCHANGED vars
    BY <1>1, <1>14 DEF RepeatedReport, DrainFinds, CallLost, ClaimGoesStale,
                       NothingToClaim, vars, request, locals
  <1> QED
    BY <1>3, <1>4, <1>5, <1>6, <1>7, <1>8, <1>9, <1>10, <1>11, <1>12, <1>13,
       <1>14 DEF Next, RunStep

\* The invariants of the claim and of the mail hold in every reachable state.
LEMMA FallbackInvariant ==
    ASSUME ~SlowRuns PROVE Spec => []FallbackInv
  <1>1. Init => FallbackInv
    BY TypeInit, MutexInit, MailInit DEF FallbackInv
  <1>2. FallbackInv /\ [Next]_vars => FallbackInv'
    BY TypeStep, PositionStep, MutexStep, MailStep DEF FallbackInv, TypeInv
  <1> QED
    BY <1>1, <1>2, PTL DEF Spec

(* Across stopped, failed and resumed runs no address is mailed twice.      *)
THEOREM MailedAtMostOnce ==
    ASSUME ~SlowRuns PROVE Spec => []NeverMailedTwice
  <1>1. FallbackInv => NeverMailedTwice
    BY DEF FallbackInv, MailInv
  <1> QED
    BY <1>1, FallbackInvariant, PTL
============================================================================
