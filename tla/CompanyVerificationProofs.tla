--------------------- MODULE CompanyVerificationProofs ---------------------
(***************************************************************************)
(* What was decided of a verification stays decided and is told as it was,   *)
(* for any number of sessions, reports, workers, contracts, forms, updates   *)
(* and faults; and a link's session verifies a French company only once its  *)
(* mandate is approved, where the company is updated by one request at a     *)
(* time.  The arguments follow the session's lock: who holds it and has not  *)
(* decided finds the session undecided, since nobody else can decide it.     *)
(* Last, where handlers do not overlap a company is on the SMP when it       *)
(* should be: what a handler leaves is what it found or what it was to reach. *)
(***************************************************************************)
EXTENDS CompanyVerification, TLAPS

Locking   == Reporter \cup Worker
Deciding  == Locking \cup Direct

\* Handlers at work are at a session that exists, contracts at one of their own; what
\* the provider checks exists too; an update that writes fields knows which.
PlacedInv ==
    /\ \A h \in Locking \cup Form :
          at[h].pc # "idle" => at[h].on \in Session /\ status[at[h].on] # "none"
    /\ \A d \in Direct :
          at[d].pc \notin {"idle", "insert"} =>
              at[d].on \in Session /\ status[at[d].on] # "none" /\ ~linked[at[d].on]
    /\ \A s \in Session : check[s] # "none" => status[s] # "none"
    /\ \A s \in Session, o \in Report : <<s, o>> \in due => status[s] # "none"
    /\ \A u \in Updater : at[u].pc = "write" => at[u].goal \in {"numbers", "recipient"}

VerificationTypes == TypeOK /\ PlacedInv

LEMMA IdleState == Idle \in HandlerState /\ Idle.pc = "idle" /\ Idle.on = None
BY DEF Idle, HandlerState, NoCompany, Company, Pc

LEMMA LeaveState ==
    ASSUME at \in [Handler -> HandlerState], NEW h \in Handler, Leave(h)
    PROVE  at' \in [Handler -> HandlerState]
BY IdleState DEF Leave

LEMMA GoState ==
    ASSUME at \in [Handler -> HandlerState], NEW h \in Handler, NEW pc \in Pc, Go(h, pc)
    PROVE  at' \in [Handler -> HandlerState]
<1>1. [at[h] EXCEPT !.pc = pc] \in HandlerState
  BY DEF HandlerState
<1> QED
  BY <1>1 DEF Go

\* The types, one step per action.
LEMMA TypesStep ==
    ASSUME VerificationTypes, [Next]_vars PROVE TypeOK'
<1> USE VerificationAssumption DEF VerificationTypes, TypeOK, PlacedInv, Handler, Locking, Deciding, sessions, outside, reports
<1>1. ASSUME NEW s \in Session, StartSession(s) PROVE TypeOK'
  <2>1. at' \in [Handler -> HandlerState]
    BY <1>1, LeaveState, GoState DEF StartSession, Insert, Unused, Current, Pc
  <2> QED
    BY <1>1, <2>1 DEF StartSession, Insert, Unused, Status, Open, Final, Details, Snapshot, Company
<1>2. ASSUME NEW f \in Form, NEW s \in Session, LoadForm(f, s) PROVE TypeOK'
  <2>1. at' \in [Handler -> HandlerState]
    BY <1>2, LeaveState, GoState DEF LoadForm, Pc, HandlerState, Idle, NoCompany, Company
  <2> QED
    BY <1>2, <2>1 DEF LoadForm, Again, Begin
<1>3. ASSUME NEW f \in Form, ClaimForm(f) PROVE TypeOK'
  <2>1. at' \in [Handler -> HandlerState]
    BY <1>3, LeaveState, GoState DEF ClaimForm, Pc
  <2> QED
    BY <1>3, <2>1 DEF ClaimForm, Status, Open, Final
<1>4. ASSUME NEW f \in Form, StartCheck(f) PROVE TypeOK'
  <2>1. at' \in [Handler -> HandlerState]
    BY <1>4, LeaveState, GoState DEF StartCheck, Pc
  <2> QED
    BY <1>4, <2>1 DEF StartCheck
<1>5. ASSUME NEW s \in Session, NEW o \in Report, Decide(s, o) PROVE TypeOK'
  <2>1. check' \in [Session -> {"none", "running"} \cup Report]
    BY <1>5 DEF Decide
  <2>2. <<s, o>> \in Session \X Report /\ due \subseteq Session \X Report
    OBVIOUS
  <2>3. due' = due \cup {<<s, o>>}
    BY <1>5 DEF Decide
  <2>4. due' \subseteq Session \X Report
    BY <2>2, <2>3
  <2> QED
    BY <1>5, <2>1, <2>4 DEF Decide
<1>6. ASSUME NEW h \in Reporter, NEW s \in Session, NEW o \in Report, TakeReport(h, s, o) PROVE TypeOK'
  <2>1. [Idle EXCEPT !.on = s, !.goal = o,
           !.pc = IF o = "In Review" THEN "review" ELSE "company"] \in HandlerState
    BY DEF Idle, HandlerState, NoCompany, Company, Pc
  <2>2. at' \in [Handler -> HandlerState]
    BY <1>6, <2>1 DEF TakeReport
  <2> QED
    BY <1>6, <2>2 DEF TakeReport, Begin
<1>7. ASSUME NEW h \in Reporter, SetInReview(h) PROVE TypeOK'
  <2>1. at' \in [Handler -> HandlerState]
    BY <1>7, LeaveState, GoState DEF SetInReview, Answer, Pc
  <2> QED
    BY <1>7, <2>1 DEF SetInReview, Answer, Status, Open, Final
<1>8. ASSUME NEW h \in Reporter, ReadCompany(h) PROVE TypeOK'
  <2>1. at' \in [Handler -> HandlerState]
    BY <1>8, LeaveState, GoState DEF ReadCompany, Pc, Answer, HandlerState, Idle, NoCompany, Company
  <2> QED
    BY <1>8, <2>1 DEF ReadCompany, Answer
<1>9. ASSUME NEW h \in Reporter, HoldForReview(h) PROVE TypeOK'
  <2>1. at' \in [Handler -> HandlerState]
    BY <1>9, LeaveState, GoState DEF HoldForReview, Answer, Pc
  <2> QED
    BY <1>9, <2>1 DEF HoldForReview, Answer, Status, Open, Final
<1>10. ASSUME NEW h \in Reporter, StartKycReview(h) PROVE TypeOK'
  <2>1. at' \in [Handler -> HandlerState]
    BY <1>10, LeaveState, GoState DEF StartKycReview, Answer, Pc
  <2> QED
    BY <1>10, <2>1 DEF StartKycReview, Answer, Status, Open, Final, Phase, Onboarding
<1>11. ASSUME NEW h \in Reporter, Retry(h) PROVE TypeOK'
  <2>1. at' \in [Handler -> HandlerState]
    BY <1>11, LeaveState DEF Retry, Answer
  <2>2. ASSUME NEW s \in Unused, Insert(s, TRUE)
        PROVE  /\ status' \in [Session -> Status] /\ details' \in [Session -> Snapshot]
               /\ linked' \in [Session -> BOOLEAN]
    BY <2>2 DEF Insert, Status, Open, Snapshot, Details, Company
  <2>3. /\ status' \in [Session -> Status] /\ details' \in [Session -> Snapshot]
        /\ linked' \in [Session -> BOOLEAN]
    BY <1>11, <2>2 DEF Retry
  <2>4. due' \subseteq Session \X Report
    BY <1>11 DEF Retry, Answer
  <2> QED
    BY <1>11, <2>1, <2>3, <2>4 DEF Retry
<1>12. ASSUME NEW h \in Deciding, ReadSession(h) PROVE TypeOK'
  <2>1. at' \in [Handler -> HandlerState]
    BY <1>12, LeaveState, GoState DEF ReadSession, Pc, Resolve, Answer, Move, HandlerState, Idle, NoCompany, Company
  <2> QED
    BY <1>12, <2>1 DEF ReadSession, Resolve, Answer, Move
<1>13. ASSUME NEW h \in Deciding \cup Updater, Register(h) PROVE TypeOK'
  <2>1. at' \in [Handler -> HandlerState]
    BY <1>13, LeaveState, GoState DEF Register, Pc
  <2> QED
    BY <1>13, <2>1 DEF Register, Fault
<1>14. ASSUME NEW h \in Deciding \cup Updater, Unregister(h) PROVE TypeOK'
  <2>1. at' \in [Handler -> HandlerState]
    BY <1>14, LeaveState, GoState DEF Unregister, Pc
  <2> QED
    BY <1>14, <2>1 DEF Unregister, Fault
<1>15. ASSUME NEW h \in Deciding \cup Updater, Undo(h) PROVE TypeOK'
  <2>1. at' \in [Handler -> HandlerState]
    BY <1>15, LeaveState, GoState DEF Undo, Pc
  <2>2. smp' \in {"none", "bare", "full"}
    BY <1>15 DEF Undo
  <2>3. \/ Fault /\ alone' = FALSE
        \/ UNCHANGED <<alone, spent>>
    BY <1>15 DEF Undo
  <2>4. spent' \in [edits : 0..MaxEdit, faults : 0..MaxFault]
    BY <2>3 DEF Fault
  <2>5. alone' \in BOOLEAN
    BY <2>3
  <2> QED
    BY <1>15, <2>1, <2>2, <2>4, <2>5 DEF Undo
<1>16. ASSUME NEW h \in Deciding, SetError(h) PROVE TypeOK'
  <2>1. at' \in [Handler -> HandlerState]
    BY <1>16, LeaveState, GoState DEF SetError, Pc
  <2> QED
    BY <1>16, <2>1 DEF SetError, Status, Open, Final
<1>17. ASSUME NEW h \in Deciding, Commit(h) PROVE TypeOK'
  <2>1. at' \in [Handler -> HandlerState]
    BY <1>17, LeaveState, GoState DEF Commit, Pc
  <2>2. Outcome(h) \in Status
    BY DEF Outcome, Status, Final
  <2>3. status' \in [Session -> Status]
    BY <1>17, <2>2 DEF Commit
  <2>4. company' \in Company
    BY <1>17 DEF Commit, Company
  <2>5. spent' \in [edits : 0..MaxEdit, faults : 0..MaxFault]
    BY <1>17 DEF Commit, Fault
  <2> QED
    BY <1>17, <2>1, <2>3, <2>4, <2>5 DEF Commit
<1>18. ASSUME NEW h \in Deciding, Publish(h) PROVE TypeOK'
  <2>1. at' \in [Handler -> HandlerState]
    BY <1>18, LeaveState, GoState DEF Publish, Resolve, Answer, Outcome, Pc
  <2> QED
    BY <1>18, <2>1 DEF Publish, Resolve, Answer, Outcome
<1>19. ASSUME NEW w \in Worker, NEW s \in Session, Select(w, s) PROVE TypeOK'
  <2>1. ASSUME NEW pc \in Pc
        PROVE  [Idle EXCEPT !.on = s, !.goal = "Approved", !.saw = company, !.pc = pc]
                  \in HandlerState
    BY DEF Idle, HandlerState, Report
  <2>2. Onward(s) \cup {"notify"} \subseteq
           {"block", "activation", "refuse", "prepare", "file", "notify"}
    BY DEF Onward
  <2>3. PICK next \in {"block", "activation", "refuse", "prepare", "file", "notify"} :
           at' = [at EXCEPT ![w] = [Idle EXCEPT !.on = s, !.goal = "Approved", !.saw = company,
                     !.pc = CASE next \notin {"prepare", "file"} -> next
                              [] next \in {"prepare", "file"} /\ company.recipient -> "participants"
                              [] OTHER -> "kyc"]]
    BY <1>19, <2>2 DEF Select
  <2>4. (CASE next \notin {"prepare", "file"} -> next
           [] next \in {"prepare", "file"} /\ company.recipient -> "participants"
           [] OTHER -> "kyc") \in Pc
    BY <2>3 DEF Pc
  <2>5. at' \in [Handler -> HandlerState]
    BY <2>1, <2>3, <2>4
  <2> QED
    BY <1>19, <2>5 DEF Select, Begin, Phase, Onboarding
<1>20. ASSUME NEW w \in Worker, RegisterParticipants(w) PROVE TypeOK'
  <2>1. at' \in [Handler -> HandlerState]
    BY <1>20, LeaveState, GoState DEF RegisterParticipants, Pc
  <2> QED
    BY <1>20, <2>1 DEF RegisterParticipants
<1>21. ASSUME NEW w \in Worker, FileKyc(w) PROVE TypeOK'
  <2>1. at' \in [Handler -> HandlerState]
    BY <1>21, LeaveState, GoState DEF FileKyc, Pc
  <2> QED
    BY <1>21, <2>1 DEF FileKyc
<1>22. ASSUME NEW w \in Worker, SaveActivation(w) PROVE TypeOK'
  <2>1. at' \in [Handler -> HandlerState]
    BY <1>22, LeaveState, GoState DEF SaveActivation, Pc
  <2> QED
    BY <1>22, <2>1 DEF SaveActivation, Phase, Onboarding
<1>23. ASSUME NEW w \in Worker, CheckActivation(w) PROVE TypeOK'
  <2>1. at' \in [Handler -> HandlerState]
    BY <1>23, LeaveState, GoState DEF CheckActivation, Pc
  <2> QED
    BY <1>23, <2>1 DEF CheckActivation
<1>24. ASSUME NEW w \in Worker, SyncCapabilities(w) PROVE TypeOK'
  <2>1. at' \in [Handler -> HandlerState]
    BY <1>24, LeaveState, GoState DEF SyncCapabilities, Pc
  <2> QED
    BY <1>24, <2>1 DEF SyncCapabilities
<1>25. ASSUME NEW w \in Worker, Reload(w) PROVE TypeOK'
  <2>1. at' \in [Handler -> HandlerState]
    BY <1>25, LeaveState, GoState DEF Reload, Pc
  <2> QED
    BY <1>25, <2>1 DEF Reload
<1>26. ASSUME NEW w \in Worker, Notify(w) PROVE TypeOK'
  <2>1. at' \in [Handler -> HandlerState]
    BY <1>26, LeaveState, GoState DEF Notify, Pc
  <2> QED
    BY <1>26, <2>1 DEF Notify
<1>27. ASSUME NEW w \in Worker, SavePhase(w) PROVE TypeOK'
  <2>1. at' \in [Handler -> HandlerState]
    BY <1>27, LeaveState, GoState DEF SavePhase, Pc
  <2> QED
    BY <1>27, <2>1 DEF SavePhase, Phase
<1>28. ASSUME NEW w \in Worker, RetryLater(w) PROVE TypeOK'
  <2>1. at' \in [Handler -> HandlerState]
    BY <1>28, LeaveState, GoState DEF RetryLater, Pc
  <2> QED
    BY <1>28, <2>1 DEF RetryLater
<1>29. ASSUME NEW w \in Worker, NEW s \in Session, GiveUp(w, s) PROVE TypeOK'
  <2>1. at' \in [Handler -> HandlerState]
    BY <1>29, LeaveState, GoState DEF GiveUp, Pc
  <2> QED
    BY <1>29, <2>1 DEF GiveUp
<1>30. ASSUME NEW w \in Worker, StepFails(w) PROVE TypeOK'
  <2>1. at' \in [Handler -> HandlerState]
    BY <1>30, LeaveState, GoState DEF StepFails, Pc
  <2> QED
    BY <1>30, <2>1 DEF StepFails, Fault, Phase, Onboarding
<1>31. ASSUME NEW s \in Session, Resume(s) PROVE TypeOK'
  <2>1. at' \in [Handler -> HandlerState]
    BY <1>31, LeaveState, GoState DEF Resume, Pc
  <2> QED
    BY <1>31, <2>1 DEF Resume, Phase, Onboarding
<1>32. ASSUME NEW d \in Direct, TakeContract(d) PROVE TypeOK'
  <2>1. at' \in [Handler -> HandlerState]
    BY <1>32, LeaveState, GoState DEF TakeContract, Pc, Report, Positive, HandlerState, Idle, NoCompany, Company
  <2> QED
    BY <1>32, <2>1 DEF TakeContract, Again, Begin
<1>33. ASSUME NEW d \in Direct, InsertContract(d) PROVE TypeOK'
  <2>1. CASE Leave(d) /\ UNCHANGED <<status, details, linked>>
    BY <1>33, <2>1, LeaveState DEF InsertContract
  <2>2. ASSUME NEW s \in Unused, Insert(s, FALSE),
               at' = [at EXCEPT ![d].pc = "finalize", ![d].on = s]
        PROVE  TypeOK'
    <3>1. at[d] \in HandlerState /\ s \in Session
      BY <2>2 DEF Unused
    <3>2. [at[d] EXCEPT !.pc = "finalize", !.on = s] \in HandlerState
      BY <3>1 DEF HandlerState, Pc
    <3>3. at' \in [Handler -> HandlerState]
      BY <2>2, <3>2
    <3>4. /\ status' \in [Session -> Status] /\ details' \in [Session -> Snapshot]
          /\ linked' \in [Session -> BOOLEAN]
      BY <2>2 DEF Insert, Status, Open, Snapshot, Details, Company
    <3> QED
      BY <1>33, <3>3, <3>4 DEF InsertContract
  <2> QED
    BY <1>33, <2>1, <2>2 DEF InsertContract
<1>34. ASSUME NEW u \in Updater, NEW change \in Change, ReadForUpdate(u, change) PROVE TypeOK'
  <2>1. at' \in [Handler -> HandlerState]
    BY <1>34, LeaveState, GoState DEF ReadForUpdate, Pc, Change, HandlerState, Idle, NoCompany, Company
  <2> QED
    BY <1>34, <2>1 DEF ReadForUpdate, Again, Begin
<1>35. ASSUME NEW u \in Updater, WriteCompany(u) PROVE TypeOK'
  <2>2. PICK move \in {"register", "unregister", "free"} :
           at' = [at EXCEPT ![u].pc = move, ![u].move = move]
    BY <1>35 DEF WriteCompany
  <2>3. at[u] \in HandlerState /\ move \in Pc
    BY DEF Pc
  <2>4. [at[u] EXCEPT !.pc = move, !.move = move] \in HandlerState
    BY <2>3 DEF HandlerState
  <2>5. at' \in [Handler -> HandlerState]
    BY <2>2, <2>4
  <2>6. at[u].saw \in Company
    BY <2>3 DEF HandlerState
  <2>7. CASE at[u].goal = "numbers"
    <3>1. Edit(at[u].saw, at[u].goal).numbers = 2
      BY <2>6, <2>7 DEF Edit, Company
    <3>2. company' \in Company
      BY <1>35, <2>6, <2>7, <3>1 DEF WriteCompany, Company
    <3> QED
      BY <1>35, <2>5, <3>2 DEF WriteCompany
  <2>8. CASE at[u].goal = "recipient"
    <3>1. Edit(at[u].saw, at[u].goal).recipient \in BOOLEAN
      BY <2>6, <2>8 DEF Edit, Company
    <3>2. company' \in Company
      BY <1>35, <2>8, <3>1 DEF WriteCompany, Company
    <3> QED
      BY <1>35, <2>5, <3>2 DEF WriteCompany
  <2> QED
    BY <1>35, <2>7, <2>8 DEF WriteCompany
<1>36. ASSUME NEW u \in Updater, CheckFree(u) PROVE TypeOK'
  <2>1. at' \in [Handler -> HandlerState]
    BY <1>36, LeaveState, GoState DEF CheckFree, Pc
  <2> QED
    BY <1>36, <2>1 DEF CheckFree
<1>37. ASSUME NEW u \in Updater, Restore(u) PROVE TypeOK'
  <2>1. at' \in [Handler -> HandlerState]
    BY <1>37, LeaveState, GoState DEF Restore, Pc
  <2> QED
    BY <1>37, <2>1 DEF Restore, HandlerState
<1>38. ASSUME NEW u \in Updater, FinishUpdate(u) PROVE TypeOK'
  <2>1. at' \in [Handler -> HandlerState]
    BY <1>38, LeaveState, GoState DEF FinishUpdate, Pc
  <2> QED
    BY <1>38, <2>1 DEF FinishUpdate, Status, Open, Final
<1>39. ASSUME NEW u \in Updater, MoveCountry(u) PROVE TypeOK'
  <2>1. at' \in [Handler -> HandlerState]
    BY <1>39, LeaveState DEF MoveCountry
  <2>2. ASSUME NEW to \in Country PROVE [company EXCEPT !.country = to] \in Company
    BY DEF Company
  <2>3. company' = company \/ \E to \in Country : company' = [company EXCEPT !.country = to]
    BY <1>39 DEF MoveCountry
  <2>3a. company' \in Company
    BY <2>2, <2>3
  <2>4. Details(company') \in Snapshot
    BY <2>3a DEF Details, Snapshot, Company
  <2>5. details' \in [Session -> Snapshot]
    BY <1>39, <2>4 DEF MoveCountry
  <2> QED
    BY <1>39, <2>1, <2>3a, <2>5 DEF MoveCountry
<1>40. ASSUME NEW h \in Handler, Crash(h) PROVE TypeOK'
  <2>1. at' \in [Handler -> HandlerState]
    BY <1>40, LeaveState DEF Crash
  <2>2. spent' \in [edits : 0..MaxEdit, faults : 0..MaxFault]
    BY <1>40 DEF Crash, Fault
  <2> QED
    BY <1>40, <2>1, <2>2 DEF Crash
<1>41. CASE UNCHANGED vars
  BY <1>41 DEF vars
<1> QED
  BY <1>1, <1>2, <1>3, <1>4, <1>5, <1>6, <1>7, <1>8, <1>9, <1>10, <1>11, <1>12,
     <1>13, <1>14, <1>15, <1>16, <1>17, <1>18, <1>19, <1>20, <1>21, <1>22, <1>23,
     <1>24, <1>25, <1>26, <1>27, <1>28, <1>29, <1>30, <1>31, <1>32, <1>33, <1>34,
     <1>35, <1>36, <1>37, <1>38, <1>39, <1>40, <1>41
  DEF Next, ReportStep, WorkerStep, DirectStep, FormStep, UpdateStep, FinalizeStep

----------------------------------------------------------------------------
(* How a step moves sessions and handlers.                                  *)

\* A session that exists stays, as a link's or as a contract's; only one that exists is
\* checked and reported.
Kept ==
    /\ \A s \in Session : status[s] # "none" => status'[s] # "none" /\ linked'[s] = linked[s]
    /\ \A s \in Session : check'[s] # "none" => status[s] # "none"
    /\ \A s \in Session, o \in Report : <<s, o>> \in due' => status[s] # "none"

LEMMA KeptStep == ASSUME VerificationTypes, [Next]_vars PROVE Kept
<1> USE VerificationAssumption
    DEF VerificationTypes, TypeOK, PlacedInv, Handler, Locking, Deciding, sessions, reports,
        Kept
<1>1. ASSUME NEW s \in Session, StartSession(s) PROVE Kept
  BY <1>1 DEF StartSession, Insert, Unused, Current
<1>2. ASSUME NEW f \in Form, NEW s \in Session, LoadForm(f, s) PROVE Kept
  BY <1>2 DEF LoadForm, Again
<1>3. ASSUME NEW f \in Form, ClaimForm(f) PROVE Kept
  BY <1>3 DEF ClaimForm
<1>4. ASSUME NEW f \in Form, StartCheck(f) PROVE Kept
  BY <1>4 DEF StartCheck
<1>5. ASSUME NEW s \in Session, NEW o \in Report, Decide(s, o) PROVE Kept
  BY <1>5 DEF Decide
<1>6. ASSUME NEW h \in Reporter, NEW s \in Session, NEW o \in Report, TakeReport(h, s, o) PROVE Kept
  BY <1>6 DEF TakeReport, Holds
<1>7. ASSUME NEW h \in Reporter, SetInReview(h) PROVE Kept
  BY <1>7 DEF SetInReview, Answer
<1>8. ASSUME NEW h \in Reporter, ReadCompany(h) PROVE Kept
  BY <1>8 DEF ReadCompany, Answer
<1>9. ASSUME NEW h \in Reporter, HoldForReview(h) PROVE Kept
  BY <1>9 DEF HoldForReview, Answer
<1>10. ASSUME NEW h \in Reporter, StartKycReview(h) PROVE Kept
  BY <1>10 DEF StartKycReview, Answer
<1>11. ASSUME NEW h \in Reporter, Retry(h) PROVE Kept
  BY <1>11 DEF Retry, Answer, Insert, Unused
<1>12. ASSUME NEW h \in Deciding, ReadSession(h) PROVE Kept
  BY <1>12 DEF ReadSession, Resolve, Answer, Move
<1>13. ASSUME NEW h \in Deciding \cup Updater, Register(h) PROVE Kept
  BY <1>13 DEF Register
<1>14. ASSUME NEW h \in Deciding \cup Updater, Unregister(h) PROVE Kept
  BY <1>14 DEF Unregister
<1>15. ASSUME NEW h \in Deciding \cup Updater, Undo(h) PROVE Kept
  BY <1>15 DEF Undo
<1>16. ASSUME NEW h \in Deciding, SetError(h) PROVE Kept
  BY <1>16 DEF SetError
<1>17. ASSUME NEW h \in Deciding, Commit(h) PROVE Kept
  BY <1>17 DEF Commit, Outcome
<1>18. ASSUME NEW h \in Deciding, Publish(h) PROVE Kept
  BY <1>18 DEF Publish, Resolve, Answer, Outcome
<1>19. ASSUME NEW w \in Worker, NEW s \in Session, Select(w, s) PROVE Kept
  BY <1>19 DEF Select, Onward
<1>20. ASSUME NEW w \in Worker, RegisterParticipants(w) PROVE Kept
  BY <1>20 DEF RegisterParticipants
<1>21. ASSUME NEW w \in Worker, FileKyc(w) PROVE Kept
  BY <1>21 DEF FileKyc
<1>22. ASSUME NEW w \in Worker, SaveActivation(w) PROVE Kept
  BY <1>22 DEF SaveActivation
<1>23. ASSUME NEW w \in Worker, CheckActivation(w) PROVE Kept
  BY <1>23 DEF CheckActivation
<1>24. ASSUME NEW w \in Worker, SyncCapabilities(w) PROVE Kept
  BY <1>24 DEF SyncCapabilities
<1>25. ASSUME NEW w \in Worker, Reload(w) PROVE Kept
  BY <1>25 DEF Reload
<1>26. ASSUME NEW w \in Worker, Notify(w) PROVE Kept
  BY <1>26 DEF Notify
<1>27. ASSUME NEW w \in Worker, SavePhase(w) PROVE Kept
  BY <1>27 DEF SavePhase
<1>28. ASSUME NEW w \in Worker, RetryLater(w) PROVE Kept
  BY <1>28 DEF RetryLater
<1>29. ASSUME NEW w \in Worker, NEW s \in Session, GiveUp(w, s) PROVE Kept
  BY <1>29 DEF GiveUp
<1>30. ASSUME NEW w \in Worker, StepFails(w) PROVE Kept
  BY <1>30 DEF StepFails
<1>31. ASSUME NEW s \in Session, Resume(s) PROVE Kept
  BY <1>31 DEF Resume
<1>32. ASSUME NEW d \in Direct, TakeContract(d) PROVE Kept
  BY <1>32 DEF TakeContract, Again
<1>33. ASSUME NEW d \in Direct, InsertContract(d) PROVE Kept
  BY <1>33 DEF InsertContract, Insert, Unused
<1>34. ASSUME NEW u \in Updater, NEW change \in Change, ReadForUpdate(u, change) PROVE Kept
  BY <1>34 DEF ReadForUpdate, Again
<1>35. ASSUME NEW u \in Updater, WriteCompany(u) PROVE Kept
  BY <1>35 DEF WriteCompany, Edit
<1>36. ASSUME NEW u \in Updater, CheckFree(u) PROVE Kept
  BY <1>36 DEF CheckFree
<1>37. ASSUME NEW u \in Updater, Restore(u) PROVE Kept
  BY <1>37 DEF Restore
<1>38. ASSUME NEW u \in Updater, FinishUpdate(u) PROVE Kept
  BY <1>38 DEF FinishUpdate
<1>39. ASSUME NEW u \in Updater, MoveCountry(u) PROVE Kept
  BY <1>39 DEF MoveCountry
<1>40. ASSUME NEW h \in Handler, Crash(h) PROVE Kept
  BY <1>40 DEF Crash
<1>41. CASE UNCHANGED vars
  BY <1>41 DEF vars
<1> QED
  BY <1>1, <1>2, <1>3, <1>4, <1>5, <1>6, <1>7, <1>8, <1>9, <1>10, <1>11, <1>12,
     <1>13, <1>14, <1>15, <1>16, <1>17, <1>18, <1>19, <1>20, <1>21, <1>22, <1>23,
     <1>24, <1>25, <1>26, <1>27, <1>28, <1>29, <1>30, <1>31, <1>32, <1>33, <1>34,
     <1>35, <1>36, <1>37, <1>38, <1>39, <1>40, <1>41
  DEF Next, ReportStep, WorkerStep, DirectStep, FormStep, UpdateStep, FinalizeStep, Change

\* What a step does to a handler: it leaves, takes a session's lock, goes on with its
\* session, or is a contract that has no session yet.
Takes(h) ==
    /\ h \in Locking /\ at[h].pc = "idle" /\ ~Holds(at'[h].on)
    /\ at'[h].on \in Session /\ status[at'[h].on] # "none"

GoesOn(h) ==
    /\ at[h].pc # "idle" /\ at'[h].on = at[h].on /\ at'[h].goal = at[h].goal
    /\ h \in Direct => at[h].pc # "insert"

Inserts(h) ==
    /\ h \in Direct
    /\ \/ at'[h].pc = "insert"
       \/ /\ at'[h].on \in Session /\ status'[at'[h].on] # "none" /\ ~linked'[at'[h].on]
          /\ at'[h].pc = "finalize"

Moves(h) ==
    /\ \A g \in Handler : g # h => at'[g] = at[g]
    /\ \/ at'[h] = Idle \/ Takes(h) \/ GoesOn(h) \/ Inserts(h)
       \/ h \in Form /\ at'[h].on \in Session /\ status[at'[h].on] # "none"
       \/ h \in Updater
    /\ h \in Updater /\ at'[h].pc = "write" => at'[h].goal \in {"numbers", "recipient"}

LEMMA MovesStep == ASSUME VerificationTypes, [Next]_vars PROVE at' = at \/ \E h \in Handler : Moves(h)
<1> USE VerificationAssumption, IdleState
    DEF VerificationTypes, TypeOK, PlacedInv, Handler, Locking, Deciding, sessions, HandlerState,
        Go, Leave, Moves, Takes, GoesOn, Inserts
<1>1. ASSUME NEW s \in Session, StartSession(s) PROVE at' = at \/ \E g \in Handler : Moves(g)
  BY <1>1 DEF StartSession, Insert, Unused, Current
<1>2. ASSUME NEW f \in Form, NEW s \in Session, LoadForm(f, s) PROVE at' = at \/ \E g \in Handler : Moves(g)
  BY <1>2 DEF LoadForm, Again
<1>3. ASSUME NEW f \in Form, ClaimForm(f) PROVE at' = at \/ \E g \in Handler : Moves(g)
  BY <1>3 DEF ClaimForm
<1>4. ASSUME NEW f \in Form, StartCheck(f) PROVE at' = at \/ \E g \in Handler : Moves(g)
  BY <1>4 DEF StartCheck
<1>5. ASSUME NEW s \in Session, NEW o \in Report, Decide(s, o) PROVE at' = at \/ \E g \in Handler : Moves(g)
  BY <1>5 DEF Decide
<1>6. ASSUME NEW h \in Reporter, NEW s \in Session, NEW o \in Report, TakeReport(h, s, o) PROVE at' = at \/ \E g \in Handler : Moves(g)
  <2>1. at[h].pc = "idle" /\ ~Holds(s) /\ status[s] # "none"
    BY <1>6 DEF TakeReport, Free, Busy
  <2> DEFINE taken == [Idle EXCEPT !.on = s, !.goal = o,
                          !.pc = IF o = "In Review" THEN "review" ELSE "company"]
  <2>2. at' = at \/ at' = [at EXCEPT ![h] = taken]
    BY <1>6 DEF TakeReport
  <2>3. taken.on = s
    BY DEF Idle
  <2> HIDE DEF taken
  <2>4. at' = at \/ (at'[h].on = s /\ \A g \in Handler : g # h => at'[g] = at[g])
    BY <2>2, <2>3
  <2> QED
    BY <2>1, <2>4
<1>7. ASSUME NEW h \in Reporter, SetInReview(h) PROVE at' = at \/ \E g \in Handler : Moves(g)
  BY <1>7 DEF SetInReview, Answer
<1>8. ASSUME NEW h \in Reporter, ReadCompany(h) PROVE at' = at \/ \E g \in Handler : Moves(g)
  BY <1>8 DEF ReadCompany, Answer
<1>9. ASSUME NEW h \in Reporter, HoldForReview(h) PROVE at' = at \/ \E g \in Handler : Moves(g)
  BY <1>9 DEF HoldForReview, Answer
<1>10. ASSUME NEW h \in Reporter, StartKycReview(h) PROVE at' = at \/ \E g \in Handler : Moves(g)
  BY <1>10 DEF StartKycReview, Answer
<1>11. ASSUME NEW h \in Reporter, Retry(h) PROVE at' = at \/ \E g \in Handler : Moves(g)
  BY <1>11 DEF Retry, Answer, Insert, Unused
<1>12. ASSUME NEW h \in Deciding, ReadSession(h) PROVE at' = at \/ \E g \in Handler : Moves(g)
  BY <1>12 DEF ReadSession, Resolve, Answer, Move
<1>13. ASSUME NEW h \in Deciding \cup Updater, Register(h) PROVE at' = at \/ \E g \in Handler : Moves(g)
  BY <1>13 DEF Register
<1>14. ASSUME NEW h \in Deciding \cup Updater, Unregister(h) PROVE at' = at \/ \E g \in Handler : Moves(g)
  BY <1>14 DEF Unregister
<1>15. ASSUME NEW h \in Deciding \cup Updater, Undo(h) PROVE at' = at \/ \E g \in Handler : Moves(g)
  BY <1>15 DEF Undo
<1>16. ASSUME NEW h \in Deciding, SetError(h) PROVE at' = at \/ \E g \in Handler : Moves(g)
  BY <1>16 DEF SetError
<1>17. ASSUME NEW h \in Deciding, Commit(h) PROVE at' = at \/ \E g \in Handler : Moves(g)
  BY <1>17 DEF Commit, Outcome
<1>18. ASSUME NEW h \in Deciding, Publish(h) PROVE at' = at \/ \E g \in Handler : Moves(g)
  BY <1>18 DEF Publish, Resolve, Answer, Outcome
<1>19. ASSUME NEW w \in Worker, NEW s \in Session, Select(w, s) PROVE at' = at \/ \E g \in Handler : Moves(g)
  <2>1. at[w].pc = "idle" /\ ~Holds(s) /\ status[s] # "none"
    BY <1>19 DEF Select, Free, Busy
  <2>2. at'[w].on = s /\ \A g \in Handler : g # w => at'[g] = at[g]
    BY <1>19 DEF Select, Idle
  <2> QED
    BY <2>1, <2>2
<1>20. ASSUME NEW w \in Worker, RegisterParticipants(w) PROVE at' = at \/ \E g \in Handler : Moves(g)
  BY <1>20 DEF RegisterParticipants
<1>21. ASSUME NEW w \in Worker, FileKyc(w) PROVE at' = at \/ \E g \in Handler : Moves(g)
  BY <1>21 DEF FileKyc
<1>22. ASSUME NEW w \in Worker, SaveActivation(w) PROVE at' = at \/ \E g \in Handler : Moves(g)
  BY <1>22 DEF SaveActivation
<1>23. ASSUME NEW w \in Worker, CheckActivation(w) PROVE at' = at \/ \E g \in Handler : Moves(g)
  BY <1>23 DEF CheckActivation
<1>24. ASSUME NEW w \in Worker, SyncCapabilities(w) PROVE at' = at \/ \E g \in Handler : Moves(g)
  BY <1>24 DEF SyncCapabilities
<1>25. ASSUME NEW w \in Worker, Reload(w) PROVE at' = at \/ \E g \in Handler : Moves(g)
  BY <1>25 DEF Reload
<1>26. ASSUME NEW w \in Worker, Notify(w) PROVE at' = at \/ \E g \in Handler : Moves(g)
  BY <1>26 DEF Notify
<1>27. ASSUME NEW w \in Worker, SavePhase(w) PROVE at' = at \/ \E g \in Handler : Moves(g)
  BY <1>27 DEF SavePhase
<1>28. ASSUME NEW w \in Worker, RetryLater(w) PROVE at' = at \/ \E g \in Handler : Moves(g)
  BY <1>28 DEF RetryLater
<1>29. ASSUME NEW w \in Worker, NEW s \in Session, GiveUp(w, s) PROVE at' = at \/ \E g \in Handler : Moves(g)
  BY <1>29 DEF GiveUp
<1>30. ASSUME NEW w \in Worker, StepFails(w) PROVE at' = at \/ \E g \in Handler : Moves(g)
  BY <1>30 DEF StepFails
<1>31. ASSUME NEW s \in Session, Resume(s) PROVE at' = at \/ \E g \in Handler : Moves(g)
  BY <1>31 DEF Resume
<1>32. ASSUME NEW d \in Direct, TakeContract(d) PROVE at' = at \/ \E g \in Handler : Moves(g)
  BY <1>32 DEF TakeContract, Again
<1>33. ASSUME NEW d \in Direct, InsertContract(d) PROVE at' = at \/ \E g \in Handler : Moves(g)
  BY <1>33 DEF InsertContract, Insert, Unused
<1>34. ASSUME NEW u \in Updater, NEW change \in Change, ReadForUpdate(u, change) PROVE at' = at \/ \E g \in Handler : Moves(g)
  BY <1>34 DEF ReadForUpdate, Change, Idle
<1>35. ASSUME NEW u \in Updater, WriteCompany(u) PROVE at' = at \/ \E g \in Handler : Moves(g)
  <2>1. PICK move \in {"register", "unregister", "free"} :
           at' = [at EXCEPT ![u].pc = move, ![u].move = move]
    BY <1>35 DEF WriteCompany
  <2>2. at'[u].pc # "write" /\ \A g \in Handler : g # u => at'[g] = at[g]
    BY <2>1
  <2> QED
    BY <2>2
<1>36. ASSUME NEW u \in Updater, CheckFree(u) PROVE at' = at \/ \E g \in Handler : Moves(g)
  BY <1>36 DEF CheckFree
<1>37. ASSUME NEW u \in Updater, Restore(u) PROVE at' = at \/ \E g \in Handler : Moves(g)
  BY <1>37 DEF Restore
<1>38. ASSUME NEW u \in Updater, FinishUpdate(u) PROVE at' = at \/ \E g \in Handler : Moves(g)
  BY <1>38 DEF FinishUpdate
<1>39. ASSUME NEW u \in Updater, MoveCountry(u) PROVE at' = at \/ \E g \in Handler : Moves(g)
  BY <1>39 DEF MoveCountry
<1>40. ASSUME NEW h \in Handler, Crash(h) PROVE at' = at \/ \E g \in Handler : Moves(g)
  BY <1>40 DEF Crash
<1>41. CASE UNCHANGED vars
  BY <1>41 DEF vars
<1> HIDE DEF Moves, Takes, GoesOn, Inserts, TypeOK, PlacedInv
<1> QED
  BY <1>1, <1>2, <1>3, <1>4, <1>5, <1>6, <1>7, <1>8, <1>9, <1>10, <1>11, <1>12,
     <1>13, <1>14, <1>15, <1>16, <1>17, <1>18, <1>19, <1>20, <1>21, <1>22, <1>23,
     <1>24, <1>25, <1>26, <1>27, <1>28, <1>29, <1>30, <1>31, <1>32, <1>33, <1>34,
     <1>35, <1>36, <1>37, <1>38, <1>39, <1>40, <1>41
  DEF Next, ReportStep, WorkerStep, DirectStep, FormStep, UpdateStep, FinalizeStep, Change

----------------------------------------------------------------------------
(* Types, places and locks.                                                 *)

\* No two handlers hold the lock of one session.
LocksInv == \A h, g \in Locking :
    at[h].on \in Session /\ at[g].on = at[h].on => g = h

LEMMA TypesInit == Init => VerificationTypes /\ LocksInv
<1> SUFFICES ASSUME Init PROVE VerificationTypes /\ LocksInv
  OBVIOUS
<1> USE VerificationAssumption
<1>1. company \in Company /\ Details(company) \in Snapshot
  BY DEF Init, Company, Details, Snapshot
<1>2. at \in [Handler -> HandlerState]
  BY IdleState DEF Init
<1>3. status \in [Session -> Status] /\ phase \in [Session -> Phase]
  BY DEF Init, Status, Final, Phase
<1>4. signed \in [Session -> BOOLEAN] /\ linked \in [Session -> BOOLEAN]
  BY <1>1 DEF Init, Company
<1>5. told \subseteq Session \X {"verified", "rejected", "error"}
  BY DEF Init
<1>6. TypeOK
  BY <1>1, <1>2, <1>3, <1>4, <1>5 DEF Init, TypeOK
<1>7. \A h \in Handler : at[h].pc = "idle" /\ at[h].on = None
  BY IdleState DEF Init
<1>8. PlacedInv
  BY <1>7 DEF Init, PlacedInv, Locking, Handler
<1>9. LocksInv
  BY <1>7 DEF LocksInv, Locking, Handler
<1> QED
  BY <1>6, <1>8, <1>9 DEF VerificationTypes

LEMMA TypesNext ==
    ASSUME VerificationTypes, LocksInv, [Next]_vars PROVE VerificationTypes' /\ LocksInv'
<1>1. TypeOK' /\ Kept
  BY TypesStep, KeptStep
<1>2. CASE at' = at
  BY <1>1, <1>2 DEF VerificationTypes, PlacedInv, Kept, LocksInv
<1>3. ASSUME NEW h \in Handler, Moves(h) PROVE PlacedInv' /\ LocksInv'
  <2> USE VerificationAssumption, IdleState
      DEF Moves, VerificationTypes, PlacedInv, Locking, Handler, Takes, GoesOn, Inserts
  <2>1. ASSUME NEW g \in Locking \cup Form, at'[g].pc # "idle"
        PROVE  at'[g].on \in Session /\ status'[at'[g].on] # "none"
    BY <1>1, <1>3, <2>1 DEF Kept
  <2>2. ASSUME NEW d \in Direct, at'[d].pc \notin {"idle", "insert"}
        PROVE  at'[d].on \in Session /\ status'[at'[d].on] # "none" /\ ~linked'[at'[d].on]
    BY <1>1, <1>3, <2>2 DEF Kept
  <2>3. \A u \in Updater : at'[u].pc = "write" => at'[u].goal \in {"numbers", "recipient"}
    BY <1>3
  <2>4. PlacedInv'
    BY <1>1, <2>1, <2>2, <2>3 DEF Kept
  <2>5. ASSUME NEW g \in Locking, NEW k \in Locking, at'[g].on \in Session, at'[k].on = at'[g].on
        PROVE  k = g
    BY <1>3, <2>5 DEF LocksInv, Holds
  <2> QED
    BY <2>4, <2>5 DEF LocksInv
<1> QED
  BY <1>1, <1>2, <1>3, MovesStep DEF VerificationTypes

\* The types, and that no two handlers hold a session's lock (LocksInv), for any number of
\* sessions, handlers, edits and faults (withVerificationLock in
\* src/data/verification-lock.ts).
THEOREM VerificationTypesHold == Spec => [](TypeOK /\ LocksInv)
<1>1. VerificationTypes /\ LocksInv /\ [Next]_vars => (VerificationTypes /\ LocksInv)'
  BY TypesNext
<1>2. VerificationTypes /\ LocksInv => TypeOK /\ LocksInv
  BY DEF VerificationTypes
<1> QED
  BY TypesInit, <1>1, <1>2, PTL DEF Spec

----------------------------------------------------------------------------
(* What was decided stays decided.                                          *)

Undecided == Open \cup {"revoked"}

\* Who holds a lock knows what became of the session: it is not decided before its
\* handler decides it, and is what the handler decided afterwards.
Decided(h) == at[h].on \in Session /\ linked[at[h].on] =>
    /\ at[h].pc \in {"review", "company", "hold", "register", "unregister", "undo",
                     "undoCommit", "error", "commit"} => status[at[h].on] \in Undecided
    /\ at[h].pc = "publish" => status[at[h].on] = Outcome(h)
    /\ at[h].pc = "publishError" => status[at[h].on] = "error"
    /\ at[h].pc = "notify" => status[at[h].on] = "verified"

DecidedInv == \A h \in Locking : Decided(h)

\* A link's session changes while it is not decided; who decides it moves on.
StatusMoves(s) ==
    \/ status'[s] = status[s]
    \/ /\ status[s] \in Undecided
       /\ \/ status'[s] \in Undecided
          \/ \E h \in Locking : at[h].on = s /\ at'[h] # at[h]

LinksMove == \A s \in Session : linked[s] /\ status[s] # "none" => StatusMoves(s)

LEMMA StatusStep == ASSUME VerificationTypes, DecidedInv, [Next]_vars PROVE LinksMove
<1> USE VerificationAssumption
    DEF VerificationTypes, TypeOK, PlacedInv, Handler, Locking, Deciding, sessions, HandlerState,
        Go, Leave, LinksMove, StatusMoves, DecidedInv, Decided, Undecided, Open, Final
<1>1. ASSUME NEW s \in Session, StartSession(s) PROVE LinksMove
  BY <1>1 DEF StartSession, Insert, Unused, Current
<1>2. ASSUME NEW f \in Form, NEW s \in Session, LoadForm(f, s) PROVE LinksMove
  BY <1>2 DEF LoadForm, Again
<1>3. ASSUME NEW f \in Form, ClaimForm(f) PROVE LinksMove
  BY <1>3 DEF ClaimForm
<1>4. ASSUME NEW f \in Form, StartCheck(f) PROVE LinksMove
  BY <1>4 DEF StartCheck
<1>5. ASSUME NEW s \in Session, NEW o \in Report, Decide(s, o) PROVE LinksMove
  BY <1>5 DEF Decide
<1>6. ASSUME NEW h \in Reporter, NEW s \in Session, NEW o \in Report, TakeReport(h, s, o) PROVE LinksMove
  BY <1>6 DEF TakeReport, Holds
<1>7. ASSUME NEW h \in Reporter, SetInReview(h) PROVE LinksMove
  BY <1>7 DEF SetInReview, Answer
<1>8. ASSUME NEW h \in Reporter, ReadCompany(h) PROVE LinksMove
  BY <1>8 DEF ReadCompany, Answer
<1>9. ASSUME NEW h \in Reporter, HoldForReview(h) PROVE LinksMove
  BY <1>9 DEF HoldForReview, Answer
<1>10. ASSUME NEW h \in Reporter, StartKycReview(h) PROVE LinksMove
  BY <1>10 DEF StartKycReview, Answer
<1>11. ASSUME NEW h \in Reporter, Retry(h) PROVE LinksMove
  BY <1>11 DEF Retry, Answer, Insert, Unused
<1>12. ASSUME NEW h \in Deciding, ReadSession(h) PROVE LinksMove
  BY <1>12 DEF ReadSession, Resolve, Answer, Move
<1>13. ASSUME NEW h \in Deciding \cup Updater, Register(h) PROVE LinksMove
  BY <1>13 DEF Register
<1>14. ASSUME NEW h \in Deciding \cup Updater, Unregister(h) PROVE LinksMove
  BY <1>14 DEF Unregister
<1>15. ASSUME NEW h \in Deciding \cup Updater, Undo(h) PROVE LinksMove
  BY <1>15 DEF Undo
<1>16. ASSUME NEW h \in Deciding, SetError(h) PROVE LinksMove
  BY <1>16 DEF SetError
<1>17. ASSUME NEW h \in Deciding, Commit(h) PROVE LinksMove
  BY <1>17 DEF Commit, Outcome
<1>18. ASSUME NEW h \in Deciding, Publish(h) PROVE LinksMove
  BY <1>18 DEF Publish, Resolve, Answer, Outcome
<1>19. ASSUME NEW w \in Worker, NEW s \in Session, Select(w, s) PROVE LinksMove
  BY <1>19 DEF Select, Onward
<1>20. ASSUME NEW w \in Worker, RegisterParticipants(w) PROVE LinksMove
  BY <1>20 DEF RegisterParticipants
<1>21. ASSUME NEW w \in Worker, FileKyc(w) PROVE LinksMove
  BY <1>21 DEF FileKyc
<1>22. ASSUME NEW w \in Worker, SaveActivation(w) PROVE LinksMove
  BY <1>22 DEF SaveActivation
<1>23. ASSUME NEW w \in Worker, CheckActivation(w) PROVE LinksMove
  BY <1>23 DEF CheckActivation
<1>24. ASSUME NEW w \in Worker, SyncCapabilities(w) PROVE LinksMove
  BY <1>24 DEF SyncCapabilities
<1>25. ASSUME NEW w \in Worker, Reload(w) PROVE LinksMove
  BY <1>25 DEF Reload
<1>26. ASSUME NEW w \in Worker, Notify(w) PROVE LinksMove
  BY <1>26 DEF Notify
<1>27. ASSUME NEW w \in Worker, SavePhase(w) PROVE LinksMove
  BY <1>27 DEF SavePhase
<1>28. ASSUME NEW w \in Worker, RetryLater(w) PROVE LinksMove
  BY <1>28 DEF RetryLater
<1>29. ASSUME NEW w \in Worker, NEW s \in Session, GiveUp(w, s) PROVE LinksMove
  BY <1>29 DEF GiveUp
<1>30. ASSUME NEW w \in Worker, StepFails(w) PROVE LinksMove
  BY <1>30 DEF StepFails
<1>31. ASSUME NEW s \in Session, Resume(s) PROVE LinksMove
  BY <1>31 DEF Resume
<1>32. ASSUME NEW d \in Direct, TakeContract(d) PROVE LinksMove
  BY <1>32 DEF TakeContract, Again
<1>33. ASSUME NEW d \in Direct, InsertContract(d) PROVE LinksMove
  BY <1>33 DEF InsertContract, Insert, Unused
<1>34. ASSUME NEW u \in Updater, NEW change \in Change, ReadForUpdate(u, change) PROVE LinksMove
  BY <1>34 DEF ReadForUpdate, Again
<1>35. ASSUME NEW u \in Updater, WriteCompany(u) PROVE LinksMove
  BY <1>35 DEF WriteCompany, Edit
<1>36. ASSUME NEW u \in Updater, CheckFree(u) PROVE LinksMove
  BY <1>36 DEF CheckFree
<1>37. ASSUME NEW u \in Updater, Restore(u) PROVE LinksMove
  BY <1>37 DEF Restore
<1>38. ASSUME NEW u \in Updater, FinishUpdate(u) PROVE LinksMove
  BY <1>38 DEF FinishUpdate
<1>39. ASSUME NEW u \in Updater, MoveCountry(u) PROVE LinksMove
  BY <1>39 DEF MoveCountry
<1>40. ASSUME NEW h \in Handler, Crash(h) PROVE LinksMove
  BY <1>40 DEF Crash
<1>41. CASE UNCHANGED vars
  BY <1>41 DEF vars
<1> QED
  BY <1>1, <1>2, <1>3, <1>4, <1>5, <1>6, <1>7, <1>8, <1>9, <1>10, <1>11, <1>12,
     <1>13, <1>14, <1>15, <1>16, <1>17, <1>18, <1>19, <1>20, <1>21, <1>22, <1>23,
     <1>24, <1>25, <1>26, <1>27, <1>28, <1>29, <1>30, <1>31, <1>32, <1>33, <1>34,
     <1>35, <1>36, <1>37, <1>38, <1>39, <1>40, <1>41
  DEF Next, ReportStep, WorkerStep, DirectStep, FormStep, UpdateStep, FinalizeStep, Change

\* A handler that moves knows what its move made of the session.
MoversDecide == \A h \in Locking : at'[h] = at[h] \/ Decided(h)'

LEMMA MoversStep ==
    ASSUME VerificationTypes, LocksInv, DecidedInv, [Next]_vars PROVE MoversDecide
<1> USE VerificationAssumption, IdleState
    DEF VerificationTypes, TypeOK, PlacedInv, Handler, Locking, Deciding, sessions, HandlerState,
        Go, Leave, MoversDecide, DecidedInv, Decided, Undecided, Open, Final, Outcome
<1>1. ASSUME NEW s \in Session, StartSession(s) PROVE MoversDecide
  BY <1>1 DEF StartSession, Insert, Unused, Current
<1>2. ASSUME NEW f \in Form, NEW s \in Session, LoadForm(f, s) PROVE MoversDecide
  BY <1>2 DEF LoadForm, Again
<1>3. ASSUME NEW f \in Form, ClaimForm(f) PROVE MoversDecide
  BY <1>3 DEF ClaimForm
<1>4. ASSUME NEW f \in Form, StartCheck(f) PROVE MoversDecide
  BY <1>4 DEF StartCheck
<1>5. ASSUME NEW s \in Session, NEW o \in Report, Decide(s, o) PROVE MoversDecide
  BY <1>5 DEF Decide
<1>6. ASSUME NEW h \in Reporter, NEW s \in Session, NEW o \in Report, TakeReport(h, s, o) PROVE MoversDecide
  <2> DEFINE taken == [Idle EXCEPT !.on = s, !.goal = o,
                          !.pc = IF o = "In Review" THEN "review" ELSE "company"]
  <2>1. /\ status' = status /\ linked' = linked
        /\ \/ at' = at
           \/ status[s] \in Undecided /\ at' = [at EXCEPT ![h] = taken]
    BY <1>6 DEF TakeReport, Status
  <2>2. taken.on = s /\ taken.pc \in {"review", "company"}
    BY DEF Idle
  <2> HIDE DEF taken
  <2> QED
    BY <2>1, <2>2
<1>7. ASSUME NEW h \in Reporter, SetInReview(h) PROVE MoversDecide
  BY <1>7 DEF SetInReview, Answer
<1>8. ASSUME NEW h \in Reporter, ReadCompany(h) PROVE MoversDecide
  BY <1>8 DEF ReadCompany, Answer
<1>9. ASSUME NEW h \in Reporter, HoldForReview(h) PROVE MoversDecide
  BY <1>9 DEF HoldForReview, Answer
<1>10. ASSUME NEW h \in Reporter, StartKycReview(h) PROVE MoversDecide
  BY <1>10 DEF StartKycReview, Answer
<1>11. ASSUME NEW h \in Reporter, Retry(h) PROVE MoversDecide
  BY <1>11 DEF Retry, Answer, Insert, Unused
<1>12. ASSUME NEW h \in Deciding, ReadSession(h) PROVE MoversDecide
  <2>1. /\ status' = status /\ linked' = linked
        /\ \A g \in Handler : g # h => at'[g] = at[g]
    BY <1>12 DEF ReadSession, Resolve, Answer
  <2>2. CASE status[at[h].on] \in Final /\ h \in Locking
    <3>1. at'[h] = Idle \/ (at'[h].on = at[h].on
              /\ at'[h].pc \in {"retry", "block"} \cup
                   {r \in {"notify"} : status[at[h].on] = "verified"})
      BY <1>12, <2>2 DEF ReadSession, Resolve, Answer
    <3> QED
      BY <2>1, <3>1
  <2>3. CASE status[at[h].on] \notin Final /\ h \in Locking
    <3>1. status[at[h].on] \in Undecided
      BY <1>12, <2>3 DEF Status, ReadSession
    <3>2. Move(h) \in {"register", "unregister", "commit"}
      BY DEF Move
    <3>3. at'[h].on = at[h].on /\ at'[h].pc = Move(h)
      BY <1>12, <2>3 DEF ReadSession
    <3> QED
      BY <2>1, <3>1, <3>2, <3>3
  <2> QED
    BY <2>1, <2>2, <2>3
<1>13. ASSUME NEW h \in Deciding \cup Updater, Register(h) PROVE MoversDecide
  BY <1>13 DEF Register
<1>14. ASSUME NEW h \in Deciding \cup Updater, Unregister(h) PROVE MoversDecide
  BY <1>14 DEF Unregister
<1>15. ASSUME NEW h \in Deciding \cup Updater, Undo(h) PROVE MoversDecide
  BY <1>15 DEF Undo
<1>16. ASSUME NEW h \in Deciding, SetError(h) PROVE MoversDecide
  BY <1>16 DEF SetError
<1>17. ASSUME NEW h \in Deciding, Commit(h) PROVE MoversDecide
  BY <1>17 DEF Commit, Outcome
<1>18. ASSUME NEW h \in Deciding, Publish(h) PROVE MoversDecide
  BY <1>18 DEF Publish, Resolve, Answer, Outcome
<1>19. ASSUME NEW w \in Worker, NEW s \in Session, Select(w, s) PROVE MoversDecide
  BY <1>19 DEF Select, Onward
<1>20. ASSUME NEW w \in Worker, RegisterParticipants(w) PROVE MoversDecide
  BY <1>20 DEF RegisterParticipants
<1>21. ASSUME NEW w \in Worker, FileKyc(w) PROVE MoversDecide
  BY <1>21 DEF FileKyc
<1>22. ASSUME NEW w \in Worker, SaveActivation(w) PROVE MoversDecide
  BY <1>22 DEF SaveActivation
<1>23. ASSUME NEW w \in Worker, CheckActivation(w) PROVE MoversDecide
  BY <1>23 DEF CheckActivation
<1>24. ASSUME NEW w \in Worker, SyncCapabilities(w) PROVE MoversDecide
  BY <1>24 DEF SyncCapabilities
<1>25. ASSUME NEW w \in Worker, Reload(w) PROVE MoversDecide
  BY <1>25 DEF Reload
<1>26. ASSUME NEW w \in Worker, Notify(w) PROVE MoversDecide
  BY <1>26 DEF Notify
<1>27. ASSUME NEW w \in Worker, SavePhase(w) PROVE MoversDecide
  BY <1>27 DEF SavePhase
<1>28. ASSUME NEW w \in Worker, RetryLater(w) PROVE MoversDecide
  BY <1>28 DEF RetryLater
<1>29. ASSUME NEW w \in Worker, NEW s \in Session, GiveUp(w, s) PROVE MoversDecide
  BY <1>29 DEF GiveUp
<1>30. ASSUME NEW w \in Worker, StepFails(w) PROVE MoversDecide
  BY <1>30 DEF StepFails
<1>31. ASSUME NEW s \in Session, Resume(s) PROVE MoversDecide
  BY <1>31 DEF Resume
<1>32. ASSUME NEW d \in Direct, TakeContract(d) PROVE MoversDecide
  BY <1>32 DEF TakeContract, Again
<1>33. ASSUME NEW d \in Direct, InsertContract(d) PROVE MoversDecide
  BY <1>33 DEF InsertContract, Insert, Unused
<1>34. ASSUME NEW u \in Updater, NEW change \in Change, ReadForUpdate(u, change) PROVE MoversDecide
  BY <1>34 DEF ReadForUpdate, Again
<1>35. ASSUME NEW u \in Updater, WriteCompany(u) PROVE MoversDecide
  <2>1. \A g \in Handler : g # u => at'[g] = at[g]
    BY <1>35 DEF WriteCompany
  <2> QED
    BY <2>1
<1>36. ASSUME NEW u \in Updater, CheckFree(u) PROVE MoversDecide
  BY <1>36 DEF CheckFree
<1>37. ASSUME NEW u \in Updater, Restore(u) PROVE MoversDecide
  BY <1>37 DEF Restore
<1>38. ASSUME NEW u \in Updater, FinishUpdate(u) PROVE MoversDecide
  BY <1>38 DEF FinishUpdate
<1>39. ASSUME NEW u \in Updater, MoveCountry(u) PROVE MoversDecide
  BY <1>39 DEF MoveCountry
<1>40. ASSUME NEW h \in Handler, Crash(h) PROVE MoversDecide
  BY <1>40 DEF Crash
<1>41. CASE UNCHANGED vars
  BY <1>41 DEF vars
<1> HIDE DEF MoversDecide, DecidedInv, Decided, TypeOK, PlacedInv
<1> QED
  BY <1>1, <1>2, <1>3, <1>4, <1>5, <1>6, <1>7, <1>8, <1>9, <1>10, <1>11, <1>12,
     <1>13, <1>14, <1>15, <1>16, <1>17, <1>18, <1>19, <1>20, <1>21, <1>22, <1>23,
     <1>24, <1>25, <1>26, <1>27, <1>28, <1>29, <1>30, <1>31, <1>32, <1>33, <1>34,
     <1>35, <1>36, <1>37, <1>38, <1>39, <1>40, <1>41
  DEF Next, ReportStep, WorkerStep, DirectStep, FormStep, UpdateStep, FinalizeStep, Change

LEMMA DecidedNext ==
    ASSUME VerificationTypes, LocksInv, DecidedInv, [Next]_vars PROVE DecidedInv'
<1>1. Kept /\ LinksMove /\ MoversDecide
  BY KeptStep, StatusStep, MoversStep
<1>2. SUFFICES ASSUME NEW g \in Locking, at'[g] = at[g], at[g].pc # "idle",
                      at[g].on \in Session, linked'[at[g].on]
               PROVE  Decided(g)'
  BY <1>1 DEF DecidedInv, MoversDecide, Decided
<1>3. status[at[g].on] # "none" /\ linked[at[g].on]
  BY <1>1, <1>2 DEF VerificationTypes, PlacedInv, Kept
<1>4. \/ status'[at[g].on] = status[at[g].on]
      \/ status[at[g].on] \in Undecided /\ status'[at[g].on] \in Undecided
  BY <1>1, <1>2, <1>3 DEF LinksMove, StatusMoves, LocksInv
<1>5. Decided(g)
  BY DEF DecidedInv
<1>6. Outcome(g)' = Outcome(g) /\ Outcome(g) \in {"verified", "rejected"}
  BY <1>2 DEF Outcome
<1>7. {"verified", "rejected", "error"} \cap Undecided = {}
  BY DEF Undecided, Open
<1> QED
  BY <1>2, <1>3, <1>4, <1>5, <1>6, <1>7 DEF Decided

\* Integrations were told what became of the session.
ToldInv == \A s \in Session, p \in {"verified", "rejected", "error"} :
    <<s, p>> \in told => status[s] # "none" /\ (linked[s] => status[s] = p)

\* Only what is published under a decision is told.
Tells == \A s \in Session, p \in {"verified", "rejected", "error"} :
    <<s, p>> \in told' \ told =>
        /\ status[s] # "none" /\ status' = status /\ linked' = linked
        /\ linked[s] => status[s] = p

LEMMA TellsStep == ASSUME VerificationTypes, DecidedInv, [Next]_vars PROVE Tells
<1> USE VerificationAssumption
    DEF VerificationTypes, TypeOK, PlacedInv, Handler, Locking, Deciding, sessions, HandlerState,
        Go, Leave, Tells, DecidedInv, Decided
<1>1. ASSUME NEW s \in Session, StartSession(s) PROVE Tells
  BY <1>1 DEF StartSession, Insert, Unused, Current
<1>2. ASSUME NEW f \in Form, NEW s \in Session, LoadForm(f, s) PROVE Tells
  BY <1>2 DEF LoadForm, Again
<1>3. ASSUME NEW f \in Form, ClaimForm(f) PROVE Tells
  BY <1>3 DEF ClaimForm
<1>4. ASSUME NEW f \in Form, StartCheck(f) PROVE Tells
  BY <1>4 DEF StartCheck
<1>5. ASSUME NEW s \in Session, NEW o \in Report, Decide(s, o) PROVE Tells
  BY <1>5 DEF Decide
<1>6. ASSUME NEW h \in Reporter, NEW s \in Session, NEW o \in Report, TakeReport(h, s, o) PROVE Tells
  BY <1>6 DEF TakeReport, Holds
<1>7. ASSUME NEW h \in Reporter, SetInReview(h) PROVE Tells
  BY <1>7 DEF SetInReview, Answer
<1>8. ASSUME NEW h \in Reporter, ReadCompany(h) PROVE Tells
  BY <1>8 DEF ReadCompany, Answer
<1>9. ASSUME NEW h \in Reporter, HoldForReview(h) PROVE Tells
  BY <1>9 DEF HoldForReview, Answer
<1>10. ASSUME NEW h \in Reporter, StartKycReview(h) PROVE Tells
  BY <1>10 DEF StartKycReview, Answer
<1>11. ASSUME NEW h \in Reporter, Retry(h) PROVE Tells
  BY <1>11 DEF Retry, Answer, Insert, Unused
<1>12. ASSUME NEW h \in Deciding, ReadSession(h) PROVE Tells
  BY <1>12 DEF ReadSession, Resolve, Answer, Move
<1>13. ASSUME NEW h \in Deciding \cup Updater, Register(h) PROVE Tells
  BY <1>13 DEF Register
<1>14. ASSUME NEW h \in Deciding \cup Updater, Unregister(h) PROVE Tells
  BY <1>14 DEF Unregister
<1>15. ASSUME NEW h \in Deciding \cup Updater, Undo(h) PROVE Tells
  BY <1>15 DEF Undo
<1>16. ASSUME NEW h \in Deciding, SetError(h) PROVE Tells
  BY <1>16 DEF SetError
<1>17. ASSUME NEW h \in Deciding, Commit(h) PROVE Tells
  BY <1>17 DEF Commit, Outcome
<1>18. ASSUME NEW h \in Deciding, Publish(h) PROVE Tells
  BY <1>18 DEF Publish, Resolve, Answer, Outcome
<1>19. ASSUME NEW w \in Worker, NEW s \in Session, Select(w, s) PROVE Tells
  BY <1>19 DEF Select, Onward
<1>20. ASSUME NEW w \in Worker, RegisterParticipants(w) PROVE Tells
  BY <1>20 DEF RegisterParticipants
<1>21. ASSUME NEW w \in Worker, FileKyc(w) PROVE Tells
  BY <1>21 DEF FileKyc
<1>22. ASSUME NEW w \in Worker, SaveActivation(w) PROVE Tells
  BY <1>22 DEF SaveActivation
<1>23. ASSUME NEW w \in Worker, CheckActivation(w) PROVE Tells
  BY <1>23 DEF CheckActivation
<1>24. ASSUME NEW w \in Worker, SyncCapabilities(w) PROVE Tells
  BY <1>24 DEF SyncCapabilities
<1>25. ASSUME NEW w \in Worker, Reload(w) PROVE Tells
  BY <1>25 DEF Reload
<1>26. ASSUME NEW w \in Worker, Notify(w) PROVE Tells
  BY <1>26 DEF Notify
<1>27. ASSUME NEW w \in Worker, SavePhase(w) PROVE Tells
  BY <1>27 DEF SavePhase
<1>28. ASSUME NEW w \in Worker, RetryLater(w) PROVE Tells
  BY <1>28 DEF RetryLater
<1>29. ASSUME NEW w \in Worker, NEW s \in Session, GiveUp(w, s) PROVE Tells
  BY <1>29 DEF GiveUp
<1>30. ASSUME NEW w \in Worker, StepFails(w) PROVE Tells
  BY <1>30 DEF StepFails
<1>31. ASSUME NEW s \in Session, Resume(s) PROVE Tells
  BY <1>31 DEF Resume
<1>32. ASSUME NEW d \in Direct, TakeContract(d) PROVE Tells
  BY <1>32 DEF TakeContract, Again
<1>33. ASSUME NEW d \in Direct, InsertContract(d) PROVE Tells
  BY <1>33 DEF InsertContract, Insert, Unused
<1>34. ASSUME NEW u \in Updater, NEW change \in Change, ReadForUpdate(u, change) PROVE Tells
  BY <1>34 DEF ReadForUpdate, Again
<1>35. ASSUME NEW u \in Updater, WriteCompany(u) PROVE Tells
  BY <1>35 DEF WriteCompany, Edit
<1>36. ASSUME NEW u \in Updater, CheckFree(u) PROVE Tells
  BY <1>36 DEF CheckFree
<1>37. ASSUME NEW u \in Updater, Restore(u) PROVE Tells
  BY <1>37 DEF Restore
<1>38. ASSUME NEW u \in Updater, FinishUpdate(u) PROVE Tells
  BY <1>38 DEF FinishUpdate
<1>39. ASSUME NEW u \in Updater, MoveCountry(u) PROVE Tells
  BY <1>39 DEF MoveCountry
<1>40. ASSUME NEW h \in Handler, Crash(h) PROVE Tells
  BY <1>40 DEF Crash
<1>41. CASE UNCHANGED vars
  BY <1>41 DEF vars
<1> HIDE DEF Tells, DecidedInv, Decided, TypeOK, PlacedInv
<1> QED
  BY <1>1, <1>2, <1>3, <1>4, <1>5, <1>6, <1>7, <1>8, <1>9, <1>10, <1>11, <1>12,
     <1>13, <1>14, <1>15, <1>16, <1>17, <1>18, <1>19, <1>20, <1>21, <1>22, <1>23,
     <1>24, <1>25, <1>26, <1>27, <1>28, <1>29, <1>30, <1>31, <1>32, <1>33, <1>34,
     <1>35, <1>36, <1>37, <1>38, <1>39, <1>40, <1>41
  DEF Next, ReportStep, WorkerStep, DirectStep, FormStep, UpdateStep, FinalizeStep, Change

LEMMA ToldNext ==
    ASSUME VerificationTypes, DecidedInv, ToldInv, [Next]_vars PROVE ToldInv'
<1>1. Kept /\ LinksMove /\ Tells
  BY KeptStep, StatusStep, TellsStep
<1>2. SUFFICES ASSUME NEW s \in Session, NEW p \in {"verified", "rejected", "error"},
                      <<s, p>> \in told'
               PROVE  status'[s] # "none" /\ (linked'[s] => status'[s] = p)
  BY DEF ToldInv
<1>3. CASE <<s, p>> \in told
  <2>1. status[s] # "none" /\ (linked[s] => status[s] = p)
    BY <1>3 DEF ToldInv
  <2>2. p \notin Undecided
    BY DEF Undecided, Open
  <2> QED
    BY <1>1, <2>1, <2>2 DEF Kept, LinksMove, StatusMoves
<1>4. CASE <<s, p>> \notin told
  BY <1>1, <1>2, <1>4 DEF Tells
<1> QED
  BY <1>3, <1>4

----------------------------------------------------------------------------
LEMMA DecidedInit == Init => DecidedInv /\ ToldInv
<1> SUFFICES ASSUME Init PROVE DecidedInv /\ ToldInv
  OBVIOUS
<1>1. \A h \in Handler : at[h].pc = "idle"
  BY IdleState DEF Init
<1>2. DecidedInv
  BY <1>1 DEF DecidedInv, Decided, Locking, Handler
<1>3. ToldInv
  BY DEF Init, ToldInv
<1> QED
  BY <1>2, <1>3

VerificationInv == VerificationTypes /\ LocksInv /\ DecidedInv /\ ToldInv

LEMMA VerificationInductive ==
    /\ Init => VerificationInv
    /\ VerificationInv /\ [Next]_vars => VerificationInv'
BY TypesInit, TypesNext, DecidedInit, DecidedNext, ToldNext DEF VerificationInv

LEMMA VerificationInvHolds == Spec => []VerificationInv
BY VerificationInductive, PTL DEF Spec

\* What was decided of a link's session is kept, whatever reports, workers, contracts and
\* updates do at the same time (TakeReport's and ReadSession's tests under the lock).
THEOREM DecisionIsKept == Spec => DecisionKept
<1> DEFINE Same == \A s \in Session :
              linked[s] /\ status[s] \in Final \ {"revoked"} => status'[s] = status[s]
<1>1. ASSUME VerificationInv, [Next]_vars PROVE Same
  <2>1. LinksMove
    BY <1>1, StatusStep DEF VerificationInv
  <2>2. \A s \in Session : status[s] \in Final \ {"revoked"} =>
            status[s] # "none" /\ status[s] \notin Undecided
    BY DEF Final, Undecided, Open
  <2> QED
    BY <2>1, <2>2 DEF LinksMove, StatusMoves
<1>2. VerificationInv /\ [Next]_vars => [Same]_vars
  BY <1>1
<1> QED
  BY VerificationInvHolds, <1>2, PTL DEF Spec, DecisionKept

\* Integrations are told one outcome of a link's session, for any number of reports,
\* attempts and crashes (Publish and Notify repeat what was decided).
THEOREM OneOutcomeIsTold == Spec => []OneOutcomeTold
<1>1. ASSUME VerificationInv PROVE OneOutcomeTold
  <2> SUFFICES ASSUME NEW s \in Session, NEW p \in Final, NEW q \in Final,
                      linked[s], <<s, p>> \in told, <<s, q>> \in told
               PROVE  p = q
    BY DEF OneOutcomeTold
  <2>1. {p, q} \subseteq {"verified", "rejected", "error"}
    BY <1>1 DEF VerificationInv, VerificationTypes, TypeOK
  <2>2. status[s] = p /\ status[s] = q
    BY <1>1, <2>1 DEF VerificationInv, ToldInv
  <2> QED
    BY <2>2
<1> QED
  BY VerificationInvHolds, <1>1, PTL

----------------------------------------------------------------------------
(* A French company is verified only under its mandate.  The report of an    *)
(* identity check decides by the country the company has then, the worker by *)
(* the phase; both bind the session because a company with a submitted form   *)
(* does not change country any more.  An update that fails writes the whole   *)
(* row back, its country included, so that two overlapping updates may undo   *)
(* a change of country: the argument is for updates made one at a time.       *)

OneUpdate == \A u, v \in Updater : Busy(u) /\ Busy(v) => u = v

\* Links that were handed out, and sessions whose form was submitted, are about the
\* country the company is in; so is an update that may write the row back.
CountryInv ==
    /\ \A s \in Session : status[s] = "opened" \/ signed[s] =>
           details[s].country = company.country
    /\ \A u \in Updater : at[u].pc \notin {"idle", "move"} =>
           at[u].saw.country = company.country

\* No identity check, and none of its reports, comes before the form.
SignedInv ==
    /\ \A s \in Session : status[s] = "idVerificationRequested" \/ check[s] # "none" =>
           signed[s]
    /\ \A s \in Session, o \in Report : <<s, o>> \in due => signed[s]
    /\ \A f \in Form : at[f].pc = "start" => signed[at[f].on]
    /\ \A h \in Reporter : at[h].pc # "idle" => signed[at[h].on]

Finalizing  == {"finalize", "register", "unregister", "commit"}
AfterFiling == {"filed", "activation", "sync", "reload"} \cup Finalizing

\* The worker goes on to activate and finalize only what was filed, and a report
\* finalizes only what is not for the worker.
FiledInv ==
    /\ \A s \in Session : phase[s] = "activation" => s \in kyc
    /\ \A w \in Worker : at[w].pc \in AfterFiling => at[w].on \in kyc
    /\ \A h \in Reporter : at[h].pc \in Finalizing /\ at[h].goal \in Positive =>
          details[at[h].on].country # "FR"
    /\ FrenchIsFiled

\* Every step but a change of country: the country stays, what is handed out or signed
\* is about it, and updates read it.
Steady ==
    /\ company'.country = company.country
    /\ \A s \in Session :
          /\ details'[s] = details[s] \/ details'[s].country = company.country
          /\ status'[s] = "opened" =>
                status[s] = "opened" \/ details'[s].country = company.country
          /\ signed'[s] => signed[s] \/ status[s] = "opened"
    /\ \A u \in Updater :
          \/ at'[u].pc \in {"idle", "move"} \/ at'[u].saw.country = company.country
          \/ at[u].pc \notin {"idle", "move"} /\ at'[u].saw = at[u].saw
          \/ at'[u] = at[u]

\* A step that leaves company and sessions alone, and no update moves.
LEMMA SteadyElsewhere ==
    ASSUME UNCHANGED <<company, details, signed>>, \A u \in Updater : at'[u] = at[u],
           \A s \in Session : status'[s] = "opened" => status[s] = "opened"
    PROVE  Steady
BY DEF Steady

LEMMA SteadyStep ==
    ASSUME VerificationTypes, CountryInv, [Next]_vars
    PROVE  Steady \/ \E u \in Updater : MoveCountry(u)
<1> USE VerificationAssumption, IdleState
    DEF VerificationTypes, TypeOK, Handler, Locking, Deciding, sessions, HandlerState, Go, Leave
<1>1. ASSUME NEW s \in Session, StartSession(s) PROVE Steady
  BY <1>1 DEF Steady, StartSession, Insert, Details
<1>2. ASSUME NEW f \in Form, NEW s \in Session, LoadForm(f, s) PROVE Steady
  BY <1>2, SteadyElsewhere DEF LoadForm
<1>3. ASSUME NEW f \in Form, ClaimForm(f) PROVE Steady
  BY <1>3 DEF Steady, ClaimForm
<1>4. ASSUME NEW f \in Form, StartCheck(f) PROVE Steady
  BY <1>4, SteadyElsewhere DEF StartCheck
<1>5. ASSUME NEW s \in Session, Resume(s) \/ \E o \in Report : Decide(s, o) PROVE Steady
  BY <1>5, SteadyElsewhere DEF Resume, Decide
<1>6. ASSUME NEW h \in Reporter, NEW s \in Session, NEW o \in Report, TakeReport(h, s, o)
      PROVE  Steady
  BY <1>6, SteadyElsewhere DEF TakeReport
<1>7. ASSUME NEW h \in Reporter, SetInReview(h) \/ HoldForReview(h) PROVE Steady
  BY <1>7, SteadyElsewhere DEF SetInReview, HoldForReview, Answer
<1>8. ASSUME NEW h \in Reporter, ReadCompany(h) PROVE Steady
  BY <1>8, SteadyElsewhere DEF ReadCompany, Answer
<1>9. ASSUME NEW h \in Reporter, StartKycReview(h) PROVE Steady
  BY <1>9, SteadyElsewhere DEF StartKycReview, Answer
<1>10. ASSUME NEW h \in Reporter, Retry(h) PROVE Steady
  <2>1. UNCHANGED <<company, signed>> /\ \A u \in Updater : at'[u] = at[u]
    BY <1>10 DEF Retry, Answer
  <2>2. (\E s \in Unused : Insert(s, TRUE)) \/ UNCHANGED <<status, details, linked>>
    BY <1>10 DEF Retry
  <2> QED
    BY <2>1, <2>2 DEF Steady, Insert, Details
<1>11. ASSUME NEW h \in Deciding, ReadSession(h) PROVE Steady
  BY <1>11, SteadyElsewhere DEF ReadSession, Resolve, Answer
<1>12. ASSUME NEW h \in Deciding \cup Updater, Register(h) \/ Unregister(h) \/ Undo(h)
       PROVE  Steady
  <2>1. UNCHANGED <<company, sessions>> /\ at[h].pc \notin {"idle", "move"}
    BY <1>12 DEF Register, Unregister, Undo
  <2>2. at'[h] = Idle \/ at'[h].saw = at[h].saw
    BY <1>12 DEF Register, Unregister, Undo
  <2>3. \A u \in Handler : u # h => at'[u] = at[u]
    BY <1>12 DEF Register, Unregister, Undo
  <2> QED
    BY <2>1, <2>2, <2>3 DEF Steady
<1>13. ASSUME NEW h \in Deciding, SetError(h) PROVE Steady
  BY <1>13, SteadyElsewhere DEF SetError
<1>14. ASSUME NEW h \in Deciding, Commit(h) PROVE Steady
  BY <1>14 DEF Steady, Commit, Outcome, Company
<1>15. ASSUME NEW h \in Deciding, Publish(h) PROVE Steady
  BY <1>15, SteadyElsewhere DEF Publish, Resolve, Answer
<1>16. ASSUME NEW w \in Worker, NEW s \in Session, Select(w, s) \/ GiveUp(w, s) PROVE Steady
  BY <1>16, SteadyElsewhere DEF Select, GiveUp
<1>17. ASSUME NEW w \in Worker,
              RegisterParticipants(w) \/ FileKyc(w) \/ SaveActivation(w) \/ CheckActivation(w)
       PROVE  Steady
  BY <1>17, SteadyElsewhere DEF RegisterParticipants, FileKyc, SaveActivation, CheckActivation
<1>18. ASSUME NEW w \in Worker,
              SyncCapabilities(w) \/ Reload(w) \/ Notify(w) \/ SavePhase(w) \/ RetryLater(w)
       PROVE  Steady
  BY <1>18, SteadyElsewhere DEF SyncCapabilities, Reload, Notify, SavePhase, RetryLater
<1>19. ASSUME NEW w \in Worker, StepFails(w) PROVE Steady
  BY <1>19, SteadyElsewhere DEF StepFails
<1>20. ASSUME NEW d \in Direct, TakeContract(d) PROVE Steady
  BY <1>20, SteadyElsewhere DEF TakeContract
<1>21. ASSUME NEW d \in Direct, InsertContract(d) PROVE Steady
  <2>1. UNCHANGED <<company, signed>> /\ \A u \in Updater : at'[u] = at[u]
    BY <1>21 DEF InsertContract
  <2>2. (\E s \in Unused : Insert(s, FALSE)) \/ UNCHANGED <<status, details, linked>>
    BY <1>21 DEF InsertContract
  <2> QED
    BY <2>1, <2>2 DEF Steady, Insert, Details
<1>22. ASSUME NEW u \in Updater, NEW change \in Change, ReadForUpdate(u, change) PROVE Steady
  <2>1. UNCHANGED <<company, sessions>> /\ \A v \in Updater : v # u => at'[v] = at[v]
    BY <1>22 DEF ReadForUpdate
  <2>2. at'[u].saw = company
    BY <1>22 DEF ReadForUpdate, Idle
  <2> QED
    BY <2>1, <2>2 DEF Steady
<1>23. ASSUME NEW u \in Updater, WriteCompany(u) PROVE Steady
  <2>1. company'.country = company.country /\ UNCHANGED sessions /\ at[u].pc = "write"
    BY <1>23 DEF WriteCompany, Company
  <2>2. PICK move : at' = [at EXCEPT ![u].pc = move, ![u].move = move]
    BY <1>23 DEF WriteCompany
  <2>3. at'[u].saw = at[u].saw /\ \A v \in Updater : v # u => at'[v] = at[v]
    BY <2>2
  <2> QED
    BY <2>1, <2>3 DEF Steady
<1>24. ASSUME NEW u \in Updater, CheckFree(u) \/ FinishUpdate(u) PROVE Steady
  <2>1. UNCHANGED <<company, details, signed>> /\ at[u].pc \notin {"idle", "move"}
    BY <1>24 DEF CheckFree, FinishUpdate
  <2>2. \A s \in Session : status'[s] = "opened" => status[s] = "opened"
    BY <1>24 DEF CheckFree, FinishUpdate
  <2>3. (at'[u] = Idle \/ at'[u].saw = at[u].saw) /\ \A v \in Updater : v # u => at'[v] = at[v]
    BY <1>24 DEF CheckFree, FinishUpdate
  <2> QED
    BY <2>1, <2>2, <2>3 DEF Steady
<1>25. ASSUME NEW u \in Updater, Restore(u) PROVE Steady
  <2>1. company' = at[u].saw /\ at[u].saw.country = company.country
    BY <1>25 DEF Restore, CountryInv
  <2>2. UNCHANGED sessions /\ at'[u] = Idle /\ \A v \in Updater : v # u => at'[v] = at[v]
    BY <1>25 DEF Restore
  <2> QED
    BY <2>1, <2>2 DEF Steady
<1>26. ASSUME NEW h \in Handler, Crash(h) PROVE Steady
  BY <1>26 DEF Steady, Crash
<1>27. CASE UNCHANGED vars
  BY <1>27 DEF Steady, vars
<1> HIDE DEF Steady, TypeOK
<1> QED
  BY <1>1, <1>2, <1>3, <1>4, <1>5, <1>6, <1>7, <1>8, <1>9, <1>10, <1>11, <1>12,
     <1>13, <1>14, <1>15, <1>16, <1>17, <1>18, <1>19, <1>20, <1>21, <1>22, <1>23,
     <1>24, <1>25, <1>26, <1>27
  DEF Next, ReportStep, WorkerStep, DirectStep, FormStep, UpdateStep, FinalizeStep

\* A change of country takes the links along, and finds no session with a form; no other
\* update is at work to write the old country back.
LEMMA CountryNext ==
    ASSUME VerificationTypes, CountryInv, OneUpdate, [Next]_vars PROVE CountryInv'
<1>1. CASE Steady
  BY <1>1 DEF Steady, CountryInv
<1>2. ASSUME NEW u \in Updater, MoveCountry(u) PROVE CountryInv'
  <2>1. /\ at[u].pc = "move" /\ at'[u] = Idle /\ UNCHANGED <<status, signed>>
        /\ \A v \in Updater : v # u => at'[v] = at[v]
    BY <1>2 DEF MoveCountry, Leave, VerificationTypes, TypeOK, Handler
  <2>2. \A v \in Updater : at'[v].pc = "idle"
    BY <2>1, IdleState DEF OneUpdate, Busy
  <2>3. \/ UNCHANGED <<company, details>>
        \/ /\ \A s \in Session : ~signed[s]
           /\ \A s \in Session : status[s] = "opened" => details'[s].country = company'.country
    <3>1. CASE UNCHANGED <<company, details>>
      BY <3>1
    <3>2. CASE /\ \A s \in Session : ~Started(s)
               /\ details' = [s \in Session |->
                     IF status[s] = "opened" THEN Details(company') ELSE details[s]]
      <4>1. Details(company').country = company'.country
        BY DEF Details
      <4> QED
        BY <3>2, <4>1 DEF Started
    <3> QED
      BY <1>2, <3>1, <3>2 DEF MoveCountry
  <2> QED
    BY <2>1, <2>2, <2>3 DEF CountryInv
<1> QED
  BY <1>1, <1>2, SteadyStep

\* Forms, checks and reports of sessions that were signed stay so.
LEMMA SignedElsewhere ==
    ASSUME SignedInv, UNCHANGED <<signed, check>>, due' \subseteq due,
           \A s \in Session : status'[s] = "idVerificationRequested" =>
               status[s] = "idVerificationRequested",
           \A f \in Form : at'[f] = at[f] \/ at'[f].pc # "start",
           \A h \in Reporter :
               \/ at'[h] = at[h] \/ at'[h].pc = "idle"
               \/ at[h].pc # "idle" /\ at'[h].on = at[h].on
    PROVE  SignedInv'
BY DEF SignedInv

LEMMA SignedNext ==
    ASSUME VerificationTypes, SignedInv, [Next]_vars PROVE SignedInv'
<1> USE VerificationAssumption, IdleState
    DEF VerificationTypes, TypeOK, Handler, Locking, Deciding, sessions, reports, HandlerState,
        Go, Leave
<1>1. ASSUME NEW s \in Session, StartSession(s) PROVE SignedInv'
  BY <1>1, SignedElsewhere DEF StartSession, Insert
<1>2. ASSUME NEW f \in Form, NEW s \in Session, LoadForm(f, s) PROVE SignedInv'
  <2>1. /\ at'[f].on = s /\ \A h \in Handler : h # f => at'[h] = at[h]
        /\ at'[f].pc = "start" => status[s] = "idVerificationRequested"
    BY <1>2 DEF LoadForm, Idle
  <2> QED
    BY <1>2, <2>1 DEF LoadForm, SignedInv
<1>3. ASSUME NEW f \in Form, ClaimForm(f) PROVE SignedInv'
  <2>1. at[f].on \in Session /\ \A h \in Handler : h # f => at'[h] = at[h]
    BY <1>3 DEF ClaimForm, PlacedInv
  <2>2. CASE /\ status' = [status EXCEPT ![at[f].on] = "idVerificationRequested"]
             /\ signed' = [signed EXCEPT ![at[f].on] = TRUE] /\ Go(f, "start")
    BY <1>3, <2>1, <2>2 DEF ClaimForm, SignedInv
  <2>3. CASE Leave(f) /\ UNCHANGED <<status, signed>>
    BY <1>3, <2>1, <2>3 DEF ClaimForm, SignedInv
  <2> QED
    BY <1>3, <2>2, <2>3 DEF ClaimForm
<1>4. ASSUME NEW f \in Form, StartCheck(f) PROVE SignedInv'
  <2>1. signed[at[f].on] /\ at'[f] = Idle /\ \A h \in Handler : h # f => at'[h] = at[h]
    BY <1>4 DEF StartCheck, SignedInv
  <2> QED
    BY <1>4, <2>1 DEF StartCheck, SignedInv
<1>5. ASSUME NEW s \in Session, NEW o \in Report, Decide(s, o) PROVE SignedInv'
  <2>1. signed[s]
    BY <1>5 DEF Decide, SignedInv
  <2> QED
    BY <1>5, <2>1 DEF Decide, SignedInv
<1>6. ASSUME NEW h \in Reporter, NEW s \in Session, NEW o \in Report, TakeReport(h, s, o)
      PROVE  SignedInv'
  <2> DEFINE taken == [Idle EXCEPT !.on = s, !.goal = o,
                          !.pc = IF o = "In Review" THEN "review" ELSE "company"]
  <2>1. /\ signed[s] /\ due' \subseteq due /\ UNCHANGED <<status, signed, check>>
        /\ at' = at \/ at' = [at EXCEPT ![h] = taken]
    BY <1>6 DEF TakeReport, SignedInv
  <2>2. taken.on = s
    BY DEF Idle
  <2> HIDE DEF taken
  <2>3. \A g \in Handler : at'[g] = at[g] \/ (g = h /\ at'[g].on = s)
    BY <2>1, <2>2
  <2> QED
    BY <2>1, <2>3 DEF SignedInv
<1>7. ASSUME NEW h \in Reporter, SetInReview(h) \/ HoldForReview(h) PROVE SignedInv'
  BY <1>7, SignedElsewhere DEF SetInReview, HoldForReview, Answer
<1>8. ASSUME NEW h \in Reporter, ReadCompany(h) PROVE SignedInv'
  BY <1>8, SignedElsewhere DEF ReadCompany, Answer
<1>9. ASSUME NEW h \in Reporter, StartKycReview(h) PROVE SignedInv'
  BY <1>9, SignedElsewhere DEF StartKycReview, Answer
<1>10. ASSUME NEW h \in Reporter, Retry(h) PROVE SignedInv'
  BY <1>10, SignedElsewhere DEF Retry, Insert, Answer
<1>11. ASSUME NEW h \in Deciding, ReadSession(h) PROVE SignedInv'
  BY <1>11, SignedElsewhere DEF ReadSession, Resolve, Answer
<1>12. ASSUME NEW h \in Deciding \cup Updater, Register(h) \/ Unregister(h) \/ Undo(h)
       PROVE  SignedInv'
  <2>1. UNCHANGED <<sessions, reports>> /\ at[h].pc # "idle"
    BY <1>12 DEF Register, Unregister, Undo
  <2>2. at'[h] = Idle \/ (at'[h].on = at[h].on /\ at'[h].pc # "start")
    BY <1>12 DEF Register, Unregister, Undo
  <2>3. \A u \in Handler : u # h => at'[u] = at[u]
    BY <1>12 DEF Register, Unregister, Undo
  <2> QED
    BY <2>1, <2>2, <2>3, SignedElsewhere
<1>13. ASSUME NEW h \in Deciding, SetError(h) PROVE SignedInv'
  BY <1>13, SignedElsewhere DEF SetError
<1>14. ASSUME NEW h \in Deciding, Commit(h) PROVE SignedInv'
  BY <1>14, SignedElsewhere DEF Commit, Outcome
<1>15. ASSUME NEW h \in Deciding, Publish(h) PROVE SignedInv'
  BY <1>15, SignedElsewhere DEF Publish, Resolve, Answer
<1>16. ASSUME NEW w \in Worker, NEW s \in Session, Select(w, s) \/ GiveUp(w, s) PROVE SignedInv'
  <2>1. \A h \in Handler : h # w => at'[h] = at[h]
    BY <1>16 DEF Select, GiveUp
  <2>2. UNCHANGED <<signed, check, due, status>>
    BY <1>16 DEF Select, GiveUp
  <2> QED
    BY <2>1, <2>2, SignedElsewhere
<1>17. ASSUME NEW w \in Worker,
              RegisterParticipants(w) \/ FileKyc(w) \/ SaveActivation(w) \/ CheckActivation(w)
       PROVE  SignedInv'
  BY <1>17, SignedElsewhere DEF RegisterParticipants, FileKyc, SaveActivation, CheckActivation
<1>18. ASSUME NEW w \in Worker,
              SyncCapabilities(w) \/ Reload(w) \/ Notify(w) \/ SavePhase(w) \/ RetryLater(w)
       PROVE  SignedInv'
  BY <1>18, SignedElsewhere DEF SyncCapabilities, Reload, Notify, SavePhase, RetryLater
<1>19. ASSUME NEW w \in Worker, StepFails(w) PROVE SignedInv'
  BY <1>19, SignedElsewhere DEF StepFails
<1>20. ASSUME NEW s \in Session, Resume(s) PROVE SignedInv'
  BY <1>20, SignedElsewhere DEF Resume
<1>21. ASSUME NEW d \in Direct, TakeContract(d) \/ InsertContract(d) PROVE SignedInv'
  BY <1>21, SignedElsewhere DEF TakeContract, InsertContract, Insert
<1>22. ASSUME NEW u \in Updater, NEW change \in Change, ReadForUpdate(u, change)
       PROVE  SignedInv'
  BY <1>22, SignedElsewhere DEF ReadForUpdate
<1>23. ASSUME NEW u \in Updater, WriteCompany(u) PROVE SignedInv'
  <2>1. \A h \in Handler : h # u => at'[h] = at[h]
    BY <1>23 DEF WriteCompany
  <2> QED
    BY <1>23, <2>1, SignedElsewhere DEF WriteCompany
<1>24. ASSUME NEW u \in Updater,
              CheckFree(u) \/ FinishUpdate(u) \/ Restore(u) \/ MoveCountry(u)
       PROVE  SignedInv'
  BY <1>24, SignedElsewhere DEF CheckFree, FinishUpdate, Restore, MoveCountry
<1>25. ASSUME NEW h \in Handler, Crash(h) PROVE SignedInv'
  BY <1>25, SignedElsewhere DEF Crash
<1>26. CASE UNCHANGED vars
  BY <1>26, SignedElsewhere DEF vars
<1> HIDE DEF TypeOK
<1> QED
  BY <1>1, <1>2, <1>3, <1>4, <1>5, <1>6, <1>7, <1>8, <1>9, <1>10, <1>11, <1>12,
     <1>13, <1>14, <1>15, <1>16, <1>17, <1>18, <1>19, <1>20, <1>21, <1>22, <1>23,
     <1>24, <1>25, <1>26
  DEF Next, ReportStep, WorkerStep, DirectStep, FormStep, UpdateStep, FinalizeStep

\* What a step may do to the filing: the details of a session under way stay, only a
\* commit verifies, a worker gets past the filing by filing, and a report finalizes
\* what it read outside France.
DetailsStay ==
    \A s \in Session :
        details'[s] = details[s] \/ status[s] = "none" \/ (status[s] = "opened" /\ ~signed[s])

VerifiedByCommit ==
    \A s \in Session : status'[s] = "verified" =>
        \/ status[s] = "verified"
        \/ \E h \in Deciding : at[h].on = s /\ at[h].pc = "commit" /\ at[h].goal \in Positive

WorkersFile ==
    /\ kyc \subseteq kyc'
    /\ \A s \in Session : phase'[s] = "activation" =>
          phase[s] = "activation" \/ \E w \in Worker : at[w].on = s /\ at[w].pc = "filed"
    /\ \A w \in Worker : at'[w].pc \in AfterFiling =>
          \/ at'[w].on \in kyc'
          \/ at'[w].on \in Session /\ phase[at'[w].on] = "activation"
          \/ at[w].pc \in AfterFiling /\ at'[w].on = at[w].on

ReportsFinalize ==
    \A h \in Reporter : at'[h].pc \in Finalizing /\ at'[h].goal \in Positive =>
        /\ at[h].pc # "idle" /\ at'[h].on = at[h].on /\ at'[h].goal = at[h].goal
        /\ at[h].pc \in Finalizing \/ ~French(company)

Files == DetailsStay /\ VerifiedByCommit /\ WorkersFile /\ ReportsFinalize

\* A step that files and verifies nothing.
LEMMA FilesElsewhere ==
    ASSUME UNCHANGED kyc, DetailsStay, VerifiedByCommit,
           \A s \in Session : phase'[s] = "activation" => phase[s] = "activation",
           \A h \in Locking :
               \/ at'[h] = at[h] \/ at'[h].pc \notin AfterFiling
               \/ /\ at[h].pc \in Finalizing /\ at'[h].on = at[h].on
                  /\ at'[h].goal = at[h].goal
    PROVE  Files
<1>1. WorkersFile
  BY DEF WorkersFile, Locking, AfterFiling
<1>2. ReportsFinalize
  BY DEF ReportsFinalize, Locking, AfterFiling, Finalizing
<1> QED
  BY <1>1, <1>2 DEF Files

LEMMA FilesStep == ASSUME VerificationTypes, [Next]_vars PROVE Files
<1> USE VerificationAssumption, IdleState
    DEF VerificationTypes, TypeOK, Handler, Locking, Deciding, sessions, outside, HandlerState,
        Go, Leave, AfterFiling, Finalizing
<1>0. ASSUME UNCHANGED <<details, status>> PROVE DetailsStay /\ VerifiedByCommit
  BY <1>0 DEF DetailsStay, VerifiedByCommit
<1>1. ASSUME NEW s \in Session, StartSession(s) PROVE Files
  BY <1>1, FilesElsewhere DEF StartSession, Insert, Unused, DetailsStay, VerifiedByCommit
<1>2. ASSUME NEW f \in Form, NEW s \in Session, LoadForm(f, s) PROVE Files
  BY <1>0, <1>2, FilesElsewhere DEF LoadForm, Begin
<1>3. ASSUME NEW f \in Form, ClaimForm(f) PROVE Files
  BY <1>3, FilesElsewhere DEF ClaimForm, DetailsStay, VerifiedByCommit
<1>4. ASSUME NEW f \in Form, StartCheck(f) PROVE Files
  BY <1>0, <1>4, FilesElsewhere DEF StartCheck
<1>5. ASSUME NEW s \in Session, Resume(s) \/ \E o \in Report : Decide(s, o) PROVE Files
  BY <1>0, <1>5, FilesElsewhere DEF Resume, Decide
<1>6. ASSUME NEW h \in Reporter, NEW s \in Session, NEW o \in Report, TakeReport(h, s, o)
      PROVE  Files
  <2> DEFINE taken == [Idle EXCEPT !.on = s, !.goal = o,
                          !.pc = IF o = "In Review" THEN "review" ELSE "company"]
  <2>1. UNCHANGED <<details, status, phase, kyc>> /\ (at' = at \/ at' = [at EXCEPT ![h] = taken])
    BY <1>6 DEF TakeReport, Begin
  <2>2. taken.pc \in {"review", "company"}
    BY DEF Idle
  <2> HIDE DEF taken
  <2> QED
    BY <1>0, <2>1, <2>2, FilesElsewhere
<1>7. ASSUME NEW h \in Reporter, SetInReview(h) \/ HoldForReview(h) PROVE Files
  BY <1>7, FilesElsewhere
  DEF SetInReview, HoldForReview, Answer, DetailsStay, VerifiedByCommit
<1>8. ASSUME NEW h \in Reporter, ReadCompany(h) PROVE Files
  <2>1. /\ UNCHANGED <<details, status, phase, kyc>> /\ at[h].pc = "company"
        /\ \A g \in Handler : g # h => at'[g] = at[g]
    BY <1>8 DEF ReadCompany, Answer
  <2>2. \/ at'[h] = Idle
        \/ /\ at'[h].on = at[h].on /\ at'[h].goal = at[h].goal
           /\ at[h].goal \in Positive /\ French(company) => at'[h].pc = "kycReview"
    BY <1>8 DEF ReadCompany, Answer
  <2>3. ReportsFinalize
    BY <2>1, <2>2 DEF ReportsFinalize
  <2>4. WorkersFile
    BY <2>1 DEF WorkersFile
  <2> QED
    BY <1>0, <2>1, <2>3, <2>4 DEF Files
<1>9. ASSUME NEW h \in Reporter, StartKycReview(h) PROVE Files
  BY <1>9, FilesElsewhere DEF StartKycReview, Answer, DetailsStay, VerifiedByCommit
<1>10. ASSUME NEW h \in Reporter, Retry(h) PROVE Files
  <2>1. UNCHANGED <<phase, kyc>> /\ at'[h] = Idle /\ \A g \in Handler : g # h => at'[g] = at[g]
    BY <1>10 DEF Retry, Answer
  <2>2. (\E s \in Unused : Insert(s, TRUE)) \/ UNCHANGED <<status, details, linked>>
    BY <1>10 DEF Retry
  <2>3. DetailsStay /\ VerifiedByCommit
    BY <1>0, <2>2 DEF Insert, Unused, DetailsStay, VerifiedByCommit
  <2> QED
    BY <2>1, <2>3, FilesElsewhere
<1>11. ASSUME NEW h \in Deciding, ReadSession(h) PROVE Files
  <2>1. /\ UNCHANGED <<details, status, phase, kyc>> /\ at[h].pc = "finalize"
        /\ \A g \in Handler : g # h => at'[g] = at[g]
    BY <1>11 DEF ReadSession, Resolve, Answer
  <2>2. \/ at'[h] = Idle \/ at'[h].pc \in {"notify", "block", "retry"}
        \/ at'[h].on = at[h].on /\ at'[h].goal = at[h].goal
    BY <1>11 DEF ReadSession, Resolve, Answer
  <2> QED
    BY <1>0, <2>1, <2>2, FilesElsewhere
<1>12. ASSUME NEW h \in Deciding \cup Updater, Register(h) \/ Unregister(h) \/ Undo(h)
       PROVE  Files
  <2>1. UNCHANGED <<sessions, kyc>>
    BY <1>12 DEF Register, Unregister, Undo
  <2>2. \/ at'[h] = Idle \/ at'[h].pc \in {"finish", "restore", "error", "failed", "undo"}
        \/ /\ at'[h].on = at[h].on /\ at'[h].goal = at[h].goal
           /\ at[h].pc \in {"register", "unregister"}
    BY <1>12 DEF Register, Unregister, Undo
  <2>3. \A u \in Handler : u # h => at'[u] = at[u]
    BY <1>12 DEF Register, Unregister, Undo
  <2> QED
    BY <1>0, <2>1, <2>2, <2>3, FilesElsewhere
<1>13. ASSUME NEW h \in Deciding, SetError(h) PROVE Files
  BY <1>13, FilesElsewhere DEF SetError, DetailsStay, VerifiedByCommit
<1>14. ASSUME NEW h \in Deciding, Commit(h) PROVE Files
  <2>1. /\ UNCHANGED <<details, phase, kyc>> /\ at[h].pc = "commit"
        /\ at'[h].pc \in {"publish", "undoCommit"}
        /\ \A g \in Handler : g # h => at'[g] = at[g]
    BY <1>14 DEF Commit
  <2>2. status' = [status EXCEPT ![at[h].on] = Outcome(h)] \/ UNCHANGED status
    BY <1>14 DEF Commit
  <2>3. DetailsStay /\ VerifiedByCommit
    BY <2>1, <2>2 DEF DetailsStay, VerifiedByCommit, Outcome
  <2> QED
    BY <2>1, <2>3, FilesElsewhere
<1>15. ASSUME NEW h \in Deciding, Publish(h) PROVE Files
  <2>1. /\ UNCHANGED <<details, status, phase, kyc>>
        /\ \A g \in Handler : g # h => at'[g] = at[g]
    BY <1>15 DEF Publish, Resolve, Answer
  <2>2. at'[h] = Idle \/ at'[h].pc \in {"notify", "block", "retry"}
    BY <1>15 DEF Publish, Resolve, Answer
  <2> QED
    BY <1>0, <2>1, <2>2, FilesElsewhere
<1>16. ASSUME NEW w \in Worker, NEW s \in Session, Select(w, s) PROVE Files
  <2>1. /\ UNCHANGED <<details, status, kyc>> /\ at'[w].on = s
        /\ \A g \in Handler : g # w => at'[g] = at[g]
    BY <1>16 DEF Select, Begin, Idle
  <2>2. \A t \in Session : phase'[t] = "activation" => phase[t] = "activation"
    BY <1>16 DEF Select
  <2>3. Onward(s) \subseteq {"block", "refuse", "prepare", "file"}
           \cup (IF phase[s] = "activation" THEN {"activation"} ELSE {})
    BY DEF Onward
  <2>4. at'[w].pc \in AfterFiling => phase[s] = "activation"
    <3>1. PICK next \in Onward(s) \cup {"notify"} :
             at' = [at EXCEPT ![w] = [Idle EXCEPT !.on = s, !.goal = "Approved", !.saw = company,
                       !.pc = CASE next \notin {"prepare", "file"} -> next
                                [] next \in {"prepare", "file"} /\ company.recipient -> "participants"
                                [] OTHER -> "kyc"]]
      BY <1>16 DEF Select
    <3>2. at'[w].pc \in {next, "participants", "kyc"}
      BY <3>1 DEF Idle
    <3> QED
      BY <2>3, <3>1, <3>2
  <2> QED
    BY <1>0, <2>1, <2>2, <2>4 DEF Files, WorkersFile, ReportsFinalize
<1>17. ASSUME NEW w \in Worker, NEW s \in Session, GiveUp(w, s) PROVE Files
  BY <1>0, <1>17, FilesElsewhere DEF GiveUp
<1>18. ASSUME NEW w \in Worker, RegisterParticipants(w) \/ Notify(w) \/ RetryLater(w) PROVE Files
  BY <1>0, <1>18, FilesElsewhere DEF RegisterParticipants, Notify, RetryLater
<1>19. ASSUME NEW w \in Worker, FileKyc(w) PROVE Files
  BY <1>0, <1>19 DEF FileKyc, Files, WorkersFile, ReportsFinalize
<1>20. ASSUME NEW w \in Worker, SaveActivation(w) PROVE Files
  BY <1>0, <1>20 DEF SaveActivation, Files, WorkersFile, ReportsFinalize
<1>21. ASSUME NEW w \in Worker, CheckActivation(w) \/ SyncCapabilities(w) \/ Reload(w)
       PROVE  Files
  <2>1. UNCHANGED <<sessions, kyc>> /\ \A g \in Handler : g # w => at'[g] = at[g]
    BY <1>21 DEF CheckActivation, SyncCapabilities, Reload
  <2>2. at[w].pc \in AfterFiling /\ (at'[w] = Idle \/ at'[w].on = at[w].on)
    BY <1>21 DEF CheckActivation, SyncCapabilities, Reload
  <2> QED
    BY <1>0, <2>1, <2>2 DEF Files, WorkersFile, ReportsFinalize
<1>22. ASSUME NEW w \in Worker, SavePhase(w) PROVE Files
  BY <1>0, <1>22, FilesElsewhere DEF SavePhase
<1>23. ASSUME NEW w \in Worker, StepFails(w) PROVE Files
  <2>1. /\ UNCHANGED <<details, status, kyc>> /\ at'[w].pc = "failed"
        /\ \A g \in Handler : g # w => at'[g] = at[g]
    BY <1>23 DEF StepFails
  <2>2. \A s \in Session : phase'[s] = phase[s] \/ (s = at[w].on /\ at[w].pc = "filed")
    BY <1>23 DEF StepFails
  <2> QED
    BY <1>0, <2>1, <2>2 DEF Files, WorkersFile, ReportsFinalize
<1>24. ASSUME NEW d \in Direct, TakeContract(d) PROVE Files
  BY <1>0, <1>24, FilesElsewhere DEF TakeContract, Begin
<1>25. ASSUME NEW d \in Direct, InsertContract(d) PROVE Files
  <2>1. UNCHANGED <<phase, kyc>> /\ \A g \in Handler : g # d => at'[g] = at[g]
    BY <1>25 DEF InsertContract
  <2>2. (\E s \in Unused : Insert(s, FALSE)) \/ UNCHANGED <<status, details, linked>>
    BY <1>25 DEF InsertContract
  <2>3. DetailsStay /\ VerifiedByCommit
    BY <1>0, <2>2 DEF Insert, Unused, DetailsStay, VerifiedByCommit
  <2> QED
    BY <2>1, <2>3, FilesElsewhere
<1>26. ASSUME NEW u \in Updater, NEW change \in Change, ReadForUpdate(u, change) PROVE Files
  BY <1>0, <1>26, FilesElsewhere DEF ReadForUpdate, Begin
<1>27. ASSUME NEW u \in Updater, WriteCompany(u) PROVE Files
  <2>1. UNCHANGED <<sessions, kyc>> /\ \A h \in Handler : h # u => at'[h] = at[h]
    BY <1>27 DEF WriteCompany
  <2> QED
    BY <1>0, <2>1, FilesElsewhere
<1>28. ASSUME NEW u \in Updater, CheckFree(u) \/ FinishUpdate(u) \/ Restore(u) PROVE Files
  BY <1>28, FilesElsewhere
  DEF CheckFree, FinishUpdate, Restore, DetailsStay, VerifiedByCommit
<1>29. ASSUME NEW u \in Updater, MoveCountry(u) PROVE Files
  <2>1. UNCHANGED <<status, phase, kyc>> /\ \A h \in Handler : h # u => at'[h] = at[h]
    BY <1>29 DEF MoveCountry
  <2>2. \/ UNCHANGED details
        \/ /\ \A s \in Session : ~signed[s]
           /\ \A s \in Session : status[s] # "opened" => details'[s] = details[s]
    <3>1. CASE \A s \in Session : ~Started(s)
      <4>1. \A s \in Session : ~signed[s]
        BY <3>1 DEF Started
      <4>2. \/ UNCHANGED details
            \/ details' = [s \in Session |->
                   IF status[s] = "opened" THEN Details(company') ELSE details[s]]
        BY <1>29 DEF MoveCountry
      <4> QED
        BY <4>1, <4>2
    <3> QED
      BY <1>29, <3>1 DEF MoveCountry
  <2>3. DetailsStay
    BY <2>2 DEF DetailsStay
  <2> QED
    BY <2>1, <2>3, FilesElsewhere DEF VerifiedByCommit
<1>30. ASSUME NEW h \in Handler, Crash(h) PROVE Files
  BY <1>0, <1>30, FilesElsewhere DEF Crash
<1>31. CASE UNCHANGED vars
  BY <1>0, <1>31, FilesElsewhere DEF vars
<1> HIDE DEF Files, TypeOK
<1> QED
  BY <1>1, <1>2, <1>3, <1>4, <1>5, <1>6, <1>7, <1>8, <1>9, <1>10, <1>11, <1>12,
     <1>13, <1>14, <1>15, <1>16, <1>17, <1>18, <1>19, <1>20, <1>21, <1>22, <1>23,
     <1>24, <1>25, <1>26, <1>27, <1>28, <1>29, <1>30, <1>31
  DEF Next, ReportStep, WorkerStep, DirectStep, FormStep, UpdateStep, FinalizeStep

\* What the worker gets past the filing with was filed: the mandate of a session in its
\* activation, of the session the worker has at hand.
LEMMA WorkersFiled ==
    ASSUME VerificationTypes, FiledInv, Files
    PROVE  /\ \A s \in Session : phase'[s] = "activation" => s \in kyc'
           /\ \A w \in Worker : at'[w].pc \in AfterFiling => at'[w].on \in kyc'
<1>1. kyc \subseteq kyc' /\ "filed" \in AfterFiling
  BY DEF Files, WorkersFile, AfterFiling
<1>2. ASSUME NEW s \in Session, phase'[s] = "activation" PROVE s \in kyc'
  BY <1>1, <1>2 DEF Files, WorkersFile, FiledInv
<1>3. ASSUME NEW w \in Worker, at'[w].pc \in AfterFiling PROVE at'[w].on \in kyc'
  BY <1>1, <1>3 DEF Files, WorkersFile, FiledInv
<1> QED
  BY <1>2, <1>3

\* A report that finalizes does so for a session of another country, read so from the
\* company, and the session keeps its country because its form was submitted.
LEMMA ReportsFinalized ==
    ASSUME VerificationTypes, CountryInv, SignedInv, FiledInv, Files
    PROVE  \A h \in Reporter : at'[h].pc \in Finalizing /\ at'[h].goal \in Positive =>
               details'[at'[h].on].country # "FR"
<1> SUFFICES ASSUME NEW h \in Reporter, at'[h].pc \in Finalizing, at'[h].goal \in Positive
             PROVE  details'[at'[h].on].country # "FR"
  OBVIOUS
<1>1. /\ at[h].pc # "idle" /\ at'[h].on = at[h].on /\ at'[h].goal = at[h].goal
      /\ at[h].pc \in Finalizing \/ ~French(company)
  BY DEF Files, ReportsFinalize
<1>2. at[h].on \in Session /\ status[at[h].on] # "none" /\ signed[at[h].on]
  BY <1>1 DEF VerificationTypes, PlacedInv, Locking, SignedInv
<1>3. details'[at[h].on] = details[at[h].on]
  BY <1>2 DEF Files, DetailsStay
<1>4. details[at[h].on].country # "FR"
  BY <1>1, <1>2 DEF FiledInv, CountryInv, French
<1> QED
  BY <1>1, <1>3, <1>4

LEMMA FrenchIsFiledNext ==
    ASSUME VerificationTypes, SignedInv, FiledInv, Files, Kept
    PROVE  FrenchIsFiled'
<1> SUFFICES ASSUME NEW s \in Session, linked'[s], status'[s] = "verified",
                    details'[s].country = "FR"
             PROVE  s \in kyc'
  BY DEF FrenchIsFiled
<1>1. CASE status[s] = "verified"
  <2>1. linked[s] /\ details'[s] = details[s]
    BY <1>1 DEF Kept, Files, DetailsStay
  <2> QED
    BY <1>1, <2>1 DEF FiledInv, FrenchIsFiled, Files, WorkersFile
<1>2. CASE status[s] # "verified"
  <2>1. PICK h \in Deciding : at[h].on = s /\ at[h].pc = "commit" /\ at[h].goal \in Positive
    BY <1>2 DEF Files, VerifiedByCommit
  <2>2. status[s] # "none" /\ (h \in Direct => ~linked[s])
    BY <2>1 DEF VerificationTypes, PlacedInv, Deciding
  <2>3. h \in Locking
    BY <2>2 DEF Kept, Deciding
  <2>4. CASE h \in Worker
    BY <2>1, <2>4 DEF FiledInv, AfterFiling, Finalizing, Files, WorkersFile
  <2>5. CASE h \in Reporter
    <3>1. details[s].country # "FR" /\ signed[s]
      BY <2>1, <2>5 DEF FiledInv, Finalizing, SignedInv
    <3>2. details'[s] = details[s]
      BY <2>2, <3>1 DEF Files, DetailsStay
    <3> QED
      BY <3>1, <3>2
  <2> QED
    BY <2>3, <2>4, <2>5 DEF Locking
<1> QED
  BY <1>1, <1>2

LEMMA FiledNext ==
    ASSUME VerificationTypes, CountryInv, SignedInv, FiledInv, [Next]_vars
    PROVE  FiledInv'
<1>1. Files /\ Kept
  BY FilesStep, KeptStep
<1> QED
  BY <1>1, WorkersFiled, ReportsFinalized, FrenchIsFiledNext DEF FiledInv

\* A company that a link verified before has its form and its mandate.
LEMMA FiledInit == Init => CountryInv /\ SignedInv /\ FiledInv
<1> SUFFICES ASSUME Init PROVE CountryInv /\ SignedInv /\ FiledInv
  OBVIOUS
<1>1. \A h \in Handler : at[h].pc = "idle"
  BY IdleState DEF Init
<1>2. \A s \in Session : details[s].country = company.country
  BY DEF Init, Details
<1>3. \A s \in Session : /\ status[s] = "verified" => s \in kyc \/ company.country # "FR"
                         /\ status[s] \in {"none", "verified"} /\ phase[s] # "activation"
                         /\ phase[s] = "complete" => s \in kyc
  BY DEF Init, French
<1>4. (\A s \in Session : check[s] = "none") /\ due = {}
  BY DEF Init
<1>5. CountryInv
  BY <1>1, <1>2 DEF CountryInv, Handler
<1>6. SignedInv
  BY <1>1, <1>3, <1>4 DEF SignedInv, Handler
<1>7. FiledInv
  BY <1>1, <1>2, <1>3 DEF FiledInv, FrenchIsFiled, Handler, AfterFiling, Finalizing
<1> QED
  BY <1>5, <1>6, <1>7

\* A link's session verifies a French company only under a mandate the platform approved,
\* for any number of sessions, reports, workers, contracts and faults, as long as two
\* updates of the company do not overlap (startArratechKycReview, ensureApprovedKyc and
\* isStartedVerificationSession of a change of country).
THEOREM FrenchVerifiedUnderMandate == Spec /\ []OneUpdate => []FrenchIsFiled
<1> DEFINE Inv == CountryInv /\ SignedInv /\ FiledInv
<1>1. Init => Inv
  BY FiledInit
<1>2. VerificationInv /\ OneUpdate /\ Inv /\ [Next]_vars => Inv'
  BY CountryNext, SignedNext, FiledNext DEF VerificationInv
<1>3. Inv => FrenchIsFiled
  BY DEF FiledInv
<1> HIDE DEF Inv
<1> QED
  BY VerificationInvHolds, <1>1, <1>2, <1>3, PTL DEF Spec

----------------------------------------------------------------------------
(* A company is on the SMP when it should be, as long as handlers do not      *)
(* overlap: then a handler acts on the row it read, and what it leaves undone *)
(* is either what it found or what it meant to reach.                         *)

\* The SMP, holding sm, agrees with the row c.  The French one may hold a company that is
\* not verified yet, once a form was submitted.
HasForm    == \E s \in Session : signed[s]
Applied(c) == French(c) /\ HasForm
FitsWith(c, sm, form) ==
    /\ ShouldRegister(c) => sm = "full"
    /\ sm # "none" => ShouldRegister(c) \/ (French(c) /\ form)
Fits(c) == FitsWith(c, smp, HasForm)

\* The row a handler is to leave: updates have written it, finalizing will.
Target(h) ==
    IF h \in Updater THEN company
    ELSE [at[h].saw EXCEPT !.verified = (Outcome(h) = "verified")]

\* Rolling the SMP back makes it agree with the row that was read.
Reversible(h) ==
    /\ at[h].move = "register"   => ~ShouldRegister(at[h].saw)
    /\ at[h].move = "unregister" => ShouldRegister(at[h].saw) \/ Applied(at[h].saw)
    /\ at[h].move \notin {"register", "unregister"} => Fits(at[h].saw)

Onboards == {"participants", "kyc", "filed", "activation", "sync", "reload"}
Switches == {"register", "unregister"}
Undoes   == {"undo", "undoCommit"}
Reads    == {"insert", "write", "move", "finalize", "commit", "undoCommit"} \cup Onboards
Settled  == {"idle", "claim", "start", "review", "company", "hold", "kycReview", "retry",
             "error", "publish", "publishError", "notify", "complete", "block", "refuse",
             "failed", "finish"}

\* What a handler that is alone has before it, by what it does next.
Due(h) ==
    /\ at[h].pc \notin Switches \cup Undoes \cup {"commit", "restore"} => Fits(company)
    /\ at[h].pc \in Reads \/ (at[h].pc \in Switches \cup Undoes /\ h \notin Updater) =>
           at[h].saw = company
    /\ at[h].pc \in {"commit", "undoCommit"} => h \notin Updater
    /\ at[h].pc = "insert" => ~French(company)
    /\ at[h].pc \in Onboards => Applied(company)
    /\ at[h].pc = "sync" => company.recipient
    /\ at[h].pc = "reload" => (company.recipient => smp = "full")
    /\ at[h].pc = "finalize" /\ French(company) =>
           Applied(company) /\ (at[h].goal \in Positive /\ company.recipient => smp = "full")
    /\ at[h].pc \in Switches =>
           /\ at[h].move = at[h].pc /\ Fits(at[h].saw)
           /\ ShouldRegister(Target(h)) <=> at[h].pc = "register"
    /\ at[h].pc \in Switches \cup Undoes \cup {"commit"} => Reversible(h)
    /\ at[h].pc = "undo" => at[h].move \in Switches
    /\ at[h].pc = "commit" => Fits(Target(h))
    /\ at[h].pc \in {"free", "restore"} => Fits(at[h].saw)

InDue(h) == IF Busy(h) THEN Due(h) ELSE Fits(company)

AloneInv ==
    alone => /\ \A g, h \in Handler : Busy(g) /\ Busy(h) => g = h
             /\ \A h \in Handler : Busy(h) => Due(h)
             /\ (\A h \in Handler : ~Busy(h)) => Fits(company)

\* A step of one handler that does not overlap another keeps the invariant when it keeps
\* what that handler has before it.
LEMMA AloneByOne ==
    ASSUME AloneInv, NEW h \in Handler, \A g \in Handler : g # h => at'[g] = at[g],
           alone' => alone, Busy(h) \/ (alone' => \A g \in Handler : ~Busy(g)),
           alone /\ alone' /\ InDue(h) => InDue(h)'
    PROVE  AloneInv'
<1> SUFFICES ASSUME alone'
             PROVE  /\ \A g, k \in Handler : Busy(g)' /\ Busy(k)' => g = k
                    /\ \A g \in Handler : Busy(g)' => Due(g)'
                    /\ (\A g \in Handler : ~Busy(g)') => Fits(company)'
  BY DEF AloneInv
<1>1. alone /\ \A g \in Handler : g # h => ~Busy(g)
  BY DEF AloneInv
<1>2. InDue(h)
  BY <1>1 DEF AloneInv, InDue
<1>3. InDue(h)' /\ \A g \in Handler : g # h => ~Busy(g)'
  BY <1>1, <1>2 DEF Busy
<1>4. (Busy(h)' => Due(h)') /\ (~Busy(h)' => Fits(company)')
  BY <1>3 DEF InDue
<1> QED
  BY <1>3, <1>4

\* A handler that rests, or whose next step looks at nothing it read.
LEMMA DueSettled ==
    ASSUME NEW h \in Handler, at'[h].pc \in Settled, Fits(company)' PROVE InDue(h)'
BY DEF InDue, Due, Settled, Switches, Undoes, Onboards, Reads, Busy

LEMMA DueFits ==
    ASSUME NEW h \in Handler, InDue(h),
           at[h].pc \notin Switches \cup Undoes \cup {"commit", "restore"}
    PROVE  Fits(company)
BY DEF InDue, Due

LEMMA DueSame ==
    ASSUME NEW h \in Handler, InDue(h), UNCHANGED <<company, smp>>, HasForm => HasForm',
           at[h].pc \notin Switches \cup Undoes \cup {"commit", "restore"},
           at'[h].pc \in Settled
    PROVE  InDue(h)'
<1>1. Fits(company)'
  BY DueFits DEF Fits, FitsWith
<1> QED
  BY <1>1, DueSettled

\* Finalizing: what is registered, unregistered or left alone fits the row that was read
\* and the row that is to be.
LEMMA DueReadSession ==
    ASSUME VerificationTypes, NEW h \in Deciding, InDue(h), ReadSession(h)
    PROVE  InDue(h)'
<1> USE VerificationAssumption, IdleState
    DEF VerificationTypes, TypeOK, Handler, Locking, Deciding, sessions, HandlerState, Go, Leave
<1>1. /\ at[h].pc = "finalize" /\ UNCHANGED <<company, smp, signed>>
      /\ HasForm' = HasForm /\ h \in Handler /\ h \notin Updater
  BY DEF ReadSession, HasForm
<1>2. /\ at[h].saw = company /\ Fits(company)
      /\ French(company) =>
             Applied(company) /\ (at[h].goal \in Positive /\ company.recipient => smp = "full")
  BY <1>1 DEF InDue, Due, Busy, Reads, Switches, Undoes
<1>3. CASE Resolve(h, status[at[h].on])
  <2>1. at'[h].pc \in Settled
    BY <1>3 DEF Resolve, Answer, Settled
  <2> QED
    BY <1>1, <2>1, DueSame DEF Switches, Undoes
<1>4. CASE at' = [at EXCEPT ![h].pc = Move(h), ![h].move = Move(h)]
  <2> DEFINE should == ShouldRegister(Target(h))
             was == WasRegistered(h)
  <2>1. Target(h) = [company EXCEPT !.verified = (Outcome(h) = "verified")]
    BY <1>1, <1>2 DEF Target
  <2>2. Move(h) = CASE should /\ ~was -> "register"
                    [] ~should /\ was -> "unregister"
                    [] OTHER -> "commit"
    BY <1>1, <2>1, <1>2 DEF Move
  <2>3. /\ at'[h].pc = Move(h) /\ at'[h].move = Move(h) /\ at'[h].saw = company
        /\ at'[h].goal = at[h].goal
    BY <1>2, <1>4
  <2>4. Target(h)' = Target(h)
    BY <1>1, <1>2, <2>3 DEF Target, Outcome
  <2>5. /\ ShouldRegister(company) => was
        /\ was => ShouldRegister(company) \/ (Applied(company) /\ company.recipient)
    BY <1>2 DEF WasRegistered, Applied
  <2>6. Fits(company)'
    BY <1>1, <1>2 DEF Fits, FitsWith
  <2>7. (should <=> was) => Fits(Target(h))
    <3>1. /\ Target(h).country = company.country /\ Target(h).recipient = company.recipient
          /\ Target(h).verified = (at[h].goal \in Positive)
      BY <2>1 DEF Outcome, Company
    <3>2. French(Target(h)) = French(company)
      BY <3>1 DEF French
    <3>3. CASE should /\ was
      <4>1. ShouldRegister(company) => smp = "full"
        BY <1>2 DEF Fits, FitsWith
      <4>2. ~ShouldRegister(company) => smp = "full"
        BY <1>2, <2>5, <3>1, <3>2, <3>3 DEF Applied, ShouldRegister, RequiresVerification
      <4> QED
        BY <3>3, <4>1, <4>2 DEF Fits, FitsWith
    <3>4. CASE ~should /\ ~was
      BY <1>2, <2>5, <3>2, <3>4 DEF Fits, FitsWith
    <3> HIDE DEF should, was
    <3> QED
      BY <3>3, <3>4
  <2>8. Reversible(h)'
    BY <1>1, <2>2, <2>3, <2>5, <2>6 DEF Reversible, Fits, FitsWith, Applied
  <2>9. Move(h) = "commit" => Fits(Target(h))'
    <3> HIDE DEF should, was
    <3>1. Move(h) = "commit" => (should <=> was)
      BY <2>2
    <3> QED
      BY <1>1, <2>4, <2>7, <3>1 DEF Fits, FitsWith
  <2>10. Move(h) \in Switches => (ShouldRegister(Target(h))' <=> Move(h) = "register")
    BY <2>2, <2>4 DEF Switches
  <2>11. Move(h) \in Switches \cup {"commit"}
    BY <2>2 DEF Switches
  <2> HIDE DEF should, was
  <2> QED
    BY <1>1, <2>3, <2>6, <2>8, <2>9, <2>10, <2>11
    DEF InDue, Due, Busy, Switches, Undoes, Onboards, Reads
<1> QED
  BY <1>3, <1>4 DEF ReadSession

\* A switch of the SMP that succeeds fits the target, one that is refused the row that was
\* read; one that fails in part can be reversed.
LEMMA DueSwitch ==
    ASSUME VerificationTypes, NEW h \in Deciding \cup Updater, InDue(h),
           Register(h) \/ Unregister(h)
    PROVE  InDue(h)'
<1> USE VerificationAssumption
    DEF VerificationTypes, TypeOK, Handler, Locking, Deciding, sessions, HandlerState, Go
<1>1. /\ at[h].pc \in Switches /\ UNCHANGED <<company, signed>> /\ HasForm' = HasForm
      /\ at'[h].saw = at[h].saw /\ at'[h].goal = at[h].goal /\ at'[h].move = at[h].move
      /\ h \in Handler
  BY DEF Register, Unregister, HasForm, Switches
<1>2. /\ at[h].move = at[h].pc /\ Fits(at[h].saw) /\ Reversible(h)
      /\ ShouldRegister(Target(h)) <=> at[h].pc = "register"
      /\ h \notin Updater => at[h].saw = company
  BY <1>1 DEF InDue, Due, Busy, Switches, Undoes
<1>3. Target(h)' = Target(h)
  BY <1>1 DEF Target, Outcome
<1>4. at'[h].move \in Switches
  BY <1>1, <1>2
<1>5. Reversible(h)'
  BY <1>1, <1>2, <1>4 DEF Reversible, Switches, Applied
<1>6. CASE /\ smp' = IF at[h].pc = "register" THEN "full" ELSE "none"
           /\ at'[h].pc = IF h \in Updater THEN "finish" ELSE "commit"
  <2>1. FitsWith(Target(h), smp', HasForm)
    BY <1>2, <1>6 DEF FitsWith
  <2>2. CASE h \in Updater
    <3>1. Fits(company)'
      BY <1>1, <2>1, <2>2 DEF Fits, Target
    <3> QED
      BY <1>1, <1>6, <2>2, <3>1, DueSettled DEF Settled
  <2>3. CASE h \notin Updater
    <3>1. Fits(Target(h))'
      BY <1>1, <1>3, <2>1 DEF Fits
    <3> QED
      BY <1>1, <1>2, <1>5, <1>6, <2>3, <3>1
      DEF InDue, Due, Busy, Switches, Undoes, Onboards, Reads
  <2> QED
    BY <2>2, <2>3
<1>7. CASE smp' = smp /\ at'[h].pc = IF h \in Updater THEN "restore" ELSE "error"
  <2>1. Fits(at[h].saw)'
    BY <1>1, <1>2, <1>7 DEF Fits
  <2>2. CASE h \in Updater
    BY <1>1, <1>7, <2>1, <2>2 DEF InDue, Due, Busy, Switches, Undoes, Onboards, Reads
  <2>3. CASE h \notin Updater
    <3>1. Fits(company)'
      BY <1>1, <1>2, <2>1, <2>3 DEF Fits
    <3> QED
      BY <1>1, <1>7, <2>3, <3>1, DueSettled DEF Settled
  <2> QED
    BY <2>2, <2>3
<1>8. CASE at'[h].pc = "undo"
  BY <1>1, <1>2, <1>4, <1>5, <1>8 DEF InDue, Due, Busy, Switches, Undoes, Onboards, Reads
<1> QED
  BY <1>1, <1>6, <1>7, <1>8 DEF Register, Unregister

\* A rollback that works leaves the SMP as the row that was read wants it.
LEMMA DueUndo ==
    ASSUME VerificationTypes, NEW h \in Deciding \cup Updater, InDue(h), Undo(h), alone, alone'
    PROVE  InDue(h)'
<1> USE VerificationAssumption, IdleState
    DEF VerificationTypes, TypeOK, Handler, Locking, Deciding, sessions, HandlerState, Go, Leave
<1>1. /\ at[h].pc \in Undoes /\ UNCHANGED <<company, signed>> /\ HasForm' = HasForm
      /\ h \in Handler
  BY DEF Undo, HasForm, Undoes
<1>2. /\ Reversible(h)
      /\ at[h].pc = "undoCommit" => h \notin Updater
      /\ at[h].pc = "undoCommit" \/ h \notin Updater => at[h].saw = company
  BY <1>1 DEF InDue, Due, Busy, Switches, Undoes, Reads
<1>3. smp' = CASE at[h].move = "register" -> "none"
               [] at[h].move = "unregister" -> "full"
               [] OTHER -> smp
  BY DEF Undo
<1>4. FitsWith(at[h].saw, smp', HasForm)
  BY <1>2, <1>3 DEF FitsWith, Reversible, Fits, Applied
<1>5. CASE at[h].pc = "undo" /\ h \in Updater
  <2>1. at'[h].pc = "restore" /\ at'[h].saw = at[h].saw
    BY <1>5 DEF Undo
  <2>2. Fits(at[h].saw)'
    BY <1>1, <1>4, <2>1 DEF Fits
  <2> QED
    BY <1>1, <2>1, <2>2 DEF InDue, Due, Busy, Switches, Undoes, Onboards, Reads
<1>6. CASE at[h].pc = "undoCommit" \/ h \notin Updater
  <2>1. at'[h].pc \in {"failed", "idle", "error"}
    <3>1. CASE at[h].pc = "undoCommit"
      BY <1>1, <1>2, <3>1 DEF Undo
    <3>2. CASE at[h].pc = "undo" /\ h \notin Updater
      BY <1>1, <3>2 DEF Undo
    <3> QED
      BY <1>1, <1>6, <3>1, <3>2 DEF Undoes
  <2>2. Fits(company)'
    BY <1>1, <1>2, <1>4, <1>6 DEF Fits
  <2> QED
    BY <2>1, <2>2, DueSettled DEF Settled
<1> QED
  BY <1>1, <1>5, <1>6 DEF Undoes

\* The transaction makes the target the company's row.
LEMMA DueCommit ==
    ASSUME VerificationTypes, NEW h \in Deciding, InDue(h), Commit(h)
    PROVE  InDue(h)'
<1> USE VerificationAssumption
    DEF VerificationTypes, TypeOK, Handler, Locking, Deciding, sessions, HandlerState, Go
<1>1. /\ at[h].pc = "commit" /\ UNCHANGED <<smp, signed>> /\ HasForm' = HasForm
      /\ at'[h].saw = at[h].saw /\ at'[h].move = at[h].move /\ h \in Handler /\ h \notin Updater
  BY DEF Commit, HasForm
<1>2. at[h].saw = company /\ Reversible(h) /\ Fits(Target(h))
  BY <1>1 DEF InDue, Due, Busy, Reads
<1>3. CASE at'[h].pc = "publish" /\ company' = [company EXCEPT !.verified = (Outcome(h) = "verified")]
  <2>1. company' = Target(h)
    BY <1>1, <1>2, <1>3 DEF Target
  <2>2. Fits(company)'
    BY <1>1, <1>2, <2>1 DEF Fits
  <2> QED
    BY <1>1, <1>3, <2>2, DueSettled DEF Settled
<1>4. CASE at'[h].pc = "undoCommit" /\ UNCHANGED company
  <2>1. Reversible(h)'
    BY <1>1, <1>2 DEF Reversible, Fits, Applied
  <2> QED
    BY <1>1, <1>2, <1>4, <2>1 DEF InDue, Due, Busy, Switches, Undoes, Onboards, Reads
<1> QED
  BY <1>1, <1>3, <1>4 DEF Commit

\* What a report, a form or a contract goes on to.
LEMMA DueReadCompany ==
    ASSUME VerificationTypes, SignedInv, NEW h \in Reporter, InDue(h), ReadCompany(h)
    PROVE  InDue(h)'
<1> USE VerificationAssumption, IdleState
    DEF VerificationTypes, TypeOK, Handler, Locking, sessions, HandlerState, Leave
<1>1. /\ at[h].pc = "company" /\ UNCHANGED <<company, smp, signed>> /\ HasForm' = HasForm
      /\ h \in Handler
  BY DEF ReadCompany, HasForm
<1>2. Fits(company) /\ HasForm
  <2>1. at[h].on \in Session /\ signed[at[h].on]
    BY <1>1 DEF SignedInv, PlacedInv
  <2> QED
    BY <1>1, <2>1, DueFits DEF Switches, Undoes, HasForm
<1>3. CASE at'[h].pc \in Settled
  BY <1>1, <1>3, DueSame DEF Switches, Undoes
<1>4. CASE /\ at'[h].pc = "finalize" /\ at'[h].saw = company /\ at'[h].goal = at[h].goal
           /\ ~(at[h].goal \in Positive /\ French(company))
  <2>1. Fits(company)'
    BY <1>1, <1>2 DEF Fits
  <2> QED
    BY <1>1, <1>2, <1>4, <2>1
    DEF InDue, Due, Busy, Switches, Undoes, Onboards, Reads, Applied, French
<1> QED
  <2>1. \/ at'[h] = Idle
        \/ at'[h].pc \in {"kycReview", "hold"}
        \/ /\ at'[h].pc = "finalize" /\ at'[h].saw = company /\ at'[h].goal = at[h].goal
           /\ ~(at[h].goal \in Positive /\ French(company))
    BY <1>1 DEF ReadCompany, Answer
  <2> QED
    BY <1>3, <1>4, <2>1 DEF Settled

LEMMA DueContract ==
    ASSUME VerificationTypes, NEW d \in Direct, InDue(d), TakeContract(d) \/ InsertContract(d)
    PROVE  InDue(d)'
<1> USE VerificationAssumption, IdleState
    DEF VerificationTypes, TypeOK, Handler, sessions, HandlerState, Leave
<1>1. /\ UNCHANGED <<company, smp, signed>> /\ HasForm' = HasForm /\ d \in Handler
      /\ at[d].pc \in {"idle", "insert"}
  BY DEF TakeContract, InsertContract, Free, Busy, HasForm
<1>2. Fits(company) /\ Fits(company)'
  BY <1>1, DueFits DEF Switches, Undoes, Fits
<1>3. CASE at'[d].pc \in {"insert", "finalize"} /\ at'[d].saw = company /\ ~French(company)
  BY <1>1, <1>2, <1>3 DEF InDue, Due, Busy, Switches, Undoes, Onboards, Reads, French
<1>4. CASE at'[d].pc = "idle"
  BY <1>1, <1>2, <1>4, DueSettled DEF Settled
<1>5. CASE TakeContract(d)
  BY <1>3, <1>5 DEF TakeContract, Idle
<1>6. CASE InsertContract(d)
  <2>1. at[d].pc = "insert" /\ at[d].saw = company /\ ~French(company)
    BY <1>1, <1>6 DEF InsertContract, InDue, Due, Busy, Reads
  <2>2. at'[d].pc = "idle" \/ (at'[d].pc = "finalize" /\ at'[d].saw = company)
    <3>1. \/ \E s \in Unused : at' = [at EXCEPT ![d].pc = "finalize", ![d].on = s]
          \/ at' = [at EXCEPT ![d] = Idle]
      BY <1>6 DEF InsertContract
    <3> QED
      BY <1>1, <2>1, <3>1
  <2> QED
    BY <1>3, <1>4, <2>1, <2>2
<1> QED
  BY <1>5, <1>6

\* The worker is at a French company whose form was submitted; before it finalizes, what
\* receives is on the SMP with its document types.
LEMMA DueSelect ==
    ASSUME VerificationTypes, NEW w \in Worker, NEW s \in Session, InDue(w), Select(w, s)
    PROVE  InDue(w)'
<1> USE VerificationAssumption, IdleState
    DEF VerificationTypes, TypeOK, Handler, sessions, HandlerState
<1>1. /\ UNCHANGED <<company, smp, signed>> /\ HasForm' = HasForm /\ w \in Handler
      /\ at[w].pc = "idle" /\ at'[w].saw = company
  BY DEF Select, Free, Busy, HasForm, Idle
<1>2. Fits(company) /\ Fits(company)'
  BY <1>1, DueFits DEF Switches, Undoes, Fits
<1>3. PICK next \in IF status[s] = "verified" THEN {"notify"} ELSE Onward(s) :
         at'[w].pc = CASE next \notin {"prepare", "file"} -> next
                       [] next \in {"prepare", "file"} /\ company.recipient -> "participants"
                       [] OTHER -> "kyc"
  BY DEF Select, Idle
<1>4. next \in {"block", "refuse", "notify"} \/ (next \in {"prepare", "file", "activation"} /\ Signed(s))
  <2>1. next = "notify" \/ next \in Onward(s)
    OBVIOUS
  <2>2. ~Signed(s) => Onward(s) = {"block"}
    BY DEF Onward
  <2>3. Signed(s) => Onward(s) \subseteq {"block", "refuse", "prepare", "file", "activation"}
    BY DEF Onward
  <2> QED
    BY <2>1, <2>2, <2>3
<1>5. CASE next \in {"block", "refuse", "notify"}
  <2>1. at'[w].pc \in Settled
    BY <1>3, <1>5 DEF Settled
  <2> QED
    BY <1>1, <1>2, <2>1, DueSettled
<1>6. CASE next \in {"prepare", "file", "activation"} /\ Signed(s)
  <2>1. Applied(company) /\ Applied(company)'
    BY <1>1, <1>6 DEF Signed, Applied, HasForm
  <2>2. at'[w].pc \in {"participants", "kyc", "activation"}
    BY <1>3, <1>6
  <2> QED
    BY <1>1, <1>2, <2>1, <2>2 DEF InDue, Due, Busy, Switches, Undoes, Onboards, Reads
<1> QED
  BY <1>4, <1>5, <1>6

LEMMA DueOnboard ==
    ASSUME VerificationTypes, NEW w \in Worker, InDue(w),
           \/ RegisterParticipants(w) \/ FileKyc(w) \/ SaveActivation(w) \/ CheckActivation(w)
           \/ SyncCapabilities(w) \/ Reload(w)
    PROVE  InDue(w)'
<1> USE VerificationAssumption, IdleState
    DEF VerificationTypes, TypeOK, Handler, sessions, HandlerState, Go, Leave
<1>1. /\ UNCHANGED <<company, signed>> /\ HasForm' = HasForm /\ w \in Handler
      /\ at[w].pc \in Onboards
      /\ smp' = smp \/ (smp' = "bare" /\ smp = "none") \/ (smp' = "full" /\ at[w].pc = "sync")
  BY DEF RegisterParticipants, FileKyc, SaveActivation, CheckActivation, SyncCapabilities, Reload,
         HasForm, Onboards
<1>2. /\ Fits(company) /\ Applied(company) /\ at[w].saw = company
      /\ at[w].pc = "reload" /\ company.recipient => smp = "full"
  BY <1>1 DEF InDue, Due, Busy, Switches, Undoes, Onboards, Reads
<1>3. Fits(company)' /\ Applied(company)'
  BY <1>1, <1>2 DEF Fits, FitsWith, Applied, French
<1>4. \/ at'[w].pc \in {"idle", "block", "failed"}
      \/ at'[w].pc \in {"kyc", "filed", "activation"} /\ at'[w].saw = company
      \/ at'[w].pc = "sync" /\ at'[w].saw = company /\ company.recipient
      \/ /\ at'[w].pc \in {"reload", "finalize"} /\ at'[w].saw = company
         /\ company.recipient => smp' = "full"
  <2>1. CASE RegisterParticipants(w) \/ FileKyc(w) \/ SaveActivation(w)
    BY <1>1, <1>2, <2>1 DEF RegisterParticipants, FileKyc, SaveActivation
  <2>2. CASE CheckActivation(w)
    BY <1>1, <1>2, <2>2 DEF CheckActivation, Company
  <2>3. CASE SyncCapabilities(w) \/ Reload(w)
    BY <1>1, <1>2, <2>3 DEF SyncCapabilities, Reload
  <2> QED
    BY <2>1, <2>2, <2>3
<1>5. CASE at'[w].pc \in {"idle", "block", "failed"}
  BY <1>1, <1>3, <1>5, DueSettled DEF Settled
<1>6. CASE at'[w].pc \notin {"idle", "block", "failed"}
  BY <1>1, <1>3, <1>4, <1>6 DEF InDue, Due, Busy, Switches, Undoes, Onboards, Reads
<1> QED
  BY <1>5, <1>6

LEMMA DueFailed ==
    ASSUME VerificationTypes, NEW w \in Worker, InDue(w), StepFails(w)
    PROVE  InDue(w)'
<1> USE VerificationAssumption
    DEF VerificationTypes, TypeOK, Handler, sessions, HandlerState, Go
<1>1. /\ UNCHANGED <<company, signed>> /\ HasForm' = HasForm /\ w \in Handler
      /\ at'[w].pc = "failed" /\ at[w].pc \notin Switches \cup Undoes \cup {"commit", "restore"}
      /\ smp' = smp \/ (smp' \in {"bare", "full"} /\ at[w].pc \in {"participants", "sync"})
      /\ smp' = smp \/ smp' = "full" \/ smp = "none"
  BY DEF StepFails, HasForm, Switches, Undoes
<1>2. Fits(company)
  BY <1>1, DueFits
<1>3. at[w].pc \in {"participants", "sync"} => Applied(company)
  BY <1>1 DEF InDue, Due, Busy, Onboards
<1>4. Fits(company)'
  BY <1>1, <1>2, <1>3 DEF Fits, FitsWith, Applied
<1> QED
  BY <1>1, <1>4, DueSettled DEF Settled

\* An update: its switch is meant for the row it wrote, what it does not change fits the
\* row it read, and a company with a form is not moved out of France.
LEMMA DueReadUpdate ==
    ASSUME VerificationTypes, NEW u \in Updater, NEW change \in Change, InDue(u),
           ReadForUpdate(u, change)
    PROVE  InDue(u)'
<1>1. /\ UNCHANGED <<company, smp, signed>> /\ HasForm' = HasForm /\ u \in Handler
      /\ at[u].pc = "idle" /\ at'[u].saw = company /\ at'[u].pc \in {"move", "write"}
  BY DEF ReadForUpdate, Free, Busy, HasForm, Idle, VerificationTypes, TypeOK, Handler, sessions
<1>2. Fits(company)'
  BY <1>1, DueFits DEF Switches, Undoes, Fits
<1> QED
  BY <1>1, <1>2 DEF InDue, Due, Busy, Switches, Undoes, Onboards, Reads

LEMMA DueWrite ==
    ASSUME VerificationTypes, NEW u \in Updater, InDue(u), WriteCompany(u)
    PROVE  InDue(u)'
<1> DEFINE to == CASE ~ShouldRegister(company) /\ ShouldRegister(company') -> "register"
                   [] ShouldRegister(company) /\ ~ShouldRegister(company') -> "unregister"
                   [] OTHER -> "free"
<1>1. /\ at[u].pc = "write" /\ UNCHANGED <<smp, signed>> /\ HasForm' = HasForm /\ u \in Handler
      /\ at[u].goal \in {"numbers", "recipient"}
  BY DEF WriteCompany, HasForm, Handler, VerificationTypes, PlacedInv, sessions
<1>2. at[u].saw = company /\ Fits(company)
  BY <1>1 DEF InDue, Due, Busy, Reads, Switches, Undoes
<1>3. company' = Edit(company, at[u].goal)
  BY <1>1, <1>2 DEF WriteCompany, Edit, VerificationTypes, TypeOK, Company
<1>4. at' = [at EXCEPT ![u].pc = to, ![u].move = to]
  BY <1>2, <1>3 DEF WriteCompany
<1>5. /\ at'[u].pc = to /\ at'[u].move = to /\ at'[u].saw = company
  BY <1>1, <1>2, <1>4 DEF VerificationTypes, TypeOK, HandlerState
<1>6. French(company') = French(company)
  BY <1>1, <1>3 DEF Edit, French, VerificationTypes, TypeOK, Company
<1>7. /\ to \in Switches \cup {"free"}
      /\ to = "register" => ~ShouldRegister(company) /\ ShouldRegister(company')
      /\ to = "unregister" => ShouldRegister(company) /\ ~ShouldRegister(company')
      /\ to = "free" => (ShouldRegister(company) <=> ShouldRegister(company'))
  BY DEF Switches
<1> HIDE DEF to
<1>8. Fits(at[u].saw)'
  BY <1>1, <1>2, <1>5 DEF Fits
<1>9. to = "free" => Fits(company)'
  BY <1>1, <1>2, <1>6, <1>7 DEF Fits, FitsWith
<1>10. Target(u)' = company'
  BY DEF Target
<1>11. to \in Switches => Reversible(u)'
  BY <1>5, <1>7 DEF Reversible, Switches
<1> QED
  BY <1>1, <1>5, <1>7, <1>8, <1>9, <1>10, <1>11
  DEF InDue, Due, Busy, Switches, Undoes, Onboards, Reads

LEMMA DueUpdate ==
    ASSUME VerificationTypes, NEW u \in Updater, InDue(u),
           CheckFree(u) \/ Restore(u) \/ FinishUpdate(u) \/ MoveCountry(u)
    PROVE  InDue(u)'
<1> USE IdleState DEF VerificationTypes, TypeOK, Handler, sessions, HandlerState, Go, Leave
<1>1. /\ UNCHANGED <<smp, signed>> /\ HasForm' = HasForm /\ u \in Handler
  BY DEF CheckFree, Restore, FinishUpdate, MoveCountry, HasForm
<1>2. CASE CheckFree(u)
  <2>1. /\ at[u].pc = "free" /\ UNCHANGED company /\ at'[u].saw = at[u].saw
        /\ at'[u].pc \in {"finish", "restore"}
    BY <1>2 DEF CheckFree
  <2>2. Fits(company)' /\ Fits(at[u].saw)'
    BY <1>1, <2>1 DEF InDue, Due, Busy, Switches, Undoes, Fits
  <2> QED
    BY <1>1, <2>1, <2>2 DEF InDue, Due, Busy, Switches, Undoes, Onboards, Reads
<1>3. CASE Restore(u)
  <2>1. at[u].pc = "restore" /\ company' = at[u].saw /\ at'[u].pc = "idle"
    BY <1>3 DEF Restore
  <2>2. Fits(at[u].saw)
    BY <2>1 DEF InDue, Due, Busy
  <2>3. Fits(company)'
    BY <1>1, <2>1, <2>2 DEF Fits
  <2> QED
    BY <1>1, <2>1, <2>3, DueSettled DEF Settled
<1>4. CASE FinishUpdate(u)
  <2>1. at[u].pc = "finish" /\ UNCHANGED company /\ at'[u].pc = "idle"
    BY <1>4 DEF FinishUpdate
  <2> QED
    BY <1>1, <2>1, DueSame DEF Settled, Switches, Undoes
<1>5. CASE MoveCountry(u)
  <2>1. at[u].pc = "move" /\ at'[u].pc = "idle"
    BY <1>5 DEF MoveCountry
  <2>2. Fits(company)
    BY <1>1, <2>1, DueFits DEF Switches, Undoes
  <2>3. CASE UNCHANGED company
    BY <1>1, <2>1, <2>3, DueSame DEF Settled, Switches, Undoes
  <2>4. CASE /\ ~ShouldRegister(company) /\ ~ShouldRegister(company')
             /\ \A s \in Session : ~signed[s]
    <3>1. smp = "none"
      BY <2>2, <2>4 DEF Fits, FitsWith, HasForm
    <3>2. Fits(company)'
      BY <1>1, <2>4, <3>1 DEF Fits, FitsWith
    <3> QED
      BY <1>1, <2>1, <3>2, DueSettled DEF Settled
  <2> QED
    BY <1>5, <2>3, <2>4 DEF MoveCountry, Started
<1> QED
  BY <1>2, <1>3, <1>4, <1>5

\* Whoever was alone when it died does not count as undisturbed any more.
LEMMA AloneElsewhere ==
    ASSUME AloneInv, UNCHANGED <<company, smp, at, alone>>, HasForm' = HasForm
    PROVE  AloneInv'
<1>1. \A h \in Handler : Due(h) => Due(h)'
  BY DEF Due, Fits, Applied, Reversible, Target, Outcome
<1> QED
  BY <1>1 DEF AloneInv, Busy, Fits

LEMMA AloneNext ==
    ASSUME VerificationTypes, SignedInv, AloneInv, [Next]_vars PROVE AloneInv'
<1> USE VerificationAssumption, IdleState
    DEF Handler, Locking, Deciding, sessions, outside
<1>0. at \in [Handler -> HandlerState]
  BY DEF VerificationTypes, TypeOK
<1>1. ASSUME NEW s \in Session, StartSession(s) \/ Resume(s) \/ \E o \in Report : Decide(s, o)
      PROVE  AloneInv'
  BY <1>1, AloneElsewhere DEF StartSession, Resume, Decide, HasForm
<1>2. ASSUME NEW f \in Form, NEW s \in Session, LoadForm(f, s) PROVE AloneInv'
  <2>1. /\ at[f].pc = "idle" /\ at'[f].pc \in {"claim", "start"}
        /\ \A g \in Handler : g # f => at'[g] = at[g]
    BY <1>0, <1>2 DEF LoadForm, Free, Busy, Idle
  <2>2. UNCHANGED <<company, smp>> /\ HasForm' = HasForm
    BY <1>2 DEF LoadForm, HasForm
  <2>3. InDue(f) => InDue(f)'
    BY <2>1, <2>2, DueSame DEF Settled, Switches, Undoes
  <2> QED
    BY <1>2, <2>1, <2>3, AloneByOne DEF LoadForm, Begin
<1>3. ASSUME NEW f \in Form, ClaimForm(f) \/ StartCheck(f) PROVE AloneInv'
  <2>1. /\ at[f].pc \in {"claim", "start"} /\ at'[f].pc \in {"idle", "start"}
        /\ \A g \in Handler : g # f => at'[g] = at[g]
    <3>1. at[f].pc \in {"claim", "start"} /\ (Go(f, "start") \/ Leave(f))
      BY <1>3 DEF ClaimForm, StartCheck
    <3> QED
      BY <1>0, <3>1 DEF Go, Leave, HandlerState
  <2>2. UNCHANGED <<company, smp, alone>>
    BY <1>3 DEF ClaimForm, StartCheck
  <2>3. HasForm => HasForm'
    <3>1. UNCHANGED signed \/ signed' = [signed EXCEPT ![at[f].on] = TRUE]
      BY <1>3 DEF ClaimForm, StartCheck
    <3>2. \A s \in Session : signed[s] => signed'[s]
      BY <3>1 DEF VerificationTypes, TypeOK
    <3> QED
      BY <3>2 DEF HasForm
  <2>4. InDue(f) => InDue(f)'
    BY <2>1, <2>2, <2>3, DueSame DEF Settled, Switches, Undoes
  <2> QED
    BY <2>1, <2>2, <2>4, AloneByOne DEF Busy
<1>4. ASSUME NEW h \in Reporter, NEW s \in Session, NEW o \in Report, TakeReport(h, s, o)
      PROVE  AloneInv'
  <2> DEFINE taken == [Idle EXCEPT !.on = s, !.goal = o,
                          !.pc = IF o = "In Review" THEN "review" ELSE "company"]
  <2>1. /\ UNCHANGED <<company, smp>> /\ HasForm' = HasForm /\ at[h].pc = "idle"
        /\ at' = at \/ at' = [at EXCEPT ![h] = taken]
    BY <1>4 DEF TakeReport, HasForm, Free, Busy
  <2>2. taken.pc \in {"review", "company"}
    BY DEF Idle
  <2> HIDE DEF taken
  <2>3. /\ at'[h].pc \in {"idle", "review", "company"}
        /\ \A g \in Handler : g # h => at'[g] = at[g]
    BY <1>0, <2>1, <2>2
  <2>4. InDue(h) => InDue(h)'
    BY <2>1, <2>3, DueSame DEF Settled, Switches, Undoes
  <2> QED
    BY <1>4, <2>3, <2>4, AloneByOne DEF TakeReport, Begin
<1>5. ASSUME NEW h \in Reporter,
             SetInReview(h) \/ HoldForReview(h) \/ StartKycReview(h) \/ Retry(h)
      PROVE  AloneInv'
  <2>1. /\ at[h].pc \in {"review", "hold", "kycReview", "retry"} /\ at'[h].pc = "idle"
        /\ \A g \in Handler : g # h => at'[g] = at[g]
    BY <1>0, <1>5 DEF SetInReview, HoldForReview, StartKycReview, Retry, Answer, Leave
  <2>2. UNCHANGED <<company, smp, alone>> /\ HasForm' = HasForm
    BY <1>5 DEF SetInReview, HoldForReview, StartKycReview, Retry, HasForm
  <2>3. InDue(h) => InDue(h)'
    BY <2>1, <2>2, DueSame DEF Settled, Switches, Undoes
  <2> QED
    BY <2>1, <2>2, <2>3, AloneByOne DEF Busy
<1>6. ASSUME NEW h \in Reporter, ReadCompany(h) PROVE AloneInv'
  <2>1. at[h].pc # "idle" /\ UNCHANGED alone /\ \A g \in Handler : g # h => at'[g] = at[g]
    BY <1>0, <1>6 DEF ReadCompany, Answer, Leave
  <2> QED
    BY <1>6, <2>1, AloneByOne, DueReadCompany DEF Busy
<1>7. ASSUME NEW h \in Deciding, ReadSession(h) \/ Commit(h) PROVE AloneInv'
  <2>1. at[h].pc # "idle" /\ UNCHANGED alone /\ \A g \in Handler : g # h => at'[g] = at[g]
    BY <1>0, <1>7 DEF ReadSession, Commit, Resolve, Answer, Go, Leave
  <2> QED
    BY <1>7, <2>1, AloneByOne, DueReadSession, DueCommit DEF Busy
<1>8. ASSUME NEW h \in Deciding \cup Updater, Register(h) \/ Unregister(h) PROVE AloneInv'
  <2>1. at[h].pc # "idle" /\ UNCHANGED alone /\ \A g \in Handler : g # h => at'[g] = at[g]
    BY <1>0, <1>8 DEF Register, Unregister, Go
  <2> QED
    BY <1>8, <2>1, AloneByOne, DueSwitch DEF Busy
<1>9. ASSUME NEW h \in Deciding \cup Updater, Undo(h) PROVE AloneInv'
  <2>1. at[h].pc # "idle" /\ (alone' => alone)
    BY <1>9 DEF Undo
  <2>2. \A g \in Handler : g # h => at'[g] = at[g]
    BY <1>0, <1>9 DEF Undo, Go, Leave
  <2> QED
    BY <1>9, <2>1, <2>2, AloneByOne, DueUndo DEF Busy
<1>10. ASSUME NEW h \in Deciding, SetError(h) \/ Publish(h) PROVE AloneInv'
  <2>1. /\ at[h].pc \in {"error", "publish", "publishError"}
        /\ at'[h].pc \in {"idle", "publishError", "notify", "block", "retry"}
        /\ \A g \in Handler : g # h => at'[g] = at[g]
    BY <1>0, <1>10 DEF SetError, Publish, Resolve, Answer, Go, Leave, HandlerState
  <2>2. UNCHANGED <<company, smp, alone>> /\ HasForm' = HasForm
    BY <1>10 DEF SetError, Publish, HasForm
  <2>3. InDue(h) => InDue(h)'
    BY <2>1, <2>2, DueSame DEF Settled, Switches, Undoes
  <2> QED
    BY <2>1, <2>2, <2>3, AloneByOne DEF Busy
<1>11. ASSUME NEW w \in Worker, NEW s \in Session, Select(w, s) PROVE AloneInv'
  <2>1. \A g \in Handler : g # w => at'[g] = at[g]
    BY <1>0, <1>11 DEF Select
  <2> QED
    BY <1>11, <2>1, AloneByOne, DueSelect DEF Select, Begin
<1>12. ASSUME NEW w \in Worker,
              \/ RegisterParticipants(w) \/ FileKyc(w) \/ SaveActivation(w)
              \/ CheckActivation(w) \/ SyncCapabilities(w) \/ Reload(w)
       PROVE  AloneInv'
  <2>1. at[w].pc # "idle" /\ UNCHANGED alone /\ \A g \in Handler : g # w => at'[g] = at[g]
    BY <1>0, <1>12
    DEF RegisterParticipants, FileKyc, SaveActivation, CheckActivation, SyncCapabilities, Reload,
        Go, Leave
  <2> QED
    BY <1>12, <2>1, AloneByOne, DueOnboard DEF Busy
<1>13. ASSUME NEW w \in Worker,
              Notify(w) \/ SavePhase(w) \/ RetryLater(w) \/ \E s \in Session : GiveUp(w, s)
       PROVE  AloneInv'
  <2>1. /\ at[w].pc \in {"notify", "complete", "block", "refuse", "failed"}
        /\ at'[w].pc \in {"idle", "complete", "block"}
        /\ \A g \in Handler : g # w => at'[g] = at[g]
    BY <1>0, <1>13 DEF Notify, SavePhase, RetryLater, GiveUp, Go, Leave, HandlerState
  <2>2. UNCHANGED <<company, smp, alone>> /\ HasForm' = HasForm
    BY <1>13 DEF Notify, SavePhase, RetryLater, GiveUp, HasForm
  <2>3. InDue(w) => InDue(w)'
    BY <2>1, <2>2, DueSame DEF Settled, Switches, Undoes
  <2> QED
    BY <2>1, <2>2, <2>3, AloneByOne DEF Busy
<1>14. ASSUME NEW w \in Worker, StepFails(w) PROVE AloneInv'
  <2>1. at[w].pc # "idle" /\ UNCHANGED alone /\ \A g \in Handler : g # w => at'[g] = at[g]
    BY <1>0, <1>14 DEF StepFails, Go
  <2> QED
    BY <1>14, <2>1, AloneByOne, DueFailed DEF Busy
<1>15. ASSUME NEW d \in Direct, TakeContract(d) PROVE AloneInv'
  <2>1. \A g \in Handler : g # d => at'[g] = at[g]
    BY <1>0, <1>15 DEF TakeContract
  <2> QED
    BY <1>15, <2>1, AloneByOne, DueContract DEF TakeContract, Begin
<1>16. ASSUME NEW d \in Direct, InsertContract(d) PROVE AloneInv'
  <2>1. at[d].pc # "idle" /\ UNCHANGED alone /\ \A g \in Handler : g # d => at'[g] = at[g]
    BY <1>0, <1>16 DEF InsertContract, Leave
  <2> QED
    BY <1>16, <2>1, AloneByOne, DueContract DEF Busy
<1>17. ASSUME NEW u \in Updater, NEW change \in Change, ReadForUpdate(u, change)
       PROVE  AloneInv'
  <2>1. \A g \in Handler : g # u => at'[g] = at[g]
    BY <1>0, <1>17 DEF ReadForUpdate
  <2> QED
    BY <1>17, <2>1, AloneByOne, DueReadUpdate DEF ReadForUpdate, Begin
<1>18. ASSUME NEW u \in Updater, WriteCompany(u) PROVE AloneInv'
  <2>1. at[u].pc # "idle" /\ UNCHANGED alone /\ \A g \in Handler : g # u => at'[g] = at[g]
    BY <1>0, <1>18 DEF WriteCompany
  <2> QED
    BY <1>18, <2>1, AloneByOne, DueWrite DEF Busy
<1>19. ASSUME NEW u \in Updater,
              CheckFree(u) \/ Restore(u) \/ FinishUpdate(u) \/ MoveCountry(u)
       PROVE  AloneInv'
  <2>1. at[u].pc # "idle" /\ UNCHANGED alone /\ \A g \in Handler : g # u => at'[g] = at[g]
    BY <1>0, <1>19 DEF CheckFree, Restore, FinishUpdate, MoveCountry, Go, Leave
  <2> QED
    BY <1>19, <2>1, AloneByOne, DueUpdate DEF Busy
<1>20. ASSUME NEW h \in Handler, Crash(h) PROVE AloneInv'
  BY <1>20 DEF Crash, AloneInv
<1>21. CASE UNCHANGED vars
  BY <1>21, AloneElsewhere DEF vars, HasForm
<1> QED
  BY <1>1, <1>2, <1>3, <1>4, <1>5, <1>6, <1>7, <1>8, <1>9, <1>10, <1>11, <1>12,
     <1>13, <1>14, <1>15, <1>16, <1>17, <1>18, <1>19, <1>20, <1>21
  DEF Next, ReportStep, WorkerStep, DirectStep, FormStep, UpdateStep, FinalizeStep

\* A call or a statement that fails is made up for: when no handlers overlapped, none died
\* and no rollback failed, a company is on the SMP whenever it should be, and one outside
\* France only then (rollbackSmpTransition, the restored row, the order of the worker's
\* steps), for any sessions, handlers and faults.
THEOREM RegisteredWhenItShould == Spec => []RegisteredWhenDue
<1> DEFINE Inv == SignedInv /\ AloneInv
<1>1. Init => Inv
  <2>1. Init => \A h \in Handler : at[h].pc = "idle"
    BY IdleState DEF Init
  <2>2. Init => Fits(company)
    BY DEF Init, Fits, FitsWith
  <2>3. Init => AloneInv
    BY <2>1, <2>2 DEF AloneInv, Busy
  <2> QED
    BY <2>3, FiledInit
<1>2. VerificationInv /\ Inv /\ [Next]_vars => Inv'
  BY SignedNext, AloneNext DEF VerificationInv
<1>3. Inv => RegisteredWhenDue
  BY DEF AloneInv, RegisteredWhenDue, Fits, FitsWith
<1> HIDE DEF Inv
<1> QED
  BY VerificationInvHolds, <1>1, <1>2, <1>3, PTL DEF Spec
==============================================================================
