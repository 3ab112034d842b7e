----------------------- MODULE DeliveryReportsProofs -----------------------
(***************************************************************************)
(* The delivery reports, for any number of concurrent requests and faults:  *)
(* the owner is told once, a final status stays, no acknowledged report is   *)
(* lost, and the reports implement DeliveryOutcome (its safety part).        *)
(***************************************************************************)
EXTENDS DeliveryReports, TLAPS

\* Where each worker may stand relative to the delivery.
WorkerInv ==
    \A w \in Worker :
        /\ pc[w] \in {"publish", "move", "moveStaged"} => status # "none"
        /\ pc[w] \in {"after", "afterStaged", "unstage"} =>
              status \notin {"none", "pending"}

\* The report has reached its delivery, or waits, or was given up on.
Kept == status \in Final \cup {"gone"} \/ staged # "none" \/ dropped

\* A request past its staging has left its report somewhere.
KeptInv ==
    /\ heard # {} => Kept
    /\ \A w \in Request :
          pc[w] \in {"after", "afterStaged", "select", "refind", "moveStaged",
                     "unstage", "ack"} => Kept

ReportsInv == TypeOK /\ WorkerInv /\ ToldExactlyOnce /\ KeptInv

----------------------------------------------------------------------------
\* Before the document is recorded nothing has been told, staged or learned.
LEMMA InitReports == Init => ReportsInv
<1> SUFFICES ASSUME Init PROVE ReportsInv
  OBVIOUS
<1> USE DEF Init, Worker, Final, Recorded, Label
<1>1. TypeOK
  <2>1. /\ told \in [Final -> Nat] /\ pc \in [Worker -> Label]
        /\ report \in [Worker -> Final \cup {"none"}]
    OBVIOUS
  <2>2. faults \in 0..MaxFault
    BY WorkersAssumption
  <2> QED
    BY <2>1, <2>2 DEF TypeOK
<1>2. WorkerInv /\ KeptInv
  BY DEF WorkerInv, KeptInv, Kept
<1>3. ToldExactlyOnce
  BY DEF ToldExactlyOnce
<1> QED
  BY <1>1, <1>2, <1>3 DEF ReportsInv

\* Every step keeps the types.
LEMMA TypeStep == TypeOK /\ [Next]_vars => TypeOK'
<1> SUFFICES ASSUME TypeOK, [Next]_vars PROVE TypeOK'
  OBVIOUS
<1> USE WorkersAssumption DEF TypeOK, Worker, Final, Recorded, Label, Goto,
        delivery, staging, provider
<1>1. ASSUME NEW s \in Final, Settle(s) PROVE TypeOK'
  BY <1>1 DEF Settle
<1>2. ASSUME NEW s \in Final, NEW w \in Request, Receive(w, s) PROVE TypeOK'
  BY <1>2 DEF Receive
<1>3. ASSUME NEW s \in Final, Poll(s) PROVE TypeOK'
  BY <1>3 DEF Poll
<1>4. CASE Record
  BY <1>4 DEF Record
<1>5. CASE Publish \/ Drain
  BY <1>5 DEF Publish, Drain
<1>6. CASE StopAsking \/ Prune \/ Delete
  BY <1>6 DEF StopAsking, Prune, Delete
<1>7. ASSUME NEW w \in Worker, Step(w) PROVE TypeOK'
  <2>1. CASE Find(w)
    BY <2>1 DEF Find, Moves
  <2>2. CASE Move(w)
    BY <2>2 DEF Move, MoveTo, FromStaging
  <2>3. CASE AfterMove(w)
    BY <2>3 DEF AfterMove, FromStaging
  <2>4. CASE Stage(w)
    BY <2>4 DEF Stage
  <2>5. CASE Select(w)
    BY <2>5 DEF Select
  <2>6. CASE Refind(w)
    BY <2>6 DEF Refind, Moves
  <2>7. CASE Unstage(w)
    BY <2>7 DEF Unstage
  <2>8. CASE Return(w)
    <3>1. report' \in [Worker -> Final \cup {"none"}] /\ pc' \in [Worker -> Label]
      BY <2>8 DEF Return
    <3>2. heard' \subseteq Final
      BY <2>8 DEF Return
    <3>3. ASSUME NEW v \in Worker, pc'[v] \in {"find", "move", "refind", "moveStaged"}
          PROVE report'[v] \in Final
      BY <3>3, <2>8 DEF Return
    <3>4. ASSUME NEW v \in Request, pc'[v] # "idle" PROVE report'[v] \in Final
      BY <3>4, <2>8 DEF Return
    <3>5. UNCHANGED <<delivery, staging, settled, faults>>
      BY <2>8 DEF Return
    <3> QED
      BY <3>1, <3>2, <3>3, <3>4, <3>5
  <2> QED
    BY <1>7, <2>1, <2>2, <2>3, <2>4, <2>5, <2>6, <2>7, <2>8 DEF Step
<1>8. ASSUME NEW w \in Worker, Fail(w) PROVE TypeOK'
  BY <1>8 DEF Fail
<1>9. CASE UNCHANGED vars
  BY <1>9 DEF vars
<1> QED
  BY <1>1, <1>2, <1>3, <1>4, <1>5, <1>6, <1>7, <1>8, <1>9 DEF Next

\* Where a worker stands relative to the delivery: rows never go back.
LEMMA WorkerStep == TypeOK /\ WorkerInv /\ [Next]_vars => WorkerInv'
<1> SUFFICES ASSUME TypeOK, WorkerInv, [Next]_vars, NEW v \in Worker
             PROVE /\ pc'[v] \in {"publish", "move", "moveStaged"} =>
                         status' # "none"
                   /\ pc'[v] \in {"after", "afterStaged", "unstage"} =>
                         status' \notin {"none", "pending"}
  BY DEF WorkerInv
<1> USE WorkersAssumption DEF TypeOK, WorkerInv, Worker, Final, Recorded, Goto,
        delivery, staging, provider
<1>1. ASSUME NEW s \in Final, Settle(s) \/ Poll(s) \/ \E w \in Request : Receive(w, s)
      PROVE pc'[v] = pc[v] \/ (pc'[v] = "find" /\ UNCHANGED status)
  BY <1>1 DEF Settle, Poll, Receive
<1>2. CASE Record \/ Publish \/ StopAsking \/ Drain \/ Prune \/ Delete
  BY <1>2 DEF Record, Publish, StopAsking, Drain, Prune, Delete
<1>3. ASSUME NEW w \in Worker, Step(w)
      PROVE /\ pc'[v] \in {"publish", "move", "moveStaged"} => status' # "none"
            /\ pc'[v] \in {"after", "afterStaged", "unstage"} =>
                  status' \notin {"none", "pending"}
  <2>1. CASE Find(w)
    BY <2>1 DEF Find, Moves
  <2>2. CASE Move(w)
    BY <2>2 DEF Move, MoveTo, FromStaging
  <2>3. CASE AfterMove(w)
    BY <2>3 DEF AfterMove, FromStaging
  <2>4. CASE Stage(w) \/ Select(w) \/ Unstage(w) \/ Return(w)
    BY <2>4 DEF Stage, Select, Unstage, Return
  <2>5. CASE Refind(w)
    BY <2>5 DEF Refind, Moves
  <2> QED
    BY <1>3, <2>1, <2>2, <2>3, <2>4, <2>5 DEF Step
<1>4. ASSUME NEW w \in Worker, Fail(w)
      PROVE pc'[v] \in {pc[v], "idle"} /\ UNCHANGED status
  BY <1>4 DEF Fail
<1>5. CASE UNCHANGED vars
  BY <1>5 DEF vars
<1>6. ASSUME NEW s \in Final, Settle(s) \/ Poll(s) \/ \E w \in Request : Receive(w, s)
      PROVE UNCHANGED status
  BY <1>6 DEF Settle, Poll, Receive
<1> QED
  BY <1>1, <1>2, <1>3, <1>4, <1>5, <1>6 DEF Next

\* Only a move settles a pending delivery, and it tells.
LEMMA StatusStep ==
    ASSUME TypeOK, [Next]_vars
    PROVE  \/ UNCHANGED <<status, told>>
           \/ status = "none" /\ status' = "pending" /\ UNCHANGED told
           \/ status \in Recorded /\ status' = "gone" /\ UNCHANGED told
           \/ /\ status = "pending"
              /\ \E s \in Final : /\ status' = s
                                  /\ told' = [told EXCEPT ![s] = @ + 1]
<1> USE DEF TypeOK, delivery, staging, provider
<1>1. ASSUME NEW s \in Final, Settle(s) \/ Poll(s) \/ \E w \in Request : Receive(w, s)
      PROVE UNCHANGED <<status, told>>
  BY <1>1 DEF Settle, Poll, Receive
<1>2. CASE Publish \/ StopAsking \/ Drain \/ Prune
  BY <1>2 DEF Publish, StopAsking, Drain, Prune
<1>3. CASE Record \/ Delete
  BY <1>3 DEF Record, Delete
<1>4. ASSUME NEW w \in Worker, Move(w)
      PROVE \/ UNCHANGED <<status, told>>
            \/ /\ status = "pending"
               /\ \E s \in Final : /\ status' = s
                                   /\ told' = [told EXCEPT ![s] = @ + 1]
  BY <1>4 DEF Move, MoveTo
<1>5. ASSUME NEW w \in Worker, Step(w), ~Move(w)
      PROVE UNCHANGED <<status, told>>
  BY <1>5 DEF Step, Find, AfterMove, Stage, Select, Refind, Unstage, Return
<1>6. ASSUME NEW w \in Worker, Fail(w) PROVE UNCHANGED <<status, told>>
  BY <1>6 DEF Fail
<1>7. CASE UNCHANGED vars
  BY <1>7 DEF vars
<1> QED
  BY <1>1, <1>2, <1>3, <1>4, <1>5, <1>6, <1>7 DEF Next

\* Only a move from pending tells the owner, so no step tells twice.
LEMMA ToldStep == TypeOK /\ ToldExactlyOnce /\ [Next]_vars => ToldExactlyOnce'
<1> SUFFICES ASSUME TypeOK, ToldExactlyOnce, [Next]_vars PROVE ToldExactlyOnce'
  OBVIOUS
<1> USE DEF TypeOK, ToldExactlyOnce, Final, Recorded
<1>1. CASE UNCHANGED <<status, told>>
  BY <1>1
<1>2. CASE status \in {"none"} \cup Recorded /\ status' \in {"pending", "gone"}
           /\ UNCHANGED told /\ (status' = "pending" => status = "none")
  BY <1>2
<1>3. CASE /\ status = "pending"
           /\ \E s \in Final : /\ status' = s
                               /\ told' = [told EXCEPT ![s] = @ + 1]
  BY <1>3
<1> QED
  BY <1>1, <1>2, <1>3, StatusStep

\* A report that is kept stays so: a staged report goes only once the delivery is
\* final, or as dropped.
LEMMA KeptStays == TypeOK /\ WorkerInv /\ [Next]_vars /\ Kept => Kept'
<1> SUFFICES ASSUME TypeOK, WorkerInv, [Next]_vars, Kept PROVE Kept'
  OBVIOUS
<1> USE DEF TypeOK, WorkerInv, Kept, Final, Recorded, delivery, staging, provider
<1>1. ASSUME NEW s \in Final, Settle(s) \/ Poll(s) \/ \E w \in Request : Receive(w, s)
      PROVE Kept'
  BY <1>1 DEF Settle, Poll, Receive
<1>2. CASE Record \/ Publish \/ StopAsking \/ Drain \/ Prune \/ Delete
  BY <1>2 DEF Record, Publish, StopAsking, Drain, Prune, Delete
<1>3. ASSUME NEW w \in Worker, Step(w) PROVE Kept'
  <2>1. CASE Move(w)
    BY <2>1 DEF Move, MoveTo
  <2>2. CASE Stage(w) \/ Unstage(w)
    BY <2>2 DEF Stage, Unstage
  <2>3. CASE Find(w) \/ AfterMove(w) \/ Select(w) \/ Refind(w) \/ Return(w)
    BY <2>3 DEF Find, AfterMove, Select, Refind, Return
  <2> QED
    BY <1>3, <2>1, <2>2, <2>3 DEF Step
<1>4. ASSUME NEW w \in Worker, Fail(w) PROVE Kept'
  BY <1>4 DEF Fail
<1>5. CASE UNCHANGED vars
  BY <1>5 DEF vars
<1> QED
  BY <1>1, <1>2, <1>3, <1>4, <1>5 DEF Next

\* No step of a request past its staging loses the report.
LEMMA KeptStep ==
    TypeOK /\ WorkerInv /\ KeptInv /\ [Next]_vars => KeptInv'
<1> SUFFICES ASSUME TypeOK, WorkerInv, KeptInv, [Next]_vars PROVE KeptInv'
  OBVIOUS
<1>1. Kept => Kept'
  BY KeptStays
<1> DEFINE Past == {"after", "afterStaged", "select", "refind", "moveStaged",
                    "unstage", "ack"}
<1>2. SUFFICES /\ heard' # heard => Kept'
               /\ \A v \in Request : pc'[v] \in Past /\ ~(pc[v] \in Past) => Kept'
  BY <1>1, <1>2 DEF KeptInv
<1> HIDE DEF Past
<1> USE WorkersAssumption DEF TypeOK, KeptInv, Worker, Goto, delivery, staging,
        provider
<1>3. CASE \E s \in Final : Settle(s) \/ Poll(s) \/ \E w \in Request : Receive(w, s)
  BY <1>3 DEF Settle, Poll, Receive, Past
<1>4. CASE Record \/ Publish \/ StopAsking \/ Drain \/ Prune \/ Delete
  BY <1>4 DEF Record, Publish, StopAsking, Drain, Prune, Delete, Past
<1>5. ASSUME NEW w \in Worker, Step(w)
      PROVE /\ heard' # heard => Kept'
            /\ \A v \in Request : pc'[v] \in Past /\ ~(pc[v] \in Past) => Kept'
  <2>1. CASE Find(w)
    BY <2>1 DEF Find, Moves, Past, Kept, Recorded, Final
  <2>2. CASE Move(w)
    BY <2>2 DEF Move, MoveTo, FromStaging, Past, Kept, Recorded, Final, WorkerInv
  <2>3. CASE Stage(w)
    BY <2>3 DEF Stage, Past, Kept, Final
  <2>4. CASE AfterMove(w) \/ Select(w) \/ Refind(w) \/ Unstage(w)
    BY <2>4 DEF AfterMove, Select, Refind, Unstage, Past, Kept
  <2>5. CASE Return(w)
    <3>1. heard' # heard => Kept
      BY <2>5 DEF Return
    <3> QED
      BY <1>1, <2>5, <3>1 DEF Return, Past
  <2> QED
    BY <1>5, <2>1, <2>2, <2>3, <2>4, <2>5 DEF Step
<1>6. ASSUME NEW w \in Worker, Fail(w)
      PROVE /\ heard' = heard
            /\ \A v \in Request : pc'[v] \in Past => pc[v] \in Past
  BY <1>6 DEF Fail, Past
<1>7. CASE UNCHANGED vars
  BY <1>7 DEF vars
<1> QED
  BY <1>3, <1>4, <1>5, <1>6, <1>7 DEF Next

\* Every worker, poll, cleanup and request keeps the invariant.
THEOREM ReportsInvariant == Spec => []ReportsInv
<1>1. Init => ReportsInv
  BY InitReports
<1>2. ReportsInv /\ [Next]_vars => ReportsInv'
  BY TypeStep, WorkerStep, ToldStep, KeptStep DEF ReportsInv
<1> QED
  BY <1>1, <1>2, PTL DEF Spec

----------------------------------------------------------------------------
\* The types of the reports' state.
THEOREM ReportTypes == Spec => []TypeOK
<1>1. ReportsInv => TypeOK
  BY DEF ReportsInv
<1> QED
  BY <1>1, ReportsInvariant, PTL

\* One event per outcome, with the status that stands, however many webhooks,
\* polls and replays apply a report at once.
THEOREM ToldOnce == Spec => []ToldExactlyOnce
<1>1. ReportsInv => ToldExactlyOnce
  BY DEF ReportsInv
<1> QED
  BY <1>1, ReportsInvariant, PTL

\* No report that was answered with success is lost.
THEOREM NoReportLost == Spec => []AcknowledgedIsKept
<1>1. ReportsInv => AcknowledgedIsKept
  BY DEF ReportsInv, KeptInv, Kept, AcknowledgedIsKept
<1> QED
  BY <1>1, ReportsInvariant, PTL

\* A delivered or failed delivery keeps that status.
THEOREM FinalIsFinal == Spec => FinalStays
<1>1. ReportsInv /\ [Next]_vars =>
        [(status \in Final) => status' \in {status, "gone"}]_vars
  BY StatusStep DEF ReportsInv, Final
<1> QED
  BY <1>1, ReportsInvariant, PTL DEF Spec, FinalStays

\* What a step may do to the staged report: it goes only when no pending delivery
\* could use it.
LEMMA StagedStep ==
    ASSUME ReportsInv, [Next]_vars
    PROVE  staged # "none" /\ staged' = "none" => status # "pending" /\ UNCHANGED <<status, told>>
<1> USE DEF ReportsInv, TypeOK, delivery, staging, provider, Final, Recorded
<1>1. ASSUME NEW s \in Final, Settle(s) \/ Poll(s) \/ \E w \in Request : Receive(w, s)
      PROVE UNCHANGED staged
  BY <1>1 DEF Settle, Poll, Receive
<1>2. CASE Record \/ Publish \/ StopAsking \/ Drain \/ Delete
  BY <1>2 DEF Record, Publish, StopAsking, Drain, Delete
<1>3. CASE Prune
  BY <1>3 DEF Prune
<1>4. ASSUME NEW w \in Worker, Unstage(w)
      PROVE status # "pending" /\ UNCHANGED <<status, told>>
  BY <1>4 DEF Unstage, WorkerInv
<1>5. ASSUME NEW w \in Worker, Step(w), ~Unstage(w)
      PROVE staged' = "none" => staged = "none"
  BY <1>5 DEF Step, Find, Move, AfterMove, Stage, Select, Refind, Return
<1>6. ASSUME NEW w \in Worker, Fail(w) PROVE UNCHANGED staged
  BY <1>6 DEF Fail
<1>7. CASE UNCHANGED vars
  BY <1>7 DEF vars
<1> QED
  BY <1>1, <1>2, <1>3, <1>4, <1>5, <1>6, <1>7 DEF Next

\* A staged report is retained for as long as a pending delivery could use it.
THEOREM ReportIsRetained == Spec => RetainedUntilApplied
<1>1. ReportsInv /\ [Next]_vars =>
        [staged # "none" /\ staged' = "none" => status # "pending"]_vars
  BY StagedStep
<1> QED
  BY <1>1, ReportsInvariant, PTL DEF Spec, RetainedUntilApplied

\* A step changes either the delivery or the staging.
LEMMA StagingApart ==
    ASSUME TypeOK, [Next]_vars
    PROVE  UNCHANGED <<status, told>> \/ UNCHANGED staged
<1> USE DEF delivery, staging, provider
<1>1. CASE \E s \in Final : Settle(s) \/ Poll(s) \/ \E w \in Request : Receive(w, s)
  BY <1>1 DEF Settle, Poll, Receive
<1>2. CASE Record \/ Publish \/ StopAsking \/ Drain \/ Prune \/ Delete
  BY <1>2 DEF Record, Publish, StopAsking, Drain, Prune, Delete
<1>3. ASSUME NEW w \in Worker, Step(w)
      PROVE UNCHANGED <<status, told>> \/ UNCHANGED staged
  BY <1>3 DEF Step, Find, Move, AfterMove, Stage, Select, Refind, Unstage, Return
<1>4. ASSUME NEW w \in Worker, Fail(w) PROVE UNCHANGED staged
  BY <1>4 DEF Fail
<1>5. CASE UNCHANGED vars
  BY <1>5 DEF vars
<1> QED
  BY <1>1, <1>2, <1>3, <1>4, <1>5 DEF Next

\* The reports implement the outcome they promise: each step settles, keeps, lets
\* go or forgets as the abstract specification does, or changes nothing in it.
THEOREM ReportsKeepOutcome == Spec => Outcome!Spec
<1>1. Init => Outcome!Init
  BY DEF Init, Outcome!Init, Outcome!Final, Final
<1>2. ReportsInv /\ [Next]_vars => [Outcome!Next]_(Outcome!vars)
  <2> SUFFICES ASSUME ReportsInv, [Next]_vars PROVE [Outcome!Next]_(Outcome!vars)
    OBVIOUS
  <2> USE DEF Outcome!Next, Outcome!vars, Outcome!Final, Final, Recorded, ReportsInv
  <2>1. CASE UNCHANGED <<status, told>>
    <3>1. CASE staged # "none" /\ staged' = "none"
      BY <2>1, <3>1, StagedStep DEF Outcome!LetGo
    <3>2. CASE staged' # "none"
      BY <2>1, <3>2 DEF Outcome!Keep
    <3>3. CASE staged = "none" /\ staged' = "none"
      BY <2>1, <3>3
    <3> QED
      BY <3>1, <3>2, <3>3
  <2>2. CASE status = "none" /\ status' = "pending" /\ UNCHANGED <<told, staged>>
    BY <2>2 DEF Outcome!Record
  <2>3. CASE status \in Recorded /\ status' = "gone" /\ UNCHANGED <<told, staged>>
    BY <2>3 DEF Outcome!SettleOrForget, Outcome!Forget
  <2>4. CASE /\ status = "pending" /\ UNCHANGED staged
             /\ \E s \in Final : /\ status' = s
                                 /\ told' = [told EXCEPT ![s] = @ + 1]
    BY <2>4 DEF Outcome!SettleOrForget, Outcome!Settle
  <2> QED
    BY <2>1, <2>2, <2>3, <2>4, StatusStep, StagingApart
<1> QED
  BY <1>1, <1>2, ReportsInvariant, PTL DEF Spec, Outcome!Spec
============================================================================
