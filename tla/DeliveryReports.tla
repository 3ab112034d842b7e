-------------------------- MODULE DeliveryReports --------------------------
(***************************************************************************)
(* What the providers report about one Peppol transmission, and how it       *)
(* reaches the delivery (src/data/deliveries/index.ts, reconcile.ts).  Every *)
(* statement is keyed by the provider's transaction, so transactions do not  *)
(* interact.  The delivery row exists once the sending request, or the       *)
(* webhook for a document the provider sent, has recorded the document; a    *)
(* report that overtakes that waits in peppol_provider_delivery_reports, one *)
(* row per transaction.                                                     *)
(*                                                                          *)
(* A worker is a request, a recording or a cron job in the middle of one of  *)
(* the functions of the module; each await is one action.  An email message  *)
(* is reported on in the same way, without the fallback.                    *)
(***************************************************************************)
EXTENDS Naturals

CONSTANTS
    Request,    \* webhook requests handled at the same time
    Recorder,   \* the call that records the document
    Cron,       \* the reconciliation; its ticks never overlap
    MaxFault    \* bound: workers that die or have a statement fail

Worker == Request \cup {Recorder, Cron}

ASSUME WorkersAssumption ==
    /\ Recorder \notin Request /\ Cron \notin Request /\ Recorder # Cron
    /\ MaxFault \in Nat

VARIABLES
    status,     \* document_deliveries.status; "none" before, "gone" after
    ended,      \* reconciliation_ended_at is set
    staged,     \* status of the staged report, or "none"
    told,       \* delivery_status events published, per status
    called,     \* the email fallback has been called for the failure
    pc,         \* the await each worker is at
    report,     \* the status each worker is about to apply
    settled,    \* what the provider has decided so far (external)
    heard,      \* statuses whose report was answered with success
    dropped,    \* a staged report was pruned unmatched
    faults      \* faults so far

delivery == <<status, ended, told, called>>
staging  == <<staged, dropped>>
provider == <<settled, heard>>
vars     == <<delivery, staging, provider, pc, report, faults>>

Final    == {"delivered", "failed"}
Recorded == {"pending"} \cup Final

Goto(w, label) == pc' = [pc EXCEPT ![w] = label]

Init ==
    /\ status = "none" /\ ended = FALSE
    /\ staged = "none" /\ dropped = FALSE
    /\ told = [s \in Final |-> 0] /\ called = FALSE
    /\ pc = [w \in Worker |-> "idle"]
    /\ report = [w \in Worker |-> "none"]
    /\ settled = {} /\ heard = {}
    /\ faults = 0

----------------------------------------------------------------------------
(* What starts a worker.                                                    *)

\* The provider decides, and may contradict itself later (a bounce after a
\* delivery confirmation).
Settle(s) ==
    /\ s \notin settled
    /\ settled' = settled \cup {s}
    /\ UNCHANGED <<delivery, staging, heard, pc, report, faults>>

\* A webhook request carries a report: the first time, repeated, or late.
Receive(w, s) ==
    /\ pc[w] = "idle" /\ s \in settled
    /\ Goto(w, "find")
    /\ report' = [report EXCEPT ![w] = s]
    /\ UNCHANGED <<delivery, staging, provider, faults>>

\* The recording transaction writes the document and its pending delivery.
Record ==
    /\ status = "none" /\ pc[Recorder] = "idle"
    /\ status' = "pending"
    /\ Goto(Recorder, "publish")
    /\ UNCHANGED <<ended, told, called, staging, provider, report, faults>>

\* The document.sent event and the usage events (RecordOutgoing has them); then
\* the reports staged in the meantime are applied.
Publish ==
    /\ pc[Recorder] = "publish"
    /\ Goto(Recorder, "select")
    /\ UNCHANGED <<delivery, staging, provider, report, faults>>

Poll_OnlyEnded(s) ==
    /\ status = "pending" /\ ended
    /\ pc[Cron] = "idle" /\ s \in settled
    /\ Goto(Cron, "find")
    /\ report' = [report EXCEPT ![Cron] = s]
    /\ UNCHANGED <<delivery, staging, provider, faults>>

\* A step of the reconciliation tick asks the provider about a pending delivery,
\* until it has given up on it.
Poll(s) ==
    /\ status = "pending" /\ ~ended
    /\ pc[Cron] = "idle" /\ s \in settled
    /\ Goto(Cron, "find")
    /\ report' = [report EXCEPT ![Cron] = s]
    /\ UNCHANGED <<delivery, staging, provider, faults>>

\* Three days pass without an outcome.
StopAsking ==
    /\ pc[Cron] = "idle" /\ status = "pending" /\ ~ended
    /\ ended' = TRUE
    /\ UNCHANGED <<status, told, called, staging, provider, pc, report, faults>>

\* The replay selects the staged reports whose delivery exists.
Drain ==
    /\ staged # "none" /\ status \in Recorded
    /\ pc[Cron] = "idle"
    /\ Goto(Cron, "select")
    /\ UNCHANGED <<delivery, staging, provider, report, faults>>

\* Reports that waited seven days without a delivery are dropped; any may have waited so
\* long.
Prune ==
    /\ pc[Cron] = "idle" /\ staged # "none" /\ status \notin Recorded
    /\ staged' = "none" /\ dropped' = TRUE
    /\ UNCHANGED <<delivery, provider, pc, report, faults>>

\* The team deletes the document; its deliveries go with it.
Delete ==
    /\ status \in Recorded
    /\ status' = "gone"
    /\ UNCHANGED <<ended, told, called, staging, provider, pc, report, faults>>

----------------------------------------------------------------------------
(* applyProviderDeliveryReport.                                             *)

\* deliveryStatusMoves: only an open delivery moves.
Moves(current) == current = "pending"

Find_GivesUp(w) ==
    /\ pc[w] = "find"
    /\ Goto(w, IF status \notin Recorded THEN "stage" ELSE IF Moves(status) THEN "move" ELSE "ack")
    /\ UNCHANGED <<delivery, staging, provider, report, faults>>

\* findDeliveryForReport.  A repeat that finds a failed delivery gives its email
\* fallback another chance.
Find(w) ==
    /\ pc[w] = "find"
    /\ \/ /\ status \notin Recorded
          /\ Goto(w, "stage")
          /\ UNCHANGED called
       \/ /\ status \in Recorded /\ Moves(status)
          /\ Goto(w, "move")
          /\ UNCHANGED called
       \/ /\ status \in Recorded /\ ~Moves(status)
          /\ Goto(w, "ack")
          /\ called' = (called \/ status = "failed")
    /\ UNCHANGED <<status, ended, told, staging, provider, report, faults>>

\* A worker that applies a report it selected from the staging goes on to delete
\* it; one that applies its own report is done.
FromStaging(w) == pc[w] \in {"moveStaged", "afterStaged"}

MoveTo(s) ==
    /\ status' = s
    /\ told' = [told EXCEPT ![s] = @ + 1]

Move_Unconditional(w) ==
    /\ pc[w] \in {"move", "moveStaged"}
    /\ IF status \in Recorded
         THEN /\ MoveTo(report[w])
              /\ Goto(w, IF FromStaging(w) THEN "afterStaged" ELSE "after")
         ELSE /\ UNCHANGED <<status, told>>
              /\ Goto(w, IF FromStaging(w) THEN "unstage" ELSE "ack")
    /\ UNCHANGED <<ended, called, staging, provider, report, faults>>

Move_Silent(w) ==
    /\ pc[w] \in {"move", "moveStaged"}
    /\ IF status = "pending"
         THEN /\ status' = report[w]
              /\ told' = IF FromStaging(w) THEN told
                         ELSE [told EXCEPT ![report[w]] = @ + 1]
              /\ Goto(w, IF FromStaging(w) THEN "afterStaged" ELSE "after")
         ELSE /\ UNCHANGED <<status, told>>
              /\ Goto(w, IF FromStaging(w) THEN "unstage" ELSE "ack")
    /\ UNCHANGED <<ended, called, staging, provider, report, faults>>

\* applyReportToDelivery's transaction: a conditional update on the status the
\* delivery was read in (pending, as nothing else moves) and the event with it.
Move(w) ==
    /\ pc[w] \in {"move", "moveStaged"}
    /\ IF status = "pending"
         THEN /\ MoveTo(report[w])
              /\ Goto(w, IF FromStaging(w) THEN "afterStaged" ELSE "after")
         ELSE /\ UNCHANGED <<status, told>>
              /\ Goto(w, IF FromStaging(w) THEN "unstage" ELSE "ack")
    /\ UNCHANGED <<ended, called, staging, provider, report, faults>>

\* The audit event, and for a failure the email fallback, which does not throw.
AfterMove(w) ==
    /\ pc[w] \in {"after", "afterStaged"}
    /\ called' = (called \/ report[w] = "failed")
    /\ Goto(w, IF FromStaging(w) THEN "unstage" ELSE "ack")
    /\ UNCHANGED <<status, ended, told, staging, provider, report, faults>>

\* The report is kept, unless one is kept for the transaction already.
Stage(w) ==
    /\ pc[w] = "stage"
    /\ IF staged = "none" THEN staged' = report[w]
                          ELSE UNCHANGED staged
    /\ Goto(w, "select")
    /\ UNCHANGED <<delivery, dropped, provider, report, faults>>

----------------------------------------------------------------------------
(* applyStagedDeliveryReport.                                               *)

Select_Blind(w) ==
    /\ pc[w] = "select"
    /\ Goto(w, "refind") /\ report' = [report EXCEPT ![w] = staged]
    /\ UNCHANGED <<delivery, staging, provider, faults>>

Select(w) ==
    /\ pc[w] = "select"
    /\ IF staged = "none"
         THEN Goto(w, "ack") /\ UNCHANGED report
         ELSE Goto(w, "refind") /\ report' = [report EXCEPT ![w] = staged]
    /\ UNCHANGED <<delivery, staging, provider, faults>>

Refind_DeletesFirst(w) ==
    /\ pc[w] = "refind"
    /\ IF status \in Recorded
         THEN staged' = "none" /\ Goto(w, "moveStaged")
         ELSE Goto(w, "ack") /\ UNCHANGED staged
    /\ UNCHANGED <<delivery, dropped, provider, report, faults>>

\* The delivery of the staged report; without one the report stays staged.
Refind(w) ==
    /\ pc[w] = "refind"
    /\ \/ status \notin Recorded /\ Goto(w, "ack")
       \/ status \in Recorded /\ Moves(status) /\ Goto(w, "moveStaged")
       \/ status \in Recorded /\ ~Moves(status) /\ Goto(w, "unstage")
    /\ UNCHANGED <<delivery, staging, provider, report, faults>>

\* Applied or found final: whatever is staged for the transaction is deleted.
Unstage(w) ==
    /\ pc[w] = "unstage"
    /\ staged' = "none"
    /\ Goto(w, "ack")
    /\ UNCHANGED <<delivery, dropped, provider, report, faults>>

----------------------------------------------------------------------------
\* The worker returns; a webhook request is answered with success.
Return(w) ==
    /\ pc[w] = "ack"
    /\ heard' = IF w \in Request THEN heard \cup {report[w]} ELSE heard
    /\ Goto(w, "idle")
    /\ report' = [report EXCEPT ![w] = "none"]
    /\ UNCHANGED <<delivery, staging, settled, faults>>

\* The process dies or a statement throws.  The request is answered with an error
\* or not at all; the recording and the crons log it and move on.
Fail(w) ==
    /\ pc[w] # "idle" /\ faults < MaxFault
    /\ faults' = faults + 1
    /\ Goto(w, "idle")
    /\ report' = [report EXCEPT ![w] = "none"]
    /\ UNCHANGED <<delivery, staging, provider>>

Step(w) ==
    \/ Find(w) \/ Move(w) \/ AfterMove(w) \/ Stage(w)
    \/ Select(w) \/ Refind(w) \/ Unstage(w) \/ Return(w)

Next ==
    \/ \E s \in Final : Settle(s) \/ Poll(s) \/ \E w \in Request : Receive(w, s)
    \/ Record \/ Publish \/ StopAsking \/ Drain \/ Prune \/ Delete
    \/ \E w \in Worker : Step(w) \/ Fail(w)

Spec == Init /\ [][Next]_vars

\* A worker that lives goes on, the crons tick, and the provider repeats a report
\* until it is answered with success.
Fairness ==
    /\ \A w \in Worker : WF_vars(Step(w))
    /\ WF_vars(Publish)
    /\ WF_vars(Drain)
    /\ WF_vars(\E s \in Final : Poll(s))
    /\ \A s \in Final :
          WF_vars(s \notin heard /\ \E w \in Request : Receive(w, s))

FairSpec == Spec /\ Fairness
----------------------------------------------------------------------------
(* Properties.                                                              *)

Label == {"idle", "publish", "find", "move", "after", "stage", "select",
          "refind", "moveStaged", "afterStaged", "unstage", "ack"}

TypeOK ==
    /\ status \in Recorded \cup {"none", "gone"} /\ ended \in BOOLEAN
    /\ staged \in Final \cup {"none"} /\ dropped \in BOOLEAN
    /\ told \in [Final -> Nat] /\ called \in BOOLEAN
    /\ pc \in [Worker -> Label]
    /\ report \in [Worker -> Final \cup {"none"}]
    /\ \A w \in Worker : pc[w] \in {"find", "move", "refind", "moveStaged"} =>
          report[w] \in Final
    /\ \A w \in Request : pc[w] # "idle" => report[w] \in Final
    /\ settled \subseteq Final /\ heard \subseteq Final
    /\ faults \in 0..MaxFault

\* "The customer hears about a change exactly once": as many webhooks, polls and
\* replays as apply a report, one event is published, with the status that stands.
ToldExactlyOnce ==
    /\ status # "gone" =>
          \A s \in Final : told[s] = IF status = s THEN 1 ELSE 0
    /\ told["delivered"] + told["failed"] <= 1

\* A report that was answered with success, and so is not repeated, is not lost: the
\* delivery is final, or the report still waits, or it found no document.
AcknowledgedIsKept ==
    heard # {} => status \in Final \cup {"gone"} \/ staged # "none" \/ dropped

\* "A final status is never overwritten by a report that arrives late or twice."
FinalStays ==
    [][(status \in Final) => status' \in {status, "gone"}]_vars

\* "A report whose delivery exists is retained until it can be applied": a staged
\* report goes only when the delivery no longer moves, or was never recorded in time.
RetainedUntilApplied ==
    [][staged # "none" /\ staged' = "none" => status # "pending"]_vars

\* The reports implement what is promised of the outcome.
Outcome == INSTANCE DeliveryOutcome WITH
    outcome <- status, kept <- staged # "none"

OutcomeKept == Outcome!FairSpec

\* A delivery the provider has settled does not stay pending, even if its webhook
\* never arrives, unless the poll had given up by then.
SettledIsLearned ==
    (status = "pending" /\ settled # {}) ~> (status # "pending" \/ ended)

\* A failure whose report is still to be answered reaches the email fallback, whichever
\* worker moved the delivery and wherever it was stopped: the report is repeated, and
\* the repeat finds the delivery failed.  A request that has already looked for the
\* delivery, or has staged its report, does not look again.
StillToAnswer ==
    /\ "failed" \notin heard
    /\ \A w \in Request : pc[w] \in {"idle", "find", "after"}

FailureReachesFallback ==
    (status = "failed" /\ StillToAnswer) ~> (called \/ status = "gone")
============================================================================
