# Verification of recommand-peppol

TLA+ models, TLC runs and TLAPS proofs for the service in `src/`: an API over which
companies send and receive documents (invoices, credit notes, e-reporting) on the Peppol
network. Postgres holds the state, S3 the old payloads, Postmark mails, and an external
access point (Arratech) transmits. Several instances of the service run at once; none of
them holds a lock longer than one statement or transaction, so every `await` is a place
where others act. That is the granularity of all models here: one action is one awaited
statement or request.

## The system and its inventory

| Component | State | Operations | Talks to | What is hard |
|---|---|---|---|---|
| Sending pipeline (`utils/pipelines/sending`) | none of its own | send a document, over Peppol, by mail, or mail if Peppol fails | access point, recording | stops after the document has left |
| Recording (`data/record-outgoing-document.ts`) | document and delivery rows, transfer events, outbox | upload the original, insert, publish, bill, replay early reports | sending, provider-sent, storage | inserted but not billed; two recorders of one transaction |
| Provider-sent transactions (`data/provider-sent`) | `outgoing_envelope_claims` | claim an envelope, record what the access point sent itself, prune claims | webhook, recording | report overtakes its own send |
| Delivery reports (`data/deliveries/index.ts`) | status of each delivery, staged reports | apply, stage, replay, drain, prune | webhook, poll, recording, fallback | contradicting and early reports |
| Reconciliation (`data/deliveries/reconcile*.ts`) | times of the last question | poll Arratech and the mail service, give up, drain what was left | deliveries, fallback | the poll races the report |
| Email fallback (`data/deliveries/email-fallback*.ts`) | the request in the document row | claim, mail each address, close, hand back | delivery reports, mail service, usage | mailed twice, or mailed and not billed |
| Offload (`data/offload`) | where the payloads are, its claim | claim, upload, finalise | S3, recording, deletion | worker dies or is slow halfway |
| S3 deletion (`data/s3-deletion`) | queue of prefixes | take, list, delete, remove | S3, document deletion | objects nobody remembers |
| Transmitted documents (`data/transmitted-documents.ts`) | document rows | list, read, mark, label, export, delete | storage, deletion queue | deletes while others work on the row |
| Receiving pipeline (`utils/pipelines/receiving`, `api/internal/arratech-webhook.ts`, `receive-document.ts`) | document rows | look, download, insert, announce, bill, notify, answer | access points, notifications, usage | one receipt delivered twice at once; stops between any two steps |
| Document notifications (`data/document-notifications.ts`, `send-document-notifications.ts`) | a row per email, a mark on unreachable addresses | send, refuse, apply reports, configure addresses | mail service, its webhook | reports in any order, repeated, or overtaking the request that sends |
| Verification, onboarding (`data/company-verification.ts`, `api/internal/didit-webhook.ts`, `data/at/kyc-onboarding*.ts`) | sessions, onboarding phase of each, `is_verified` of the company | start, submit the form, report, decide, onboard, verify by contract | Didit, access point, SMP, company updates | reports, worker, contracts and edits meet at one company |
| Companies, identifiers, document types, SMP (`data/companies.ts`, `data/company-identifiers.ts`, `data/phoss-smp`) | rows, and registrations at the SMP | create, change, verify, delete | SMP | two systems kept alike with no shared transaction |
| Participant migrations (`data/participant-migrations.ts`) | migration rows | start, hand out and take keys, cancel | SMP | a migration changed from both ends |
| French e-reporting (`api/reporting/submit.ts`, `data/fr-reporting-*.ts`) | registrations, one row per filed report with the time of its next check | register, suspend, remove; file, retry, follow, delete | reporting service, recording | filed here and there in separate steps; answers late, unknown or missing |
| Integrations (`data/integrations`) | activations, tasks, state | activate, call, retry | other services | retry of what was done |
| Usage, events, labels, customers, suppliers, playgrounds | single rows | create, read, update, delete | all of the above | little: single statements |
| Formats, validation, identifiers, directories | none | conversions and lookups | external standards | nothing stateful |
| User interface (`app`, `components`) | none | pages | the API | out of scope |

What makes each of the modelled components right:

- *Delivery reports*: a transmission is settled once; the owner hears of it once; a report
  that was answered with 200 is never lost; a failure reaches the fallback.
- *Email fallback*: it runs only after a failure; an address is mailed at most once however
  runs crash and resume; what was mailed is recorded, billed and announced once.
- *Recording and provider-sent*: a transaction becomes one document and is billed once,
  whoever gets to it first; what was answered as done is done.
- *Storage*: a document that exists can be read; the objects of one that does not are deleted.
- *Verification*: a session is decided once and its outcome told once; a French company is
  verified only under an approved mandate; the SMP holds what the company's state calls for.
- *French e-reporting*: a report that was answered as filed is followed until the tax
  administration has ruled, and what it ruled is learned.
- *Receiving*: a transaction is one document, announced and charged once; an access point is
  answered only about what has been written.
- *Notifications*: a bounce is shown whatever came before or after it; a late delivery report
  does not hide that an address is unreachable.

`PROJECT.json` lists every component with its status and every hazard at its line.

## The modules

`EmailFallback` — one document's request (every statement is keyed by the document, so
documents are independent). `request` is the JSON column `email_fallback`: whether it is
there (`open`), its `startedAt` (`holder`, `stale`), its `attempts`. A run is one call of
`runEmailFallback`; `pc` names the await it is at, `seen` is the request its claim returned,
`got` its `deliveries` array. `row` is `document_deliveries`, `taken` what the mail service
really took. `Crash`, `Fail` and the failing alternatives of `Mail` and others stop a run
anywhere; a lost answer leaves the statement done. `due` stands for calls on their way
(the report that failed the delivery, a repetition of it, the drain).
`FallbackPromise` is the abstract specification: mail an address at most once, close once,
bill only what was mailed. `EmailFallback!Promise` is the refinement mapping.

`DeliveryReports` — one transmission. `status` is the delivery row, `staged` the row of
`peppol_provider_delivery_reports`, `pc` and `report` the position and argument of each
worker: webhook requests, the recorder that replays early reports, and the reconciliation
tick. `protect: true` keeps the ticks of one process apart; one of another process would meet the same
conditional update, and is left out. The provider settles a transmission
(`Settle`) and may contradict itself; it repeats a report until it is answered (`Receive`).
`DeliveryOutcome` is what the owner can count on: settled once, told at that very moment, and
a report kept for an open delivery settles it.

`OutgoingDocuments` — several transactions, either sends of ours (`Send`) or documents the
access point sends itself (`Automatic`), and webhook requests reporting them. `rows` are the
documents, one for each send or webhook request that inserted one; `holder` those with an
`ap_transaction_id`, on which the unique index decides; `billed` the transfer events. `named` are the
sends whose report carries the envelope id (`docInstanceId`, which is optional): only for them the webhook
looks for a claim. A send may lose the answer of the access point, be unable to write its claim, or stop at
any await (`SendStops`).

`DocumentStorage` — documents of one team. `row` says where the xml is; `objects` is the
bucket. Offload workers claim, upload and finalise; deleting requests read the payload
locations, of one document or of the whole team's, then delete and enqueue in one transaction; deletion workers take a prefix,
list a page, delete, refresh the claim and remove it. `late` holds the storage requests
`withTimeout` gave up waiting for: they may arrive at any later time.

`CompanyVerification` — one company. `company` is its row; `smp` what the SMP publishes for it;
`status`, `details`, `signed` and `phase` are the rows of its verification sessions and their
`arratech_onboarding`. A handler (`at`) is a report of the identity provider (`Reporter`), a
tick of the onboarding cron (`Worker`), a contract (`Direct`), a form (`Form`) or an update
(`Updater`), each at one of its awaits, with the row it read (`saw`). Reports and the worker hold the
session's advisory lock (`Holds`), the others none. The tail of a report, a worker and a
contract is `finalizeCompanyVerification`: `ReadSession`, the call to the SMP (`Register`,
`Unregister`), `Commit` or `Undo`, `Publish`. `check`, `due` and `kyc` are what the identity provider and the
platform know.

`FrenchDeclarants` — a French company's registration for e-reporting: `declarant` is its row,
`registry` what the service holds, `sync` the transaction that has the advisory lock,
`support` a change by support, which takes no lock. `FrenchReporting` extends it with reports.
A request (`step`) is one call of `fileFrenchReport`: assess the instalment, file it, look
for the document, insert it, bill it, write the row that is followed (`recorded`, `due`). A `Tick` is the status worker of
one process and is at one call of `refreshFrenchReportingSubmission` at a time (`looking`); two processes may be at
the same row, since croner's `protect` is per process and neither the select nor the update takes a claim. `filed`, `standing`, `gone` and `stale` are the service: what
was filed under a reference, where it stands, what it has forgotten, whose period is over for longer than 45
days. A retry is another request with the same report.

`DocumentNotifications` — the emails about documents and what is kept of them. A request is in
the loop over its addresses (`todo`, `to`); `row` is `document_notifications`, `mark` the
`unreachable_since` of a configured address, `mail`, `active` and `reports` the mail service.
A webhook request (`handling`, `stage`) moves the row and then the mark, one statement each.
`clock` orders the events that carry a date, since the mark is lifted only by a later delivery;
`down` and `past` remember the first bounce that deactivated an address and whether anything
has been heard of it since. The module stops at the pipeline around it: `IncomingDocuments` extends
it with the requests that receive a document. `unanswered` are the receipts the access points
repeat, `at` what a request was given, `announced` and `billed` the events and transfer events.
A `Transaction` comes through Arratech's webhook and has an id that the unique index knows;
a `Call` comes from our own access point and has none.

`MC*` modules hold the instances for TLC, `*Proofs` modules the theorems. In each module a
name `X_Y` with an underscore is a plausible wrong version of definition `X`, used to show
that the property it breaks is not vacuous; no action uses it.

The modules meet at these points. The fallback's `peppol` is the delivery of
`DeliveryReports`, whose `called` is the call it starts with; `CallLost` of the fallback is the worker
that stops in between. The recorder of `DeliveryReports` is `Record` of `OutgoingDocuments`.
`UploadOriginal`/`InsertRow` of `DocumentStorage`, and `Record`/`Bill` of `FrenchReporting`, are steps of the same
function. `Ready` of `FrenchDeclarants` guards `Begin` of `FrenchReporting`. `LoadAddresses` of `DocumentNotifications`
follows `Bill` of `IncomingDocuments`, and its loop ends at `Answer`; `DeleteDocument` is `Delete` of `DocumentStorage`
as the notifications see it.

## The runs

`fallback_safety` uses two addresses, since what happened to the first one matters at the second,
and three runs: one that stops, one that takes over and stops or hands back too, and one that
ends it. Two faults let the second attempt fail as well. The symmetry over runs or requests is used
only where no liveness is checked.

| Run | Shows | Bounds |
|---|---|---|
| `fallback_safety` | mailed once, settled when closed, accepted mail billed once, owner told, refinement of `FallbackPromise` | 2 addresses, 3 runs, 2 faults |
| `fallback_progress` | a half done fallback is finished; in a playground only members are mailed, also where a slow run is overtaken | 2 addresses of which 1 a member, 2 runs, `SlowRuns`, 1 fault |
| `reports_settlement` | told exactly once, answered reports kept, settled is learned, a failure still to be answered reaches the fallback, refinement of `DeliveryOutcome` with its fairness | 1 request at a time, recorder, cron, both outcomes, 1 fault |
| `outgoing_recording` | billed once, claims keep reports out, answered sends and reports are in the books, reported documents are recorded in the end | 1 send, with and without the envelope in its report, 1 automatic, 2 requests, 1 fault |
| `storage_offload` | a live document is readable; the original of a deleted one is queued; old documents are offloaded; the queue drains | 1 document, 2 offloaders, 1 drainer, 1 deletion of the document or of the team's, 2 faults |
| `storage_orphans` (violation) | an offload that finalizes during a deletion orphans the document's objects | 1 document, 1 offloader, 1 deletion, no fault |
| `verification_lifecycle` | decided and told once, French companies verified under a mandate only, the SMP in step | FR and NO, 2 sessions, 2 reports and 2 handlers at a time, worker, contract, form, update, 1 fault |
| `verification_progress` | reports are answered, onboardings end, the verified are told | FR, 1 session, 2 handlers at a time, 1 edit, 1 fault |
| `verification_unverified` (violation) | an update's numbers are verified by a contract that overtook it | 1 session, no fault |
| `reporting_filing` | answered reports are followed until their ruling | 2 requests, 3 payments under 2 references, 1 worker, 2 changes, 1 fault |
| `reporting_progress` | no overlap of workers ends the looks before the row has the ruling, rulings are learned, registrations settle | 1 request, 2 workers, 2 attempts, 2 changes, 1 fault |
| `incoming_receipt` | received once, answered is received, bounces and unreachable addresses are shown | 1 transaction, 1 call, 2 requests, 1 address, 2 reports at a time, 1 change, 1 fault |

Each run whose module has a proof of its type invariant that costs TLC time leaves it to the proof:
those of `EmailFallback`, `OutgoingDocuments`, `DocumentStorage` and `IncomingDocuments` are theorems and not run.

Bounds. Statements are keyed by document or transaction, so one of each kind is enough except
where two compete (team deletion; a send against the access point's own document; a session
that replaces another; a payment that replaces another on its invoice). Two webhook
requests can overlap, a third meets what one of the two has left. Pages hold two objects, so
a document with three objects takes a claim refresh. Ages (of claims, `stale`) are
booleans turned by actions of their own: the models do not compare clocks. Faults are the
only unbounded thing the code meets that a run bounds (`MaxFault`). Two of them, in `fallback_safety` and
`storage_offload`, reach a failure during the recovery from another one; where a run has one, the interleavings
of what it leaves take the room, and the theorems hold for any number.

Two requests with references `r1` and `r2`, and a correction under `r2`, are a retry, a second
instalment, a replacement and a reference used for something else. The registration is tried
twice instead of 24 times (`MaxAttempts`): the last attempt and one before it. A company
has one set of numbers and another, since only "the ones that were verified" and "others" differ.

In `incoming_receipt` two requests are one transaction delivered twice or again, or a transaction
and a call; their messages share an address, so a report of one meets the mark set by the other. One
address cannot be replaced by another in a single update (`Configure` with `replaced`): that the run
does not reach, and the theorems cover it.

Fairness. Workers that are not stopped continue (`WF` of their steps). The crons run for
ever, so what they look for is found (`WF` of `DrainFinds`, `Drain`, `Poll`, claims that
go stale by the clock alone). The access point repeats an unanswered report (`Receive`), the identity provider its own
(`TakeReport`); several handlers may be busy when it does, hence `SF` where a report can be
refused. Workers whose queue is never abandoned pick up each entry in the end (`Claim`, `TakeQueued`,
`Select`, `Look`): `SF`, because other work comes in between, and the batches are ordered by age. An
onboarding's twelve attempts or 72 hours end (`GiveUp`), and a reporting service asked about a report
again and again answers once (`Ask`), while without an answer another look is planned. Faults, deletions
and new requests are never assumed to happen. What fairness does not give is the start of a
request: a user may never send, and the provider may never report, only answer the poll.

Deadlock is not an error in runs that say so (`CHECK_DEADLOCK FALSE`): when everything is
recorded and every fault used, nothing is left to do. In `DeliveryReports` the deletion of the
document or another report is always possible, so there deadlock is checked.

## The proofs

All theorems hold for any sets of runs, workers, requests, documents and transactions and any
number of faults. Each module of proofs states an inductive invariant as a conjunction of named
parts, proves that `Init` implies it and each action keeps it, and derives the properties.

- `EmailFallbackProofs`: `TypeCorrect`; then `OneRunAtATime` and `MailedAtMostOnce`. `OneLiveRun`
  alone is not inductive: a claim is refused only while the holder is live and its start time not
  stale, hence `HeldByLive`, `StaleIsDead` and `OpenWhileWork` (`MutexInv`). `MailInv` adds that
  whatever was mailed had been noted (`NotedIfMailed`), and that the snapshot a live run
  works from still agrees with the request. Both theorems assume `~SlowRuns`: no live run outlasts
  its claim. That is a real assumption and not a technical one: `noteAttempt` checks that the request is
  open, not that the run still holds it, so with `SlowRuns` TLC finds two runs mailing one
  address, which the comment in `email-fallback.ts` (line 46) does not foresee.
- `FallbackPromiseProofs`: `BilledOnce` needs no such assumption, because the closing transaction
  only acts on an open request. `FallbackKeepsPromise` is the step simulation of
  `FallbackPromise`, from `FallbackInv` and `PromiseInv` (`AnswerInv` follows an acceptance
  from the mail service through the row to the read-back). `MailsOnlyWhenDue` follows from
  `PromiseInv` and `MembersOnly`, for slow runs too. `ClosedMeansSettled`, `AcceptedMailIsBilled` and
  `OwnerHasBeenTold` say what a closed request leaves, and rest on `SettleInv`: what the working run has
  handled is noted under the run that mailed it (`NotedWhenHandled`), it knows the delivery of every address
  behind it as the row has it or as a report has moved and told it since (`KnowsBehind`), and a row is only
  written where the attempt was noted (`RowNoted`). With `SlowRuns` a run may close behind another one's
  back, so these three assume `~SlowRuns`.
- `CompanyVerificationProofs`: `VerificationTypesHold` (the types and `LocksInv`), `DecisionIsKept`, `OneOutcomeIsTold`,
  `FrenchVerifiedUnderMandate`, `RegisteredWhenItShould`.
  The invariant `VerificationInv` adds to the types where each handler is (`PlacedInv`), that two handlers
  never hold one session's lock (`LocksInv`), that a handler about to decide has seen a session that
  is still open, and one about to tell an outcome knows it as it stands (`DecidedInv`), and that
  what was told is the status (`ToldInv`). Revocations write without the lock, which is why
  `DecisionKept` excepts them. `FrenchVerifiedUnderMandate` follows the country from the link to the
  verification (`CountryInv`, `SignedInv`, `FiledInv`). Its hypothesis `[]OneUpdate`, that two updates of the company
  never overlap, is needed: with two updaters TLC finds one that fails at the SMP and writes the row back as it had
  read it, country included (`companies.ts:443`), after the other has moved the country. The run has one updater.
  `RegisteredWhenItShould` needs no hypothesis, because `RegisteredWhenDue` speaks of handlers that did not overlap
  (`alone`); `AloneInv` says for every step of a lone handler what it has before it (`Due`): the row fits the SMP,
  or it is the row the handler read and a rollback would make the SMP fit it again (`Reversible`), or the call just
  made has made it fit the row the handler is to leave (`Target`).
- `FrenchReportingProofs`: `ReportingTypesHold`, `AnsweredReportsAreFollowed` and `NothingIsForgotten`, for any
  number of workers at one row. `ReportingInv` relates a request's position to the document it found
  (`RequestInv`), a row to what the service says (`RowInv`: a settled row agrees with it, and one
  not looked up is settled, stale or forgotten) and what a worker read and heard to a standing that can
  only move on (`TickInv`). The induction is carried by the service's standings only growing
  (`ServiceGrows`): whoever heard or read a ruling has the same one, and whoever writes something else plans
  another look.
- `DeliveryReportsProofs`: `ReportTypes`, `ToldOnce`, `NoReportLost`, `FinalIsFinal`,
  `ReportIsRetained`, and `ReportsKeepOutcome`, the safety part of the refinement. `WorkerInv` says what a
  worker's position implies of the delivery, `KeptInv` where an answered report is.
- `OutgoingDocumentsProofs`: `OutgoingInv` combines what the access point has taken
  (`ProviderInv`), who holds a claim that a named envelope leads to (`ClaimInv`), the unique index
  (`HolderInv`: of all the rows that requests insert for one transaction one holds its id, and only that one's
  recorder bills it as transmitted) and the books (`BookInv`, `ReportInv`); from it `BilledOncePerTransaction`,
  `ClaimedIsLeftToItsSend`, `AnsweredSendIsBooked` and `AnsweredReportIsRecorded`.
- `DocumentStorageProofs`: `StorageTypes`, `ReadableThroughTeamDeletions`, `PayloadsAreReadable` and
  `OriginalsAreDeleted`. `Intact`, that what a row says is in the storage, rests on `StorageInv`: the storage loses
  objects only of documents that are dead (`Dead`: deleted, or their insert failed), because a queued or taken
  prefix covers only such documents and those of which nothing is stored yet (`Spared`). Until the documents of the
  whole team are deleted this needs no assumption (`PayloadsAreReadable`). Beyond that
  `ReadableThroughTeamDeletions` assumes `[]RecordingApart`, that no document is between its upload and its row while
  the prefix of its whole team is queued or being emptied; without it the drain deletes that upload
  (`transmitted-documents.ts:412`), which the comment in `s3-deletion/index.ts` (lines 44-46) does not foresee: it
  takes it that nothing live is under a queued prefix. `OriginalsAreDeleted` has no assumption. `CoveredInv` is its
  inductive form: the original of a document that is gone lies under a queue row that no deletion worker has
  found empty and is about to remove, which needs that a request which read where a row's original is still knows it
  when it deletes (`KnownInv`). The same is false of the xml and the attachments, which an offload moves in
  between: that is `storage_orphans`.
- `IncomingDocumentsProofs`: `TypeCorrect`, `TransactionReceivedOnce`, `AnswerMeansReceived`, `BounceShown`,
  `UnreachableShown`, from `IncomingInv`. `DocumentInv` and `AnswerInv` place each request against its document
  (a row holds its transaction, and only a request that found or wrote one answers). For the mails,
  `LoopInv` says that a message leaves once, `ReportInv` that every report under way is about a
  message that happened so and whose row exists, `BounceInv` that a bounce is either still
  reported or on the row. The mark needs the order of events: `DownInv` says that an address is marked or refused only
  after a deactivation, and `MarkInv`
  says that until the address is in `past`, every delivery reported or about to be is `Early`, older than
  the deactivation and than the mark, so that `Cleared` leaves it.

Only model-checked: every liveness property and the fairness part of `OutcomeKept` (out of the
prover's reach: LS4 has no `ENABLED`), and the violations, which are counterexamples. Every safety
property of a passing run is also a theorem.

## Where the code does not keep what one would expect

The violation runs show the first two of these; the others were met while modelling, the properties
are stated so that they do not cover them, and each has its line.

- An update's write after a verification leaves a company verified under numbers nobody
  verified (`verification_unverified`, `companies.ts:321`).
- Deleting while an offload finalises leaves its objects behind with nothing queued (`storage_orphans`,
  `transmitted-documents.ts:354`), against the comment at `:361` that they "can never be orphaned". Deleting
  after an offload that uploaded the xml and stopped does the same: the row still says that nothing is in the storage.
- A report that does not name its envelope skips the claim check (`provider-sent/index.ts:57`) and may record a
  transaction one of our sends is about to record, which `record-outgoing-document.ts:141` expects. The
  transaction is still billed once, but if the send mailed the document too, the mail is neither in the document nor
  billed.
- The status workers of two processes may look up one French report at once (`fr-reporting-submissions.ts:455`): the
  earlier answer, written last, undoes a ruling the row has learned and publishes the change, until the next look
  learns it again. `NotForgotten` says that there is a next look.
- A fallback that is handed back before its first noted attempt is found by no drain
  (`email-fallback-consume.ts:115`; the comment at `email-fallback.ts:327` says it is resumed).
- A worker that stops between moving a delivery to failed and calling the fallback leaves the
  call to a repeated report. A poll, and the replay of a report that was answered already, have none.
- A report of the access point whose recording fails after the insert is repeated, finds the
  document and ends: nothing bills it (`record-outgoing-document.ts:182`).
- A send that stops after the transmission is never recorded: its own claim keeps a report that names it out.
- A document recorded while its team's prefix waits in the deletion queue loses its payload.
- A refused French company in review is taken off the SMP; when that call fails, the rollback publishes it
  with its document types (`company-verification.ts:178`). A failed update writes the whole row back
  as it was read and undoes what happened meanwhile (`companies.ts:443`). A contract, and a change
  of country, act without the session's lock. A late "In Review" may overwrite a revocation, a hold's
  notification may be lost, and publishing may fail just as the 72 hours end.
- A reference whose first filing was answered to nobody, used again for something else, is recorded
  and answered as if the new contents had been filed: there is no stored report to compare with
  (`duplicates.ts:91` says this is never presented as successful). Two payments on one invoice that are assessed
  at the same time both pass, and the second one replaces the first (`submit.ts:139` promises a 409).
- A registration asked for while another attempt is under way is marked registered with what that
  attempt registered, not with what was asked (`fr-reporting-declarants.ts:291`).
- A change of a report's status is published after its row is written and only logged when that
  fails. A document whose request stops before the billing is never billed; one that is deleted
  and filed again is billed again.
- A receipt whose request stops after the insert is answered "Already processed" when it is repeated: nobody
  announces, bills or mails it any more (`pipelines/receiving/index.ts:153`). A second request that loses at the
  unique index has uploaded an original payload that no row names (`:96`). A transaction whose document was
  deleted before the receipt is repeated is received, and billed, again. A call of our own access point has no
  transaction id, so that one repeated after a lost answer is a second document.
- An address that is already marked keeps its first date (`document-notifications.ts:126`), so a delivery between
  two deactivations, reported late, lifts the mark after the second. A bounce reported late marks an
  address that was delivered to since. A mark that cannot be written is logged and not tried again (`:140`). A
  mail the service took whose answer was lost is shown as failed, and its delivery report does not change that.

## What is abstracted or left out

- Contents of documents, mails and events; the prevention of duplicates by content; the choice
  of the document type and of Peppol against mail before a send starts.
- A failed statement may or may not have been done where it matters (lost answers); the database
  itself does not fail to keep what it committed.
- An own access point (`phase4-ap`) makes no envelope claims; a provider that reports no
  transaction id; the poll of the mail service, which is the same transition on an email delivery.
- A document deleted and reported again is a new document; deleting one while its fallback run
  is under way is not modelled.
- Verification in a playground, the review on the test network, support's own completions and withdrawals (phase
  `support`), the event of a rejected company, mails, derived identifiers, and reports on an
  identity check that was replaced.
- The 200 with which the webhook answers a transaction of an access point it cannot resolve
  (`arratech-webhook.ts:234`).
- Simulated filings of French reports, alerts about missing or stale events, which kind of report
  goes where, and the contents of what is published. All payments of the model are on one
  invoice; other reports are never replaced except deliberately.
- The mail service and this service read one clock in `DocumentNotifications`. Labels of suppliers, the playground's
  simulated deliveries, the notifications of sent documents (the same loop) and resending failed ones by hand.
- Participant migrations. Their rows are written without any lock, and most of what can go
  wrong there is at the other SMP: a removal checked before a migration starts, a completed one
  overwritten as failed by a second registration, a key lost when the process stops in
  `startOutbound` or left behind when the creation is refused. They need a model of both SMPs,
  which the repository shows only one side of.
- The parts that are conversions, pages or single statements have no behaviour to model: most of
  `src/` by lines is user interface, document formats, renderers, schemas and tables.
- The components of the inventory marked `not_modelled` in `PROJECT.json`.

## Plan

Done: `EmailFallback`, `DeliveryReports`, `OutgoingDocuments`, `DocumentStorage`, `CompanyVerification`,
`FrenchDeclarants` and `FrenchReporting`, `DocumentNotifications` and `IncomingDocuments`, each with its proofs. What would come next, in this order:

1. The composition of recording, reports and fallback: a failed transmission of a recorded
   document ends in a closed fallback, assuming the calls are not lost.
2. Companies, identifiers and document types against the SMP, through failing calls and
   compensations; participant migrations with them.
3. Integrations: tasks and their retries.
4. Pure algorithms against reference definitions: summary of deliveries, the delivery rows of
   a send, backoff, bounded concurrency.
