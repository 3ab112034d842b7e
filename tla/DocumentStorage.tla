-------------------------- MODULE DocumentStorage --------------------------
(***************************************************************************)
(* Where a team's documents keep their payloads: the database row, or the    *)
(* object storage.  Recording uploads an original payload; the offload       *)
(* worker (src/data/offload) moves the xml and the attachments of old        *)
(* documents out of their rows; deleting documents leaves a prefix in the    *)
(* queue of peppol_pending_s3_deletions, which the deletion worker           *)
(* (src/data/s3-deletion) drains page by page.  Each statement and each      *)
(* storage request is one action; several instances of the service run the   *)
(* workers at once.                                                         *)
(***************************************************************************)
EXTENDS Naturals, FiniteSets

CONSTANTS
    Doc,        \* the team's documents
    Attached,   \* the documents with attachments
    Original,   \* the documents that came with an original payload
    Offloader,  \* instances running the offload worker
    Drainer,    \* instances running the deletion worker
    Single,     \* requests that may delete one document
    Bulk,       \* requests that may delete all of the team's documents
    None,       \* no document, no request
    PageSize,   \* LIST_PAGE_SIZE
    MaxFault    \* bound: statements and storage requests that fail, crashes

Request == Single \cup Bulk
Part    == {"original", "xml", "attachments"}
Object  == Doc \X Part

ASSUME StorageAssumption ==
    /\ Attached \subseteq Doc /\ Original \subseteq Doc
    /\ None \notin Doc /\ None \notin Request
    /\ PageSize \in Nat \ {0} /\ MaxFault \in Nat

VARIABLES
    row,        \* transmitted_documents: where the xml is; "unborn", "gone"
    original,   \* original_payload_location = "s3"
    recording,  \* the step of the request that records each document
    claimed,    \* offload_claimed_at is younger than CLAIM_STALE_MS
    step,       \* the await each offload worker is at
    work,       \* the document it is at
    objects,    \* the objects in the storage
    late,       \* requests to the storage no one waits for any more
    asked,      \* the await each deleting request is at
    covers,     \* the documents whose objects lie under its prefix
    stored,     \* whether it saw a payload in the storage
    queue,      \* its row in the queue: "none", "waiting" or "claimed"
    drain,      \* the await each deletion worker is at
    taken,      \* the queue row it is at
    page,       \* the objects of the page it has left to delete
    faults      \* faults so far

documents == <<row, original, recording>>
offload   == <<claimed, step, work>>
deletion  == <<asked, covers, stored>>
draining  == <<drain, taken, page>>
vars      == <<documents, offload, objects, late, deletion, queue, draining, faults>>

Parts(d) == {"xml"} \cup (IF d \in Attached THEN {"attachments"} ELSE {})
Under(q) == {k \in objects : k[1] \in covers[q]}
Alive(d) == row[d] \in {"db", "s3"}

\* Some documents have been offloaded before.
Init ==
    /\ row \in [Doc -> {"unborn", "s3"}]
    /\ original = [d \in Doc |-> row[d] = "s3" /\ d \in Original]
    /\ recording = [d \in Doc |-> IF row[d] = "s3" THEN "done" ELSE "upload"]
    /\ claimed = [d \in Doc |-> FALSE]
    /\ step = [o \in Offloader |-> "idle"]
    /\ work = [o \in Offloader |-> None]
    /\ objects = {k \in Object :
                    /\ row[k[1]] = "s3"
                    /\ k[2] \in Parts(k[1]) \/ (k[2] = "original" /\ original[k[1]])}
    /\ late = {}
    /\ asked = [q \in Request |-> "idle"]
    /\ covers = [q \in Request |-> {}]
    /\ stored = [q \in Request |-> FALSE]
    /\ queue = [q \in Request |-> "none"]
    /\ drain = [s \in Drainer |-> "idle"]
    /\ taken = [s \in Drainer |-> None]
    /\ page = [s \in Drainer |-> {}]
    /\ faults = 0

Fault == faults < MaxFault /\ faults' = faults + 1

----------------------------------------------------------------------------
(* Recording a document.                                                    *)

\* The original payload goes to the storage before the row is written.  When the
\* upload fails the document is recorded without it.
UploadOriginal(d) ==
    /\ recording[d] = "upload"
    /\ \/ /\ d \in Original
          /\ objects' = objects \cup {<<d, "original">>}
          /\ original' = [original EXCEPT ![d] = TRUE]
          /\ UNCHANGED faults
       \/ d \in Original /\ Fault /\ UNCHANGED <<objects, original>>
       \/ d \notin Original /\ UNCHANGED <<objects, original, faults>>
    /\ recording' = [recording EXCEPT ![d] = "insert"]
    /\ UNCHANGED <<row, offload, late, deletion, queue, draining>>

\* The insert; when it fails there is no document.
InsertRow(d) ==
    /\ recording[d] = "insert"
    /\ \/ row' = [row EXCEPT ![d] = "db"] /\ UNCHANGED faults
       \/ Fault /\ UNCHANGED row
    /\ recording' = [recording EXCEPT ![d] = "done"]
    /\ UNCHANGED <<original, offload, objects, late, deletion, queue, draining>>

----------------------------------------------------------------------------
(* The offload worker.                                                      *)

\* Select a document that is old enough and claim it, if no one else did.
Claim(o, d) ==
    /\ step[o] = "idle" /\ row[d] = "db" /\ ~claimed[d]
    /\ claimed' = [claimed EXCEPT ![d] = TRUE]
    /\ step' = [step EXCEPT ![o] = "xml"]
    /\ work' = [work EXCEPT ![o] = d]
    /\ UNCHANGED <<documents, objects, late, deletion, queue, draining, faults>>

ClaimGoesStale_OnceOffloaded(d) ==
    /\ claimed[d] /\ row[d] = "s3"
    /\ claimed' = [claimed EXCEPT ![d] = FALSE]
    /\ UNCHANGED <<documents, step, work, objects, late, deletion, queue,
                   draining, faults>>

\* Fifteen minutes pass since the claim, whether its worker died or hangs.
ClaimGoesStale(d) ==
    /\ claimed[d]
    /\ claimed' = [claimed EXCEPT ![d] = FALSE]
    /\ UNCHANGED <<documents, step, work, objects, late, deletion, queue,
                   draining, faults>>

NextUpload(o) ==
    IF step[o] = "xml" /\ work[o] \in Attached THEN "attachments" ELSE "finalize"

Upload_XmlOnly(o) ==
    /\ step[o] \in {"xml", "attachments"}
    /\ objects' = objects \cup {<<work[o], step[o]>>}
    /\ step' = [step EXCEPT ![o] = "finalize"]
    /\ UNCHANGED <<documents, claimed, work, late, deletion, queue, draining, faults>>

\* The xml and, in an object of their own, the attachments.
Upload(o) ==
    /\ step[o] \in {"xml", "attachments"}
    /\ objects' = objects \cup {<<work[o], step[o]>>}
    /\ step' = [step EXCEPT ![o] = NextUpload(o)]
    /\ UNCHANGED <<documents, claimed, work, late, deletion, queue, draining, faults>>

\* The row lets go of what was uploaded, unless it is gone or done by another.
Finalize(o) ==
    /\ step[o] = "finalize"
    /\ row' = [row EXCEPT ![work[o]] = IF @ = "db" THEN "s3" ELSE @]
    /\ step' = [step EXCEPT ![o] = "idle"]
    /\ work' = [work EXCEPT ![o] = None]
    /\ UNCHANGED <<original, recording, claimed, objects, late, deletion, queue,
                   draining, faults>>

\* The upload or the update fails, or the process dies: the claim stays.  A timed
\* out upload is not cancelled.
OffloadFails(o) ==
    /\ step[o] # "idle" /\ Fault
    /\ step' = [step EXCEPT ![o] = "idle"]
    /\ work' = [work EXCEPT ![o] = None]
    /\ \/ UNCHANGED late
       \/ step[o] # "finalize" /\ late' = late \cup {<<"put", <<work[o], step[o]>>>>}
    /\ UNCHANGED <<documents, claimed, objects, deletion, queue, draining>>

\* The storage takes its time (external).
LateRequest(r) ==
    /\ late' = late \ {r}
    /\ objects' = IF r[1] = "put" THEN objects \cup {r[2]} ELSE objects \ {r[2]}
    /\ UNCHANGED <<documents, offload, deletion, queue, draining, faults>>

----------------------------------------------------------------------------
(* Deleting documents.                                                      *)

LocatePayloads_XmlOnly(q, d) ==
    /\ asked[q] = "idle" /\ Alive(d)
    /\ asked' = [asked EXCEPT ![q] = "delete"]
    /\ covers' = [covers EXCEPT ![q] = {d}]
    /\ stored' = [stored EXCEPT ![q] = row[d] = "s3"]
    /\ UNCHANGED <<documents, offload, objects, late, queue, draining, faults>>

\* deleteTransmittedDocument(s) reads where the document's payloads are.
LocatePayloads(q, d) ==
    /\ asked[q] = "idle" /\ Alive(d)
    /\ asked' = [asked EXCEPT ![q] = "delete"]
    /\ covers' = [covers EXCEPT ![q] = {d}]
    /\ stored' = [stored EXCEPT ![q] = row[d] = "s3" \/ original[d]]
    /\ UNCHANGED <<documents, offload, objects, late, queue, draining, faults>>

\* deleteAllTransmittedDocuments needs only the team's prefix.
TakeTeamPrefix(q) ==
    /\ asked[q] = "idle"
    /\ asked' = [asked EXCEPT ![q] = "delete"]
    /\ covers' = [covers EXCEPT ![q] = Doc]
    /\ stored' = [stored EXCEPT ![q] = TRUE]
    /\ UNCHANGED <<documents, offload, objects, late, queue, draining, faults>>

Deleted(q) == [d \in Doc |-> IF d \in covers[q] /\ Alive(d) THEN "gone" ELSE row[d]]

\* One transaction queues the prefix and deletes the rows.
DeleteRows(q) ==
    /\ asked[q] = "delete"
    /\ queue' = IF stored[q] THEN [queue EXCEPT ![q] = "waiting"] ELSE queue
    /\ row' = Deleted(q)
    /\ asked' = [asked EXCEPT ![q] = "done"]
    /\ UNCHANGED <<original, recording, offload, objects, late, covers, stored,
                   draining, faults>>

\* The transaction fails: nothing is queued or deleted.
DeleteFails(q) ==
    /\ asked[q] = "delete" /\ Fault
    /\ asked' = [asked EXCEPT ![q] = "done"]
    /\ UNCHANGED <<documents, offload, objects, late, covers, stored, queue,
                   draining>>

----------------------------------------------------------------------------
(* The deletion worker.                                                     *)

TakeQueued(s, q) ==
    /\ drain[s] = "idle" /\ queue[q] = "waiting"
    /\ queue' = [queue EXCEPT ![q] = "claimed"]
    /\ drain' = [drain EXCEPT ![s] = "list"]
    /\ taken' = [taken EXCEPT ![s] = q]
    /\ UNCHANGED <<documents, offload, objects, late, deletion, page, faults>>

QueueClaimGoesStale_Never(q) ==
    queue[q] = "claimed" /\ UNCHANGED vars

\* The claim of a queue row grows stale, whether its worker died or hangs.
QueueClaimGoesStale(q) ==
    /\ queue[q] = "claimed"
    /\ queue' = [queue EXCEPT ![q] = "waiting"]
    /\ UNCHANGED <<documents, offload, objects, late, deletion, draining, faults>>

\* The first page of what is under the prefix.
List(s) ==
    /\ drain[s] = "list"
    /\ LET found == Under(taken[s]) IN
       \/ /\ found = {}
          /\ drain' = [drain EXCEPT ![s] = "remove"]
          /\ UNCHANGED page
       \/ \E listed \in SUBSET found :
             /\ listed # {} /\ Cardinality(listed) <= PageSize
             /\ listed = found \/ Cardinality(listed) = PageSize
             /\ page' = [page EXCEPT ![s] = listed]
             /\ drain' = [drain EXCEPT ![s] = "delete"]
    /\ UNCHANGED <<documents, offload, objects, late, deletion, queue, taken, faults>>

\* The objects of a page are deleted concurrently, in any order.
DeleteObject(s, k) ==
    /\ drain[s] = "delete" /\ k \in page[s]
    /\ objects' = objects \ {k}
    /\ page' = [page EXCEPT ![s] = @ \ {k}]
    /\ UNCHANGED <<documents, offload, late, deletion, queue, drain, taken, faults>>

\* After a page the claim is refreshed, and the prefix listed again.
RefreshClaim(s) ==
    /\ drain[s] = "delete" /\ page[s] = {}
    /\ queue' = [queue EXCEPT ![taken[s]] = IF @ = "waiting" THEN "claimed" ELSE @]
    /\ drain' = [drain EXCEPT ![s] = "list"]
    /\ UNCHANGED <<documents, offload, objects, late, deletion, taken, page, faults>>

\* Nothing is left under the prefix: its row leaves the queue.
Remove(s) ==
    /\ drain[s] = "remove"
    /\ queue' = [queue EXCEPT ![taken[s]] = "none"]
    /\ drain' = [drain EXCEPT ![s] = "idle"]
    /\ taken' = [taken EXCEPT ![s] = None]
    /\ UNCHANGED <<documents, offload, objects, late, deletion, page, faults>>

\* A request or a statement fails, or the process dies; the row keeps its claim.
\* The other deletes of the page are not cancelled.
DrainFails(s) ==
    /\ drain[s] # "idle" /\ Fault
    /\ drain' = [drain EXCEPT ![s] = "idle"]
    /\ taken' = [taken EXCEPT ![s] = None]
    /\ page' = [page EXCEPT ![s] = {}]
    /\ \E k \in {{}, page[s]} : late' = late \cup ({"delete"} \X k)
    /\ UNCHANGED <<documents, offload, objects, deletion, queue>>

----------------------------------------------------------------------------
OffloadStep(o) == Upload(o) \/ Finalize(o)

DrainStep(s) ==
    \/ List(s) \/ RefreshClaim(s) \/ Remove(s)
    \/ \E k \in Object : DeleteObject(s, k)

Next ==
    \/ \E d \in Doc : UploadOriginal(d) \/ InsertRow(d) \/ ClaimGoesStale(d)
    \/ \E o \in Offloader :
          OffloadStep(o) \/ OffloadFails(o) \/ \E d \in Doc : Claim(o, d)
    \/ \E r \in late : LateRequest(r)
    \/ \E q \in Single, d \in Doc : LocatePayloads(q, d)
    \/ \E q \in Bulk : TakeTeamPrefix(q)
    \/ \E q \in Request : DeleteRows(q) \/ DeleteFails(q) \/ QueueClaimGoesStale(q)
    \/ \E s \in Drainer :
          DrainStep(s) \/ DrainFails(s) \/ \E q \in Request : TakeQueued(s, q)

Spec == Init /\ [][Next]_vars

\* The crons of a live instance come round, and time passes.
Fairness ==
    /\ \A o \in Offloader : WF_vars(OffloadStep(o))
    /\ \A o \in Offloader, d \in Doc : SF_vars(Claim(o, d))
    /\ \A d \in Doc : WF_vars(ClaimGoesStale(d))
    /\ \A s \in Drainer : WF_vars(DrainStep(s))
    /\ \A s \in Drainer, q \in Request : SF_vars(TakeQueued(s, q))
    /\ \A q \in Request : WF_vars(QueueClaimGoesStale(q))

FairSpec == Spec /\ Fairness
----------------------------------------------------------------------------
(* Properties.                                                              *)

TypeOK ==
    /\ row \in [Doc -> {"unborn", "db", "s3", "gone"}]
    /\ original \in [Doc -> BOOLEAN]
    /\ recording \in [Doc -> {"upload", "insert", "done"}]
    /\ claimed \in [Doc -> BOOLEAN]
    /\ step \in [Offloader -> {"idle", "xml", "attachments", "finalize"}]
    /\ work \in [Offloader -> Doc \cup {None}]
    /\ \A o \in Offloader : step[o] # "idle" <=> work[o] \in Doc
    /\ objects \subseteq Object /\ late \subseteq {"put", "delete"} \X Object
    /\ asked \in [Request -> {"idle", "delete", "done"}]
    /\ covers \in [Request -> SUBSET Doc] /\ stored \in [Request -> BOOLEAN]
    /\ queue \in [Request -> {"none", "waiting", "claimed"}]
    /\ drain \in [Drainer -> {"idle", "list", "delete", "remove"}]
    /\ taken \in [Drainer -> Request \cup {None}]
    /\ \A s \in Drainer : drain[s] # "idle" <=> taken[s] \in Request
    /\ page \in [Drainer -> SUBSET Object]
    /\ faults \in 0..MaxFault

\* A deletion of all of the team's documents has had its transaction.
TeamDeleted == \E q \in Bulk : asked[q] = "done"

Intact ==
    \A d \in Doc :
        /\ row[d] = "s3" => \A p \in Parts(d) : <<d, p>> \in objects
        /\ Alive(d) /\ original[d] => <<d, "original">> \in objects

\* Every payload a row points to can be downloaded: the storage holds it for as long
\* as the row does, through offloads that race, stop or time out and through
\* deletions, until the documents of the whole team are deleted: one that is recorded
\* across that lies under the prefix that is then emptied.
Readable == Intact \/ TeamDeleted

\* What was uploaded when a document was recorded is never left behind: from the
\* deletion of the document on it lies under a queued prefix, until the deletion worker
\* has deleted it, whatever the offload worker does meanwhile.
OriginalNeverOrphaned ==
    \A d \in Doc :
        row[d] = "gone" /\ <<d, "original">> \in objects =>
            \E q \in Request : queue[q] # "none" /\ d \in covers[q]

\* "Enqueueing in the same transaction as the delete means they can never be
\* orphaned": when a document is deleted whose payloads are in the storage, its prefix
\* is queued.  The code does not keep this: deleteTransmittedDocument reads where the
\* payloads are before its transaction.
NeverOrphaned ==
    [][\A d \in Doc : row[d] = "s3" /\ row'[d] = "gone" =>
          \E q \in Request : queue'[q] # "none" /\ d \in covers[q]]_vars

\* Whatever stops the workers, a queued prefix is emptied and leaves the queue.
QueueDrains == \A q \in Request : queue[q] # "none" ~> queue[q] = "none"

\* Whatever stops the workers, an old document ends up in the storage.
EventuallyOffloaded == \A d \in Doc : row[d] = "db" ~> row[d] # "db"
============================================================================
