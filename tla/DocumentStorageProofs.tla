----------------------- MODULE DocumentStorageProofs -----------------------
(***************************************************************************)
(* Every payload a document points to is in the object storage, for any      *)
(* number of documents, workers, deletions and faults, until all documents of *)
(* the team are deleted, and after that as long as none is recorded while the *)
(* prefix of the team is queued.  The storage only loses objects of documents *)
(* that are dead: this is what the invariant below follows from the deleting *)
(* request through the queue to each storage request.  And the original       *)
(* payload of a deleted document is under a queued prefix until it is         *)
(* deleted, with no assumption at all.                                        *)
(***************************************************************************)
EXTENDS DocumentStorage, TLAPS

Gone(d) == row[d] = "gone"

\* There is no such document any more, or there never was: its insert failed.
Dead(d) == Gone(d) \/ (recording[d] = "done" /\ row[d] = "unborn")

\* A row is written once, and by then its original payload is in the storage; before
\* that nothing is.
RecordingInv ==
    \A d \in Doc :
        /\ recording[d] # "done" => row[d] = "unborn"
        /\ original[d] => Dead(d) \/ <<d, "original">> \in objects
        /\ recording[d] = "upload" => \A p \in Part : <<d, p>> \notin objects

\* What an offload worker has passed is in the storage, and so is what a row says.
OffloadInv ==
    /\ \A o \in Offloader : step[o] # "idle" => row[work[o]] # "unborn"
    /\ \A o \in Offloader : ~Gone(work[o]) =>
          /\ step[o] = "attachments" => <<work[o], "xml">> \in objects
          /\ step[o] = "finalize" =>
                \A p \in Parts(work[o]) : <<work[o], p>> \in objects
    /\ \A d \in Doc : row[d] = "s3" => \A p \in Parts(d) : <<d, p>> \in objects
    /\ \A k \in Object : <<"put", k>> \in late => row[k[1]] # "unborn"

\* A queued prefix covers only what is dead or has stored nothing yet, and queueing is
\* the last thing a request does.
Spared(d) == Dead(d) \/ recording[d] = "upload"

QueueInv ==
    \A q \in Request :
        /\ q \notin Bulk => \A d \in covers[q] : row[d] # "unborn"
        /\ queue[q] # "none" => asked[q] = "done"
        /\ queue[q] # "none" => \A d \in covers[q] : Spared(d)

\* So does what a deletion worker has taken; what it listed or asked the storage to
\* delete is of dead documents.
DrainInv ==
    /\ \A s \in Drainer : taken[s] \in Request =>
          asked[taken[s]] = "done" /\ \A d \in covers[taken[s]] : Spared(d)
    /\ \A s \in Drainer : \A k \in page[s] : Dead(k[1])
    /\ \A k \in Object : <<"delete", k>> \in late => Dead(k[1])

\* Nobody records a document while its team's prefix is queued or being emptied.
RecordingApart ==
    \A q \in Bulk :
        queue[q] # "none" \/ (\E s \in Drainer : taken[s] = q) =>
            \A d \in Doc : recording[d] # "insert"

StorageInv == TypeOK /\ RecordingInv /\ OffloadInv /\ QueueInv /\ DrainInv

\* Documents start in their row or with all their objects.
LEMMA InitStorage == Init => StorageInv
<1> SUFFICES ASSUME Init PROVE StorageInv
  OBVIOUS
<1> USE StorageAssumption DEF Init, Request, Part, Object, Parts, Alive
<1>1. TypeOK
  BY DEF TypeOK
<1>2. RecordingInv
  BY DEF RecordingInv, Dead
<1>3. OffloadInv
  BY DEF OffloadInv, Gone
<1>4. QueueInv /\ DrainInv
  BY DEF QueueInv, DrainInv
<1> QED
  BY <1>1, <1>2, <1>3, <1>4 DEF StorageInv

\* The step of each actor, as a proof takes Next apart.
DeletingStep(q) == DeleteRows(q) \/ DeleteFails(q) \/ QueueClaimGoesStale(q)

\* Every step keeps the types.
LEMMA TypeStep == TypeOK /\ [Next]_vars => TypeOK'
<1> SUFFICES ASSUME TypeOK, [Next]_vars PROVE TypeOK'
  OBVIOUS
<1> USE StorageAssumption DEF TypeOK, documents, offload, deletion, draining, Request,
        Part, Object
<1>0. Fault => faults' \in 0..MaxFault
  BY DEF Fault
<1>1. ASSUME NEW d \in Doc, UploadOriginal(d) \/ InsertRow(d) \/ ClaimGoesStale(d)
      PROVE TypeOK'
  <2>1. CASE UploadOriginal(d)
    <3>1. objects' \subseteq Object
      <4>1. <<d, "original">> \in Object
        OBVIOUS
      <4> QED
        BY <2>1, <4>1 DEF UploadOriginal
    <3>3. original' \in [Doc -> BOOLEAN]
      BY <2>1 DEF UploadOriginal
    <3>2. faults' \in 0..MaxFault /\ recording' \in [Doc -> {"upload", "insert", "done"}]
      BY <1>0, <2>1 DEF UploadOriginal
    <3> QED
      BY <2>1, <3>1, <3>2, <3>3 DEF UploadOriginal
  <2>2. CASE InsertRow(d)
    BY <1>0, <2>2 DEF InsertRow
  <2>3. CASE ClaimGoesStale(d)
    BY <2>3 DEF ClaimGoesStale
  <2> QED
    BY <1>1, <2>1, <2>2, <2>3
<1>2. ASSUME NEW o \in Offloader, NEW d \in Doc, Claim(o, d) PROVE TypeOK'
  BY <1>2 DEF Claim
<1>3. ASSUME NEW o \in Offloader, Upload(o) PROVE TypeOK'
  BY <1>3 DEF Upload, NextUpload
<1>4. ASSUME NEW o \in Offloader, Finalize(o) PROVE TypeOK'
  BY <1>4 DEF Finalize
<1>5. ASSUME NEW o \in Offloader, OffloadFails(o) PROVE TypeOK'
  <2>1. work[o] \in Doc /\ faults' \in 0..MaxFault
    BY <1>5 DEF OffloadFails, Fault
  <2>2. step[o] # "finalize" => <<"put", <<work[o], step[o]>>>> \in
           {"put", "delete"} \X Object
    BY <1>5, <2>1 DEF OffloadFails
  <2>3. late' \subseteq {"put", "delete"} \X Object
    BY <1>5, <2>2 DEF OffloadFails
  <2> QED
    BY <1>5, <2>1, <2>3 DEF OffloadFails
<1>6. ASSUME NEW r \in late, LateRequest(r) PROVE TypeOK'
  BY <1>6 DEF LateRequest
<1>7. ASSUME NEW q \in Single, NEW d \in Doc, LocatePayloads(q, d) PROVE TypeOK'
  BY <1>7 DEF LocatePayloads, Alive
<1>8. ASSUME NEW q \in Bulk, TakeTeamPrefix(q) PROVE TypeOK'
  BY <1>8 DEF TakeTeamPrefix
<1>9. ASSUME NEW q \in Request, DeletingStep(q) PROVE TypeOK'
  BY <1>9 DEF DeletingStep, DeleteRows, DeleteFails, QueueClaimGoesStale, Deleted,
             Alive, Fault
<1>10. ASSUME NEW s \in Drainer, NEW q \in Request, TakeQueued(s, q) PROVE TypeOK'
  BY <1>10 DEF TakeQueued
<1>11. ASSUME NEW s \in Drainer, List(s) PROVE TypeOK'
  BY <1>11 DEF List, Under
<1>12. ASSUME NEW s \in Drainer, NEW k \in Object, DeleteObject(s, k) PROVE TypeOK'
  BY <1>12 DEF DeleteObject
<1>13. ASSUME NEW s \in Drainer, RefreshClaim(s) \/ Remove(s) PROVE TypeOK'
  BY <1>13 DEF RefreshClaim, Remove
<1>14. ASSUME NEW s \in Drainer, DrainFails(s) PROVE TypeOK'
  BY <1>14 DEF DrainFails, Fault
<1>15. CASE UNCHANGED vars
  BY <1>15 DEF vars
<1> QED
  BY <1>1, <1>2, <1>3, <1>4, <1>5, <1>6, <1>7, <1>8, <1>9, <1>10, <1>11, <1>12,
     <1>13, <1>14, <1>15 DEF Next, OffloadStep, DrainStep, DeletingStep

\* A document that is dead stays so, and only such documents lose objects.
LEMMA OnlyDeadLose ==
    ASSUME StorageInv, [Next]_vars
    PROVE  /\ \A d \in Doc : Dead(d) => Dead(d)'
           /\ \A d \in Doc : row[d] # "unborn" => row'[d] # "unborn"
           /\ \A k \in objects : k \in objects' \/ Dead(k[1])
<1> USE StorageAssumption DEF StorageInv, TypeOK, documents, offload, deletion, draining,
        Request, Part, Object, Gone, Dead
<1> DEFINE Goal == /\ \A d \in Doc : Dead(d) => Dead(d)'
                   /\ \A d \in Doc : row[d] # "unborn" => row'[d] # "unborn"
                   /\ \A k \in objects : k \in objects' \/ Dead(k[1])
<1>1. ASSUME NEW d \in Doc, UploadOriginal(d) \/ InsertRow(d) \/ ClaimGoesStale(d)
      PROVE Goal
  <2>1. CASE UploadOriginal(d)
    BY <2>1 DEF UploadOriginal
  <2>2. CASE InsertRow(d)
    BY <2>2 DEF InsertRow, RecordingInv
  <2>3. CASE ClaimGoesStale(d)
    BY <2>3 DEF ClaimGoesStale
  <2> QED
    BY <1>1, <2>1, <2>2, <2>3
<1>2. ASSUME NEW o \in Offloader,
             Upload(o) \/ OffloadFails(o) \/ \E d \in Doc : Claim(o, d)
      PROVE Goal
  BY <1>2 DEF Upload, OffloadFails, Claim
<1>3. ASSUME NEW o \in Offloader, Finalize(o) PROVE Goal
  BY <1>3 DEF Finalize
<1>4. ASSUME NEW r \in late, LateRequest(r) PROVE Goal
  BY <1>4 DEF LateRequest, DrainInv
<1>5. ASSUME NEW q \in Request,
             \/ TakeTeamPrefix(q) \/ DeletingStep(q)
             \/ \E d \in Doc : LocatePayloads(q, d)
      PROVE Goal
  BY <1>5 DEF DeletingStep, LocatePayloads, TakeTeamPrefix, DeleteRows, DeleteFails,
              QueueClaimGoesStale, Deleted, Alive
<1>6. ASSUME NEW s \in Drainer, NEW k \in Object, DeleteObject(s, k) PROVE Goal
  BY <1>6 DEF DeleteObject, DrainInv
<1>7. ASSUME NEW s \in Drainer,
             \/ List(s) \/ RefreshClaim(s) \/ Remove(s) \/ DrainFails(s)
             \/ \E q \in Request : TakeQueued(s, q)
      PROVE Goal
  BY <1>7 DEF List, RefreshClaim, Remove, DrainFails, TakeQueued
<1>8. CASE UNCHANGED vars
  BY <1>8 DEF vars
<1> QED
  BY <1>1, <1>2, <1>3, <1>4, <1>5, <1>6, <1>7, <1>8
  DEF Next, OffloadStep, DrainStep, DeletingStep

\* A document is recorded once, after its original payload and with nothing before it.
LEMMA RecordingStep ==
    ASSUME StorageInv, [Next]_vars PROVE RecordingInv'
<1> USE StorageAssumption DEF StorageInv, TypeOK, documents, offload, deletion, draining,
        Request, Part, Object, RecordingInv
<1>1. ASSUME NEW d \in Doc, UploadOriginal(d) PROVE RecordingInv'
  <2>1. /\ row' = row /\ row[d] = "unborn" /\ objects \subseteq objects'
        /\ objects' \subseteq objects \cup {<<d, "original">>}
        /\ recording[d] = "upload" /\ recording'[d] = "insert"
        /\ \A c \in Doc \ {d} : recording'[c] = recording[c] /\ original'[c] = original[c]
    BY <1>1 DEF UploadOriginal
  <2>2. original'[d] => original[d] \/ <<d, "original">> \in objects'
    BY <1>1 DEF UploadOriginal
  <2>3. ASSUME NEW c \in Doc
        PROVE  /\ recording'[c] # "done" => row'[c] = "unborn"
               /\ recording'[c] = "upload" => \A p \in Part : <<c, p>> \notin objects'
    BY <2>1
  <2>4. ASSUME NEW c \in Doc, original'[c] PROVE Dead(c)' \/ <<c, "original">> \in objects'
    <3>1. CASE c = d
      BY <2>1, <2>2, <2>4, <3>1 DEF Dead, Gone
    <3>2. CASE c # d
      BY <2>1, <2>4, <3>2, OnlyDeadLose
    <3> QED
      BY <3>1, <3>2
  <2> QED
    BY <2>3, <2>4
<1>2. ASSUME NEW d \in Doc, InsertRow(d) \/ ClaimGoesStale(d) PROVE RecordingInv'
  <2>1. /\ \A c \in Doc \ {d} : row'[c] = row[c] /\ recording'[c] = recording[c]
        /\ recording'[d] = "done" \/ UNCHANGED <<row, recording>>
        /\ UNCHANGED <<original, objects>>
    BY <1>2 DEF InsertRow, ClaimGoesStale
  <2>2. \A c \in Doc : Dead(c) => Dead(c)'
    BY OnlyDeadLose
  <2> QED
    BY <2>1, <2>2
<1>3. ASSUME UNCHANGED <<original, recording>>,
             \A d \in Doc : row[d] = "unborn" => row'[d] = "unborn",
             \A d \in Doc : row[d] = "unborn" =>
                \A p \in Part : <<d, p>> \in objects' => <<d, p>> \in objects
      PROVE RecordingInv'
  <2>1. ASSUME NEW d \in Doc
        PROVE  /\ recording'[d] # "done" => row'[d] = "unborn"
               /\ recording'[d] = "upload" => \A p \in Part : <<d, p>> \notin objects'
    BY <1>3
  <2>2. ASSUME NEW d \in Doc, original'[d]
        PROVE Dead(d)' \/ <<d, "original">> \in objects'
    <3>1. Dead(d) \/ <<d, "original">> \in objects
      BY <1>3, <2>2
    <3> QED
      BY <3>1, OnlyDeadLose
  <2> QED
    BY <2>1, <2>2
<1>4. ASSUME NEW o \in Offloader,
             Finalize(o) \/ OffloadFails(o) \/ \E d \in Doc : Claim(o, d)
      PROVE RecordingInv'
  <2>1. /\ UNCHANGED <<original, recording, objects>>
        /\ \A d \in Doc : row[d] = "unborn" => row'[d] = "unborn"
    BY <1>4 DEF Finalize, OffloadFails, Claim
  <2> QED
    BY <1>3, <2>1
<1>5. ASSUME NEW o \in Offloader, Upload(o) PROVE RecordingInv'
  <2>1. /\ UNCHANGED <<original, recording, row>> /\ work[o] \in Doc
        /\ objects' = objects \cup {<<work[o], step[o]>>} /\ row[work[o]] # "unborn"
    BY <1>5 DEF Upload, OffloadInv
  <2>2. \A d \in Doc : d # work[o] => \A p \in Part : <<d, p>> \in objects' => <<d, p>> \in objects
    BY <2>1
  <2> QED
    BY <1>3, <2>1, <2>2
<1>6. ASSUME NEW q \in Request,
             \/ TakeTeamPrefix(q) \/ DeletingStep(q)
             \/ \E d \in Doc : LocatePayloads(q, d)
      PROVE RecordingInv'
  <2>1. /\ UNCHANGED <<original, recording, objects>>
        /\ \A d \in Doc : row[d] = "unborn" => row'[d] = "unborn"
    BY <1>6 DEF DeletingStep, LocatePayloads, TakeTeamPrefix, DeleteRows,
                DeleteFails, QueueClaimGoesStale, Deleted, Alive
  <2> QED
    BY <1>3, <2>1
<1>7. ASSUME NEW s \in Drainer,
             \/ DrainStep(s) \/ DrainFails(s) \/ \E q \in Request : TakeQueued(s, q)
      PROVE RecordingInv'
  <2>1. UNCHANGED documents /\ objects' \subseteq objects
    BY <1>7 DEF DrainStep, List, DeleteObject, RefreshClaim, Remove, DrainFails,
                TakeQueued
  <2> QED
    BY <1>3, <2>1
<1>8. ASSUME NEW r \in late, LateRequest(r) PROVE RecordingInv'
  <2>1. UNCHANGED documents /\ r \in {"put", "delete"} \X Object
    BY <1>8 DEF LateRequest
  <2>2. PICK k \in Object : r = <<"put", k>> \/ r = <<"delete", k>>
    BY <2>1
  <2>3. objects' \subseteq objects \/ (r = <<"put", k>> /\ objects' = objects \cup {k})
    BY <1>8, <2>2 DEF LateRequest
  <2>4. r = <<"put", k>> => row[k[1]] # "unborn"
    BY <2>2 DEF OffloadInv
  <2>5. \A d \in Doc : row[d] = "unborn" =>
           \A p \in Part : <<d, p>> \in objects' => <<d, p>> \in objects
    BY <2>3, <2>4
  <2> QED
    BY <1>3, <2>1, <2>5
<1>9. CASE UNCHANGED vars
  BY <1>3, <1>9 DEF vars
<1> QED
  BY <1>1, <1>2, <1>4, <1>5, <1>6, <1>7, <1>8, <1>9
  DEF Next, OffloadStep, DeletingStep

\* An offload finishes a row only after uploading its parts, of a document there is.
LEMMA OffloadInvStep ==
    ASSUME StorageInv, [Next]_vars PROVE OffloadInv'
<1> USE StorageAssumption DEF StorageInv, TypeOK, documents, offload, deletion, draining,
        Request, Part, Object, OffloadInv, Gone, Parts
<1>a. /\ \A d \in Doc : row[d] # "unborn" => row'[d] # "unborn"
      /\ \A d \in Doc : row[d] = "gone" => row'[d] = "gone"
      /\ \A d \in Doc : row[d] \in {"db", "s3"} =>
            \A p \in Part : <<d, p>> \in objects => <<d, p>> \in objects'
  BY OnlyDeadLose DEF Dead
<1>b. \A o \in Offloader : step[o] # "idle" => work[o] \in Doc
  OBVIOUS
<1>1. ASSUME UNCHANGED <<step, work>>,
             \A d \in Doc : row'[d] = "s3" => row[d] = "s3",
             \A k \in Object : <<"put", k>> \in late' => <<"put", k>> \in late
      PROVE OffloadInv'
  <2>1. \A o \in Offloader : step'[o] # "idle" => row'[work'[o]] # "unborn"
    BY <1>1, <1>a, <1>b
  <2>2. \A d \in Doc : row'[d] = "s3" => \A p \in Parts(d) : <<d, p>> \in objects'
    BY <1>1, <1>a
  <2>3. ASSUME NEW o \in Offloader, row'[work'[o]] # "gone"
        PROVE  /\ step'[o] = "attachments" => <<work'[o], "xml">> \in objects'
               /\ step'[o] = "finalize" =>
                     \A p \in Parts(work'[o]) : <<work'[o], p>> \in objects'
    <3>1. SUFFICES ASSUME step[o] # "idle"
                   PROVE  /\ step[o] = "attachments" => <<work[o], "xml">> \in objects'
                          /\ step[o] = "finalize" =>
                                \A p \in Parts(work[o]) : <<work[o], p>> \in objects'
      BY <1>1
    <3>2. work[o] \in Doc /\ row[work[o]] \in {"db", "s3"}
      BY <1>1, <1>a, <1>b, <2>3, <3>1
    <3> QED
      BY <1>a, <3>2
  <2>4. \A k \in Object : <<"put", k>> \in late' => row'[k[1]] # "unborn"
    BY <1>1, <1>a
  <2> QED
    BY <2>1, <2>2, <2>3, <2>4
<1>2. ASSUME NEW d \in Doc, UploadOriginal(d) \/ InsertRow(d) \/ ClaimGoesStale(d)
      PROVE OffloadInv'
  BY <1>1, <1>2 DEF UploadOriginal, InsertRow, ClaimGoesStale
<1>3. ASSUME NEW o \in Offloader, NEW d \in Doc, Claim(o, d) PROVE OffloadInv'
  <2>1. \A w \in Offloader :
           IF w = o THEN work'[w] = d /\ step'[w] = "xml" /\ row'[d] = "db"
                    ELSE work'[w] = work[w] /\ step'[w] = step[w]
    BY <1>3 DEF Claim
  <2>2. UNCHANGED <<row, objects, late>>
    BY <1>3 DEF Claim
  <2> QED
    BY <2>1, <2>2
<1>4. ASSUME NEW o \in Offloader, Upload(o) PROVE OffloadInv'
  BY <1>4 DEF Upload, NextUpload
<1>5. ASSUME NEW o \in Offloader, Finalize(o) PROVE OffloadInv'
  <2>1. /\ \A w \in Offloader \ {o} : work'[w] = work[w] /\ step'[w] = step[w]
        /\ step'[o] = "idle" /\ work[o] \in Doc /\ UNCHANGED <<objects, late>>
    BY <1>5 DEF Finalize
  <2>2. /\ \A d \in Doc \ {work[o]} : row'[d] = row[d]
        /\ row'[work[o]] = IF row[work[o]] = "db" THEN "s3" ELSE row[work[o]]
    BY <1>5, <2>1 DEF Finalize
  <2>3. ~Gone(work[o]) => \A p \in Parts(work[o]) : <<work[o], p>> \in objects
    BY <1>5 DEF Finalize
  <2>4. \A d \in Doc : row'[d] = "s3" => \A p \in Parts(d) : <<d, p>> \in objects'
    BY <2>1, <2>2, <2>3
  <2>5. \A w \in Offloader : step'[w] # "idle" =>
           /\ work'[w] = work[w] /\ step'[w] = step[w] /\ work[w] \in Doc
           /\ row'[work[w]] = "gone" <=> row[work[w]] = "gone"
           /\ row'[work[w]] # "unborn"
    BY <2>1, <2>2
  <2>6. \A k \in Object : <<"put", k>> \in late' => row'[k[1]] # "unborn"
    BY <1>a, <2>1
  <2> QED
    BY <2>1, <2>4, <2>5, <2>6
<1>6. ASSUME NEW o \in Offloader, OffloadFails(o) PROVE OffloadInv'
  <2>1. /\ \A w \in Offloader : step'[w] # "idle" => work'[w] = work[w] /\ step'[w] = step[w]
        /\ UNCHANGED <<row, objects>> /\ row[work[o]] # "unborn" /\ work[o] \in Doc
    BY <1>6 DEF OffloadFails
  <2>2. late' = late \/ late' = late \cup {<<"put", <<work[o], step[o]>>>>}
    BY <1>6 DEF OffloadFails
  <2>3. \A k \in Object : <<"put", k>> \in late' => row'[k[1]] # "unborn"
    BY <2>1, <2>2
  <2>4. \A d \in Doc : row'[d] = "s3" => \A p \in Parts(d) : <<d, p>> \in objects'
    BY <2>1
  <2> QED
    BY <1>b, <2>1, <2>3, <2>4
<1>7. ASSUME NEW q \in Request,
             \/ TakeTeamPrefix(q) \/ DeletingStep(q)
             \/ \E d \in Doc : LocatePayloads(q, d)
      PROVE OffloadInv'
  BY <1>1, <1>7 DEF DeletingStep, LocatePayloads, TakeTeamPrefix, DeleteRows,
                   DeleteFails, QueueClaimGoesStale, Deleted, Alive
<1>8. ASSUME NEW s \in Drainer,
             \/ DrainStep(s) \/ DrainFails(s) \/ \E q \in Request : TakeQueued(s, q)
      PROVE OffloadInv'
  <2>1. UNCHANGED <<row, step, work>>
    BY <1>8 DEF DrainStep, List, DeleteObject, RefreshClaim, Remove, DrainFails,
                TakeQueued
  <2>2. \A k \in Object : <<"put", k>> \in late' => <<"put", k>> \in late
    BY <1>8 DEF DrainStep, List, DeleteObject, RefreshClaim, Remove, DrainFails,
                TakeQueued
  <2> QED
    BY <1>1, <2>1, <2>2
<1>9. ASSUME NEW r \in late, LateRequest(r) PROVE OffloadInv'
  BY <1>1, <1>9 DEF LateRequest
<1>10. CASE UNCHANGED vars
  BY <1>1, <1>10 DEF vars
<1> QED
  BY <1>2, <1>3, <1>4, <1>5, <1>6, <1>7, <1>8, <1>9, <1>10
  DEF Next, OffloadStep, DeletingStep

\* What a queued or taken prefix spares stays so, as long as no recording falls together
\* with a team's deletion.
LEMMA SparedStays ==
    ASSUME StorageInv, RecordingApart', [Next]_vars, NEW q \in Request,
           \A d \in covers[q] : Spared(d),
           queue'[q] # "none" \/ \E s \in Drainer : taken'[s] = q
    PROVE  \A d \in covers[q] : Spared(d)'
<1> USE StorageAssumption DEF StorageInv, TypeOK, documents, offload, deletion, draining, Request
<1>1. \A d \in Doc : recording[d] = "upload" => recording'[d] \in {"upload", "insert"}
  <2>1. ASSUME NEW d \in Doc, UploadOriginal(d) \/ InsertRow(d)
        PROVE  \A c \in Doc : recording[c] = "upload" => recording'[c] \in {"upload", "insert"}
    BY <2>1 DEF UploadOriginal, InsertRow
  <2>2. CASE UNCHANGED recording
    BY <2>2
  <2>3. ASSUME NEW o \in Offloader,
               OffloadStep(o) \/ OffloadFails(o) \/ \E d \in Doc : Claim(o, d)
        PROVE  UNCHANGED recording
    BY <2>3 DEF OffloadStep, Upload, Finalize, OffloadFails, Claim
  <2>4. ASSUME NEW p \in Request,
               \/ TakeTeamPrefix(p) \/ DeletingStep(p)
               \/ \E d \in Doc : LocatePayloads(p, d)
        PROVE  UNCHANGED recording
    BY <2>4 DEF DeletingStep, LocatePayloads, TakeTeamPrefix, DeleteRows, DeleteFails,
                QueueClaimGoesStale
  <2>5. ASSUME NEW s \in Drainer,
               DrainStep(s) \/ DrainFails(s) \/ \E p \in Request : TakeQueued(s, p)
        PROVE  UNCHANGED recording
    BY <2>5 DEF DrainStep, List, DeleteObject, RefreshClaim, Remove, DrainFails, TakeQueued
  <2>6. ASSUME NEW r \in late, LateRequest(r) PROVE UNCHANGED recording
    BY <2>6 DEF LateRequest
  <2>7. ASSUME NEW d \in Doc, ClaimGoesStale(d) PROVE UNCHANGED recording
    BY <2>7 DEF ClaimGoesStale
  <2>8. CASE UNCHANGED vars
    BY <2>2, <2>8 DEF vars
  <2> QED
    BY <2>1, <2>2, <2>3, <2>4, <2>5, <2>6, <2>7, <2>8 DEF Next, DeletingStep
<1> SUFFICES ASSUME NEW d \in covers[q] PROVE Spared(d)'
  OBVIOUS
<1>2. d \in Doc /\ Spared(d)
  OBVIOUS
<1>3. CASE Dead(d)
  BY <1>2, <1>3, OnlyDeadLose DEF Spared
<1>4. CASE recording[d] = "upload"
  <2>1. row[d] = "unborn"
    BY <1>2, <1>4 DEF RecordingInv
  <2>2. q \in Bulk
    BY <2>1 DEF QueueInv
  <2>3. recording'[d] # "insert"
    BY <1>2, <2>2 DEF RecordingApart
  <2> QED
    BY <1>1, <1>2, <1>4, <2>3 DEF Spared
<1> QED
  BY <1>2, <1>3, <1>4 DEF Spared

\* Requests and queue rows that a step does not touch keep what QueueInv says.
LEMMA QueueStep ==
    ASSUME StorageInv, RecordingApart', [Next]_vars PROVE QueueInv'
<1> USE StorageAssumption DEF StorageInv, TypeOK, documents, offload, deletion, draining,
        Request, QueueInv, Gone
<1>1. ASSUME NEW q \in Request,
             covers'[q] = covers[q], asked'[q] = asked[q],
             queue'[q] # "none" => queue[q] # "none"
      PROVE  /\ q \notin Bulk => \A d \in covers'[q] : row'[d] # "unborn"
             /\ queue'[q] # "none" => asked'[q] = "done"
             /\ queue'[q] # "none" => \A d \in covers'[q] : Spared(d)'
  <2>1. covers[q] \subseteq Doc
    OBVIOUS
  <2>2. q \notin Bulk => \A d \in covers'[q] : row'[d] # "unborn"
    BY <1>1, <2>1, OnlyDeadLose
  <2> HIDE DEF TypeOK
  <2> QED
    BY <1>1, <2>2, SparedStays
<1>2. ASSUME UNCHANGED deletion,
             \A q \in Request : queue'[q] # "none" => queue[q] # "none"
      PROVE QueueInv'
  BY <1>1, <1>2
<1>3. ASSUME NEW d \in Doc, UploadOriginal(d) \/ InsertRow(d) \/ ClaimGoesStale(d)
      PROVE QueueInv'
  BY <1>2, <1>3 DEF UploadOriginal, InsertRow, ClaimGoesStale
<1>4. ASSUME NEW o \in Offloader,
             \/ OffloadStep(o) \/ OffloadFails(o) \/ \E d \in Doc : Claim(o, d)
      PROVE QueueInv'
  BY <1>2, <1>4 DEF OffloadStep, Upload, Finalize, OffloadFails, Claim
<1>5. ASSUME NEW r \in late, LateRequest(r) PROVE QueueInv'
  BY <1>2, <1>5 DEF LateRequest
<1>6. ASSUME NEW q \in Single, NEW d \in Doc, LocatePayloads(q, d) PROVE QueueInv'
  <2>1. \A p \in Request \ {q} : covers'[p] = covers[p] /\ asked'[p] = asked[p]
    BY <1>6 DEF LocatePayloads
  <2>2. covers'[q] = {d} /\ row'[d] # "unborn" /\ queue'[q] = "none"
    BY <1>6 DEF LocatePayloads, Alive
  <2>3. UNCHANGED queue
    BY <1>6 DEF LocatePayloads
  <2> QED
    BY <1>1, <2>1, <2>2, <2>3
<1>7. ASSUME NEW q \in Bulk, TakeTeamPrefix(q) PROVE QueueInv'
  <2>1. \A p \in Request \ {q} : covers'[p] = covers[p] /\ asked'[p] = asked[p]
    BY <1>7 DEF TakeTeamPrefix
  <2>2. queue'[q] = "none" /\ UNCHANGED queue
    BY <1>7 DEF TakeTeamPrefix
  <2> QED
    BY <1>1, <2>1, <2>2
<1>8. ASSUME NEW q \in Request, DeleteRows(q) PROVE QueueInv'
  <2>1. \A p \in Request \ {q} :
           covers'[p] = covers[p] /\ asked'[p] = asked[p] /\ queue'[p] = queue[p]
    BY <1>8 DEF DeleteRows
  <2>2. asked'[q] = "done" /\ covers'[q] = covers[q] /\ covers[q] \subseteq Doc
    BY <1>8 DEF DeleteRows
  <2>3. \A d \in covers[q] : IF Alive(d) THEN row'[d] = "gone" ELSE row'[d] = row[d]
    BY <1>8, <2>2 DEF DeleteRows, Deleted
  <2>4. q \notin Bulk => \A d \in covers[q] : row'[d] # "unborn"
    BY <2>3
  <2>5. ASSUME queue'[q] # "none", NEW d \in covers[q] PROVE Spared(d)'
    <3>1. UNCHANGED recording /\ d \in Doc
      BY <1>8 DEF DeleteRows
    <3>2. CASE row[d] # "unborn"
      BY <2>3, <3>1, <3>2 DEF Alive, Spared, Dead
    <3>3. CASE row[d] = "unborn"
      <4>1. q \in Bulk /\ row'[d] = "unborn"
        BY <2>3, <3>3 DEF Alive
      <4>2. recording'[d] # "insert"
        BY <2>5, <3>1, <4>1 DEF RecordingApart
      <4> QED
        BY <3>1, <4>1, <4>2 DEF Spared, Dead
    <3> QED
      BY <3>2, <3>3
  <2> QED
    BY <1>1, <2>1, <2>2, <2>4, <2>5
<1>9. ASSUME NEW q \in Request, DeleteFails(q) PROVE QueueInv'
  <2>1. \A p \in Request \ {q} : asked'[p] = asked[p]
    BY <1>9 DEF DeleteFails
  <2>2. asked'[q] = "done" /\ queue[q] = "none" /\ UNCHANGED <<row, covers, queue>>
    BY <1>9 DEF DeleteFails
  <2> QED
    BY <1>1, <2>1, <2>2
<1>10. ASSUME NEW q \in Request, QueueClaimGoesStale(q) PROVE QueueInv'
  BY <1>2, <1>10 DEF QueueClaimGoesStale
<1>11. ASSUME NEW s \in Drainer, NEW q \in Request, TakeQueued(s, q) PROVE QueueInv'
  BY <1>2, <1>11 DEF TakeQueued
<1>12. ASSUME NEW s \in Drainer, RefreshClaim(s) \/ Remove(s) PROVE QueueInv'
  <2>1. UNCHANGED deletion /\ taken[s] \in Request
    BY <1>12 DEF RefreshClaim, Remove
  <2>2. \A q \in Request : queue'[q] # "none" => queue[q] # "none"
    BY <1>12, <2>1 DEF RefreshClaim, Remove
  <2> QED
    BY <1>2, <2>1, <2>2
<1>13. ASSUME NEW s \in Drainer,
              List(s) \/ DrainFails(s) \/ \E k \in Object : DeleteObject(s, k)
       PROVE QueueInv'
  BY <1>2, <1>13 DEF List, DrainFails, DeleteObject
<1>14. CASE UNCHANGED vars
  BY <1>2, <1>14 DEF vars
<1> QED
  BY <1>3, <1>4, <1>5, <1>6, <1>7, <1>8, <1>9, <1>10, <1>11, <1>12, <1>13, <1>14
  DEF Next, DrainStep

\* The deletion worker only has objects of documents that are dead.
LEMMA DrainInvStep ==
    ASSUME StorageInv, RecordingApart', [Next]_vars PROVE DrainInv'
<1> USE StorageAssumption DEF StorageInv, TypeOK, documents, offload, deletion, draining,
        Request, DrainInv, Object, Part
<1>1. ASSUME \A q \in Request : asked[q] = "done" =>
                asked'[q] = "done" /\ covers'[q] = covers[q],
             \A s \in Drainer : taken'[s] \in {taken[s], None},
             \A s \in Drainer : page'[s] \subseteq page[s],
             \A k \in Object : <<"delete", k>> \in late' =>
                <<"delete", k>> \in late \/ \E s \in Drainer : k \in page[s]
      PROVE DrainInv'
  <2>1. ASSUME NEW s \in Drainer, taken'[s] \in Request
        PROVE asked'[taken'[s]] = "done"
              /\ \A d \in covers'[taken'[s]] : Spared(d)'
    <3>1. taken'[s] = taken[s] /\ covers'[taken[s]] = covers[taken[s]]
      BY <1>1, <2>1
    <3>2. \A d \in covers[taken[s]] : Spared(d)'
      BY <2>1, <3>1, SparedStays
    <3> QED
      BY <1>1, <2>1, <3>1, <3>2
  <2>2. ASSUME NEW s \in Drainer, NEW k \in page'[s] PROVE Dead(k[1])'
    <3>1. k \in Object /\ Dead(k[1])
      BY <1>1, <2>2
    <3> QED
      BY <3>1, OnlyDeadLose
  <2>3. ASSUME NEW k \in Object, <<"delete", k>> \in late' PROVE Dead(k[1])'
    <3>1. Dead(k[1])
      BY <1>1, <2>3
    <3> QED
      BY <3>1, OnlyDeadLose
  <2> QED
    BY <2>1, <2>2, <2>3
<1>2. ASSUME UNCHANGED <<deletion, late, taken, page>> PROVE DrainInv'
  BY <1>1, <1>2
<1>3. ASSUME NEW d \in Doc, UploadOriginal(d) \/ InsertRow(d) \/ ClaimGoesStale(d)
      PROVE DrainInv'
  BY <1>2, <1>3 DEF UploadOriginal, InsertRow, ClaimGoesStale
<1>4. ASSUME NEW o \in Offloader, OffloadStep(o) \/ \E d \in Doc : Claim(o, d)
      PROVE DrainInv'
  BY <1>2, <1>4 DEF OffloadStep, Upload, Finalize, Claim
<1>5. ASSUME NEW o \in Offloader, OffloadFails(o) PROVE DrainInv'
  <2>1. UNCHANGED <<deletion, taken, page>>
    BY <1>5 DEF OffloadFails
  <2>2. \A k \in Object : <<"delete", k>> \in late' => <<"delete", k>> \in late
    BY <1>5 DEF OffloadFails
  <2> QED
    BY <1>1, <2>1, <2>2
<1>6. ASSUME NEW r \in late, LateRequest(r) PROVE DrainInv'
  <2>1. UNCHANGED <<deletion, taken, page>> /\ late' \subseteq late
    BY <1>6 DEF LateRequest
  <2> QED
    BY <1>1, <2>1
<1>7. ASSUME NEW q \in Single, NEW d \in Doc, LocatePayloads(q, d) PROVE DrainInv'
  <2>1. \A p \in Request : asked[p] = "done" =>
           asked'[p] = "done" /\ covers'[p] = covers[p]
    BY <1>7 DEF LocatePayloads
  <2>2. UNCHANGED <<late, taken, page>>
    BY <1>7 DEF LocatePayloads
  <2> QED
    BY <1>1, <2>1, <2>2
<1>8. ASSUME NEW q \in Bulk, TakeTeamPrefix(q) PROVE DrainInv'
  <2>1. \A p \in Request : asked[p] = "done" =>
           asked'[p] = "done" /\ covers'[p] = covers[p]
    BY <1>8 DEF TakeTeamPrefix
  <2>2. UNCHANGED <<late, taken, page>>
    BY <1>8 DEF TakeTeamPrefix
  <2> QED
    BY <1>1, <2>1, <2>2
<1>9. ASSUME NEW q \in Request, DeletingStep(q) PROVE DrainInv'
  <2>1. /\ \A p \in Request : asked[p] = "done" => asked'[p] = "done"
        /\ UNCHANGED covers
    BY <1>9 DEF DeletingStep, DeleteRows, DeleteFails, QueueClaimGoesStale
  <2>2. UNCHANGED <<late, taken, page>>
    BY <1>9 DEF DeletingStep, DeleteRows, DeleteFails, QueueClaimGoesStale
  <2> QED
    BY <1>1, <2>1, <2>2
<1>10. ASSUME NEW s \in Drainer, NEW q \in Request, TakeQueued(s, q) PROVE DrainInv'
  <2>1. /\ UNCHANGED <<deletion, documents, late, page>>
        /\ \A t \in Drainer \ {s} : taken'[t] = taken[t]
        /\ taken'[s] = q
    BY <1>10 DEF TakeQueued
  <2>2. asked[q] = "done" /\ \A d \in covers[q] : Spared(d)
    BY <1>10 DEF TakeQueued, QueueInv
  <2> QED
    BY <2>1, <2>2 DEF Spared, Dead, Gone
<1>11. ASSUME NEW s \in Drainer, List(s) PROVE DrainInv'
  <2>1. UNCHANGED <<deletion, documents, late, taken>> /\ taken[s] \in Request
    BY <1>11 DEF List
  <2>2. /\ \A t \in Drainer \ {s} : page'[t] = page[t]
        /\ page'[s] \subseteq page[s] \cup Under(taken[s])
    BY <1>11 DEF List
  <2>3. ASSUME NEW k \in Under(taken[s]) PROVE Dead(k[1])
    <3>1. k \in objects /\ k \in Object /\ Spared(k[1])
      BY <2>1 DEF Under
    <3>2. PICK d \in Doc, p \in Part : k = <<d, p>>
      BY <3>1
    <3>3. recording[d] # "upload"
      BY <3>1, <3>2 DEF RecordingInv
    <3> QED
      BY <3>1, <3>2, <3>3 DEF Spared
  <2> QED
    BY <2>1, <2>2, <2>3 DEF Spared, Dead, Gone
<1>12. ASSUME NEW s \in Drainer, NEW k \in Object, DeleteObject(s, k) PROVE DrainInv'
  BY <1>1, <1>12 DEF DeleteObject
<1>13. ASSUME NEW s \in Drainer, RefreshClaim(s) \/ Remove(s) PROVE DrainInv'
  BY <1>1, <1>13 DEF RefreshClaim, Remove
<1>14. ASSUME NEW s \in Drainer, DrainFails(s) PROVE DrainInv'
  <2>1. /\ UNCHANGED deletion
        /\ \A t \in Drainer : taken'[t] \in {taken[t], None} /\ page'[t] \subseteq page[t]
    BY <1>14 DEF DrainFails
  <2>2. late' = late \/ late' = late \cup ({"delete"} \X {})
        \/ late' = late \cup ({"delete"} \X page[s])
    BY <1>14 DEF DrainFails
  <2> QED
    BY <1>1, <2>1, <2>2
<1>15. CASE UNCHANGED vars
  BY <1>2, <1>15 DEF vars
<1> QED
  BY <1>3, <1>4, <1>5, <1>6, <1>7, <1>8, <1>9, <1>10, <1>11, <1>12, <1>13, <1>14, <1>15
  DEF Next, DrainStep, DeletingStep

\* Every step of the recording, the offload and the deletions keeps the types.
THEOREM StorageTypes == Spec => []TypeOK
<1>1. Init => TypeOK
  BY InitStorage DEF StorageInv
<1> QED
  BY <1>1, TypeStep, PTL DEF Spec

\* The parts of the invariant hold together.
LEMMA StorageStep ==
    ASSUME StorageInv, RecordingApart', [Next]_vars PROVE StorageInv'
<1>1. TypeOK
  BY DEF StorageInv
<1> QED
  BY <1>1, TypeStep, RecordingStep, OffloadInvStep, QueueStep, DrainInvStep DEF StorageInv

LEMMA StorageInvImplies == StorageInv => Intact
  BY DEF StorageInv, RecordingInv, OffloadInv, Intact, Alive, Dead, Gone

\* Whatever offload workers, deletions and their worker do, fail to do or do too late, a
\* document's payloads can be downloaded while its row exists, as long as no document is
\* recorded while its team's prefix is queued (deleteAllTransmittedDocuments).
THEOREM ReadableThroughTeamDeletions == Spec /\ []RecordingApart => []Intact
<1>1. Init => StorageInv
  BY InitStorage
<1>2. StorageInv /\ RecordingApart' /\ [Next]_vars => StorageInv'
  BY StorageStep
<1>3. StorageInv => Intact
  BY StorageInvImplies
<1> QED
  BY <1>1, <1>2, <1>3, PTL DEF Spec

----------------------------------------------------------------------------
(* What a request that is not done has in the queue: nothing.                *)

\* A request that is not done yet has nothing in the queue, which nobody took from it.
AskedInv ==
    /\ \A d \in Doc : recording[d] # "done" => row[d] = "unborn"
    /\ \A q \in Request : queue[q] # "none" => asked[q] = "done"
    /\ \A s \in Drainer : taken[s] \in Request => asked[taken[s]] = "done"

LEMMA AskedStep ==
    ASSUME TypeOK, AskedInv, [Next]_vars
    PROVE  AskedInv' /\ \A d \in Doc : Gone(d) => Gone(d)'
<1> USE StorageAssumption DEF TypeOK, documents, offload, deletion, draining, Request, Gone
<1> DEFINE Goal == AskedInv' /\ \A d \in Doc : row[d] = "gone" => row'[d] = "gone"
<1>0. ASSUME UNCHANGED <<documents, asked, queue, taken>> PROVE Goal
  BY <1>0 DEF AskedInv
<1>1. ASSUME NEW d \in Doc, UploadOriginal(d) \/ InsertRow(d) \/ ClaimGoesStale(d)
      PROVE  Goal
  <2>1. UNCHANGED <<asked, queue, taken>>
    BY <1>1 DEF UploadOriginal, InsertRow, ClaimGoesStale
  <2>2. \A c \in Doc : c # d => recording'[c] = recording[c] /\ row'[c] = row[c]
    BY <1>1 DEF UploadOriginal, InsertRow, ClaimGoesStale
  <2>3. \/ recording[d] # "done" /\ (recording'[d] = "done" \/ row'[d] = row[d])
        \/ recording'[d] = recording[d] /\ row'[d] = row[d]
    BY <1>1 DEF UploadOriginal, InsertRow, ClaimGoesStale
  <2> QED
    BY <2>1, <2>2, <2>3 DEF AskedInv
<1>2. ASSUME NEW o \in Offloader, Upload(o) \/ OffloadFails(o) \/ \E d \in Doc : Claim(o, d)
      PROVE  Goal
  BY <1>0, <1>2 DEF Upload, OffloadFails, Claim
<1>3. ASSUME NEW o \in Offloader, Finalize(o) PROVE Goal
  <2>1. UNCHANGED <<asked, queue, taken, recording>>
    BY <1>3 DEF Finalize
  <2>2. \A d \in Doc : row'[d] = row[d] \/ (row[d] = "db" /\ row'[d] = "s3")
    BY <1>3 DEF Finalize
  <2> QED
    BY <2>1, <2>2 DEF AskedInv
<1>4. ASSUME NEW r \in late, LateRequest(r) PROVE Goal
  BY <1>0, <1>4 DEF LateRequest
<1>5. ASSUME NEW q \in Request, TakeTeamPrefix(q) \/ \E d \in Doc : LocatePayloads(q, d)
      PROVE  Goal
  <2>1. /\ UNCHANGED <<documents, queue, taken>> /\ asked[q] = "idle"
        /\ \A p \in Request : p # q => asked'[p] = asked[p]
    BY <1>5 DEF TakeTeamPrefix, LocatePayloads
  <2> QED
    BY <2>1 DEF AskedInv
<1>6. ASSUME NEW q \in Request, DeletingStep(q) PROVE Goal
  <2>1. /\ UNCHANGED <<recording, taken>>
        /\ \A p \in Request : asked'[p] = asked[p] \/ asked'[p] = "done"
        /\ \A p \in Request : queue'[p] # "none" => queue[p] # "none" \/ asked'[p] = "done"
    BY <1>6 DEF DeletingStep, DeleteRows, DeleteFails, QueueClaimGoesStale
  <2>2. \A d \in Doc : row'[d] = row[d] \/ (Alive(d) /\ row'[d] = "gone")
    BY <1>6 DEF DeletingStep, DeleteRows, DeleteFails, QueueClaimGoesStale, Deleted
  <2> QED
    BY <2>1, <2>2 DEF AskedInv, Alive
<1>7. ASSUME NEW s \in Drainer, NEW q \in Request, TakeQueued(s, q) PROVE Goal
  <2>1. /\ UNCHANGED <<documents, asked>> /\ queue[q] # "none"
        /\ \A p \in Request : queue'[p] # "none" => queue[p] # "none"
        /\ \A t \in Drainer : taken'[t] = taken[t] \/ taken'[t] = q
    BY <1>7 DEF TakeQueued
  <2> QED
    BY <2>1 DEF AskedInv
<1>8. ASSUME NEW s \in Drainer,
             List(s) \/ DrainFails(s) \/ RefreshClaim(s) \/ Remove(s)
               \/ \E k \in Object : DeleteObject(s, k)
      PROVE  Goal
  <2>1. UNCHANGED <<documents, asked>>
    BY <1>8 DEF List, DeleteObject, DrainFails, RefreshClaim, Remove
  <2>2. \A t \in Drainer : taken'[t] = taken[t] \/ taken'[t] = None
    BY <1>8 DEF List, DeleteObject, DrainFails, RefreshClaim, Remove
  <2>3. \A p \in Request : queue'[p] # "none" => queue[p] # "none"
    BY <1>8 DEF List, DeleteObject, DrainFails, RefreshClaim, Remove
  <2> QED
    BY <2>1, <2>2, <2>3 DEF AskedInv
<1>9. CASE UNCHANGED vars
  BY <1>0, <1>9 DEF vars
<1> QED
  BY <1>1, <1>2, <1>3, <1>4, <1>5, <1>6, <1>7, <1>8, <1>9
  DEF Next, OffloadStep, DrainStep, DeletingStep

\* A deleting request does not begin again.
LEMMA TeamDeletedStays ==
    ASSUME TypeOK, TeamDeleted, [Next]_vars PROVE TeamDeleted'
<1> PICK q \in Bulk : asked[q] = "done"
  BY DEF TeamDeleted
<1> SUFFICES asked'[q] = "done"
  BY DEF TeamDeleted
<1> USE DEF TypeOK, documents, offload, deletion, draining, Request
<1>1. ASSUME NEW p \in Request,
             \/ TakeTeamPrefix(p) \/ DeletingStep(p)
             \/ \E d \in Doc : LocatePayloads(p, d)
      PROVE  asked'[q] = "done"
  BY <1>1 DEF DeletingStep, LocatePayloads, TakeTeamPrefix, DeleteRows, DeleteFails,
              QueueClaimGoesStale
<1>2. ASSUME NEW d \in Doc, UploadOriginal(d) \/ InsertRow(d) \/ ClaimGoesStale(d)
      PROVE  asked'[q] = "done"
  BY <1>2 DEF UploadOriginal, InsertRow, ClaimGoesStale
<1>3. ASSUME NEW o \in Offloader,
             OffloadStep(o) \/ OffloadFails(o) \/ \E d \in Doc : Claim(o, d)
      PROVE  asked'[q] = "done"
  BY <1>3 DEF OffloadStep, Upload, Finalize, OffloadFails, Claim
<1>4. ASSUME NEW s \in Drainer,
             DrainStep(s) \/ DrainFails(s) \/ \E p \in Request : TakeQueued(s, p)
      PROVE  asked'[q] = "done"
  BY <1>4 DEF DrainStep, List, DeleteObject, RefreshClaim, Remove, DrainFails, TakeQueued
<1>5. ASSUME NEW r \in late, LateRequest(r) PROVE asked'[q] = "done"
  BY <1>5 DEF LateRequest
<1>6. CASE UNCHANGED vars
  BY <1>6 DEF vars
<1> QED
  BY <1>1, <1>2, <1>3, <1>4, <1>5, <1>6 DEF Next, DeletingStep

\* With no assumption on who records, offloads or deletes when: until a deletion of all of
\* the team's documents has gone through, every payload a row points to is in the storage.
THEOREM PayloadsAreReadable == Spec => []Readable
<1> DEFINE Inv == TypeOK /\ AskedInv /\ (StorageInv \/ TeamDeleted)
<1>1. Init => Inv
  BY InitStorage, StorageAssumption DEF StorageInv, Init, AskedInv, Request
<1>2. Inv /\ [Next]_vars => Inv'
  <2> SUFFICES ASSUME Inv, [Next]_vars PROVE Inv'
    OBVIOUS
  <2>1. TypeOK' /\ AskedInv'
    BY TypeStep, AskedStep
  <2>2. CASE TeamDeleted
    BY <2>1, <2>2, TeamDeletedStays
  <2>3. CASE StorageInv /\ ~TeamDeleted'
    <3>1. RecordingApart'
      BY <2>1, <2>3 DEF AskedInv, TeamDeleted, RecordingApart, Request
    <3> QED
      BY <2>1, <2>3, <3>1, StorageStep
  <2> QED
    BY <2>1, <2>2, <2>3
<1>3. Inv => Readable
  BY StorageInvImplies DEF Readable
<1> QED
  BY <1>1, <1>2, <1>3, PTL DEF Spec

----------------------------------------------------------------------------
(* The original payload of a deleted document is under a queued prefix.  The  *)
(* row tells of it from its insert on, so that the request which reads the     *)
(* row before its transaction knows of it; offload workers, their late         *)
(* uploads and team deletions are included.                                   *)

HasOriginal(d) == <<d, "original">> \in objects

\* The row knows of the original payload, no offload uploads one, and a request that
\* found nothing in the storage deletes a document that has none.
KnownInv ==
    /\ \A d \in Doc : HasOriginal(d) => original[d]
    /\ \A k \in Object : <<"put", k>> \in late => k[2] # "original"
    /\ \A q \in Request : asked[q] = "delete" /\ ~stored[q] =>
          \A d \in covers[q] : row[d] # "unborn" /\ ~original[d]

\* A queue row that no deletion worker is about to remove covers what is left.
CoveredInv ==
    \A d \in Doc : Gone(d) /\ HasOriginal(d) =>
        \E q \in Request :
            /\ queue[q] # "none" /\ d \in covers[q]
            /\ \A s \in Drainer : drain[s] = "remove" => taken[s] # q

OrphanInv == TypeOK /\ AskedInv /\ KnownInv /\ CoveredInv

LEMMA KnownStep ==
    ASSUME TypeOK, AskedInv, KnownInv, [Next]_vars
    PROVE  KnownInv'
<1> USE StorageAssumption DEF TypeOK, documents, offload, deletion, draining, Request,
        Object, Part, HasOriginal
<1>0. ASSUME \A d \in Doc : <<d, "original">> \in objects' => original'[d],
             \A k \in Object : <<"put", k>> \in late' =>
                <<"put", k>> \in late \/ k[2] # "original",
             \A q \in Request : asked'[q] = "delete" /\ ~stored'[q] =>
                asked[q] = "delete" /\ ~stored[q] /\ covers'[q] = covers[q],
             \A q \in Request : \A d \in covers[q] :
                row[d] # "unborn" => row'[d] # "unborn" /\ original'[d] = original[d]
      PROVE  KnownInv'
  <2>1. ASSUME NEW q \in Request, asked'[q] = "delete", ~stored'[q], NEW d \in covers'[q]
        PROVE  row'[d] # "unborn" /\ ~original'[d]
    <3>1. /\ asked[q] = "delete" /\ ~stored[q] /\ d \in covers[q]
      BY <1>0, <2>1
    <3>2. row[d] # "unborn" /\ ~original[d]
      BY <3>1 DEF KnownInv
    <3> QED
      BY <1>0, <3>1, <3>2
  <2> QED
    BY <1>0, <2>1 DEF KnownInv
<1>1. ASSUME UNCHANGED <<row, original, late, deletion>>,
             \A d \in Doc : <<d, "original">> \in objects' => <<d, "original">> \in objects
      PROVE  KnownInv'
  BY <1>1 DEF KnownInv
<1>2. ASSUME NEW d \in Doc, UploadOriginal(d) PROVE KnownInv'
  <2>1. /\ UNCHANGED <<row, late, deletion>> /\ row[d] = "unborn"
        /\ \A c \in Doc : c # d => original'[c] = original[c]
    BY <1>2 DEF UploadOriginal, AskedInv
  <2>2. \A c \in Doc : <<c, "original">> \in objects' => original'[c]
    BY <1>2 DEF UploadOriginal, KnownInv
  <2>3. \A q \in Request : \A c \in covers[q] : row[c] # "unborn" => original'[c] = original[c]
    BY <2>1
  <2> QED
    BY <1>0, <2>1, <2>2, <2>3
<1>3. ASSUME NEW d \in Doc, InsertRow(d) PROVE KnownInv'
  <2>1. /\ UNCHANGED <<original, objects, late, deletion>> /\ row[d] = "unborn"
        /\ \A c \in Doc : c # d => row'[c] = row[c]
    BY <1>3 DEF InsertRow, AskedInv
  <2>2. \A q \in Request : \A c \in covers[q] : row[c] # "unborn" => row'[c] = row[c]
    BY <2>1
  <2>3. \A c \in Doc : <<c, "original">> \in objects' => original'[c]
    BY <2>1 DEF KnownInv
  <2> QED
    BY <1>0, <2>1, <2>2, <2>3
<1>4. ASSUME NEW d \in Doc, ClaimGoesStale(d) PROVE KnownInv'
  BY <1>1, <1>4 DEF ClaimGoesStale
<1>5. ASSUME NEW o \in Offloader, Upload(o) \/ \E d \in Doc : Claim(o, d) PROVE KnownInv'
  BY <1>1, <1>5 DEF Upload, Claim
<1>6. ASSUME NEW o \in Offloader, Finalize(o) PROVE KnownInv'
  <2>1. UNCHANGED <<original, objects, late, deletion>> /\ work[o] \in Doc
    BY <1>6 DEF Finalize
  <2>2. \A d \in Doc : row[d] # "unborn" => row'[d] # "unborn"
    BY <1>6 DEF Finalize
  <2>3. \A c \in Doc : <<c, "original">> \in objects' => original'[c]
    BY <2>1 DEF KnownInv
  <2> QED
    BY <1>0, <2>1, <2>2, <2>3
<1>7. ASSUME NEW o \in Offloader, OffloadFails(o) PROVE KnownInv'
  <2>1. /\ UNCHANGED <<row, original, objects, deletion>>
    BY <1>7 DEF OffloadFails
  <2>2. \/ late' = late
        \/ step[o] \in {"xml", "attachments"} /\ late' = late \cup {<<"put", <<work[o], step[o]>>>>}
    BY <1>7 DEF OffloadFails
  <2>3. \A k \in Object : <<"put", k>> \in late' => <<"put", k>> \in late \/ k[2] # "original"
    BY <2>2
  <2>4. \A c \in Doc : <<c, "original">> \in objects' => original'[c]
    BY <2>1 DEF KnownInv
  <2> QED
    BY <1>0, <2>1, <2>3, <2>4
<1>8. ASSUME NEW r \in late, LateRequest(r) PROVE KnownInv'
  <2>1. /\ UNCHANGED <<row, original, deletion>> /\ late' \subseteq late
        /\ r \in {"put", "delete"} \X Object
    BY <1>8 DEF LateRequest
  <2>2. PICK k \in Object : r = <<"put", k>> \/ r = <<"delete", k>>
    BY <2>1
  <2>3. objects' \subseteq objects \/ (r = <<"put", k>> /\ objects' = objects \cup {k})
    BY <1>8, <2>2 DEF LateRequest
  <2>4. \A d \in Doc : <<d, "original">> \in objects' => <<d, "original">> \in objects
    BY <1>8, <2>2, <2>3 DEF KnownInv
  <2>5. \A c \in Doc : <<c, "original">> \in objects' => original'[c]
    BY <2>1, <2>4 DEF KnownInv
  <2> QED
    BY <1>0, <2>1, <2>5
<1>9. ASSUME NEW q \in Single, NEW d \in Doc, LocatePayloads(q, d) PROVE KnownInv'
  <2>1. /\ UNCHANGED <<row, original, objects, late>> /\ Alive(d)
        /\ covers'[q] = {d} /\ stored'[q] = (row[d] = "s3" \/ original[d])
        /\ \A p \in Request : p # q =>
              asked'[p] = asked[p] /\ stored'[p] = stored[p] /\ covers'[p] = covers[p]
    BY <1>9 DEF LocatePayloads
  <2>2. ASSUME NEW p \in Request, asked'[p] = "delete", ~stored'[p], NEW c \in covers'[p]
        PROVE  row[c] # "unborn" /\ ~original[c]
    <3>1. CASE p = q
      BY <2>1, <2>2, <3>1 DEF Alive
    <3>2. CASE p # q
      BY <2>1, <2>2, <3>2 DEF KnownInv
    <3> QED
      BY <3>1, <3>2
  <2>3. \A c \in Doc : <<c, "original">> \in objects' => original'[c]
    BY <2>1 DEF KnownInv
  <2>4. \A k \in Object : <<"put", k>> \in late' => k[2] # "original"
    BY <2>1 DEF KnownInv
  <2> QED
    BY <2>1, <2>2, <2>3, <2>4 DEF KnownInv
<1>10. ASSUME NEW q \in Bulk, TakeTeamPrefix(q) PROVE KnownInv'
  <2>1. /\ UNCHANGED <<row, original, objects, late>> /\ stored'[q]
        /\ \A p \in Request : p # q =>
              asked'[p] = asked[p] /\ stored'[p] = stored[p] /\ covers'[p] = covers[p]
    BY <1>10 DEF TakeTeamPrefix
  <2> QED
    BY <2>1 DEF KnownInv
<1>11. ASSUME NEW q \in Request, DeletingStep(q) PROVE KnownInv'
  <2>1. /\ UNCHANGED <<original, objects, late, covers, stored>>
        /\ \A p \in Request : asked'[p] = asked[p] \/ asked'[p] = "done"
    BY <1>11 DEF DeletingStep, DeleteRows, DeleteFails, QueueClaimGoesStale
  <2>2. \A d \in Doc : row'[d] = row[d] \/ row'[d] = "gone"
    BY <1>11 DEF DeletingStep, DeleteRows, DeleteFails, QueueClaimGoesStale, Deleted
  <2>3. \A c \in Doc : <<c, "original">> \in objects' => original'[c]
    BY <2>1 DEF KnownInv
  <2> QED
    BY <1>0, <2>1, <2>2, <2>3
<1>12. ASSUME NEW s \in Drainer,
              \/ List(s) \/ RefreshClaim(s) \/ Remove(s)
              \/ \E q \in Request : TakeQueued(s, q)
              \/ \E k \in Object : DeleteObject(s, k)
       PROVE  KnownInv'
  BY <1>1, <1>12 DEF List, DeleteObject, RefreshClaim, Remove, TakeQueued
<1>13. ASSUME NEW s \in Drainer, DrainFails(s) PROVE KnownInv'
  <2>1. UNCHANGED <<row, original, objects, deletion>>
    BY <1>13 DEF DrainFails
  <2>2. late' = late \/ late' = late \cup ({"delete"} \X {})
        \/ late' = late \cup ({"delete"} \X page[s])
    BY <1>13 DEF DrainFails
  <2>3. \A k \in Object : <<"put", k>> \in late' => <<"put", k>> \in late
    BY <2>2
  <2>4. \A c \in Doc : <<c, "original">> \in objects' => original'[c]
    BY <2>1 DEF KnownInv
  <2> QED
    BY <1>0, <2>1, <2>3, <2>4
<1>14. CASE UNCHANGED vars
  BY <1>1, <1>14 DEF vars
<1> QED
  BY <1>2, <1>3, <1>4, <1>5, <1>6, <1>7, <1>8, <1>9, <1>10, <1>11, <1>12, <1>13, <1>14
  DEF Next, OffloadStep, DrainStep, DeletingStep

\* A document's last objects are covered by the row its deletion queued, from then on until
\* a deletion worker finds nothing under the prefix.
LEMMA CoveredStep ==
    ASSUME OrphanInv, [Next]_vars
    PROVE  CoveredInv'
<1> USE StorageAssumption DEF OrphanInv, TypeOK, documents, offload, deletion, draining, Request,
        Gone, Object, Part
<1> DEFINE Covers(q, d) == /\ queue[q] # "none" /\ d \in covers[q]
                           /\ \A s \in Drainer : drain[s] = "remove" => taken[s] # q
<1>a. \A d \in Doc : Gone(d) /\ HasOriginal(d) => \E q \in Request : Covers(q, d)
  BY DEF CoveredInv
<1>b. ASSUME \A d \in Doc : Gone(d)' /\ HasOriginal(d)' =>
                \/ \E q \in Request : Covers(q, d)'
                \/ Gone(d) /\ HasOriginal(d)
                   /\ \A q \in Request : Covers(q, d) => Covers(q, d)'
      PROVE  CoveredInv'
  BY <1>a, <1>b DEF CoveredInv
<1>0. ASSUME \A d \in Doc : Gone(d)' /\ HasOriginal(d)' => Gone(d) /\ HasOriginal(d),
             \A q \in Request : queue[q] # "none" => queue'[q] # "none" /\ covers'[q] = covers[q],
             \A s \in Drainer : drain'[s] = "remove" => drain[s] = "remove" /\ taken'[s] = taken[s]
      PROVE  CoveredInv'
  BY <1>0, <1>b
<1>1. ASSUME NEW d \in Doc, UploadOriginal(d) PROVE CoveredInv'
  <2>1. /\ UNCHANGED <<row, covers, queue, drain, taken>> /\ row[d] = "unborn"
        /\ objects' \subseteq objects \cup {<<d, "original">>}
    BY <1>1 DEF UploadOriginal, AskedInv
  <2>2. \A c \in Doc : c # d /\ HasOriginal(c)' => HasOriginal(c)
    BY <2>1 DEF HasOriginal
  <2> QED
    BY <1>0, <2>1, <2>2
<1>2. ASSUME NEW d \in Doc, InsertRow(d) \/ ClaimGoesStale(d) PROVE CoveredInv'
  <2>1. /\ UNCHANGED <<objects, covers, queue, drain, taken>>
        /\ \A c \in Doc : row'[c] = "gone" => row[c] = "gone"
    BY <1>2 DEF InsertRow, ClaimGoesStale
  <2> QED
    BY <1>0, <2>1 DEF HasOriginal
<1>3. ASSUME NEW o \in Offloader, Upload(o) PROVE CoveredInv'
  <2>1. /\ UNCHANGED <<row, covers, queue, drain, taken>> /\ work[o] \in Doc
        /\ objects' = objects \cup {<<work[o], step[o]>>}
    BY <1>3 DEF Upload
  <2>2. \A c \in Doc : HasOriginal(c)' => HasOriginal(c)
    BY <1>3, <2>1 DEF HasOriginal, Upload
  <2> QED
    BY <1>0, <2>1, <2>2
<1>4. ASSUME NEW o \in Offloader, Finalize(o) \/ OffloadFails(o) \/ \E d \in Doc : Claim(o, d)
      PROVE  CoveredInv'
  <2>1. /\ UNCHANGED <<objects, covers, queue, drain, taken>>
        /\ \A c \in Doc : row'[c] = "gone" => row[c] = "gone"
    BY <1>4 DEF Finalize, OffloadFails, Claim
  <2> QED
    BY <1>0, <2>1 DEF HasOriginal
<1>5. ASSUME NEW r \in late, LateRequest(r) PROVE CoveredInv'
  <2>1. UNCHANGED <<row, covers, queue, drain, taken>> /\ r \in {"put", "delete"} \X Object
    BY <1>5 DEF LateRequest
  <2>2. PICK d \in Doc, p \in Part : r = <<"put", <<d, p>>>> \/ r = <<"delete", <<d, p>>>>
    BY <2>1
  <2>3. \/ objects' \subseteq objects
        \/ r = <<"put", <<d, p>>>> /\ objects' = objects \cup {<<d, p>>}
    BY <1>5, <2>2 DEF LateRequest
  <2>4. ASSUME r = <<"put", <<d, p>>>> PROVE p # "original"
    <3>1. <<d, p>> \in Object /\ <<d, p>>[2] = p
      OBVIOUS
    <3> QED
      BY <2>4, <3>1 DEF KnownInv
  <2>5. \A c \in Doc : HasOriginal(c)' => HasOriginal(c)
    BY <2>3, <2>4 DEF HasOriginal
  <2> QED
    BY <1>0, <2>1, <2>5
<1>6. ASSUME NEW q \in Request, TakeTeamPrefix(q) \/ \E d \in Doc : LocatePayloads(q, d)
      PROVE  CoveredInv'
  <2>1. /\ UNCHANGED <<row, objects, queue, drain, taken>> /\ asked[q] = "idle"
        /\ \A p \in Request : p # q => covers'[p] = covers[p]
    BY <1>6 DEF TakeTeamPrefix, LocatePayloads
  <2>2. queue[q] = "none"
    BY <2>1 DEF AskedInv
  <2> QED
    BY <1>0, <2>1, <2>2 DEF HasOriginal
<1>7. ASSUME NEW q \in Request, DeleteRows(q) PROVE CoveredInv'
  <2>1. /\ UNCHANGED <<original, objects, covers, drain, taken>> /\ asked[q] = "delete"
        /\ queue' = IF stored[q] THEN [queue EXCEPT ![q] = "waiting"] ELSE queue
        /\ row' = Deleted(q)
    BY <1>7 DEF DeleteRows
  <2>2. \A s \in Drainer : taken[s] # q
    BY <2>1 DEF AskedInv
  <2>3. \A p \in Request : queue[p] # "none" => queue'[p] # "none"
    BY <2>1
  <2>4. ASSUME NEW d \in Doc, row'[d] = "gone", HasOriginal(d)
        PROVE  row[d] = "gone" \/ \E p \in Request : Covers(p, d)'
    <3>1. CASE row[d] = "gone"
      BY <3>1
    <3>2. CASE row[d] # "gone"
      <4>1. d \in covers[q] /\ Alive(d)
        BY <2>1, <2>4, <3>2 DEF Deleted
      <4>2. stored[q]
        BY <2>1, <2>4, <4>1 DEF KnownInv
      <4>3. queue'[q] # "none"
        BY <2>1, <4>2
      <4> QED
        BY <2>1, <2>2, <4>1, <4>3
    <3> QED
      BY <3>1, <3>2
  <2>5. \A d \in Doc : \A p \in Request : Covers(p, d) => Covers(p, d)'
    BY <2>1, <2>3
  <2>6. \A d \in Doc : HasOriginal(d)' => HasOriginal(d)
    BY <2>1 DEF HasOriginal
  <2> HIDE DEF Covers
  <2> QED
    BY <1>b, <2>4, <2>5, <2>6
<1>8. ASSUME NEW q \in Request, DeleteFails(q) \/ QueueClaimGoesStale(q) PROVE CoveredInv'
  <2>1. /\ UNCHANGED <<row, objects, covers, drain, taken>>
        /\ \A p \in Request : queue[p] # "none" => queue'[p] # "none"
    BY <1>8 DEF DeleteFails, QueueClaimGoesStale
  <2> QED
    BY <1>0, <2>1 DEF HasOriginal
<1>9. ASSUME NEW s \in Drainer, NEW q \in Request, TakeQueued(s, q) PROVE CoveredInv'
  <2>1. /\ UNCHANGED <<row, objects, covers>>
        /\ \A p \in Request : queue[p] # "none" => queue'[p] # "none"
        /\ \A t \in Drainer : drain'[t] = "remove" => drain[t] = "remove" /\ taken'[t] = taken[t]
    BY <1>9 DEF TakeQueued
  <2> QED
    BY <1>0, <2>1 DEF HasOriginal
<1>10. ASSUME NEW s \in Drainer, List(s) PROVE CoveredInv'
  <2>1. UNCHANGED <<row, objects, covers, queue, taken>> /\ taken[s] \in Request
    BY <1>10 DEF List
  <2>2. \A t \in Drainer : drain'[t] = "remove" =>
           drain[t] = "remove" \/ (t = s /\ Under(taken[s]) = {})
    BY <1>10 DEF List
  <2>3. ASSUME NEW d \in Doc, HasOriginal(d), Under(taken[s]) = {} PROVE d \notin covers[taken[s]]
    BY <2>3 DEF HasOriginal, Under
  <2>4. \A d \in Doc : HasOriginal(d) => \A q \in Request : Covers(q, d) => Covers(q, d)'
    BY <2>1, <2>2, <2>3
  <2>5. \A d \in Doc : HasOriginal(d)' => HasOriginal(d)
    BY <2>1 DEF HasOriginal
  <2> HIDE DEF Covers
  <2> QED
    BY <1>b, <2>1, <2>4, <2>5
<1>11. ASSUME NEW s \in Drainer, NEW k \in Object, DeleteObject(s, k) PROVE CoveredInv'
  <2>1. UNCHANGED <<row, covers, queue, drain, taken>> /\ objects' \subseteq objects
    BY <1>11 DEF DeleteObject
  <2> QED
    BY <1>0, <2>1 DEF HasOriginal
<1>12. ASSUME NEW s \in Drainer, RefreshClaim(s) \/ DrainFails(s) PROVE CoveredInv'
  <2>1. /\ UNCHANGED <<row, objects, covers>>
        /\ \A p \in Request : queue[p] # "none" => queue'[p] # "none"
        /\ \A t \in Drainer : drain'[t] = "remove" => drain[t] = "remove" /\ taken'[t] = taken[t]
    BY <1>12 DEF RefreshClaim, DrainFails
  <2> QED
    BY <1>0, <2>1 DEF HasOriginal
<1>13. ASSUME NEW s \in Drainer, Remove(s) PROVE CoveredInv'
  <2>1. /\ UNCHANGED <<row, objects, covers>> /\ drain[s] = "remove"
        /\ \A p \in Request : p # taken[s] => queue'[p] = queue[p]
        /\ \A t \in Drainer : drain'[t] = "remove" => drain[t] = "remove" /\ taken'[t] = taken[t]
    BY <1>13 DEF Remove
  <2>2. \A d \in Doc : \A q \in Request : Covers(q, d) => Covers(q, d)'
    BY <2>1
  <2>3. \A d \in Doc : HasOriginal(d)' => HasOriginal(d)
    BY <2>1 DEF HasOriginal
  <2> HIDE DEF Covers
  <2> QED
    BY <1>b, <2>1, <2>2, <2>3
<1>14. CASE UNCHANGED vars
  BY <1>0, <1>14 DEF vars, HasOriginal
<1> QED
  BY <1>1, <1>2, <1>3, <1>4, <1>5, <1>6, <1>7, <1>8, <1>9, <1>10, <1>11, <1>12, <1>13, <1>14
  DEF Next, OffloadStep, DrainStep

\* Before the first deletion everything that is stored belongs to a row.
LEMMA OrphanInit == Init => OrphanInv
<1> SUFFICES ASSUME Init PROVE OrphanInv
  OBVIOUS
<1>1. TypeOK
  BY InitStorage DEF StorageInv
<1>2. AskedInv
  BY StorageAssumption DEF Init, AskedInv, Request
<1>3. \A d \in Doc : ~Gone(d)
  BY DEF Init, Gone
<1>4. KnownInv
  BY StorageAssumption DEF Init, KnownInv, HasOriginal, Parts, Object, Request
<1> QED
  BY <1>1, <1>2, <1>3, <1>4 DEF OrphanInv, CoveredInv

LEMMA OrphanStep ==
    ASSUME OrphanInv, [Next]_vars PROVE OrphanInv'
<1>1. TypeOK /\ AskedInv /\ KnownInv
  BY DEF OrphanInv
<1> QED
  BY <1>1, TypeStep, AskedStep, KnownStep, CoveredStep DEF OrphanInv

\* The original payload of a deleted document lies under a queued prefix until it is
\* deleted, whatever the requests, the offload and deletion workers and the storage do, do
\* twice, do late or fail to do: the row that is read before the transaction tells of it.
THEOREM OriginalsAreDeleted == Spec => []OriginalNeverOrphaned
<1>1. Init => OrphanInv
  BY OrphanInit
<1>2. OrphanInv /\ [Next]_vars => OrphanInv'
  BY OrphanStep
<1>3. OrphanInv => OriginalNeverOrphaned
  BY DEF OrphanInv, CoveredInv, OriginalNeverOrphaned, Gone, HasOriginal
<1> QED
  BY <1>1, <1>2, <1>3, PTL DEF Spec
============================================================================
