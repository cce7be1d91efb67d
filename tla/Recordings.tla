------------------------------ MODULE Recordings ------------------------------
(***************************************************************************)
(* Recordings of calls (telephony/recordings): the rows FreeSWITCH events  *)
(* create, the reconciliation and ingestion jobs that carry a staged file  *)
(* to the bucket of the organization (platform/storage), deletion by a     *)
(* user and by the retention job (platform/retention).                     *)
(*                                                                         *)
(* Every worker process runs every job. A worker keeps the rows it claimed *)
(* in memory: they may be stale when it comes to them, and their lease may *)
(* be over while it still uploads.                                         *)
(***************************************************************************)
EXTENDS Naturals, FiniteSets

CONSTANTS
    RecIds,         \* recordings of one organization, each of its own call and path
    Ingesters,      \* worker processes
    ApiDeleter,     \* the API process that deletes a recording
    Integrations,   \* storage integrations of the organization
    NoIntegration,
    MaxUploads,     \* IngestionConfig.MaxAttempts
    UploadBatch,    \* IngestionConfig.BatchSize
    RecFaults,      \* crashes, failed calls and overrun leases (bound)
    RecChanges      \* changes of integrations and policies (bound)

ASSUME RecAssumption ==
    /\ NoIntegration \notin Integrations /\ ApiDeleter \notin Ingesters /\ IsFiniteSet(Ingesters)
    /\ MaxUploads \in Nat \ {0, 1} /\ UploadBatch \in Nat \ {0}
    /\ RecFaults \in Nat /\ RecChanges \in Nat

VARIABLES
    recording,    \* rows of recordings, with the events their transactions put in the outbox
    media,        \* what FreeSWITCH does: the recording runs, has stopped, its call is over
    staged,       \* files of the staging volume
    objects,      \* objects in the buckets: <<recording, integration>>
    integration,  \* rows of storage_integrations
    policy,       \* the organization's retention: an enabled policy row, a limit of the plan
    expired,      \* recordings older than the retention
    ingester,     \* the ingestion job of each worker
    deleter,      \* Service.Delete in the API and in each worker's retention job
    erased,       \* recordings whose object Service.Delete removed (history)
    recFaults, recChanges

recVars == <<recording, media, staged, objects, integration, policy, expired, ingester, deleter,
             erased, recFaults, recChanges>>

RecStatus == {"none", "recording", "uploading", "completed", "failed", "deleted"}
RecEvent == {"started", "completed", "failed", "deleted"}
RecordingRow == [status: RecStatus, attempts: 0..(MaxUploads + Cardinality(Ingesters)),
                 due: BOOLEAN,
                 pin: Integrations \cup {NoIntegration}, sent: SUBSET RecEvent]
NoUpload == [at |-> "idle", queue |-> {}, rows |-> [r \in {} |-> 0], r |-> NoIntegration,
             dest |-> NoIntegration]
NoDelete == [at |-> "idle", r |-> NoIntegration]
Deleters == Ingesters \cup {ApiDeleter}
UploadAt == {"idle", "next", "pin", "put", "complete", "remove", "retry"}

RecTypeOK ==
    /\ recording \in [RecIds -> RecordingRow]
    /\ media \in [RecIds -> {"none", "running", "stopped", "over"}]
    /\ staged \subseteq RecIds /\ erased \subseteq RecIds /\ expired \subseteq RecIds
    /\ objects \subseteq RecIds \X Integrations
    /\ integration \in [Integrations -> {"absent", "active", "disabled"}]
    /\ Cardinality({i \in Integrations : integration[i] = "active"}) <= 1
    /\ policy \in [row: BOOLEAN, plan: BOOLEAN]
    /\ \A w \in Ingesters :
           /\ ingester[w].at \in UploadAt
           /\ ingester[w].queue \subseteq DOMAIN ingester[w].rows
           /\ ingester[w].at \in {"pin", "put", "complete"} => ingester[w].dest \in Integrations
    /\ deleter \in [Deleters -> [at: {"idle", "object", "row"}, r: RecIds \cup {NoIntegration}]]
    /\ recFaults \in 0..RecFaults /\ recChanges \in 0..RecChanges

RecInit ==
    /\ recording = [r \in RecIds |-> [status |-> "none", attempts |-> 0, due |-> FALSE,
                                      pin |-> NoIntegration, sent |-> {}]]
    /\ media = [r \in RecIds |-> "none"]
    /\ staged = {} /\ objects = {} /\ expired = {} /\ erased = {}
    /\ \E i \in Integrations :
           integration = [j \in Integrations |-> IF j = i THEN "active" ELSE "absent"]
    /\ policy \in [row: {FALSE}, plan: BOOLEAN]
    /\ ingester = [w \in Ingesters |-> NoUpload]
    /\ deleter = [d \in Deleters |-> NoDelete]
    /\ recFaults = 0 /\ recChanges = 0

RecFault == recFaults < RecFaults /\ recFaults' = recFaults + 1
Status(r) == recording[r].status

(***************************************************************************)
(* Statements. Each yields the row after it; a statement that changes the  *)
(* status runs in a transaction with its outbox event.                     *)
(***************************************************************************)
\* mutate: the row and the event are committed together.
Announced(row, status, event) == [row EXCEPT !.status = status, !.sent = @ \cup {event}]

\* CreateRecording.
Created(row) == Announced(row, "recording", "started")

\* MarkRecordingReadyForUpload, which sends no event.
Ready(row) == [row EXCEPT !.status = "uploading", !.due = TRUE]

\* Recordings that ListRecordingsForUpload may claim.
DueForUpload == {r \in RecIds : Status(r) = "uploading" /\ recording[r].due}

\* RetryRecordingUpload.
Retried(row) == [row EXCEPT !.attempts = @ + 1, !.due = FALSE]

\* Mutant: a destination that is already there is replaced.
CanPinAgain(row) == row.status = "uploading"

\* PinRecordingUpload finds its row: nothing is pinned yet.
CanPin(row) == row.status = "uploading" /\ row.pin = NoIntegration

\* CompleteRecording finds its row.
CanComplete(row) == row.status = "uploading" /\ row.pin # NoIntegration
Completed(row) == [Announced(row, "completed", "completed") EXCEPT !.due = FALSE]

\* FailRecording finds its row.
CanFail(row) == row.status \in {"recording", "uploading"}
Failed(row) == [Announced(row, "failed", "failed") EXCEPT !.due = FALSE]

\* DeleteRecording.
Deleted(row) == Announced(row, "deleted", "deleted")

(***************************************************************************)
(* FreeSWITCH and its events                                               *)
(***************************************************************************)
EventsUnchanged ==
    UNCHANGED <<objects, integration, policy, expired, ingester, deleter, erased, recChanges>>

\* The staged file exists from the moment FreeSWITCH records.
MediaStarts(r) ==
    /\ media[r] = "none"
    /\ media' = [media EXCEPT ![r] = "running"]
    /\ staged' = staged \cup {r}
    /\ EventsUnchanged /\ UNCHANGED <<recording, recFaults>>

\* The end of the call stops the recording.
MediaStops(r, how) ==
    /\ media[r] \in {"running", "stopped"} /\ how \in {"stopped", "over"} /\ media[r] # how
    /\ media' = [media EXCEPT ![r] = how]
    /\ EventsUnchanged /\ UNCHANGED <<recording, staged, recFaults>>

\* A row with this call and path is there already.
Known(r) == Status(r) # "none"

\* ObserveStarted: RECORD_START, which may be repeated or come after RECORD_STOP.
ObserveStarted(r) ==
    /\ media[r] # "none" /\ ~Known(r)
    /\ recording' = [recording EXCEPT ![r] = Created(@)]
    /\ EventsUnchanged /\ UNCHANGED <<media, staged, recFaults>>

\* ObserveStopped: RECORD_STOP creates the row when its start was lost.
ObserveStopped(r) ==
    /\ media[r] \in {"stopped", "over"}
    /\ Status(r) \in {"none", "recording"}
    /\ recording' = [recording EXCEPT ![r] = IF Known(r) THEN Ready(@) ELSE Ready(Created(@))]
    /\ EventsUnchanged /\ UNCHANGED <<media, staged, recFaults>>

\* ListRecordingsForReconciliation: still recording although the call is over.
StaleRecordings == {r \in RecIds : Status(r) = "recording" /\ media[r] = "over"}

\* ReconciliationJob.Reconcile.
ReconcileRecording(r) ==
    /\ r \in StaleRecordings
    /\ recording' = [recording EXCEPT ![r] = Ready(@)]
    /\ EventsUnchanged /\ UNCHANGED <<media, staged, recFaults>>

(***************************************************************************)
(* Storage integrations and retention policies                             *)
(***************************************************************************)
SettingsUnchanged ==
    UNCHANGED <<recording, media, staged, objects, ingester, deleter, erased, recFaults>>
RecChange == recChanges < RecChanges /\ recChanges' = recChanges + 1

\* GetActiveRecordingStorageIntegration.
ActiveIntegrations == {i \in Integrations : integration[i] = "active"}

\* The unique index on active integrations refuses a second one.
SetIntegration(i, status) ==
    /\ RecChange
    /\ status = "active" => ActiveIntegrations \subseteq {i}
    /\ integration' = [integration EXCEPT ![i] = status]
    /\ SettingsUnchanged /\ UNCHANGED <<policy, expired>>

CreateIntegration(i) == integration[i] = "absent" /\ SetIntegration(i, "active")
UpdateIntegration(i, status) ==
    integration[i] \notin {"absent", status} /\ SetIntegration(i, status)

\* Delete only disables: recordings point to the row.
DisableIntegration(i) == integration[i] = "active" /\ SetIntegration(i, "disabled")

\* Upsert and Delete of the policy for recordings: an enabled one, or none that counts.
SetPolicy(enabled) ==
    /\ RecChange /\ policy.row # enabled
    /\ policy' = [policy EXCEPT !.row = enabled]
    /\ SettingsUnchanged /\ UNCHANGED <<integration, expired>>

UpsertPolicy(enabled) == SetPolicy(enabled)
DeletePolicy == SetPolicy(FALSE)

\* ListEffectiveRecordingRetention has a row for the organization: the plan limits the
\* days, or an enabled policy does (the smaller of the two when both do).
RetentionApplies == policy.plan \/ policy.row

\* A recording becomes older than the retention.
Expires(r) ==
    /\ RetentionApplies /\ Status(r) = "completed" /\ r \notin expired
    /\ expired' = expired \cup {r}
    /\ SettingsUnchanged /\ UNCHANGED <<integration, policy, recChanges>>

(***************************************************************************)
(* IngestionJob                                                            *)
(***************************************************************************)
IngestUnchanged ==
    UNCHANGED <<media, integration, policy, expired, deleter, erased, recChanges>>
RecJob(w) == ingester[w]

\* What ingestOne uses of the row it was given.
InHand(row) == [attempts |-> row.attempts, pin |-> row.pin]

\* A job that goes on: only what it still needs is kept.
SetJob(w, job) == ingester' = [ingester EXCEPT ![w] = job]

\* ingestOne returned nil: the next row of the batch. With an error the pass is over.
NextRow(w) ==
    SetJob(w, IF RecJob(w).queue = {} THEN NoUpload
              ELSE [RecJob(w) EXCEPT !.at = "next", !.r = NoIntegration, !.dest = NoIntegration,
                                  !.rows = [r \in RecJob(w).queue |-> RecJob(w).rows[r]]])
EndPass(w) == SetJob(w, NoUpload)

\* A lease or a retry delay is over; that it ends while a worker still has the row is rare.
Held(r) == \E w \in Ingesters : r \in DOMAIN RecJob(w).rows
LeaseOver(r) ==
    /\ Status(r) = "uploading" /\ ~recording[r].due
    /\ recording' = [recording EXCEPT ![r].due = TRUE]
    /\ IF Held(r) THEN RecFault ELSE UNCHANGED recFaults
    /\ IngestUnchanged /\ UNCHANGED <<staged, objects, ingester>>

\* Ingest: ListRecordingsForUpload leases a batch and returns its rows.
Ingest(w) ==
    /\ RecJob(w).at = "idle"
    /\ \E batch \in SUBSET DueForUpload :
        /\ batch # {} /\ Cardinality(batch) <= UploadBatch
        /\ Cardinality(batch) = UploadBatch \/ batch = DueForUpload
        /\ recording' = [r \in RecIds |-> IF r \in batch THEN [recording[r] EXCEPT !.due = FALSE]
                                          ELSE recording[r]]
        /\ SetJob(w, [NoUpload EXCEPT !.at = "next", !.queue = batch,
                                      !.rows = [r \in batch |-> InHand(recording[r])]])
    /\ IngestUnchanged /\ UNCHANGED <<staged, objects, recFaults>>

\* ingestOne looks for the staged file, and for a destination when the row it claimed has none.
OpenStaged(w, r) ==
    LET row == RecJob(w).rows[r]
        Goto(at, dest) == SetJob(w, [RecJob(w) EXCEPT !.at = at, !.r = r, !.dest = dest,
                                                   !.queue = @ \ {r}])
    IN  /\ RecJob(w).at = "next" /\ r \in RecJob(w).queue
        /\ \/ /\ r \in staged /\ row.pin # NoIntegration
              /\ Goto("put", row.pin)
           \/ \E i \in ActiveIntegrations :
                 /\ r \in staged /\ row.pin = NoIntegration
                 /\ Goto("pin", i)
           \/ /\ r \notin staged \/ (row.pin = NoIntegration /\ ActiveIntegrations = {})
              /\ Goto("retry", NoIntegration)
        /\ IngestUnchanged /\ UNCHANGED <<recording, staged, objects, recFaults>>

\* PinUpload. When it fails the row in hand is the zero value: the retry that follows finds no
\* row to update, and its error ends the pass.
PinUpload(w) ==
    LET r == RecJob(w).r
    IN  /\ RecJob(w).at = "pin"
        /\ IF CanPin(recording[r])
           THEN /\ recording' = [recording EXCEPT ![r].pin = RecJob(w).dest]
                /\ SetJob(w, [RecJob(w) EXCEPT !.at = "put", !.rows[r] = InHand(recording'[r])])
           ELSE EndPass(w) /\ UNCHANGED recording
        /\ IngestUnchanged /\ UNCHANGED <<staged, objects, recFaults>>

\* Put to the pinned destination; it still resolves when the integration is disabled.
PutObject(w) ==
    /\ RecJob(w).at = "put"
    /\ objects' = objects \cup {<<RecJob(w).r, RecJob(w).dest>>}
    /\ SetJob(w, [RecJob(w) EXCEPT !.at = "complete"])
    /\ IngestUnchanged /\ UNCHANGED <<recording, staged, recFaults>>

\* Put fails, with or without the object in the bucket.
PutFails(w) ==
    /\ RecJob(w).at = "put" /\ RecFault
    /\ objects' \in {objects, objects \cup {<<RecJob(w).r, RecJob(w).dest>>}}
    /\ SetJob(w, [RecJob(w) EXCEPT !.at = "retry"])
    /\ IngestUnchanged /\ UNCHANGED <<recording, staged>>

\* CompleteUpload: a row that is not uploading any more ends the pass.
CompleteUpload(w) ==
    LET r == RecJob(w).r
    IN  /\ RecJob(w).at = "complete"
        /\ IF CanComplete(recording[r])
           THEN /\ recording' = [recording EXCEPT ![r] = Completed(@)]
                /\ SetJob(w, [RecJob(w) EXCEPT !.at = "remove"])
           ELSE EndPass(w) /\ UNCHANGED recording
        /\ IngestUnchanged /\ UNCHANGED <<staged, objects, recFaults>>

\* The staged file goes last.
RemoveStaged(w) ==
    /\ RecJob(w).at = "remove"
    /\ staged' = staged \ {RecJob(w).r}
    /\ NextRow(w)
    /\ IngestUnchanged /\ UNCHANGED <<recording, objects, recFaults>>

\* The attempts of the row in hand decide whether this failure is the last one.
LastAttempt(row) == row.attempts + 1 >= MaxUploads

\* retryOrFail.
RetryOrFail(w) ==
    LET r == RecJob(w).r
    IN  /\ RecJob(w).at = "retry"
        /\ \/ /\ LastAttempt(RecJob(w).rows[r])
              /\ recording' = [recording EXCEPT ![r] = IF CanFail(@) THEN Failed(@) ELSE @]
              /\ NextRow(w)
           \/ /\ ~LastAttempt(RecJob(w).rows[r]) /\ Status(r) = "uploading"
              /\ recording' = [recording EXCEPT ![r] = Retried(@)]
              /\ NextRow(w)
           \/ /\ ~LastAttempt(RecJob(w).rows[r]) /\ Status(r) # "uploading"
              /\ EndPass(w) /\ UNCHANGED recording
        /\ IngestUnchanged /\ UNCHANGED <<staged, objects, recFaults>>

\* A statement of the job fails, which ends the pass.
PassFails(w) ==
    /\ RecJob(w).at \in {"pin", "complete", "retry"} /\ RecFault
    /\ EndPass(w)
    /\ IngestUnchanged /\ UNCHANGED <<recording, staged, objects>>

\* The worker process stops: what its jobs had in hand is gone.
WorkerStops(w) ==
    /\ ingester' = [ingester EXCEPT ![w] = NoUpload]
    /\ deleter' = [deleter EXCEPT ![w] = NoDelete]

IngesterCrashes(w) ==
    /\ RecJob(w).at # "idle" \/ deleter[w].at # "idle"
    /\ RecFault /\ WorkerStops(w)
    /\ UNCHANGED <<recording, media, staged, objects, integration, policy, expired, erased,
                   recChanges>>

(***************************************************************************)
(* Service.Delete, by the API and by the retention job of a worker         *)
(***************************************************************************)
DeleteUnchanged == UNCHANGED <<media, staged, integration, policy, ingester, recChanges>>

\* ListExpiredRecordingsForRetention.
RetentionDue == {r \in expired : RetentionApplies /\ Status(r) = "completed"}

\* The row is read: a recording that is not uploaded yet cannot be deleted, nor can one
\* without a destination.
DeleteBegins(d, r) ==
    /\ deleter[d].at = "idle"
    /\ d \in Ingesters => r \in RetentionDue
    /\ Status(r) \in {"completed", "failed"} /\ recording[r].pin # NoIntegration
    /\ deleter' = [deleter EXCEPT ![d] = [at |-> "object", r |-> r]]
    /\ DeleteUnchanged /\ UNCHANGED <<recording, objects, expired, erased, recFaults>>

DeleteObject(d) ==
    LET r == deleter[d].r
    IN  /\ deleter[d].at = "object"
        /\ objects' = objects \ {<<r, recording[r].pin>>}
        /\ erased' = erased \cup {r}
        /\ deleter' = [deleter EXCEPT ![d].at = "row"]
        /\ DeleteUnchanged /\ UNCHANGED <<recording, expired, recFaults>>

DeleteRow(d) ==
    LET r == deleter[d].r
    IN  /\ deleter[d].at = "row"
        /\ recording' = [recording EXCEPT ![r] = IF @.status # "deleted" THEN Deleted(@) ELSE @]
        /\ expired' = expired \ {r}
        /\ deleter' = [deleter EXCEPT ![d] = NoDelete]
        /\ DeleteUnchanged /\ UNCHANGED <<objects, erased, recFaults>>

\* The bucket or the database refuses. The retention job returns the error, and with it every
\* job of its worker ends.
DeleteFails(d) ==
    /\ deleter[d].at # "idle" /\ RecFault
    /\ IF d \in Ingesters THEN WorkerStops(d)
       ELSE deleter' = [deleter EXCEPT ![d] = NoDelete] /\ UNCHANGED ingester
    /\ UNCHANGED <<recording, media, staged, objects, integration, policy, expired, erased,
                   recChanges>>

(***************************************************************************)
(* Specification                                                           *)
(***************************************************************************)
IngesterStep(w) ==
    \/ Ingest(w) \/ (\E r \in RecIds : OpenStaged(w, r))
    \/ PinUpload(w) \/ PutObject(w) \/ CompleteUpload(w) \/ RemoveStaged(w) \/ RetryOrFail(w)

DeleterStep(d) == DeleteObject(d) \/ DeleteRow(d)
RetentionStep(w) == DeleterStep(w) \/ (\E r \in RecIds : DeleteBegins(w, r))

RecNext ==
    \/ \E r \in RecIds :
        \/ MediaStarts(r) \/ (\E how \in {"stopped", "over"} : MediaStops(r, how))
        \/ ObserveStarted(r) \/ ObserveStopped(r) \/ ReconcileRecording(r)
        \/ LeaseOver(r) \/ Expires(r)
        \/ \E d \in Deleters : DeleteBegins(d, r)
    \/ \E w \in Ingesters :
        IngesterStep(w) \/ PutFails(w) \/ PassFails(w) \/ IngesterCrashes(w)
    \/ \E d \in Deleters : DeleterStep(d) \/ DeleteFails(d)
    \/ \E i \in Integrations :
        \/ CreateIntegration(i) \/ DisableIntegration(i)
        \/ \E status \in {"active", "disabled"} : UpdateIntegration(i, status)
    \/ DeletePolicy \/ (\E enabled \in BOOLEAN : UpsertPolicy(enabled))

(***************************************************************************)
(* Properties                                                              *)
(***************************************************************************)
\* Two workers that have the same row never send it to two buckets: an object is only ever
\* where the row says (PinRecordingUpload, IngestionJob.ingestOne).
ObjectsArePinned == \A o \in objects : recording[o[1]].pin = o[2]

\* The staged file is the only copy until the row is completed: whatever fails, is repeated or
\* comes late, a file that is gone belongs to a completed recording (ingestOne's last steps).
StagedUntilCompleted ==
    \A r \in RecIds : (media[r] # "none" /\ r \notin staged)
                      => Status(r) \in {"completed", "deleted"}

\* Service.Playback can serve the recording.
Playable(r) == Status(r) = "completed" /\ <<r, recording[r].pin>> \in objects

\* A completed recording that nobody deleted can be played.
CompletedIsPlayable == \A r \in RecIds : Status(r) = "completed" => Playable(r) \/ r \in erased

\* Subscribers hear of one outcome of an upload, although a worker whose lease is over may
\* still fail or complete the row another one has taken (FailRecording, CompleteRecording).
OneOutcomeAnnounced == \A r \in RecIds : ~({"completed", "failed"} \subseteq recording[r].sent)

\* What the run on voice agents checks of recordings.
RecordingsSound ==
    ObjectsArePinned /\ StagedUntilCompleted /\ CompletedIsPlayable /\ OneOutcomeAnnounced

\* Recordings whose call is over and that are neither uploaded nor given up. Whatever events are
\* lost, the reconciliation and the ingester settle them.
UnsettledRecordings ==
    {r \in RecIds : Status(r) \in {"recording", "uploading"} /\ media[r] = "over"}
=============================================================================
