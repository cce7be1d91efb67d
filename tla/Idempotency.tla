------------------------------ MODULE Idempotency ------------------------------
(***************************************************************************)
(* Mutations under one Idempotency-Key (platform/middleware/idempotency.go *)
(* and platform/idempotency): several HTTP requests carry the same scope   *)
(* and key, perhaps with different bodies; a row of the table idempotency  *)
(* decides which of them runs the handler and which replays its response.  *)
(***************************************************************************)
EXTENDS Naturals, FiniteSets

CONSTANTS
    IdemRequests,  \* HTTP requests with the key
    NoRequest,
    Bodies,        \* method, path and body digest of a request
    IdemFaults     \* crashes, cancelled contexts and locks that run out on a running handler

ASSUME IdemAssumption == NoRequest \notin IdemRequests /\ IdemFaults \in Nat

VARIABLES
    bodyOf,     \* what each request asks for
    record,     \* the row of the key
    served,     \* where each request is in the middleware
    answerOf,   \* whose execution of the handler a request's response comes from
    lapses,     \* locks that ran out in the row's life (history)
    executions, \* executions of the handler under the row's life (history)
    idemFaults

idemVars == <<bodyOf, record, served, answerOf, lapses, executions, idemFaults>>

NoRecord == [status |-> "none", body |-> NoRequest, lease |-> NoRequest, locked |-> FALSE,
             expired |-> FALSE, response |-> NoRequest]
Served == {"new", "lookup", "handler", "complete", "answered", "conflict", "in_progress",
           "unavailable", "gone"}

IdemTypeOK ==
    /\ bodyOf \in [IdemRequests -> Bodies]
    /\ record \in [status: {"none", "processing", "completed"}, body: Bodies \cup {NoRequest},
                   lease: IdemRequests \cup {NoRequest}, locked: BOOLEAN, expired: BOOLEAN,
                   response: IdemRequests \cup {NoRequest}]
    /\ (record.status = "completed") <=> (record.response # NoRequest)
    /\ served \in [IdemRequests -> Served]
    /\ answerOf \in [IdemRequests -> IdemRequests \cup {NoRequest}]
    /\ \A r \in IdemRequests : answerOf[r] # NoRequest <=> served[r] = "answered"
    /\ idemFaults \in 0..IdemFaults

IdemInit ==
    /\ bodyOf \in [IdemRequests -> Bodies]
    /\ record = NoRecord
    /\ served = [r \in IdemRequests |-> "new"]
    /\ answerOf = [r \in IdemRequests |-> NoRequest]
    /\ lapses = 0 /\ executions = 0 /\ idemFaults = 0

IdemFault == idemFaults < IdemFaults /\ idemFaults' = idemFaults + 1

At(r, at) == served' = [served EXCEPT ![r] = at]

(***************************************************************************)
(* The table                                                               *)
(***************************************************************************)
\* Mutant: a completed row is taken over like an abandoned one.
TakesOverAlways(r) == record.expired \/ (~record.locked /\ record.body = bodyOf[r])

\* The WHERE of the upsert: an expired row, or one whose lock ran out under the same request.
TakesOver(r) ==
    \/ record.expired
    \/ record.status = "processing" /\ ~record.locked /\ record.body = bodyOf[r]

\* ClaimIdempotencyKey; without a row to return the middleware looks the row up.
Claim(r) ==
    /\ served[r] = "new"
    /\ IF record.status = "none" \/ TakesOver(r)
       THEN /\ record' = [NoRecord EXCEPT !.status = "processing", !.body = bodyOf[r],
                                          !.lease = r, !.locked = TRUE]
            /\ IF record.status = "none" \/ record.expired
               THEN lapses' = 0 /\ executions' = 1
               ELSE executions' = executions + 1 /\ UNCHANGED lapses
            /\ At(r, "handler")
       ELSE At(r, "lookup") /\ UNCHANGED <<record, lapses, executions>>
    /\ UNCHANGED <<bodyOf, answerOf, idemFaults>>

SameRequest(r) == record.body = bodyOf[r]

\* GetIdempotencyKey and the rest of Service.Claim. The cleanup may have deleted the row.
Lookup(r) ==
    /\ served[r] = "lookup"
    /\ CASE record.status = "none" -> At(r, "unavailable") /\ UNCHANGED answerOf
         [] record.status # "none" /\ ~SameRequest(r) -> At(r, "conflict") /\ UNCHANGED answerOf
         [] record.status = "processing" /\ SameRequest(r) ->
                At(r, "in_progress") /\ UNCHANGED answerOf
         [] record.status = "completed" /\ SameRequest(r) ->
                At(r, "answered") /\ answerOf' = [answerOf EXCEPT ![r] = record.response]
    /\ UNCHANGED <<bodyOf, record, lapses, executions, idemFaults>>

\* next.ServeHTTP into the buffered writer.
Handle(r) ==
    /\ served[r] = "handler" /\ At(r, "complete")
    /\ UNCHANGED <<bodyOf, record, answerOf, lapses, executions, idemFaults>>

\* The WHERE of CompleteIdempotencyKey: the row is processing under this request's own lease.
OwnLease(r) == record.status = "processing" /\ record.lease = r /\ record.body = bodyOf[r]

\* The response is stored if the lease is still held, and written to the client in any case:
\* the middleware drops the error of Complete. A context that the client has cancelled fails
\* the query.
Complete(r, cancelled) ==
    /\ served[r] = "complete"
    /\ IF OwnLease(r) /\ ~cancelled
       THEN record' = [record EXCEPT !.status = "completed", !.response = r, !.locked = FALSE]
       ELSE UNCHANGED record
    /\ IF cancelled THEN IdemFault ELSE UNCHANGED idemFaults
    /\ At(r, "answered") /\ answerOf' = [answerOf EXCEPT ![r] = r]
    /\ UNCHANGED <<bodyOf, lapses, executions>>

(***************************************************************************)
(* Time, crashes and the cleanup                                           *)
(***************************************************************************)
\* Five minutes pass; a handler that is still running is overtaken (a fault).
LockLapses ==
    /\ record.status = "processing" /\ record.locked
    /\ record' = [record EXCEPT !.locked = FALSE]
    /\ lapses' = lapses + 1
    /\ IF served[record.lease] \in {"handler", "complete"} THEN IdemFault
       ELSE UNCHANGED idemFaults
    /\ UNCHANGED <<bodyOf, served, answerOf, executions>>

\* Twenty-four hours pass: no request is that old.
RecordExpires ==
    /\ record.status # "none" /\ ~record.expired /\ ~record.locked
    /\ \A r \in IdemRequests : served[r] \notin {"handler", "complete"}
    /\ record' = [record EXCEPT !.expired = TRUE]
    /\ UNCHANGED <<bodyOf, served, answerOf, lapses, executions, idemFaults>>

\* CleanupJob: DeleteExpiredIdempotencyKeys.
DeleteExpired ==
    /\ record.expired /\ record' = NoRecord
    /\ UNCHANGED <<bodyOf, served, answerOf, lapses, executions, idemFaults>>

\* The API process dies with the request.
RequestDies(r) ==
    /\ served[r] \in {"lookup", "handler", "complete"} /\ IdemFault /\ At(r, "gone")
    /\ UNCHANGED <<bodyOf, record, answerOf, lapses, executions>>

IdemNext ==
    \/ \E r \in IdemRequests :
           \/ Claim(r) \/ Lookup(r) \/ Handle(r) \/ RequestDies(r)
           \/ \E cancelled \in BOOLEAN : Complete(r, cancelled)
    \/ LockLapses \/ RecordExpires \/ DeleteExpired

IdemSpec == IdemInit /\ [][IdemNext]_idemVars

(***************************************************************************)
(* Properties                                                              *)
(***************************************************************************)
\* A response, replayed or not, is that of a handler run for the same method, path and body.
ReplayIsTheEffect ==
    \A r \in IdemRequests : answerOf[r] # NoRequest => bodyOf[answerOf[r]] = bodyOf[r]

\* In the life of one row the handler runs once, and once more for each lock that ran out: a
\* completed request is never run again before its row expires.
RunsAreLeased == record.status # "none" => executions <= 1 + lapses

\* Requests under one key: replays are faithful and repeated executions need a lapsed lock.
IdempotencySound == ReplayIsTheEffect /\ RunsAreLeased
=============================================================================
