--------------------------- MODULE EventPipeline ---------------------------
(***************************************************************************)
(* How an event of the platform reaches the customer's webhook endpoints:  *)
(* the transactional outbox and its publisher job, the JetStream stream,   *)
(* the webhook consumer that ingests messages, and the delivery job with   *)
(* its retries, together with the endpoint API.  Every worker process runs *)
(* all three roles; an error that one of them returns ends the process,    *)
(* which is then restarted with empty hands.                               *)
(*                                                                         *)
(* All processes lock rows under one worker id ("worker-outbox",           *)
(* "worker-webhooks"), so a lock is a Boolean: it does not tell processes  *)
(* apart.  Retry delays and lock ages are abstracted: a lock whose holder  *)
(* is gone may be taken at any time, one whose holder is merely slow at    *)
(* the price of a fault.  One active organization whose endpoints          *)
(* subscribe to every event.                                               *)
(***************************************************************************)
EXTENDS Naturals

CONSTANTS
    Workers,           \* worker processes
    Events,            \* outbox_events.id, also the NATS message id
    Endpoints,         \* webhook_endpoints.id
    MaxAttempts,       \* DeliveryJobConfig.MaxAttempts
    AutoDisableAfter,  \* DeliveryJobConfig.AutoDisableAfter
    MaxDeliver,        \* MaxDeliver of the JetStream consumer
    Faults,            \* bound on failures, crashes and expired timeouts
    AdminOps           \* bound on requests to the endpoint API

ASSUME PipelineAssumption ==
    /\ MaxAttempts \in Nat \ {0}
    /\ AutoDisableAfter \in Nat \ {0}
    /\ MaxDeliver \in Nat \ {0}
    /\ Faults \in Nat
    /\ AdminOps \in Nat

VARIABLES
    outbox,         \* outbox_events
    stream,         \* messages of the events stream, by message id
    publisher,      \* the publisher job of each worker
    consumer,       \* the webhook consumer of each worker
    webhookEvents,  \* webhook_events
    endpoint,       \* webhook_endpoints
    delivery,       \* webhook_deliveries
    sender,         \* the delivery job of each worker
    deleting,       \* endpoints between the two statements of Delete
    response,       \* history: what the endpoint answered to which attempt, per delivery
    faults,         \* faults so far
    admin           \* API requests so far

publishing == <<outbox, publisher>>
ingestion  == <<consumer, webhookEvents>>
delivering == <<endpoint, delivery, sender, deleting, response>>
vars == <<outbox, stream, publisher, consumer, webhookEvents, endpoint,
          delivery, sender, deleting, response, faults, admin>>

Deliveries == Events \X Endpoints
Response   == {"ok", "retryable", "permanent"}
Open       == {"pending", "retrying"}
Settled    == {"succeeded", "failed", "canceled"}

\* Rows, messages and what the roles of a worker have in hand.
OutboxRow   == [status: {"none", "pending", "published"}, locked: BOOLEAN]
Message     == [status: {"absent", "stored", "acked"}, delivered: 0..MaxDeliver]
Handling    == [ev: Events, to: SUBSET Endpoints,
                pc: {"received", "uncommitted", "committed"}]
EndpointRow == [enabled: BOOLEAN, failures: Nat]
DeliveryRow == [status: {"none"} \cup Open \cup Settled, attempts: Nat, locked: BOOLEAN]
Claim       == [of: Deliveries, count: Nat]
Sent        == [of: Deliveries, count: Nat, response: Response]
EndpointAnswer == [count: Nat, response: Response]
Publishing  == [batch: SUBSET Events, done: SUBSET [ev: Events, ok: BOOLEAN]]
Sending     == [batch: SUBSET Claim, sent: SUBSET Sent]

TypeOK ==
    /\ outbox \in [Events -> OutboxRow]
    /\ stream \in [Events -> Message]
    /\ publisher \in [Workers -> Publishing]
    /\ consumer \in [Workers -> SUBSET Handling]
    /\ webhookEvents \in SUBSET Events
    /\ endpoint \in [Endpoints -> EndpointRow]
    /\ delivery \in [Deliveries -> DeliveryRow]
    /\ sender \in [Workers -> Sending]
    /\ deleting \in SUBSET Endpoints
    /\ response \in [Deliveries -> SUBSET EndpointAnswer]
    /\ faults \in Nat
    /\ admin \in Nat

IdlePublisher == [batch |-> {}, done |-> {}]
IdleSender    == [batch |-> {}, sent |-> {}]

Init ==
    /\ outbox = [e \in Events |-> [status |-> "none", locked |-> FALSE]]
    /\ stream = [e \in Events |-> [status |-> "absent", delivered |-> 0]]
    /\ publisher = [w \in Workers |-> IdlePublisher]
    /\ consumer = [w \in Workers |-> {}]
    /\ webhookEvents = {}
    /\ endpoint \in [Endpoints -> [enabled: BOOLEAN, failures: {0}]]
    /\ delivery = [d \in Deliveries |-> [status |-> "none", attempts |-> 0, locked |-> FALSE]]
    /\ sender = [w \in Workers |-> IdleSender]
    /\ deleting = {}
    /\ response = [d \in Deliveries |-> {}]
    /\ faults = 0
    /\ admin = 0

Fault == faults < Faults /\ faults' = faults + 1

\* A job's Run returned an error, or the process died: the error group ends
\* every role and the restarted process holds nothing.
Exit(w) ==
    /\ publisher' = [publisher EXCEPT ![w] = IdlePublisher]
    /\ consumer' = [consumer EXCEPT ![w] = {}]
    /\ sender' = [sender EXCEPT ![w] = IdleSender]

(***************************************************************************)
(* Outbox publisher                                                        *)
(***************************************************************************)
\* outbox.Repository.Insert, in the transaction of the change it reports.
Insert(e) ==
    /\ outbox[e].status = "none"
    /\ outbox' = [outbox EXCEPT ![e].status = "pending"]
    /\ UNCHANGED <<stream, publisher, ingestion, delivering, faults, admin>>

\* ClaimPendingEvents: some of the due, unlocked events.
ClaimPending(w) ==
    /\ publisher[w] = IdlePublisher
    /\ \E batch \in SUBSET {e \in Events : outbox[e].status = "pending" /\ ~outbox[e].locked} :
          /\ batch # {}
          /\ publisher' = [publisher EXCEPT ![w].batch = batch]
          /\ outbox' = [e \in Events |-> IF e \in batch
                                         THEN [outbox[e] EXCEPT !.locked = TRUE]
                                         ELSE outbox[e]]
    /\ UNCHANGED <<stream, ingestion, delivering, faults, admin>>

\* JetStream drops a message whose id it still remembers.
Stored(e) ==
    IF stream[e].status = "absent" THEN [stream EXCEPT ![e].status = "stored"] ELSE stream

PublisherDid(w, e, ok) ==
    publisher' = [publisher EXCEPT ![w] = [batch |-> publisher[w].batch \ {e},
                                           done |-> {[ev |-> e, ok |-> ok]}]]

Publish(w, e) ==
    /\ e \in publisher[w].batch
    /\ publisher[w].done = {}
    /\ stream' = Stored(e)
    /\ PublisherDid(w, e, TRUE)
    /\ UNCHANGED <<outbox, ingestion, delivering, faults, admin>>

\* No acknowledgement: the message may have been stored; and a message whose
\* id has left the duplicate window is stored once more.
PublishFault(w, e) ==
    /\ e \in publisher[w].batch
    /\ publisher[w].done = {}
    /\ \/ stream' \in {stream, Stored(e)} /\ PublisherDid(w, e, FALSE)
       \/ /\ stream[e].status # "absent"
          /\ stream' = [stream EXCEPT ![e] = [status |-> "stored", delivered |-> 0]]
          /\ PublisherDid(w, e, TRUE)
    /\ Fault
    /\ UNCHANGED <<outbox, ingestion, delivering, admin>>

\* MarkEventPublished and MarkEventFailed: whoever holds the lock, it goes.
Marked(e, ok) ==
    IF outbox[e].status # "pending" THEN outbox
    ELSE [outbox EXCEPT ![e] = [status |-> IF ok THEN "published" ELSE "pending",
                                locked |-> FALSE]]

MarkEvent(w) ==
    /\ \E did \in publisher[w].done : outbox' = Marked(did.ev, did.ok)
    /\ publisher' = [publisher EXCEPT ![w].done = {}]
    /\ UNCHANGED <<stream, ingestion, delivering, faults, admin>>

\* ReleaseStaleLocks, run between two batches of some worker.
ReleaseStaleLocks(e) ==
    /\ \E w \in Workers : publisher[w] = IdlePublisher
    /\ outbox[e].status = "pending"
    /\ outbox[e].locked
    /\ IF \E w \in Workers : e \in publisher[w].batch \cup {did.ev : did \in publisher[w].done}
       THEN Fault ELSE UNCHANGED faults
    /\ outbox' = [outbox EXCEPT ![e].locked = FALSE]
    /\ UNCHANGED <<stream, publisher, ingestion, delivering, admin>>

(***************************************************************************)
(* Webhook consumer                                                        *)
(***************************************************************************)
\* Mutant: the consumer is created without MaxDeliver.
ReceiveUnbounded(w, e) ==
    /\ consumer[w] = {}
    /\ stream[e].status = "stored"
    /\ IF \E v \in Workers : \E m \in consumer[v] : m.ev = e
       THEN Fault ELSE UNCHANGED faults
    /\ stream' = [stream EXCEPT ![e].delivered = stream[e].delivered + 1]
    /\ consumer' = [consumer EXCEPT ![w] = {[ev |-> e, to |-> {}, pc |-> "received"]}]
    /\ UNCHANGED <<publishing, webhookEvents, delivering, admin>>

\* JetStream offers a stored message until it is acknowledged; a second
\* worker gets it when the acknowledgement wait of the first has passed.
Receive(w, e) ==
    /\ consumer[w] = {}
    /\ stream[e].status = "stored"
    /\ stream[e].delivered < MaxDeliver
    /\ IF \E v \in Workers : \E m \in consumer[v] : m.ev = e
       THEN Fault ELSE UNCHANGED faults
    /\ stream' = [stream EXCEPT ![e].delivered = stream[e].delivered + 1]
    /\ consumer' = [consumer EXCEPT ![w] = {[ev |-> e, to |-> {}, pc |-> "received"]}]
    /\ UNCHANGED <<publishing, webhookEvents, delivering, admin>>

\* CreateDeliveriesForEvent reads the endpoints in force; a second ingestion
\* of the event waits for the row lock of the first.
CreateDeliveries(w) ==
    \E m \in consumer[w] :
        /\ m.pc = "received"
        /\ \A v \in Workers : \A o \in consumer[v] : o.ev = m.ev => o.pc # "uncommitted"
        /\ consumer' = [consumer EXCEPT ![w] =
               {[ev |-> m.ev, pc |-> "uncommitted",
                 to |-> {p \in Endpoints : /\ endpoint[p].enabled
                                           /\ delivery[<<m.ev, p>>].status = "none"}]}]
        /\ UNCHANGED <<publishing, stream, webhookEvents, delivering, faults, admin>>

Commit(m) ==
    /\ webhookEvents' = webhookEvents \cup {m.ev}
    /\ delivery' = [d \in Deliveries |->
           IF d[1] = m.ev /\ d[2] \in m.to
           THEN [status |-> "pending", attempts |-> 0, locked |-> FALSE]
           ELSE delivery[d]]

CommitIngest(w) ==
    \E m \in consumer[w] :
        /\ m.pc = "uncommitted"
        /\ Commit(m)
        /\ consumer' = [consumer EXCEPT ![w] = {[m EXCEPT !.pc = "committed"]}]
        /\ UNCHANGED <<publishing, stream, endpoint, sender, deleting, response, faults, admin>>

Acknowledge(w) ==
    \E m \in consumer[w] :
        /\ m.pc = "committed"
        /\ stream' = [stream EXCEPT ![m.ev].status = "acked"]
        /\ consumer' = [consumer EXCEPT ![w] = {}]
        /\ UNCHANGED <<publishing, webhookEvents, delivering, faults, admin>>

\* Mutant: a message whose ingestion failed is acknowledged.
NakAcknowledges(m) == [stream EXCEPT ![m.ev].status = "acked"]

\* A negative acknowledgement leaves the message to be offered again.
Nak(m) == stream

\* The ingestion fails, with its commit in doubt, or the acknowledgement is lost.
IngestFault(w) ==
    \E m \in consumer[w] :
        /\ consumer' = [consumer EXCEPT ![w] = {}]
        /\ \/ m.pc # "committed" /\ stream' = Nak(m) /\ UNCHANGED <<webhookEvents, delivery>>
           \/ m.pc = "uncommitted" /\ stream' = Nak(m) /\ Commit(m)
           \/ m.pc = "committed" /\ UNCHANGED <<stream, webhookEvents, delivery>>
        /\ Fault
        /\ UNCHANGED <<publishing, endpoint, sender, deleting, response, admin>>

(***************************************************************************)
(* Delivery job                                                            *)
(***************************************************************************)
HeldBy(w) == {c.of : c \in sender[w].batch \cup sender[w].sent}

\* The WHERE clause of ClaimWebhookDeliveries, lock age aside.
Claimable(d) == delivery[d].status \in Open /\ endpoint[d[2]].enabled

\* Mutant: the attempt is not counted when the row is claimed.
ClaimedUncounted(w, batch) ==
    /\ delivery' = [d \in Deliveries |->
           IF d \in batch THEN [delivery[d] EXCEPT !.locked = TRUE] ELSE delivery[d]]
    /\ sender' = [sender EXCEPT ![w].batch =
           {[of |-> d, count |-> delivery[d].attempts + 1] : d \in batch}]

\* Claiming a row counts the attempt, before the request is made.
Claimed(w, batch) ==
    /\ delivery' = [d \in Deliveries |->
           IF d \in batch
           THEN [delivery[d] EXCEPT !.locked = TRUE, !.attempts = delivery[d].attempts + 1]
           ELSE delivery[d]]
    /\ sender' = [sender EXCEPT ![w].batch =
           {[of |-> d, count |-> delivery[d].attempts + 1] : d \in batch}]

\* Mutant: locks that outlived their holder are not taken over.
ClaimDeliveriesUnlocked(w) ==
    /\ sender[w] = IdleSender
    /\ \E batch \in SUBSET {d \in Deliveries : Claimable(d) /\ ~delivery[d].locked} :
          batch # {} /\ Claimed(w, batch)
    /\ UNCHANGED <<publishing, stream, ingestion, endpoint, deleting, response, faults, admin>>

\* Rows that are unlocked, or whose lock outlived its holder.
ClaimDeliveries(w) ==
    /\ sender[w] = IdleSender
    /\ \E batch \in SUBSET {d \in Deliveries :
                               /\ Claimable(d)
                               /\ delivery[d].locked => \A v \in Workers : d \notin HeldBy(v)} :
          batch # {} /\ Claimed(w, batch)
    /\ UNCHANGED <<publishing, stream, ingestion, endpoint, deleting, response, faults, admin>>

\* A row whose holder is still working through a batch that outlasted the
\* lock timeout.
ClaimStale(w, d) ==
    /\ sender[w] = IdleSender
    /\ Claimable(d)
    /\ delivery[d].locked
    /\ \E v \in Workers : d \in HeldBy(v)
    /\ Claimed(w, {d})
    /\ Fault
    /\ UNCHANGED <<publishing, stream, ingestion, endpoint, deleting, response, admin>>

\* HTTPSender.Send, classified by deliverySucceeded and retryableDelivery.
Send(w) ==
    /\ sender[w].sent = {}
    /\ \E c \in sender[w].batch, r \in Response :
          /\ sender' = [sender EXCEPT ![w] =
                 [batch |-> sender[w].batch \ {c},
                  sent |-> {[of |-> c.of, count |-> c.count, response |-> r]}]]
          /\ response' = [response EXCEPT ![c.of] =
                 response[c.of] \cup {[count |-> c.count, response |-> r]}]
    /\ UNCHANGED <<publishing, stream, ingestion, endpoint, delivery, deleting, faults, admin>>

\* The status deliverBatch records for an attempt.
Outcome(s) ==
    IF s.response = "ok" THEN "succeeded"
    ELSE IF s.response = "retryable" /\ s.count < MaxAttempts THEN "retrying"
    ELSE "failed"

\* MarkDeliverySucceeded clears the failures of an enabled endpoint;
\* MarkDeliveryFailed counts one more and disables at the threshold.
EndpointAfter(ep, outcome) ==
    CASE outcome = "succeeded" /\ ep.enabled -> [ep EXCEPT !.failures = 0]
      [] outcome = "failed" -> [enabled |-> ep.enabled /\ ep.failures + 1 < AutoDisableAfter,
                                failures |-> ep.failures + 1]
      [] OTHER -> ep

\* AND locked_by = worker_id, with the one id all workers share.
HoldsLock(d) == delivery[d].locked

\* MarkDeliverySucceeded, ScheduleDeliveryRetry and MarkDeliveryFailed; a row
\* that is no longer locked is an error, and ends the process.
MarkDelivery(w) ==
    \E s \in sender[w].sent :
        IF HoldsLock(s.of)
        THEN /\ delivery' = [delivery EXCEPT ![s.of].status = Outcome(s),
                                             ![s.of].locked = FALSE]
             /\ endpoint' = [endpoint EXCEPT ![s.of[2]] = EndpointAfter(@, Outcome(s))]
             /\ sender' = [sender EXCEPT ![w].sent = {}]
             /\ UNCHANGED <<publishing, stream, ingestion, deleting, response, faults, admin>>
        ELSE /\ Exit(w)
             /\ UNCHANGED <<outbox, stream, webhookEvents, endpoint, delivery, deleting,
                            response, faults, admin>>

\* The process dies or is stopped, or a statement of one of its jobs fails.
Crash(w) ==
    /\ <<publisher[w], consumer[w], sender[w]>> # <<IdlePublisher, {}, IdleSender>>
    /\ Exit(w)
    /\ Fault
    /\ UNCHANGED <<outbox, stream, webhookEvents, endpoint, delivery, deleting, response, admin>>

(***************************************************************************)
(* Endpoint API                                                            *)
(***************************************************************************)
Request == admin < AdminOps /\ admin' = admin + 1

\* Service.Update with "enabled": the failure count is kept.
Update(p, enabled) ==
    /\ endpoint[p].enabled # enabled
    /\ endpoint' = [endpoint EXCEPT ![p].enabled = enabled]
    /\ Request
    /\ UNCHANGED <<publishing, stream, ingestion, delivery, sender, deleting, response, faults>>

\* Service.Delete disables the endpoint, then cancels its open deliveries.
Disable(p) ==
    /\ p \notin deleting
    /\ endpoint' = [endpoint EXCEPT ![p].enabled = FALSE]
    /\ deleting' = deleting \cup {p}
    /\ Request
    /\ UNCHANGED <<publishing, stream, ingestion, delivery, sender, response, faults>>

Canceled(row) == [row EXCEPT !.status = "canceled", !.locked = FALSE]

Cancel(p) ==
    /\ p \in deleting
    /\ delivery' = [d \in Deliveries |->
           IF d[2] = p /\ delivery[d].status \in Open THEN Canceled(delivery[d])
           ELSE delivery[d]]
    /\ deleting' = deleting \ {p}
    /\ UNCHANGED <<publishing, stream, ingestion, endpoint, sender, response, faults, admin>>

DeleteFault(p) ==
    /\ p \in deleting
    /\ deleting' = deleting \ {p}
    /\ Fault
    /\ UNCHANGED <<publishing, stream, ingestion, endpoint, delivery, sender, response, admin>>

\* Service.Retry of a failed delivery: the attempts made so far still count.
Retry(d) ==
    /\ delivery[d].status = "failed"
    /\ endpoint[d[2]].enabled
    /\ delivery' = [delivery EXCEPT ![d].status = "pending", ![d].locked = FALSE]
    /\ Request
    /\ UNCHANGED <<publishing, stream, ingestion, endpoint, sender, deleting, response, faults>>

(***************************************************************************)
(* Specification                                                           *)
(***************************************************************************)
PublisherStep(w) ==
    ClaimPending(w) \/ (\E e \in Events : Publish(w, e)) \/ MarkEvent(w)

ConsumerStep(w) ==
    \/ \E e \in Events : Receive(w, e)
    \/ CreateDeliveries(w) \/ CommitIngest(w) \/ Acknowledge(w)

SenderStep(w) == ClaimDeliveries(w) \/ Send(w) \/ MarkDelivery(w)

Failure(w) ==
    \/ \E e \in Events : PublishFault(w, e)
    \/ IngestFault(w)
    \/ \E d \in Deliveries : ClaimStale(w, d)
    \/ Crash(w)

EndpointApi ==
    \/ \E p \in Endpoints : \/ \E enabled \in BOOLEAN : Update(p, enabled)
                            \/ Disable(p) \/ Cancel(p) \/ DeleteFault(p)
    \/ \E d \in Deliveries : Retry(d)

Next ==
    \/ \E e \in Events : Insert(e) \/ ReleaseStaleLocks(e)
    \/ \E w \in Workers : PublisherStep(w) \/ ConsumerStep(w) \/ SenderStep(w) \/ Failure(w)
    \/ EndpointApi

\* Each role of a worker is a loop that is never left for good: the process
\* is restarted after an error.
Fairness ==
    /\ \A w \in Workers : /\ WF_vars(PublisherStep(w))
                          /\ WF_vars(ConsumerStep(w))
                          /\ WF_vars(SenderStep(w))
    /\ \A e \in Events : WF_vars(ReleaseStaleLocks(e))

Spec == Init /\ [][Next]_vars
FairSpec == Spec /\ Fairness

(***************************************************************************)
(* Properties                                                              *)
(***************************************************************************)
\* No failure between two steps loses an event that was committed to the
\* outbox: it is still pending there, or stored in the stream and not
\* acknowledged (though perhaps no longer offered, after MaxDeliver tries),
\* or ingested (publishBatch marks after the publication, Consumer.Run
\* acknowledges after Ingest has committed).
NoEventLost ==
    \A e \in Events :
        outbox[e].status # "none" => \/ outbox[e].status = "pending"
                                     \/ stream[e].status = "stored"
                                     \/ e \in webhookEvents

\* A settled delivery is reopened by nobody but the customer's retry of a
\* failed one: a worker that sent it late, after another worker or a Delete
\* settled it, cannot overwrite the outcome (the locked_by fence of
\* MarkDelivery* and ScheduleDeliveryRetry, which settling clears).
SettledIsFinal ==
    [][\A d \in Deliveries :
          delivery[d].status \in Settled =>
              \/ delivery'[d].status = delivery[d].status
              \/ delivery[d].status = "failed" /\ delivery'[d].status = "pending"]_vars

\* An answer for good, or to the last attempt.
Refuses(a) ==
    a.response = "permanent" \/ (a.response = "retryable" /\ a.count >= MaxAttempts)

\* What the delivery history tells the customer is true, also when two
\* workers send one delivery: a success was accepted by the endpoint, and a
\* failure was refused for good or at its last attempt (deliverBatch).
OutcomesAreGrounded ==
    \A d \in Deliveries :
        /\ delivery[d].status = "succeeded" => \E a \in response[d] : a.response = "ok"
        /\ delivery[d].status = "failed" => \E a \in response[d] : Refuses(a)

\* What the customer may rely on, and what the rows mean to them: see
\* EventDelivery.  A claimed row whose sender died is still open, and a row
\* waiting for its retry is no different from one never tried.
OutcomeOf(row) == IF row.status \in Open THEN "open" ELSE row.status

Contract == INSTANCE EventDelivery WITH
    stored  <- {e \in Events : outbox[e].status # "none"},
    known   <- webhookEvents,
    outcome <- [d \in Deliveries |-> OutcomeOf(delivery[d])],
    tries   <- [d \in Deliveries |-> delivery[d].attempts],
    answers <- response

\* The pipeline keeps the contract whatever fails between its steps: an
\* endpoint hears of committed events only, at most once per counted
\* attempt, and a delivery is settled by an answer that justifies it
\* (claimWebhookDeliveries, deliverBatch, Service.Delete, Service.Retry).
ImplementsDelivery == Contract!Spec

\* Every committed event reaches each endpoint that stays enabled from before
\* its publication: its delivery settles, despite lost acknowledgements,
\* expired locks and workers that die or are ended by another role
\* (PublisherJob, Consumer, DeliveryJob).
EventsReachEndpoints ==
    \A e \in Events, p \in Endpoints :
        outbox[e].status = "pending" /\ stream[e].status = "absent"
            ~> delivery[<<e, p>>].status \in Settled \/ ~endpoint[p].enabled
=============================================================================
