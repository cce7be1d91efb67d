------------------------ MODULE EventPipelineProofs ------------------------
(***************************************************************************)
(* Proofs about EventPipeline for any number of workers, events, endpoints *)
(* and faults: it is type correct, no committed event is lost, settled     *)
(* deliveries stay settled, recorded outcomes are true, and it implements  *)
(* the contract EventDelivery, which says the last two by itself.          *)
(***************************************************************************)
EXTENDS EventPipeline, TLAPS

(***************************************************************************)
(* The inductive invariant                                                 *)
(***************************************************************************)
\* Each stage gives an event up only after the next one has it.
DoneIsStored ==
    \A w \in Workers : \A did \in publisher[w].done :
        did.ok => stream[did.ev].status # "absent"

PublishedIsStored ==
    \A e \in Events : outbox[e].status = "published" => stream[e].status # "absent"

AckedIsIngested ==
    \A e \in Events : stream[e].status = "acked" => e \in webhookEvents

CommittedIsIngested ==
    \A w \in Workers : \A m \in consumer[w] : m.pc = "committed" => m.ev \in webhookEvents

Handover == DoneIsStored /\ PublishedIsStored /\ AckedIsIngested /\ CommittedIsIngested

\* A worker handles one message at a time, and the row lock admits one open
\* transaction per event; the deliveries it will create do not exist yet.
OneMessage == \A w \in Workers : \A m, o \in consumer[w] : m = o

OneTransaction ==
    \A v, w \in Workers : \A m \in consumer[v], o \in consumer[w] :
        m.pc = "uncommitted" /\ o.pc = "uncommitted" /\ m.ev = o.ev => v = w

CreatesNew ==
    \A w \in Workers : \A m \in consumer[w] : \A p \in m.to :
        m.pc = "uncommitted" => delivery[<<m.ev, p>>].status = "none"

OneIngestion == OneMessage /\ OneTransaction /\ CreatesNew

\* Settling a delivery clears its lock.
LockedIsOpen == \A d \in Deliveries : delivery[d].locked => delivery[d].status \in Open

\* What a sender holds is a delivery that was claimed at least as often as
\* its own claim says, and has answered what the sender will record.
ClaimsAreReal ==
    \A w \in Workers :
        /\ \A c \in sender[w].batch : /\ delivery[c.of].status # "none"
                                      /\ c.count <= delivery[c.of].attempts
        /\ \A s \in sender[w].sent : /\ delivery[s.of].status # "none"
                                     /\ s.count <= delivery[s.of].attempts
                                     /\ [count |-> s.count, response |-> s.response]
                                            \in response[s.of]

DeliveryInv == OneIngestion /\ LockedIsOpen /\ ClaimsAreReal /\ OutcomesAreGrounded

\* Whatever is on its way was committed to the outbox.
OnlyCommitted ==
    /\ \A e \in Events : stream[e].status # "absent" => outbox[e].status # "none"
    /\ \A w \in Workers :
          /\ \A e \in publisher[w].batch : outbox[e].status # "none"
          /\ \A did \in publisher[w].done : outbox[did.ev].status # "none"
          /\ \A m \in consumer[w] : outbox[m.ev].status # "none"

\* Each claim in a sender's hands stands for an attempt of its own that was
\* counted and not answered yet; every answer is to a counted attempt.
NoneUntried == \A d \in Deliveries : delivery[d].status = "none" => delivery[d].attempts = 0

AnswersCounted ==
    \A d \in Deliveries : \A a \in response[d] : a.count \in 1..delivery[d].attempts

ClaimsUnanswered ==
    \A w \in Workers : \A c \in sender[w].batch :
        /\ c.count # 0
        /\ \A a \in response[c.of] : a.count # c.count
        /\ \A v \in Workers : \A o \in sender[v].batch :
              c.of = o.of /\ c.count = o.count => v = w

RequestsInv == NoneUntried /\ AnswersCounted /\ ClaimsUnanswered

PipelineInv == TypeOK /\ Handover /\ DeliveryInv /\ OnlyCommitted /\ RequestsInv

(***************************************************************************)
(* Types                                                                   *)
(***************************************************************************)
\* The initial state is well formed.
LEMMA TypeInit == Init => TypeOK
BY PipelineAssumption DEF Init, TypeOK, IdlePublisher, IdleSender, OutboxRow, Message, Handling,
   EndpointRow, DeliveryRow, Publishing, Sending, Claim, Sent

\* Idle hands are well formed.
LEMMA IdleType == IdlePublisher \in Publishing /\ IdleSender \in Sending
BY DEF IdlePublisher, IdleSender, Publishing, Sending

\* The publisher's actions.
LEMMA PublisherType ==
    ASSUME TypeOK,
           \/ \E e \in Events : Insert(e) \/ ReleaseStaleLocks(e)
           \/ \E w \in Workers : PublisherStep(w)
           \/ \E w \in Workers, e \in Events : PublishFault(w, e)
    PROVE  TypeOK'
<1>1. ASSUME NEW e \in Events, Insert(e) PROVE TypeOK'
  <2>1. [outbox[e] EXCEPT !.status = "pending"] \in OutboxRow
    BY DEF TypeOK, OutboxRow
  <2>. QED BY <1>1, <2>1 DEF TypeOK, Insert, ingestion, delivering
<1>2. ASSUME NEW e \in Events, ReleaseStaleLocks(e) PROVE TypeOK'
  <2>1. [outbox[e] EXCEPT !.locked = FALSE] \in OutboxRow
    BY DEF TypeOK, OutboxRow
  <2>. QED BY <1>2, <2>1 DEF TypeOK, ReleaseStaleLocks, ingestion, delivering, Fault
<1>3. ASSUME NEW w \in Workers, ClaimPending(w) PROVE TypeOK'
  <2>1. \A e \in Events : [outbox[e] EXCEPT !.locked = TRUE] \in OutboxRow
    BY DEF TypeOK, OutboxRow
  <2>2. \A batch \in SUBSET Events : [publisher[w] EXCEPT !.batch = batch] \in Publishing
    BY DEF TypeOK, Publishing
  <2>3. PICK batch \in SUBSET Events :
          /\ publisher' = [publisher EXCEPT ![w].batch = batch]
          /\ outbox' = [e \in Events |-> IF e \in batch
                                         THEN [outbox[e] EXCEPT !.locked = TRUE]
                                         ELSE outbox[e]]
    BY <1>3 DEF ClaimPending
  <2>4. outbox' \in [Events -> OutboxRow]
    BY <2>1, <2>3 DEF TypeOK
  <2>5. publisher' \in [Workers -> Publishing]
    BY <2>2, <2>3 DEF TypeOK
  <2>. QED BY <1>3, <2>4, <2>5 DEF TypeOK, ClaimPending, ingestion, delivering
<1>4. \A e \in Events : [stream[e] EXCEPT !.status = "stored"] \in Message
  BY DEF TypeOK, Message
<1>5. \A e \in Events : Stored(e) \in [Events -> Message]
  BY <1>4 DEF TypeOK, Stored
<1>6. ASSUME NEW w \in Workers, NEW e \in Events, NEW ok \in BOOLEAN, PublisherDid(w, e, ok)
      PROVE  publisher' \in [Workers -> Publishing]
  <2>1. [batch |-> publisher[w].batch \ {e}, done |-> {[ev |-> e, ok |-> ok]}] \in Publishing
    BY DEF TypeOK, Publishing
  <2>. QED BY <1>6, <2>1 DEF TypeOK, PublisherDid
<1>7. ASSUME NEW w \in Workers, NEW e \in Events, Publish(w, e) PROVE TypeOK'
  BY <1>5, <1>6, <1>7 DEF TypeOK, Publish, ingestion, delivering
<1>8. ASSUME NEW w \in Workers, NEW e \in Events, PublishFault(w, e) PROVE TypeOK'
  <2>1. [status |-> "stored", delivered |-> 0] \in Message
    BY PipelineAssumption DEF Message
  <2>2. stream' \in [Events -> Message]
    BY <1>5, <1>8, <2>1 DEF TypeOK, PublishFault
  <2>3. publisher' \in [Workers -> Publishing]
    BY <1>6, <1>8 DEF PublishFault
  <2>. QED BY <1>8, <2>2, <2>3 DEF TypeOK, PublishFault, Fault, ingestion, delivering
<1>9. ASSUME NEW w \in Workers, MarkEvent(w) PROVE TypeOK'
  <2>1. PICK did \in publisher[w].done : outbox' = Marked(did.ev, did.ok)
    BY <1>9 DEF MarkEvent
  <2>2. did.ev \in Events
    BY <2>1 DEF TypeOK, Publishing
  <2>3. [status |-> IF did.ok THEN "published" ELSE "pending", locked |-> FALSE] \in OutboxRow
    BY DEF OutboxRow
  <2>4. outbox' \in [Events -> OutboxRow]
    BY <2>1, <2>2, <2>3 DEF TypeOK, Marked
  <2>5. [publisher[w] EXCEPT !.done = {}] \in Publishing
    BY DEF TypeOK, Publishing
  <2>. QED BY <1>9, <2>4, <2>5 DEF TypeOK, MarkEvent, ingestion, delivering
<1>. QED BY <1>1, <1>2, <1>3, <1>7, <1>8, <1>9 DEF PublisherStep

\* The consumer's actions.
LEMMA CommitType ==
    ASSUME TypeOK, NEW w \in Workers, NEW m \in consumer[w], Commit(m)
    PROVE  /\ webhookEvents' \in SUBSET Events
           /\ delivery' \in [Deliveries -> DeliveryRow]
<1>1. m.ev \in Events
  BY DEF TypeOK, Handling
<1>2. [status |-> "pending", attempts |-> 0, locked |-> FALSE] \in DeliveryRow
  BY DEF DeliveryRow, Open
<1>. QED BY <1>1, <1>2 DEF TypeOK, Commit

\* The consumer's actions.
LEMMA ConsumerType ==
    ASSUME TypeOK,
           \/ \E w \in Workers : ConsumerStep(w)
           \/ \E w \in Workers : IngestFault(w)
    PROVE  TypeOK'
<1>1. ASSUME NEW w \in Workers, NEW e \in Events, Receive(w, e) PROVE TypeOK'
  <2>1. [stream[e] EXCEPT !.delivered = stream[e].delivered + 1] \in Message
    BY <1>1, PipelineAssumption DEF TypeOK, Receive, Message
  <2>2. [ev |-> e, to |-> {}, pc |-> "received"] \in Handling
    BY DEF Handling
  <2>. QED BY <1>1, <2>1, <2>2 DEF TypeOK, Receive, Fault, publishing, delivering
<1>2. ASSUME NEW w \in Workers, CreateDeliveries(w) PROVE TypeOK'
  <2>1. PICK m \in consumer[w], to \in SUBSET Endpoints :
          consumer' = [consumer EXCEPT ![w] = {[ev |-> m.ev, pc |-> "uncommitted", to |-> to]}]
    BY <1>2 DEF CreateDeliveries
  <2>2. [ev |-> m.ev, pc |-> "uncommitted", to |-> to] \in Handling
    BY <2>1 DEF TypeOK, Handling
  <2>. QED BY <1>2, <2>1, <2>2 DEF TypeOK, CreateDeliveries, publishing, delivering
<1>3. ASSUME NEW w \in Workers, CommitIngest(w) PROVE TypeOK'
  <2>1. PICK m \in consumer[w] :
            Commit(m) /\ consumer' = [consumer EXCEPT ![w] = {[m EXCEPT !.pc = "committed"]}]
    BY <1>3 DEF CommitIngest
  <2>2. [m EXCEPT !.pc = "committed"] \in Handling
    BY <2>1 DEF TypeOK, Handling
  <2>. QED BY <1>3, <2>1, <2>2, CommitType DEF TypeOK, CommitIngest, publishing
<1>4. ASSUME NEW w \in Workers, Acknowledge(w) PROVE TypeOK'
  <2>1. \A e \in Events : [stream[e] EXCEPT !.status = "acked"] \in Message
    BY DEF TypeOK, Message
  <2>2. \A m \in consumer[w] : m.ev \in Events
    BY DEF TypeOK, Handling
  <2>. QED BY <1>4, <2>1, <2>2 DEF TypeOK, Acknowledge, publishing, delivering
<1>5. ASSUME NEW w \in Workers, IngestFault(w) PROVE TypeOK'
  <2>1. PICK m \in consumer[w] : \/ stream' = Nak(m) /\ UNCHANGED <<webhookEvents, delivery>>
                                 \/ stream' = Nak(m) /\ Commit(m)
                                 \/ UNCHANGED <<stream, webhookEvents, delivery>>
    BY <1>5 DEF IngestFault
  <2>2. consumer' \in [Workers -> SUBSET Handling]
    BY <1>5 DEF TypeOK, IngestFault
  <2>. QED BY <1>5, <2>1, <2>2, CommitType DEF TypeOK, IngestFault, Nak, Fault, publishing
<1>. QED BY <1>1, <1>2, <1>3, <1>4, <1>5 DEF ConsumerStep

\* The delivery job and the end of a process.
LEMMA ClaimedType ==
    ASSUME TypeOK, NEW w \in Workers, NEW batch \in SUBSET Deliveries, Claimed(w, batch)
    PROVE  delivery' \in [Deliveries -> DeliveryRow] /\ sender' \in [Workers -> Sending]
<1>1. ASSUME NEW d \in Deliveries
      PROVE  /\ [delivery[d] EXCEPT !.locked = TRUE, !.attempts = delivery[d].attempts + 1]
                    \in DeliveryRow
             /\ [of |-> d, count |-> delivery[d].attempts + 1] \in Claim
  <2>1. delivery[d] \in DeliveryRow
    BY DEF TypeOK
  <2>2. delivery[d].attempts + 1 \in Nat
    BY <2>1 DEF DeliveryRow
  <2>3. [delivery[d] EXCEPT !.locked = TRUE, !.attempts = delivery[d].attempts + 1]
            \in DeliveryRow
    BY <2>1, <2>2 DEF DeliveryRow
  <2>4. [of |-> d, count |-> delivery[d].attempts + 1] \in Claim
    BY <2>2 DEF Claim
  <2>. QED BY <2>3, <2>4
<1>2. delivery' \in [Deliveries -> DeliveryRow]
  BY <1>1 DEF TypeOK, Claimed
<1>3. \A claims \in SUBSET Claim : [sender[w] EXCEPT !.batch = claims] \in Sending
  BY DEF TypeOK, Sending
<1>4. {[of |-> d, count |-> delivery[d].attempts + 1] : d \in batch} \in SUBSET Claim
  BY <1>1
<1>5. sender' \in [Workers -> Sending]
  BY <1>3, <1>4 DEF TypeOK, Claimed
<1>. QED BY <1>2, <1>5

\* The delivery job's actions, expired locks and crashes.
LEMMA SenderType ==
    ASSUME TypeOK, NEW w \in Workers,
           SenderStep(w) \/ (\E d \in Deliveries : ClaimStale(w, d)) \/ Crash(w)
    PROVE  TypeOK'
<1>1. CASE ClaimDeliveries(w)
  BY <1>1, ClaimedType DEF TypeOK, ClaimDeliveries, publishing, ingestion
<1>2. ASSUME NEW d \in Deliveries, ClaimStale(w, d) PROVE TypeOK'
  BY <1>2, ClaimedType DEF TypeOK, ClaimStale, Fault, publishing, ingestion
<1>3. CASE Send(w)
  <2>1. PICK c \in sender[w].batch, r \in Response :
          /\ sender' = [sender EXCEPT ![w] =
                 [batch |-> sender[w].batch \ {c},
                  sent |-> {[of |-> c.of, count |-> c.count, response |-> r]}]]
          /\ response' = [response EXCEPT ![c.of] =
                 response[c.of] \cup {[count |-> c.count, response |-> r]}]
    BY <1>3 DEF Send
  <2>2. c \in Claim /\ sender[w].batch \in SUBSET Claim
    BY <2>1 DEF TypeOK, Sending
  <2>3. /\ c.of \in Deliveries
        /\ [of |-> c.of, count |-> c.count, response |-> r] \in Sent
        /\ [count |-> c.count, response |-> r] \in EndpointAnswer
    BY <2>2 DEF Claim, Sent, EndpointAnswer
  <2>4. [batch |-> sender[w].batch \ {c},
         sent |-> {[of |-> c.of, count |-> c.count, response |-> r]}] \in Sending
    BY <2>2, <2>3 DEF Sending
  <2>5. sender' \in [Workers -> Sending]
    BY <2>1, <2>4 DEF TypeOK
  <2>6. response' \in [Deliveries -> SUBSET EndpointAnswer]
    BY <2>1, <2>3 DEF TypeOK
  <2>. QED BY <1>3, <2>5, <2>6 DEF TypeOK, Send, publishing, ingestion
<1>4. CASE MarkDelivery(w)
  <2>1. PICK s \in sender[w].sent :
        IF HoldsLock(s.of)
        THEN /\ delivery' = [delivery EXCEPT ![s.of].status = Outcome(s),
                                             ![s.of].locked = FALSE]
             /\ endpoint' = [endpoint EXCEPT ![s.of[2]] = EndpointAfter(@, Outcome(s))]
             /\ sender' = [sender EXCEPT ![w].sent = {}]
             /\ UNCHANGED <<publishing, stream, ingestion, deleting, response, faults, admin>>
        ELSE /\ Exit(w)
             /\ UNCHANGED <<outbox, stream, webhookEvents, endpoint, delivery, deleting,
                            response, faults, admin>>
    BY <1>4 DEF MarkDelivery
  <2>2. s.of \in Deliveries /\ s.of[2] \in Endpoints
    BY <2>1 DEF TypeOK, Sending, Sent, Deliveries
  <2>3. CASE ~HoldsLock(s.of)
    BY <2>1, <2>3, IdleType DEF TypeOK, Exit
  <2>4. CASE HoldsLock(s.of)
    <3>1. [delivery[s.of] EXCEPT !.status = Outcome(s), !.locked = FALSE] \in DeliveryRow
      BY <2>2 DEF TypeOK, DeliveryRow, Outcome, Open, Settled
    <3>2. delivery' = [delivery EXCEPT ![s.of] =
                          [delivery[s.of] EXCEPT !.status = Outcome(s), !.locked = FALSE]]
      BY <2>1, <2>2, <2>4 DEF TypeOK
    <3>3. EndpointAfter(endpoint[s.of[2]], Outcome(s)) \in EndpointRow
      BY <2>2 DEF TypeOK, EndpointRow, EndpointAfter
    <3>4. [sender[w] EXCEPT !.sent = {}] \in Sending
      BY DEF TypeOK, Sending
    <3>. QED BY <2>1, <2>2, <2>4, <3>1, <3>2, <3>3, <3>4 DEF TypeOK, publishing, ingestion
  <2>. QED BY <2>3, <2>4
<1>5. CASE Crash(w)
  BY <1>5, IdleType DEF TypeOK, Crash, Exit, Fault
<1>. QED BY <1>1, <1>2, <1>3, <1>4, <1>5 DEF SenderStep

\* The endpoint API.
LEMMA ApiType == ASSUME TypeOK, EndpointApi PROVE TypeOK'
<1>1. ASSUME NEW p \in Endpoints, NEW enabled \in BOOLEAN, Update(p, enabled) PROVE TypeOK'
  <2>1. [endpoint[p] EXCEPT !.enabled = enabled] \in EndpointRow
    BY DEF TypeOK, EndpointRow
  <2>. QED BY <1>1, <2>1 DEF TypeOK, Update, Request, publishing, ingestion
<1>2. ASSUME NEW p \in Endpoints, Disable(p) PROVE TypeOK'
  <2>1. [endpoint[p] EXCEPT !.enabled = FALSE] \in EndpointRow
    BY DEF TypeOK, EndpointRow
  <2>. QED BY <1>2, <2>1 DEF TypeOK, Disable, Request, publishing, ingestion
<1>3. ASSUME NEW p \in Endpoints, Cancel(p) PROVE TypeOK'
  <2>1. \A d \in Deliveries : Canceled(delivery[d]) \in DeliveryRow
    BY DEF TypeOK, DeliveryRow, Canceled, Settled
  <2>. QED BY <1>3, <2>1 DEF TypeOK, Cancel, publishing, ingestion
<1>4. ASSUME NEW p \in Endpoints, DeleteFault(p) PROVE TypeOK'
  BY <1>4 DEF TypeOK, DeleteFault, Fault, publishing, ingestion
<1>5. ASSUME NEW d \in Deliveries, Retry(d) PROVE TypeOK'
  <2>1. [delivery[d] EXCEPT !.status = "pending", !.locked = FALSE] \in DeliveryRow
    BY DEF TypeOK, DeliveryRow, Open
  <2>2. delivery' = [delivery EXCEPT ![d] =
                        [delivery[d] EXCEPT !.status = "pending", !.locked = FALSE]]
    BY <1>5 DEF TypeOK, Retry
  <2>. QED BY <1>5, <2>1, <2>2 DEF TypeOK, Retry, Request, publishing, ingestion
<1>. QED BY <1>1, <1>2, <1>3, <1>4, <1>5 DEF EndpointApi

\* Every step keeps the types.
LEMMA TypeStep == ASSUME TypeOK, [Next]_vars PROVE TypeOK'
<1>1. CASE UNCHANGED vars
  BY <1>1 DEF TypeOK, vars
<1>2. CASE Next
  BY <1>2, PublisherType, ConsumerType, SenderType, ApiType DEF Next, Failure
<1>. QED BY <1>1, <1>2

(***************************************************************************)
(* No event is lost                                                        *)
(***************************************************************************)
\* Nothing has been handed over yet.
LEMMA HandoverInit == Init => Handover
BY DEF Init, Handover, DoneIsStored, PublishedIsStored, AckedIsIngested, CommittedIsIngested,
       IdlePublisher

\* Messages never leave the stream, acknowledgements follow ingestion.
LEMMA HandoverStep == ASSUME TypeOK, Handover, [Next]_vars PROVE Handover'
<1>. USE DEF Handover, DoneIsStored, PublishedIsStored, AckedIsIngested, CommittedIsIngested
<1>1. ASSUME UNCHANGED <<outbox, stream, publisher, consumer, webhookEvents>> PROVE Handover'
  BY <1>1
<1>2. ASSUME NEW w \in Workers, Exit(w), UNCHANGED <<outbox, stream, webhookEvents>>
      PROVE  Handover'
  BY <1>2 DEF TypeOK, Exit, IdlePublisher
<1>3. ASSUME NEW e \in Events, Insert(e) PROVE Handover'
  BY <1>3 DEF TypeOK, OutboxRow, Insert, ingestion
<1>4. ASSUME NEW e \in Events, ReleaseStaleLocks(e) PROVE Handover'
  BY <1>4 DEF TypeOK, OutboxRow, ReleaseStaleLocks, ingestion
<1>5. ASSUME NEW w \in Workers, ClaimPending(w) PROVE Handover'
  <2>1. \A v \in Workers : publisher'[v].done = publisher[v].done
    BY <1>5 DEF TypeOK, Publishing, ClaimPending
  <2>2. \A e \in Events : outbox'[e].status = outbox[e].status
    BY <1>5 DEF TypeOK, OutboxRow, ClaimPending
  <2>. QED BY <1>5, <2>1, <2>2 DEF ClaimPending, ingestion
<1>6. ASSUME NEW w \in Workers, NEW e \in Events, Publish(w, e) PROVE Handover'
  <2>1. \A x \in Events : /\ stream'[x].status = "absent" => stream[x].status = "absent" /\ x # e
                          /\ stream'[x].status = "acked" => stream[x].status = "acked"
    BY <1>6 DEF TypeOK, Message, Publish, Stored
  <2>2. \A v \in Workers : \A did \in publisher'[v].done : did \in publisher[v].done \/ did.ev = e
    BY <1>6 DEF TypeOK, Publish, PublisherDid
  <2>3. \A v \in Workers : \A did \in publisher[v].done : did.ev \in Events
    BY DEF TypeOK, Publishing
  <2>. QED BY <1>6, <2>1, <2>2, <2>3 DEF Publish, ingestion
<1>7. ASSUME NEW w \in Workers, NEW e \in Events, PublishFault(w, e) PROVE Handover'
  <2>1. \A x \in Events : /\ stream'[x].status = "absent" => stream[x].status = "absent"
                          /\ stream'[x].status = "acked" => stream[x].status = "acked"
    <3>1. CASE stream' = stream
      BY <3>1
    <3>2. CASE stream' = Stored(e)
      BY <3>2 DEF TypeOK, Message, Stored
    <3>3. CASE stream' = [stream EXCEPT ![e] = [status |-> "stored", delivered |-> 0]]
      BY <3>3 DEF TypeOK
    <3>. QED BY <1>7, <3>1, <3>2, <3>3 DEF PublishFault
  <2>2. \A v \in Workers : \A did \in publisher'[v].done :
           did \in publisher[v].done \/ (did.ev = e /\ (did.ok => stream[e].status # "absent"))
    BY <1>7 DEF TypeOK, PublishFault, PublisherDid
  <2>3. \A v \in Workers : \A did \in publisher[v].done : did.ev \in Events
    BY DEF TypeOK, Publishing
  <2>. QED BY <1>7, <2>1, <2>2, <2>3 DEF PublishFault, ingestion
<1>8. ASSUME NEW w \in Workers, MarkEvent(w) PROVE Handover'
  <2>1. PICK did \in publisher[w].done : outbox' = Marked(did.ev, did.ok)
    BY <1>8 DEF MarkEvent
  <2>2. did.ev \in Events
    BY <2>1 DEF TypeOK, Publishing
  <2>3. \A e \in Events : outbox'[e].status = "published" => stream[e].status # "absent"
    BY <2>1, <2>2 DEF TypeOK, OutboxRow, Marked
  <2>4. \A v \in Workers : publisher'[v].done \subseteq publisher[v].done
    BY <1>8 DEF TypeOK, Publishing, MarkEvent
  <2>. QED BY <1>8, <2>3, <2>4 DEF MarkEvent, ingestion
<1>9. ASSUME NEW w \in Workers, NEW e \in Events, Receive(w, e) PROVE Handover'
  <2>1. \A x \in Events : stream'[x].status = stream[x].status
    BY <1>9 DEF TypeOK, Message, Receive
  <2>2. \A v \in Workers : \A m \in consumer'[v] : m \in consumer[v] \/ m.pc = "received"
    BY <1>9 DEF TypeOK, Receive
  <2>3. \A v \in Workers : \A did \in publisher[v].done : did.ev \in Events
    BY DEF TypeOK, Publishing
  <2>. QED BY <1>9, <2>1, <2>2, <2>3 DEF Receive, publishing
<1>10. ASSUME NEW w \in Workers, CreateDeliveries(w) PROVE Handover'
  <2>1. \A v \in Workers : \A m \in consumer'[v] : m \in consumer[v] \/ m.pc = "uncommitted"
    BY <1>10 DEF TypeOK, CreateDeliveries
  <2>. QED BY <1>10, <2>1 DEF CreateDeliveries, publishing
<1>11. ASSUME NEW w \in Workers, CommitIngest(w) PROVE Handover'
  <2>1. PICK m \in consumer[w] :
            Commit(m) /\ consumer' = [consumer EXCEPT ![w] = {[m EXCEPT !.pc = "committed"]}]
    BY <1>11 DEF CommitIngest
  <2>2. m \in Handling
    BY <2>1 DEF TypeOK
  <2>3. \A v \in Workers : \A o \in consumer'[v] : o \in consumer[v] \/ o.ev = m.ev
    BY <2>1, <2>2 DEF TypeOK, Handling
  <2>. QED BY <1>11, <2>1, <2>3 DEF CommitIngest, Commit, publishing
<1>12. ASSUME NEW w \in Workers, Acknowledge(w) PROVE Handover'
  <2>1. PICK m \in consumer[w] : /\ m.pc = "committed"
                                 /\ stream' = [stream EXCEPT ![m.ev].status = "acked"]
                                 /\ consumer' = [consumer EXCEPT ![w] = {}]
    BY <1>12 DEF Acknowledge
  <2>2. m.ev \in Events
    BY <2>1 DEF TypeOK, Handling
  <2>3. \A x \in Events : /\ stream'[x].status = "absent" => stream[x].status = "absent"
                          /\ stream'[x].status = "acked" => stream[x].status = "acked" \/ x = m.ev
    BY <2>1, <2>2 DEF TypeOK, Message
  <2>4. \A v \in Workers : consumer'[v] \subseteq consumer[v]
    BY <2>1 DEF TypeOK
  <2>5. \A v \in Workers : \A did \in publisher[v].done : did.ev \in Events
    BY DEF TypeOK, Publishing
  <2>. QED BY <1>12, <2>1, <2>3, <2>4, <2>5 DEF Acknowledge, publishing
<1>13. ASSUME NEW w \in Workers, IngestFault(w) PROVE Handover'
  <2>1. stream' = stream /\ webhookEvents \subseteq webhookEvents'
    BY <1>13 DEF IngestFault, Nak, Commit
  <2>2. \A v \in Workers : consumer'[v] \subseteq consumer[v]
    BY <1>13 DEF TypeOK, IngestFault
  <2>. QED BY <1>13, <2>1, <2>2 DEF IngestFault, publishing
<1>14. ASSUME NEW w \in Workers, MarkDelivery(w) PROVE Handover'
  BY <1>1, <1>2, <1>14 DEF MarkDelivery, publishing, ingestion
<1>15. ASSUME NEW w \in Workers, Crash(w) PROVE Handover'
  BY <1>2, <1>15 DEF Crash
<1>16. ASSUME NEW w \in Workers,
              ClaimDeliveries(w) \/ Send(w) \/ (\E d \in Deliveries : ClaimStale(w, d))
       PROVE  Handover'
  BY <1>1, <1>16 DEF ClaimDeliveries, Send, ClaimStale, publishing, ingestion
<1>17. ASSUME EndpointApi PROVE Handover'
  BY <1>1, <1>17 DEF EndpointApi, Update, Disable, Cancel, DeleteFault, Retry, publishing, ingestion
<1>18. CASE UNCHANGED vars
  BY <1>1, <1>18 DEF vars
<1>. HIDE DEF Handover
<1>. QED BY <1>3, <1>4, <1>5, <1>6, <1>7, <1>8, <1>9, <1>10, <1>11, <1>12, <1>13, <1>14, <1>15,
            <1>16, <1>17, <1>18
         DEF Next, PublisherStep, ConsumerStep, SenderStep, Failure

(***************************************************************************)
(* Deliveries                                                              *)
(***************************************************************************)
\* There is nothing to deliver yet.
LEMMA DeliveryInit == Init => DeliveryInv
BY DEF Init, DeliveryInv, OneIngestion, OneMessage, OneTransaction, CreatesNew, LockedIsOpen,
       ClaimsAreReal, OutcomesAreGrounded, IdleSender

\* Steps that take on no message and create no delivery.
LEMMA IngestionKept ==
    ASSUME TypeOK, OneIngestion,
           \A w \in Workers : consumer'[w] \subseteq consumer[w],
           \A d \in Deliveries : delivery[d].status = "none" => delivery'[d].status = "none"
    PROVE  OneIngestion'
<1>1. \A w \in Workers : \A m \in consumer[w] : \A p \in m.to : <<m.ev, p>> \in Deliveries
  BY DEF TypeOK, Handling, Deliveries
<1>2. OneMessage'
  BY DEF OneIngestion, OneMessage
<1>3. OneTransaction'
  BY DEF OneIngestion, OneTransaction
<1>4. CreatesNew'
  BY <1>1 DEF OneIngestion, CreatesNew
<1>. QED BY <1>2, <1>3, <1>4 DEF OneIngestion

\* Steps in which senders take nothing new, counts grow and answers stay.
LEMMA ClaimsKept ==
    ASSUME TypeOK, TypeOK', ClaimsAreReal,
           \A w \in Workers : /\ sender'[w].batch \subseteq sender[w].batch
                              /\ sender'[w].sent \subseteq sender[w].sent,
           \A d \in Deliveries : /\ delivery[d].status # "none" => delivery'[d].status # "none"
                                 /\ delivery[d].status # "none" =>
                                        delivery[d].attempts <= delivery'[d].attempts
                                 /\ response[d] \subseteq response'[d]
    PROVE  ClaimsAreReal'
<1>1. \A d \in Deliveries : delivery[d].attempts \in Nat /\ delivery'[d].attempts \in Nat
  BY DEF TypeOK, DeliveryRow
<1>2. \A w \in Workers : /\ \A c \in sender[w].batch : c.of \in Deliveries /\ c.count \in Nat
                         /\ \A s \in sender[w].sent : s.of \in Deliveries /\ s.count \in Nat
  BY DEF TypeOK, Sending, Claim, Sent
<1>3. ASSUME NEW w \in Workers, NEW c \in sender'[w].batch
      PROVE  delivery'[c.of].status # "none" /\ c.count <= delivery'[c.of].attempts
  BY <1>1, <1>2, <1>3 DEF ClaimsAreReal
<1>4. ASSUME NEW w \in Workers, NEW s \in sender'[w].sent
      PROVE  /\ delivery'[s.of].status # "none"
             /\ s.count <= delivery'[s.of].attempts
             /\ [count |-> s.count, response |-> s.response] \in response'[s.of]
  BY <1>1, <1>2, <1>4 DEF ClaimsAreReal
<1>. QED BY <1>3, <1>4 DEF ClaimsAreReal

\* Steps that leave the deliveries and what is known of them alone.
LEMMA DeliveriesKept ==
    ASSUME TypeOK, TypeOK', DeliveryInv,
           \A w \in Workers : /\ consumer'[w] \subseteq consumer[w]
                              /\ sender'[w].batch \subseteq sender[w].batch
                              /\ sender'[w].sent \subseteq sender[w].sent,
           UNCHANGED <<delivery, response>>
    PROVE  DeliveryInv'
<1>1. OneIngestion'
  BY IngestionKept DEF DeliveryInv
<1>2. \A d \in Deliveries : delivery[d].attempts <= delivery[d].attempts
  BY DEF TypeOK, DeliveryRow
<1>3. ClaimsAreReal'
  BY <1>2, ClaimsKept DEF DeliveryInv
<1>4. LockedIsOpen' /\ OutcomesAreGrounded'
  BY DEF DeliveryInv, LockedIsOpen, OutcomesAreGrounded
<1>. QED BY <1>1, <1>3, <1>4 DEF DeliveryInv

\* A commit creates only rows that did not exist.
LEMMA CommitFresh ==
    ASSUME TypeOK, DeliveryInv, NEW w \in Workers, NEW m \in consumer[w],
           m.pc = "uncommitted", Commit(m), NEW d \in Deliveries
    PROVE  \/ delivery'[d] = delivery[d]
           \/ /\ delivery[d].status = "none"
              /\ d[1] = m.ev /\ d[2] \in m.to
              /\ delivery'[d] = [status |-> "pending", attempts |-> 0, locked |-> FALSE]
<1>1. d = <<d[1], d[2]>>
  BY DEF Deliveries
<1>2. d[1] = m.ev /\ d[2] \in m.to => delivery[d].status = "none"
  BY <1>1 DEF DeliveryInv, OneIngestion, CreatesNew
<1>. QED BY <1>2 DEF Commit

\* The ingest transaction commits new deliveries only (Service.Ingest).
LEMMA CommitDeliveryInv ==
    ASSUME TypeOK, TypeOK', DeliveryInv, NEW w \in Workers, NEW m \in consumer[w],
           m.pc = "uncommitted", Commit(m), UNCHANGED <<sender, response>>,
           \/ consumer' = [consumer EXCEPT ![w] = {[m EXCEPT !.pc = "committed"]}]
           \/ consumer' = [consumer EXCEPT ![w] = {}]
    PROVE  DeliveryInv'
<1>1. m \in Handling
  BY DEF TypeOK
<1>2. \A v \in Workers : \A o \in consumer'[v] :
         (o \in consumer[v] /\ v # w) \/ (v = w /\ o.pc = "committed")
  <2>1. [m EXCEPT !.pc = "committed"].pc = "committed"
    BY <1>1 DEF Handling
  <2>2. CASE consumer' = [consumer EXCEPT ![w] = {}]
    BY <2>2 DEF TypeOK
  <2>3. CASE consumer' = [consumer EXCEPT ![w] = {[m EXCEPT !.pc = "committed"]}]
    <3>1. consumer'[w] = {[m EXCEPT !.pc = "committed"]}
      BY <2>3 DEF TypeOK
    <3>2. \A v \in Workers : v # w => consumer'[v] = consumer[v]
      BY <2>3 DEF TypeOK
    <3>. QED BY <2>1, <3>1, <3>2
  <2>. QED BY <2>2, <2>3
<1>3. OneMessage'
  BY DEF TypeOK, DeliveryInv, OneIngestion, OneMessage
<1>4. OneTransaction'
  BY <1>2 DEF DeliveryInv, OneIngestion, OneTransaction
<1>5. CreatesNew'
  <2>1. SUFFICES ASSUME NEW v \in Workers, NEW o \in consumer'[v], NEW p \in o.to,
                        o.pc = "uncommitted"
                 PROVE  delivery'[<<o.ev, p>>].status = "none"
    BY DEF CreatesNew
  <2>2. o \in consumer[v] /\ v # w
    BY <1>2, <2>1
  <2>3. o.ev # m.ev
    BY <2>1, <2>2 DEF DeliveryInv, OneIngestion, OneTransaction
  <2>4. <<o.ev, p>> \in Deliveries
    BY <2>2 DEF TypeOK, Handling, Deliveries
  <2>5. delivery[<<o.ev, p>>].status = "none"
    BY <2>1, <2>2 DEF DeliveryInv, OneIngestion, CreatesNew
  <2>. QED BY <2>3, <2>4, <2>5 DEF Commit
<1>6. LockedIsOpen'
  BY CommitFresh DEF DeliveryInv, LockedIsOpen
<1>7. OutcomesAreGrounded'
  BY CommitFresh DEF DeliveryInv, OutcomesAreGrounded
<1>8. \A d \in Deliveries : delivery[d].status # "none" => delivery'[d] = delivery[d]
  BY CommitFresh
<1>9. \A d \in Deliveries : delivery[d].attempts <= delivery[d].attempts
  BY DEF TypeOK, DeliveryRow
<1>10. ClaimsAreReal'
  BY <1>8, <1>9, ClaimsKept DEF DeliveryInv
<1>. QED BY <1>3, <1>4, <1>5, <1>6, <1>7, <1>10 DEF DeliveryInv, OneIngestion

\* Consumer steps that write no delivery.
LEMMA ReceiveInv ==
    ASSUME TypeOK, TypeOK', DeliveryInv, NEW w \in Workers, NEW e \in Events, Receive(w, e)
    PROVE  DeliveryInv'
<1>1. consumer' = [consumer EXCEPT ![w] = {[ev |-> e, to |-> {}, pc |-> "received"]}]
  BY DEF Receive
<1>2. \A v \in Workers : \A m \in consumer'[v] : m \in consumer[v] \/ m.pc = "received"
  BY <1>1 DEF TypeOK
<1>3. OneMessage'
  BY <1>1 DEF TypeOK, DeliveryInv, OneIngestion, OneMessage
<1>4. OneTransaction' /\ CreatesNew'
  BY <1>2 DEF DeliveryInv, OneIngestion, OneTransaction, CreatesNew, Receive, delivering
<1>5. LockedIsOpen' /\ OutcomesAreGrounded' /\ ClaimsAreReal'
  BY DEF DeliveryInv, LockedIsOpen, OutcomesAreGrounded, ClaimsAreReal, Receive, delivering
<1>. QED BY <1>3, <1>4, <1>5 DEF DeliveryInv, OneIngestion

\* The ingest transaction reads the endpoints and opens its deliveries.
LEMMA CreateDeliveriesInv ==
    ASSUME TypeOK, TypeOK', DeliveryInv, NEW w \in Workers, CreateDeliveries(w)
    PROVE  DeliveryInv'
<1>1. PICK m \in consumer[w] :
        /\ \A v \in Workers : \A o \in consumer[v] : o.ev = m.ev => o.pc # "uncommitted"
        /\ consumer' = [consumer EXCEPT ![w] =
               {[ev |-> m.ev, pc |-> "uncommitted",
                 to |-> {p \in Endpoints : /\ endpoint[p].enabled
                                           /\ delivery[<<m.ev, p>>].status = "none"}]}]
  BY DEF CreateDeliveries
<1>2. \A v \in Workers : \A o \in consumer'[v] :
         \/ v # w /\ o \in consumer[v]
         \/ v = w /\ o.ev = m.ev /\ \A p \in o.to : delivery[<<m.ev, p>>].status = "none"
  BY <1>1 DEF TypeOK
<1>3. OneMessage'
  BY <1>1 DEF TypeOK, DeliveryInv, OneIngestion, OneMessage
<1>4. OneTransaction'
  BY <1>1, <1>2 DEF DeliveryInv, OneIngestion, OneTransaction
<1>5. CreatesNew'
  BY <1>2 DEF DeliveryInv, OneIngestion, CreatesNew, CreateDeliveries, delivering
<1>6. LockedIsOpen' /\ OutcomesAreGrounded' /\ ClaimsAreReal'
  BY DEF DeliveryInv, LockedIsOpen, OutcomesAreGrounded, ClaimsAreReal, CreateDeliveries, delivering
<1>. QED BY <1>3, <1>4, <1>5, <1>6 DEF DeliveryInv, OneIngestion

\* A claim locks open rows and counts one more attempt for each.
LEMMA ClaimedInv ==
    ASSUME TypeOK, TypeOK', DeliveryInv, NEW w \in Workers, NEW batch \in SUBSET Deliveries,
           \A d \in batch : Claimable(d), sender[w] = IdleSender, Claimed(w, batch),
           UNCHANGED <<consumer, response>>
    PROVE  DeliveryInv'
<1>1. ASSUME NEW d \in Deliveries
      PROVE  /\ delivery'[d].status = delivery[d].status
             /\ delivery'[d].attempts = IF d \in batch THEN delivery[d].attempts + 1
                                        ELSE delivery[d].attempts
             /\ delivery'[d].locked => delivery[d].locked \/ d \in batch
  BY DEF Claimed, TypeOK, DeliveryRow
<1>2. \A d \in Deliveries : delivery[d].attempts \in Nat
  BY DEF TypeOK, DeliveryRow
<1>3. OneIngestion'
  BY <1>1, IngestionKept DEF DeliveryInv
<1>4. LockedIsOpen'
  BY <1>1 DEF DeliveryInv, LockedIsOpen, Claimable
<1>5. OutcomesAreGrounded'
  BY <1>1, <1>2, PipelineAssumption DEF DeliveryInv, OutcomesAreGrounded
<1>6. \A d \in batch : delivery[d].status # "none"
  BY DEF Claimable, Open
<1>7. sender'[w].batch = {[of |-> d, count |-> delivery[d].attempts + 1] : d \in batch}
  BY DEF Claimed, TypeOK, Sending
<1>8. sender'[w].sent = {}
  <2>1. sender'[w].sent = sender[w].sent
    BY DEF Claimed, TypeOK, Sending
  <2>2. sender[w].sent = {}
    BY DEF IdleSender
  <2>. QED BY <2>1, <2>2
<1>9. \A v \in Workers : v # w => sender'[v] = sender[v]
  BY DEF Claimed, TypeOK
<1>10. \A c \in sender'[w].batch : /\ delivery'[c.of].status # "none"
                                   /\ c.count <= delivery'[c.of].attempts
  BY <1>1, <1>2, <1>6, <1>7
<1>11. ASSUME NEW v \in Workers, v # w, NEW c \in sender[v].batch
       PROVE  delivery'[c.of].status # "none" /\ c.count <= delivery'[c.of].attempts
  <2>1. c.of \in Deliveries /\ c.count \in Nat
    BY DEF TypeOK, Sending, Claim
  <2>. QED BY <1>1, <1>2, <2>1 DEF DeliveryInv, ClaimsAreReal
<1>12. ASSUME NEW v \in Workers, v # w, NEW s \in sender[v].sent
       PROVE  /\ delivery'[s.of].status # "none"
              /\ s.count <= delivery'[s.of].attempts
              /\ [count |-> s.count, response |-> s.response] \in response'[s.of]
  <2>1. s.of \in Deliveries /\ s.count \in Nat
    BY DEF TypeOK, Sending, Sent
  <2>. QED BY <1>1, <1>2, <2>1 DEF DeliveryInv, ClaimsAreReal
<1>13. ClaimsAreReal'
  BY <1>8, <1>9, <1>10, <1>11, <1>12 DEF ClaimsAreReal
<1>. QED BY <1>3, <1>4, <1>5, <1>13 DEF DeliveryInv

\* A send adds an answer of the endpoint to what the sender holds (HTTPSender.Send).
LEMMA SendInv ==
    ASSUME TypeOK, TypeOK', DeliveryInv, NEW w \in Workers, Send(w)
    PROVE  DeliveryInv'
<1>1. PICK c \in sender[w].batch, r \in Response :
        /\ sender' = [sender EXCEPT ![w] =
               [batch |-> sender[w].batch \ {c},
                sent |-> {[of |-> c.of, count |-> c.count, response |-> r]}]]
        /\ response' = [response EXCEPT ![c.of] =
               response[c.of] \cup {[count |-> c.count, response |-> r]}]
  BY DEF Send
<1>2. c.of \in Deliveries
  BY <1>1 DEF TypeOK, Sending, Claim
<1>3. \A d \in Deliveries : response[d] \subseteq response'[d]
  BY <1>1, <1>2 DEF TypeOK
<1>4. [count |-> c.count, response |-> r] \in response'[c.of]
  BY <1>1, <1>2 DEF TypeOK
<1>5. UNCHANGED <<consumer, delivery>>
  BY DEF Send, ingestion
<1>6. OneIngestion'
  BY <1>5, IngestionKept DEF DeliveryInv
<1>7. LockedIsOpen' /\ OutcomesAreGrounded'
  BY <1>3, <1>5 DEF DeliveryInv, LockedIsOpen, OutcomesAreGrounded
<1>8. sender'[w] = [batch |-> sender[w].batch \ {c},
                    sent |-> {[of |-> c.of, count |-> c.count, response |-> r]}]
  BY <1>1 DEF TypeOK
<1>9. \A v \in Workers : v # w => sender'[v] = sender[v]
  BY <1>1 DEF TypeOK
<1>10. \A v \in Workers : \A s \in sender[v].sent : s.of \in Deliveries
  BY DEF TypeOK, Sending, Sent
<1>11. ClaimsAreReal'
  BY <1>1, <1>3, <1>4, <1>5, <1>8, <1>9, <1>10 DEF DeliveryInv, ClaimsAreReal
<1>. QED BY <1>6, <1>7, <1>11 DEF DeliveryInv

\* The lock makes the row open, so what is recorded settles or reschedules it.
LEMMA MarkInv ==
    ASSUME TypeOK, TypeOK', DeliveryInv, NEW w \in Workers, NEW s \in sender[w].sent,
           HoldsLock(s.of),
           delivery' = [delivery EXCEPT ![s.of].status = Outcome(s), ![s.of].locked = FALSE],
           sender' = [sender EXCEPT ![w].sent = {}],
           UNCHANGED <<consumer, response>>
    PROVE  DeliveryInv'
<1>1. s.of \in Deliveries /\ s.count \in Nat /\ s.response \in Response
  BY DEF TypeOK, Sending, Sent
<1>2. delivery[s.of].status \in Open
  BY <1>1 DEF DeliveryInv, LockedIsOpen, HoldsLock
<1>3. /\ delivery'[s.of].status = Outcome(s)
      /\ ~delivery'[s.of].locked
      /\ delivery'[s.of].attempts = delivery[s.of].attempts
  BY <1>1 DEF TypeOK, DeliveryRow
<1>4. \A d \in Deliveries : d # s.of => delivery'[d] = delivery[d]
  BY <1>1 DEF TypeOK
<1>5. OneIngestion'
  BY <1>2, <1>4, IngestionKept DEF DeliveryInv, Open
<1>6. LockedIsOpen'
  BY <1>3, <1>4 DEF DeliveryInv, LockedIsOpen
<1>7. [count |-> s.count, response |-> s.response] \in response[s.of]
  BY DEF DeliveryInv, ClaimsAreReal
<1>8. /\ Outcome(s) = "succeeded" => s.response = "ok"
      /\ Outcome(s) = "failed" => Refuses([count |-> s.count, response |-> s.response])
  BY <1>1, PipelineAssumption DEF Outcome, Response, Refuses
<1>9. /\ Outcome(s) = "succeeded" => \E a \in response[s.of] : a.response = "ok"
      /\ Outcome(s) = "failed" => \E a \in response[s.of] : Refuses(a)
  BY <1>7, <1>8
<1>10. OutcomesAreGrounded'
  BY <1>3, <1>4, <1>9 DEF DeliveryInv, OutcomesAreGrounded
<1>11. \A v \in Workers : /\ sender'[v].batch \subseteq sender[v].batch
                          /\ sender'[v].sent \subseteq sender[v].sent
  BY DEF TypeOK, Sending
<1>12. Outcome(s) # "none"
  BY DEF Outcome
<1>13. \A d \in Deliveries : /\ delivery[d].status # "none" => delivery'[d].status # "none"
                             /\ delivery[d].attempts <= delivery'[d].attempts
  BY <1>3, <1>4, <1>12 DEF TypeOK, DeliveryRow
<1>14. ClaimsAreReal'
  BY <1>11, <1>13, ClaimsKept DEF DeliveryInv
<1>. QED BY <1>5, <1>6, <1>10, <1>14 DEF DeliveryInv

\* Cancel and Retry: rows are rewritten, open or failed ones only.
LEMMA RewriteInv ==
    ASSUME TypeOK, TypeOK', DeliveryInv, UNCHANGED <<consumer, sender, response>>,
           \A d \in Deliveries :
               \/ delivery'[d] = delivery[d]
               \/ /\ delivery[d].status # "none"
                  /\ delivery'[d].status \in {"canceled", "pending"}
                  /\ ~delivery'[d].locked
                  /\ delivery'[d].attempts = delivery[d].attempts
    PROVE  DeliveryInv'
<1>1. OneIngestion'
  BY IngestionKept DEF DeliveryInv
<1>2. LockedIsOpen' /\ OutcomesAreGrounded'
  BY DEF DeliveryInv, LockedIsOpen, OutcomesAreGrounded
<1>3. \A d \in Deliveries : /\ delivery[d].status # "none" => delivery'[d].status # "none"
                            /\ delivery[d].attempts <= delivery'[d].attempts
  BY DEF TypeOK, DeliveryRow
<1>4. ClaimsAreReal'
  BY <1>3, ClaimsKept DEF DeliveryInv
<1>. QED BY <1>1, <1>2, <1>4 DEF DeliveryInv

\* A process that ends drops what it held; the rows stay as they are.
LEMMA ExitKept ==
    ASSUME TypeOK, TypeOK', DeliveryInv, NEW w \in Workers, Exit(w),
           UNCHANGED <<delivery, response>>
    PROVE  DeliveryInv'
<1>1. \A v \in Workers : /\ consumer'[v] \subseteq consumer[v]
                         /\ sender'[v].batch \subseteq sender[v].batch
                         /\ sender'[v].sent \subseteq sender[v].sent
  BY DEF TypeOK, Exit, IdleSender
<1>. QED BY <1>1, DeliveriesKept

\* Every step keeps the delivery invariant.
LEMMA DeliveryStep == ASSUME TypeOK, TypeOK', DeliveryInv, [Next]_vars PROVE DeliveryInv'
<1>1. ASSUME UNCHANGED <<consumer, delivery, sender, response>> PROVE DeliveryInv'
  BY <1>1, DeliveriesKept
<1>2. ASSUME NEW e \in Events, Insert(e) \/ ReleaseStaleLocks(e) PROVE DeliveryInv'
  BY <1>1, <1>2 DEF Insert, ReleaseStaleLocks, ingestion, delivering
<1>3. ASSUME NEW w \in Workers, PublisherStep(w) PROVE DeliveryInv'
  BY <1>1, <1>3 DEF PublisherStep, ClaimPending, Publish, MarkEvent, ingestion, delivering
<1>4. ASSUME NEW w \in Workers, NEW e \in Events, PublishFault(w, e) PROVE DeliveryInv'
  BY <1>1, <1>4 DEF PublishFault, ingestion, delivering
<1>5. ASSUME NEW w \in Workers, CommitIngest(w) PROVE DeliveryInv'
  <2>1. PICK m \in consumer[w] :
          /\ m.pc = "uncommitted" /\ Commit(m)
          /\ consumer' = [consumer EXCEPT ![w] = {[m EXCEPT !.pc = "committed"]}]
    BY <1>5 DEF CommitIngest
  <2>2. UNCHANGED <<sender, response>>
    BY <1>5 DEF CommitIngest
  <2>. QED BY <2>1, <2>2, CommitDeliveryInv
<1>6. ASSUME NEW w \in Workers, consumer' = [consumer EXCEPT ![w] = {}],
             UNCHANGED <<delivery, sender, response>>
      PROVE  DeliveryInv'
  <2>1. \A v \in Workers : consumer'[v] \subseteq consumer[v]
    BY <1>6 DEF TypeOK
  <2>. QED BY <1>6, <2>1, DeliveriesKept
<1>7. ASSUME NEW w \in Workers, Acknowledge(w) PROVE DeliveryInv'
  BY <1>6, <1>7 DEF Acknowledge, delivering
<1>8. ASSUME NEW w \in Workers, IngestFault(w) PROVE DeliveryInv'
  <2>1. UNCHANGED <<sender, response>> /\ consumer' = [consumer EXCEPT ![w] = {}]
    BY <1>8 DEF IngestFault
  <2>2. PICK m \in consumer[w] : UNCHANGED delivery \/ (m.pc = "uncommitted" /\ Commit(m))
    BY <1>8 DEF IngestFault
  <2>. QED BY <1>6, <2>1, <2>2, CommitDeliveryInv
<1>9. ASSUME NEW w \in Workers, ClaimDeliveries(w) PROVE DeliveryInv'
  <2>1. PICK batch \in SUBSET Deliveries : (\A d \in batch : Claimable(d)) /\ Claimed(w, batch)
    BY <1>9 DEF ClaimDeliveries
  <2>2. sender[w] = IdleSender /\ UNCHANGED <<consumer, response>>
    BY <1>9 DEF ClaimDeliveries, ingestion
  <2>. QED BY <2>1, <2>2, ClaimedInv
<1>10. ASSUME NEW w \in Workers, NEW d \in Deliveries, ClaimStale(w, d) PROVE DeliveryInv'
  <2>1. {d} \in SUBSET Deliveries /\ (\A x \in {d} : Claimable(x)) /\ Claimed(w, {d})
    BY <1>10 DEF ClaimStale
  <2>2. sender[w] = IdleSender /\ UNCHANGED <<consumer, response>>
    BY <1>10 DEF ClaimStale, ingestion
  <2>. QED BY <2>1, <2>2, ClaimedInv
<1>11. ASSUME NEW w \in Workers, MarkDelivery(w) PROVE DeliveryInv'
  BY <1>11, MarkInv, ExitKept DEF MarkDelivery, ingestion
<1>12. ASSUME NEW w \in Workers, Crash(w) PROVE DeliveryInv'
  BY <1>12, ExitKept DEF Crash
<1>13. ASSUME NEW p \in Endpoints, Cancel(p) PROVE DeliveryInv'
  <2>1. \A d \in Deliveries : /\ Canceled(delivery[d]).status = "canceled"
                              /\ ~Canceled(delivery[d]).locked
                              /\ Canceled(delivery[d]).attempts = delivery[d].attempts
    BY DEF TypeOK, DeliveryRow, Canceled
  <2>2. UNCHANGED <<consumer, sender, response>>
    BY <1>13 DEF Cancel, ingestion
  <2>3. \A d \in Deliveries : \/ delivery'[d] = delivery[d]
                              \/ /\ delivery[d].status # "none"
                                 /\ delivery'[d] = Canceled(delivery[d])
    BY <1>13 DEF Cancel, Open
  <2>. QED BY <2>1, <2>2, <2>3, RewriteInv
<1>14. ASSUME NEW d \in Deliveries, Retry(d) PROVE DeliveryInv'
  <2>1. UNCHANGED <<consumer, sender, response>>
    BY <1>14 DEF Retry, ingestion
  <2>2. /\ delivery'[d].status = "pending"
        /\ ~delivery'[d].locked
        /\ delivery'[d].attempts = delivery[d].attempts
        /\ delivery[d].status # "none"
    BY <1>14 DEF Retry, TypeOK, DeliveryRow
  <2>3. \A x \in Deliveries : x # d => delivery'[x] = delivery[x]
    BY <1>14 DEF Retry, TypeOK
  <2>. QED BY <2>1, <2>2, <2>3, RewriteInv
<1>15. ASSUME EndpointApi PROVE DeliveryInv'
  BY <1>1, <1>13, <1>14, <1>15 DEF EndpointApi, Update, Disable, DeleteFault, ingestion
<1>16. CASE UNCHANGED vars
  BY <1>1, <1>16 DEF vars
<1>. QED BY <1>2, <1>3, <1>4, <1>5, <1>7, <1>8, <1>9, <1>10, <1>11, <1>12, <1>15, <1>16,
            ReceiveInv, CreateDeliveriesInv, SendInv
         DEF Next, ConsumerStep, SenderStep, Failure

(***************************************************************************)
(* What is on its way was committed                                        *)
(***************************************************************************)
\* Nothing is on its way yet.
LEMMA OnlyCommittedInit == Init => OnlyCommitted
BY DEF Init, OnlyCommitted, IdlePublisher

\* An outbox row, once inserted, stays.
LEMMA OutboxStays ==
    ASSUME TypeOK, [Next]_vars, NEW e \in Events, outbox[e].status # "none"
    PROVE  outbox'[e].status # "none"
<1>1. ASSUME UNCHANGED outbox PROVE outbox'[e].status # "none"
  BY <1>1
<1>2. ASSUME NEW x \in Events, Insert(x) \/ ReleaseStaleLocks(x) PROVE outbox'[e].status # "none"
  BY <1>2 DEF TypeOK, OutboxRow, Insert, ReleaseStaleLocks
<1>3. ASSUME NEW w \in Workers, ClaimPending(w) PROVE outbox'[e].status # "none"
  BY <1>3 DEF TypeOK, OutboxRow, ClaimPending
<1>4. ASSUME NEW w \in Workers, MarkEvent(w) PROVE outbox'[e].status # "none"
  BY <1>4 DEF TypeOK, OutboxRow, Publishing, MarkEvent, Marked
<1>5. ASSUME NEW w \in Workers, NEW x \in Events, Publish(w, x) \/ PublishFault(w, x)
      PROVE  outbox'[e].status # "none"
  BY <1>1, <1>5 DEF Publish, PublishFault
<1>6. ASSUME NEW w \in Workers, ConsumerStep(w) \/ IngestFault(w) \/ Crash(w)
      PROVE  outbox'[e].status # "none"
  BY <1>1, <1>6 DEF ConsumerStep, Receive, CreateDeliveries, CommitIngest, Acknowledge, IngestFault,
     Crash, publishing
<1>7. ASSUME NEW w \in Workers, SenderStep(w) \/ (\E d \in Deliveries : ClaimStale(w, d))
      PROVE  outbox'[e].status # "none"
  BY <1>1, <1>7 DEF SenderStep, ClaimDeliveries, Send, MarkDelivery, ClaimStale, publishing
<1>8. ASSUME EndpointApi PROVE outbox'[e].status # "none"
  BY <1>1, <1>8 DEF EndpointApi, Update, Disable, Cancel, DeleteFault, Retry, publishing
<1>9. CASE UNCHANGED vars
  BY <1>1, <1>9 DEF vars
<1>. QED BY <1>2, <1>3, <1>4, <1>5, <1>6, <1>7, <1>8, <1>9 DEF Next, PublisherStep, Failure

\* Each role takes from the stage before it (ClaimPendingEvents, Consumer.Run).
LEMMA OnlyCommittedStep ==
    ASSUME TypeOK, TypeOK', OnlyCommitted, [Next]_vars
    PROVE  OnlyCommitted'
<1>1. \A e \in Events : outbox[e].status # "none" => outbox'[e].status # "none"
  BY OutboxStays
<1>2. \A w \in Workers : /\ publisher[w].batch \subseteq Events
                         /\ \A did \in publisher[w].done : did.ev \in Events
                         /\ \A m \in consumer[w] : m.ev \in Events
  BY DEF TypeOK, Publishing, Handling
<1>3. ASSUME \A e \in Events : stream'[e].status # "absent" =>
                                 stream[e].status # "absent" \/ outbox[e].status # "none",
             \A w \in Workers :
                /\ \A e \in publisher'[w].batch :
                      e \in publisher[w].batch \/ (e \in Events /\ outbox[e].status # "none")
                /\ \A did \in publisher'[w].done :
                      \/ did \in publisher[w].done
                      \/ did.ev \in Events /\ outbox[did.ev].status # "none"
                /\ \A m \in consumer'[w] :
                      m \in consumer[w] \/ (m.ev \in Events /\ outbox[m.ev].status # "none")
      PROVE  OnlyCommitted'
  BY <1>1, <1>2, <1>3 DEF OnlyCommitted
<1>4. ASSUME UNCHANGED <<stream, publisher, consumer>> PROVE OnlyCommitted'
  BY <1>3, <1>4
<1>5. ASSUME NEW w \in Workers, Exit(w), UNCHANGED stream PROVE OnlyCommitted'
  BY <1>3, <1>5 DEF TypeOK, Exit, IdlePublisher
<1>6. ASSUME NEW w \in Workers, ClaimPending(w) PROVE OnlyCommitted'
  <2>1. PICK batch \in SUBSET {e \in Events : outbox[e].status = "pending" /\ ~outbox[e].locked} :
          publisher' = [publisher EXCEPT ![w].batch = batch]
    BY <1>6 DEF ClaimPending
  <2>2. \A v \in Workers : publisher'[v].done = publisher[v].done
    BY <2>1 DEF TypeOK, Publishing
  <2>3. \A v \in Workers : publisher'[v].batch = IF v = w THEN batch ELSE publisher[v].batch
    BY <2>1 DEF TypeOK, Publishing
  <2>4. UNCHANGED <<stream, consumer>>
    BY <1>6 DEF ClaimPending, ingestion
  <2>. QED BY <1>3, <2>2, <2>3, <2>4
<1>7. ASSUME NEW w \in Workers, NEW e \in publisher[w].batch, NEW ok, PublisherDid(w, e, ok)
      PROVE  \A v \in Workers :
                /\ publisher'[v].batch \subseteq publisher[v].batch
                /\ \A did \in publisher'[v].done : did \in publisher[v].done \/ did.ev = e
  BY <1>7 DEF PublisherDid, TypeOK
<1>8. ASSUME NEW w \in Workers, NEW e \in Events, Publish(w, e) \/ PublishFault(w, e)
      PROVE  OnlyCommitted'
  <2>1. e \in publisher[w].batch /\ UNCHANGED consumer
    BY <1>8 DEF Publish, PublishFault, ingestion
  <2>2. outbox[e].status # "none"
    BY <2>1 DEF OnlyCommitted
  <2>3. \A x \in Events : x # e => stream'[x] = stream[x]
    BY <1>8 DEF Publish, PublishFault, Stored, TypeOK
  <2>4. \E ok \in BOOLEAN : PublisherDid(w, e, ok)
    BY <1>8 DEF Publish, PublishFault
  <2>. QED BY <1>3, <1>7, <2>1, <2>2, <2>3, <2>4
<1>9. ASSUME NEW w \in Workers, MarkEvent(w) PROVE OnlyCommitted'
  <2>1. \A v \in Workers : /\ publisher'[v].batch = publisher[v].batch
                           /\ publisher'[v].done \subseteq publisher[v].done
    BY <1>9 DEF MarkEvent, TypeOK, Publishing
  <2>. QED BY <1>3, <1>9, <2>1 DEF MarkEvent, ingestion
<1>10. ASSUME NEW w \in Workers, NEW e \in Events, Receive(w, e) PROVE OnlyCommitted'
  <2>1. \A v \in Workers : \A m \in consumer'[v] : m \in consumer[v] \/ m.ev = e
    BY <1>10 DEF Receive, TypeOK
  <2>2. \A x \in Events : stream'[x].status = stream[x].status
    BY <1>10 DEF Receive, TypeOK, Message
  <2>3. outbox[e].status # "none"
    BY <1>10 DEF Receive, OnlyCommitted
  <2>. QED BY <1>3, <1>10, <2>1, <2>2, <2>3 DEF Receive, publishing
<1>11. ASSUME NEW w \in Workers, CreateDeliveries(w) PROVE OnlyCommitted'
  <2>1. PICK m \in consumer[w], to \in SUBSET Endpoints :
          consumer' = [consumer EXCEPT ![w] = {[ev |-> m.ev, pc |-> "uncommitted", to |-> to]}]
    BY <1>11 DEF CreateDeliveries
  <2>2. \A v \in Workers : \A o \in consumer'[v] : o \in consumer[v] \/ o.ev = m.ev
    BY <2>1 DEF TypeOK
  <2>3. m.ev \in Events /\ outbox[m.ev].status # "none"
    BY <1>2 DEF OnlyCommitted
  <2>. QED BY <1>3, <1>11, <2>2, <2>3 DEF CreateDeliveries, publishing
<1>12. ASSUME NEW w \in Workers, CommitIngest(w) PROVE OnlyCommitted'
  <2>1. PICK m \in consumer[w] : consumer' = [consumer EXCEPT ![w] = {[m EXCEPT !.pc = "committed"]}]
    BY <1>12 DEF CommitIngest
  <2>2. [m EXCEPT !.pc = "committed"].ev = m.ev
    BY DEF TypeOK, Handling
  <2>3. \A v \in Workers : \A o \in consumer'[v] : o \in consumer[v] \/ o.ev = m.ev
    BY <2>1, <2>2 DEF TypeOK
  <2>4. m.ev \in Events /\ outbox[m.ev].status # "none"
    BY <1>2 DEF OnlyCommitted
  <2>. QED BY <1>3, <1>12, <2>3, <2>4 DEF CommitIngest, publishing
<1>13. ASSUME NEW w \in Workers, Acknowledge(w) \/ IngestFault(w) PROVE OnlyCommitted'
  <2>1. \A v \in Workers : consumer'[v] \subseteq consumer[v]
    BY <1>13 DEF Acknowledge, IngestFault, TypeOK
  <2>2. \A e \in Events : stream'[e].status # "absent" => stream[e].status # "absent" \/ outbox[e].status # "none"
    <3>1. CASE UNCHANGED stream
      BY <3>1
    <3>2. ASSUME NEW m \in consumer[w], stream' = [stream EXCEPT ![m.ev].status = "acked"],
                 NEW e \in Events
          PROVE  stream'[e].status # "absent" => stream[e].status # "absent" \/ outbox[e].status # "none"
      <4>1. CASE e = m.ev
        BY <4>1 DEF OnlyCommitted
      <4>2. CASE e # m.ev
        BY <1>2, <3>2, <4>2 DEF TypeOK
      <4>. QED BY <4>1, <4>2
    <3>. QED BY <1>13, <3>1, <3>2 DEF Acknowledge, IngestFault, Nak
  <2>. QED BY <1>3, <1>13, <2>1, <2>2 DEF Acknowledge, IngestFault, publishing
<1>14. ASSUME NEW w \in Workers, MarkDelivery(w) \/ Crash(w) PROVE OnlyCommitted'
  BY <1>4, <1>5, <1>14 DEF MarkDelivery, Crash, publishing, ingestion
<1>15. ASSUME NEW w \in Workers,
              ClaimDeliveries(w) \/ Send(w) \/ (\E d \in Deliveries : ClaimStale(w, d))
       PROVE  OnlyCommitted'
  BY <1>4, <1>15 DEF ClaimDeliveries, Send, ClaimStale, publishing, ingestion
<1>16. ASSUME NEW e \in Events, Insert(e) \/ ReleaseStaleLocks(e) PROVE OnlyCommitted'
  BY <1>4, <1>16 DEF Insert, ReleaseStaleLocks, ingestion
<1>17. ASSUME EndpointApi PROVE OnlyCommitted'
  BY <1>4, <1>17 DEF EndpointApi, Update, Disable, Cancel, DeleteFault, Retry, publishing, ingestion
<1>18. CASE UNCHANGED vars
  BY <1>4, <1>18 DEF vars
<1>. QED BY <1>6, <1>8, <1>9, <1>10, <1>11, <1>12, <1>13, <1>14, <1>15, <1>16, <1>17, <1>18
         DEF Next, PublisherStep, ConsumerStep, SenderStep, Failure

(***************************************************************************)
(* One request per counted attempt                                         *)
(***************************************************************************)
\* Nothing has been tried yet.
LEMMA RequestsInit == Init => RequestsInv
BY DEF Init, RequestsInv, NoneUntried, AnswersCounted, ClaimsUnanswered, IdleSender

\* Steps that claim nothing and send nothing.
LEMMA RequestsKept ==
    ASSUME TypeOK, RequestsInv, UNCHANGED response,
           \A w \in Workers : sender'[w].batch \subseteq sender[w].batch,
           \A d \in Deliveries : /\ delivery'[d].attempts = delivery[d].attempts
                                 /\ delivery'[d].status = "none" => delivery[d].status = "none"
    PROVE  RequestsInv'
<1>1. NoneUntried' /\ AnswersCounted'
  BY DEF RequestsInv, NoneUntried, AnswersCounted
<1>2. ClaimsUnanswered'
  BY DEF RequestsInv, ClaimsUnanswered
<1>. QED BY <1>1, <1>2 DEF RequestsInv

\* A claim takes a number no other claim or answer has (claimWebhookDeliveries).
LEMMA RequestsClaimed ==
    ASSUME TypeOK, DeliveryInv, RequestsInv, NEW w \in Workers, NEW batch \in SUBSET Deliveries,
           \A d \in batch : Claimable(d), Claimed(w, batch), UNCHANGED response
    PROVE  RequestsInv'
<1>1. \A d \in Deliveries :
         /\ delivery'[d].status = delivery[d].status
         /\ delivery'[d].attempts = IF d \in batch THEN delivery[d].attempts + 1
                                    ELSE delivery[d].attempts
  BY DEF Claimed, TypeOK, DeliveryRow
<1>2. \A d \in Deliveries : delivery[d].attempts \in Nat
  BY DEF TypeOK, DeliveryRow
<1>3. NoneUntried'
  BY <1>1 DEF RequestsInv, NoneUntried, Claimable, Open
<1>4. \A d \in Deliveries : \A a \in response[d] : a.count \in Nat
  BY DEF TypeOK, EndpointAnswer
<1>5. AnswersCounted'
  <2>1. SUFFICES ASSUME NEW d \in Deliveries, NEW a \in response[d]
                 PROVE  a.count \in 1..delivery'[d].attempts
    BY DEF AnswersCounted
  <2>2. a.count \in 1..delivery[d].attempts
    BY DEF RequestsInv, AnswersCounted
  <2>. QED BY <1>1, <1>2, <2>2
<1>6. sender'[w].batch = {[of |-> d, count |-> delivery[d].attempts + 1] : d \in batch}
  BY DEF Claimed, TypeOK, Sending
<1>7. \A v \in Workers : v # w => sender'[v].batch = sender[v].batch
  BY DEF Claimed, TypeOK
<1>8. ASSUME NEW c \in sender'[w].batch
      PROVE  /\ c.of \in Deliveries /\ c.count = delivery[c.of].attempts + 1
             /\ c.count # 0
             /\ \A a \in response[c.of] : a.count # c.count
  <2>1. c.of \in Deliveries /\ c.count = delivery[c.of].attempts + 1
    BY <1>6
  <2>2. \A a \in response[c.of] : a.count <= delivery[c.of].attempts
    BY <2>1 DEF RequestsInv, AnswersCounted
  <2>. QED BY <1>2, <1>4, <2>1, <2>2
<1>9. ASSUME NEW v \in Workers, v # w, NEW c \in sender[v].batch
      PROVE  c.count \in Nat /\ c.of \in Deliveries /\ c.count <= delivery[c.of].attempts
  BY DEF DeliveryInv, ClaimsAreReal, TypeOK, Sending, Claim
<1>10. ASSUME NEW c \in sender'[w].batch, NEW v \in Workers, v # w, NEW o \in sender[v].batch,
              c.of = o.of
       PROVE  c.count # o.count
  <2>1. c.of \in Deliveries /\ c.count = delivery[c.of].attempts + 1
    BY <1>8, <1>10
  <2>2. o.count \in Nat /\ o.count <= delivery[c.of].attempts
    BY <1>9, <1>10
  <2>. QED BY <1>2, <2>1, <2>2
<1>11. ClaimsUnanswered'
  <2>1. SUFFICES ASSUME NEW u \in Workers, NEW c \in sender'[u].batch
                 PROVE  /\ c.count # 0
                        /\ \A a \in response[c.of] : a.count # c.count
                        /\ \A v \in Workers : \A o \in sender'[v].batch :
                              c.of = o.of /\ c.count = o.count => u = v
    BY DEF ClaimsUnanswered
  <2>2. CASE u = w
    BY <1>7, <1>8, <1>10, <2>2
  <2>3. CASE u # w
    <3>1. c \in sender[u].batch
      BY <1>7, <2>3
    <3>2. \A o \in sender'[w].batch : c.of = o.of => c.count # o.count
      BY <1>10, <2>3, <3>1
    <3>3. \A v \in Workers : \A o \in sender'[v].batch :
              c.of = o.of /\ c.count = o.count => u = v
      BY <1>7, <3>1, <3>2 DEF RequestsInv, ClaimsUnanswered
    <3>. QED BY <3>1, <3>3 DEF RequestsInv, ClaimsUnanswered
  <2>. QED BY <2>2, <2>3
<1>. QED BY <1>3, <1>5, <1>11 DEF RequestsInv

\* The answer is to the claim that the sender gives up (HTTPSender.Send).
LEMMA RequestsSent ==
    ASSUME TypeOK, DeliveryInv, RequestsInv, NEW w \in Workers, NEW c \in sender[w].batch,
           NEW r \in Response, UNCHANGED delivery,
           sender' = [sender EXCEPT ![w] =
               [batch |-> sender[w].batch \ {c},
                sent |-> {[of |-> c.of, count |-> c.count, response |-> r]}]],
           response' = [response EXCEPT ![c.of] =
               response[c.of] \cup {[count |-> c.count, response |-> r]}]
    PROVE  RequestsInv'
<1>1. /\ c \in Claim /\ c.of \in Deliveries /\ c.count \in Nat
      /\ delivery[c.of].attempts \in Nat
  BY DEF TypeOK, Sending, Claim, DeliveryRow
<1>2. c.count \in 1..delivery[c.of].attempts
  BY <1>1 DEF DeliveryInv, ClaimsAreReal, RequestsInv, ClaimsUnanswered
<1>3. \A d \in Deliveries : \A a \in response'[d] :
         a \in response[d] \/ (d = c.of /\ a.count = c.count)
  BY <1>1 DEF TypeOK
<1>4. NoneUntried' /\ AnswersCounted'
  BY <1>2, <1>3 DEF RequestsInv, NoneUntried, AnswersCounted
<1>5. \A v \in Workers : \A o \in sender'[v].batch : o \in sender[v].batch /\ (v = w => o # c)
  BY DEF TypeOK
<1>6. ASSUME NEW v \in Workers, NEW o \in sender'[v].batch PROVE o.of # c.of \/ o.count # c.count
  <2>1. SUFFICES ASSUME o.of = c.of, o.count = c.count PROVE FALSE
    OBVIOUS
  <2>2. v = w
    BY <1>5, <2>1 DEF RequestsInv, ClaimsUnanswered
  <2>3. o \in Claim
    BY <1>5 DEF TypeOK, Sending
  <2>4. o = c
    BY <1>1, <2>1, <2>3 DEF Claim
  <2>. QED BY <1>5, <2>2, <2>4
<1>7. \A v \in Workers : \A o \in sender'[v].batch : o.of \in Deliveries
  BY <1>5 DEF TypeOK, Sending, Claim
<1>8. \A v \in Workers : \A o \in sender'[v].batch :
         /\ o.count # 0
         /\ \A a \in response'[o.of] : a.count # o.count
  BY <1>3, <1>5, <1>6, <1>7 DEF RequestsInv, ClaimsUnanswered
<1>9. ClaimsUnanswered'
  BY <1>5, <1>8 DEF RequestsInv, ClaimsUnanswered
<1>. QED BY <1>4, <1>9 DEF RequestsInv

\* Recording an attempt, cancelling and retrying leave the count alone.
LEMMA MarkedRow ==
    ASSUME TypeOK, NEW w \in Workers, NEW s \in sender[w].sent,
           delivery' = [delivery EXCEPT ![s.of].status = Outcome(s), ![s.of].locked = FALSE]
    PROVE  /\ s.of \in Deliveries
           /\ delivery'[s.of].status = Outcome(s)
           /\ delivery'[s.of].attempts = delivery[s.of].attempts
           /\ \A d \in Deliveries : d # s.of => delivery'[d] = delivery[d]
<1>1. s.of \in Deliveries
  BY DEF TypeOK, Sending, Sent
<1>. QED BY <1>1 DEF TypeOK, DeliveryRow

LEMMA CanceledRow ==
    ASSUME TypeOK, NEW p \in Endpoints, Cancel(p), NEW d \in Deliveries
    PROVE  /\ delivery'[d].status = IF d[2] = p /\ delivery[d].status \in Open THEN "canceled"
                                    ELSE delivery[d].status
           /\ delivery'[d].attempts = delivery[d].attempts
BY DEF Cancel, Canceled, TypeOK, DeliveryRow

LEMMA RetriedRow ==
    ASSUME TypeOK, NEW d \in Deliveries, Retry(d)
    PROVE  /\ delivery[d].status = "failed" /\ delivery'[d].status = "pending"
           /\ delivery'[d].attempts = delivery[d].attempts
           /\ \A x \in Deliveries : x # d => delivery'[x] = delivery[x]
BY DEF Retry, TypeOK, DeliveryRow

\* Every step keeps the requests apart.
LEMMA RequestsStep ==
    ASSUME TypeOK, DeliveryInv, RequestsInv, [Next]_vars
    PROVE  RequestsInv'
<1>1. ASSUME UNCHANGED <<delivery, response>>,
             \A w \in Workers : sender'[w].batch \subseteq sender[w].batch
      PROVE  RequestsInv'
  BY <1>1, RequestsKept
<1>2. ASSUME UNCHANGED <<delivery, sender, response>> PROVE RequestsInv'
  BY <1>1, <1>2
<1>3. ASSUME NEW w \in Workers, Exit(w), UNCHANGED <<delivery, response>> PROVE RequestsInv'
  <2>1. \A v \in Workers : sender'[v].batch \subseteq sender[v].batch
    BY <1>3 DEF TypeOK, Exit, IdleSender
  <2>. QED BY <1>1, <1>3, <2>1
<1>4. ASSUME NEW w \in Workers, NEW m \in consumer[w], m.pc = "uncommitted", Commit(m),
             UNCHANGED <<sender, response>>
      PROVE  RequestsInv'
  <2>1. \A d \in Deliveries : /\ delivery'[d].attempts = delivery[d].attempts
                              /\ delivery'[d].status = "none" => delivery[d].status = "none"
    BY <1>4, CommitFresh DEF RequestsInv, NoneUntried
  <2>. QED BY <1>4, <2>1, RequestsKept
<1>5. ASSUME NEW w \in Workers, CommitIngest(w) \/ IngestFault(w) PROVE RequestsInv'
  BY <1>2, <1>4, <1>5 DEF CommitIngest, IngestFault
<1>6. ASSUME NEW w \in Workers, ClaimDeliveries(w) PROVE RequestsInv'
  <2>1. PICK batch \in SUBSET Deliveries : (\A d \in batch : Claimable(d)) /\ Claimed(w, batch)
    BY <1>6 DEF ClaimDeliveries
  <2>2. UNCHANGED response
    BY <1>6 DEF ClaimDeliveries
  <2>. QED BY <2>1, <2>2, RequestsClaimed
<1>7. ASSUME NEW w \in Workers, NEW d \in Deliveries, ClaimStale(w, d) PROVE RequestsInv'
  <2>1. {d} \in SUBSET Deliveries /\ (\A x \in {d} : Claimable(x)) /\ Claimed(w, {d})
    BY <1>7 DEF ClaimStale
  <2>2. UNCHANGED response
    BY <1>7 DEF ClaimStale
  <2>. QED BY <2>1, <2>2, RequestsClaimed
<1>8. ASSUME NEW w \in Workers, Send(w) PROVE RequestsInv'
  BY <1>8, RequestsSent DEF Send
<1>9. ASSUME NEW w \in Workers, MarkDelivery(w) PROVE RequestsInv'
  <2>1. PICK s \in sender[w].sent :
          \/ /\ delivery' = [delivery EXCEPT ![s.of].status = Outcome(s), ![s.of].locked = FALSE]
             /\ sender' = [sender EXCEPT ![w].sent = {}]
             /\ UNCHANGED response
          \/ Exit(w) /\ UNCHANGED <<delivery, response>>
    BY <1>9 DEF MarkDelivery
  <2>2. ASSUME delivery' = [delivery EXCEPT ![s.of].status = Outcome(s), ![s.of].locked = FALSE],
               sender' = [sender EXCEPT ![w].sent = {}], UNCHANGED response
        PROVE  RequestsInv'
    <3>. Outcome(s) # "none"
      BY DEF Outcome
    <3>1. \A d \in Deliveries : /\ delivery'[d].attempts = delivery[d].attempts
                                /\ delivery'[d].status = "none" => delivery[d].status = "none"
      BY <2>2, MarkedRow
    <3>2. \A v \in Workers : sender'[v].batch \subseteq sender[v].batch
      BY <2>2 DEF TypeOK, Sending
    <3>. QED BY <2>2, <3>1, <3>2, RequestsKept
  <2>. QED BY <1>3, <2>1, <2>2
<1>10. ASSUME NEW w \in Workers, Crash(w) PROVE RequestsInv'
  BY <1>3, <1>10 DEF Crash
<1>11. ASSUME NEW p \in Endpoints, Cancel(p) PROVE RequestsInv'
  <2>1. UNCHANGED <<sender, response>>
    BY <1>11 DEF Cancel
  <2>. QED BY <1>11, <2>1, CanceledRow, RequestsKept
<1>12. ASSUME NEW d \in Deliveries, Retry(d) PROVE RequestsInv'
  <2>1. UNCHANGED <<sender, response>>
    BY <1>12 DEF Retry
  <2>. QED BY <1>12, <2>1, RetriedRow, RequestsKept
<1>13. ASSUME EndpointApi PROVE RequestsInv'
  BY <1>2, <1>11, <1>12, <1>13 DEF EndpointApi, Update, Disable, DeleteFault
<1>14. ASSUME NEW w \in Workers,
              \/ PublisherStep(w) \/ CreateDeliveries(w) \/ Acknowledge(w)
              \/ \E e \in Events : Receive(w, e) \/ PublishFault(w, e)
       PROVE  RequestsInv'
  BY <1>2, <1>14 DEF PublisherStep, ClaimPending, Publish, MarkEvent, CreateDeliveries, Acknowledge,
     Receive, PublishFault, delivering
<1>15. ASSUME NEW e \in Events, Insert(e) \/ ReleaseStaleLocks(e) PROVE RequestsInv'
  BY <1>2, <1>15 DEF Insert, ReleaseStaleLocks, delivering
<1>16. CASE UNCHANGED vars
  BY <1>2, <1>16 DEF vars
<1>. QED BY <1>5, <1>6, <1>7, <1>8, <1>9, <1>10, <1>13, <1>14, <1>15, <1>16
         DEF Next, ConsumerStep, SenderStep, Failure

(***************************************************************************)
(* Theorems                                                                *)
(***************************************************************************)
\* Together: the invariant is established and kept by every step.
THEOREM PipelineInductive == Spec => []PipelineInv
<1>1. Init => PipelineInv
  BY TypeInit, HandoverInit, DeliveryInit, OnlyCommittedInit, RequestsInit DEF PipelineInv
<1>2. PipelineInv /\ [Next]_vars => PipelineInv'
  BY TypeStep, HandoverStep, DeliveryStep, OnlyCommittedStep, RequestsStep DEF PipelineInv
<1>. QED BY <1>1, <1>2, PTL DEF Spec

\* Every reachable state of outbox, stream, consumers and senders is well
\* formed: in particular a message is offered at most MaxDeliver times.
THEOREM PipelineTypeCorrect == Spec => []TypeOK
<1>1. PipelineInv => TypeOK
  BY DEF PipelineInv
<1>. QED BY <1>1, PipelineInductive, PTL

\* No crash, lost acknowledgement or duplicate loses an event committed to
\* the outbox (publishBatch, Consumer.Run).
THEOREM EventsNeverLost == Spec => []NoEventLost
<1>1. PipelineInv => NoEventLost
  <2>. SUFFICES ASSUME PipelineInv, NEW e \in Events, outbox[e].status # "none",
                       outbox[e].status # "pending"
                PROVE  stream[e].status = "stored" \/ e \in webhookEvents
    BY DEF NoEventLost
  <2>1. outbox[e].status = "published" /\ stream[e].status \in {"absent", "stored", "acked"}
    BY DEF PipelineInv, TypeOK, OutboxRow, Message
  <2>. QED BY <2>1 DEF PipelineInv, Handover, PublishedIsStored, AckedIsIngested
<1>. QED BY <1>1, PipelineInductive, PTL

\* A recorded success was accepted by the endpoint and a recorded failure
\* refused or exhausted, however many workers send the delivery (deliverBatch).
THEOREM OutcomesTrue == Spec => []OutcomesAreGrounded
<1>1. PipelineInv => OutcomesAreGrounded
  BY DEF PipelineInv, DeliveryInv
<1>. QED BY <1>1, PipelineInductive, PTL

\* What a step may do to a settled delivery: nothing, or the customer's retry.
StaysSettled(d) ==
    delivery[d].status \in Settled =>
        \/ delivery'[d].status = delivery[d].status
        \/ delivery[d].status = "failed" /\ delivery'[d].status = "pending"

\* No step changes a settled delivery, except Retry of a failed one.
LEMMA SettledStep ==
    ASSUME PipelineInv, [Next]_vars, NEW d \in Deliveries
    PROVE  StaysSettled(d)
<1>. USE DEF StaysSettled
<1>1. TypeOK /\ DeliveryInv
  BY DEF PipelineInv
<1>2. ASSUME UNCHANGED delivery PROVE StaysSettled(d)
  BY <1>2
<1>3. ASSUME NEW w \in Workers, NEW m \in consumer[w], m.pc = "uncommitted", Commit(m)
      PROVE  StaysSettled(d)
  BY <1>1, <1>3, CommitFresh DEF Settled
<1>4. ASSUME NEW w \in Workers, CommitIngest(w) \/ IngestFault(w) PROVE StaysSettled(d)
  BY <1>2, <1>3, <1>4 DEF CommitIngest, IngestFault
<1>5. ASSUME NEW w \in Workers, NEW batch \in SUBSET Deliveries, Claimed(w, batch)
      PROVE  StaysSettled(d)
  BY <1>1, <1>5 DEF TypeOK, DeliveryRow, Claimed
<1>6. ASSUME NEW w \in Workers, ClaimDeliveries(w) \/ (\E x \in Deliveries : ClaimStale(w, x))
      PROVE  StaysSettled(d)
  BY <1>5, <1>6 DEF ClaimDeliveries, ClaimStale
<1>7. ASSUME NEW w \in Workers, MarkDelivery(w) PROVE StaysSettled(d)
  <2>1. PICK s \in sender[w].sent :
          \/ UNCHANGED delivery
          \/ /\ HoldsLock(s.of)
             /\ delivery' = [delivery EXCEPT ![s.of].status = Outcome(s), ![s.of].locked = FALSE]
    BY <1>7 DEF MarkDelivery
  <2>2. s.of \in Deliveries
    BY <1>1, <2>1 DEF TypeOK, Sending, Sent
  <2>3. HoldsLock(s.of) => delivery[s.of].status \notin Settled
    BY <1>1, <2>2 DEF DeliveryInv, LockedIsOpen, HoldsLock, Open, Settled
  <2>4. CASE d = s.of
    BY <2>1, <2>3, <2>4
  <2>5. CASE d # s.of
    BY <1>1, <2>1, <2>2, <2>5 DEF TypeOK
  <2>. QED BY <2>4, <2>5
<1>8. ASSUME NEW p \in Endpoints, Cancel(p) PROVE StaysSettled(d)
  BY <1>8 DEF Cancel, Open, Settled
<1>9. ASSUME NEW x \in Deliveries, Retry(x) PROVE StaysSettled(d)
  <2>1. d # x => delivery'[d] = delivery[d]
    BY <1>1, <1>9 DEF TypeOK, Retry
  <2>2. delivery[x].status = "failed" /\ delivery'[x].status = "pending"
    BY <1>1, <1>9 DEF TypeOK, DeliveryRow, Retry
  <2>. QED BY <2>1, <2>2
<1>10. ASSUME EndpointApi PROVE StaysSettled(d)
  BY <1>2, <1>8, <1>9, <1>10 DEF EndpointApi, Update, Disable, DeleteFault
<1>11. ASSUME NEW w \in Workers,
              \/ PublisherStep(w) \/ Send(w) \/ Crash(w) \/ CreateDeliveries(w) \/ Acknowledge(w)
              \/ \E e \in Events : Receive(w, e) \/ PublishFault(w, e)
       PROVE  StaysSettled(d)
  BY <1>2, <1>11 DEF PublisherStep, ClaimPending, Publish, MarkEvent, Send, Crash, CreateDeliveries,
     Acknowledge, Receive, PublishFault, delivering
<1>12. ASSUME NEW e \in Events, Insert(e) \/ ReleaseStaleLocks(e) PROVE StaysSettled(d)
  BY <1>2, <1>12 DEF Insert, ReleaseStaleLocks, delivering
<1>13. CASE UNCHANGED vars
  BY <1>2, <1>13 DEF vars
<1>. HIDE DEF StaysSettled
<1>. QED BY <1>4, <1>6, <1>7, <1>10, <1>11, <1>12, <1>13
         DEF Next, ConsumerStep, SenderStep, Failure

\* A worker whose send came late never overwrites a settled delivery: only
\* the customer's Retry of a failed one reopens it (the locked_by fence).
THEOREM SettledStaysSettled == Spec => SettledIsFinal
<1>1. PipelineInv /\ [Next]_vars => [\A d \in Deliveries : StaysSettled(d)]_vars
  BY SettledStep
<1>. QED BY <1>1, PipelineInductive, PTL DEF Spec, SettledIsFinal, StaysSettled

(***************************************************************************)
(* The pipeline implements the customer's contract                         *)
(***************************************************************************)
\* Initially nothing is stored, known, tried or answered.
LEMMA ContractInit == Init => Contract!Init
BY DEF Init, Contract!Init, Contract!Deliveries, Deliveries, OutcomeOf, Open

\* What the contract sees of a state.
ContractSees ==
    <<{e \in Events : outbox[e].status # "none"}, webhookEvents,
      [d \in Deliveries |-> OutcomeOf(delivery[d])],
      [d \in Deliveries |-> delivery[d].attempts], response>>

\* A step of the pipeline is a step of the contract, or the contract does not see it.
Refines == Contract!Next \/ UNCHANGED ContractSees

LEMMA Unseen ==
    ASSUME UNCHANGED <<webhookEvents, response>>,
           \A e \in Events : (outbox'[e].status = "none") <=> (outbox[e].status = "none"),
           \A d \in Deliveries : /\ OutcomeOf(delivery'[d]) = OutcomeOf(delivery[d])
                                 /\ delivery'[d].attempts = delivery[d].attempts
    PROVE  Refines
<1>1. {e \in Events : outbox'[e].status # "none"} = {e \in Events : outbox[e].status # "none"}
  OBVIOUS
<1>2. [d \in Deliveries |-> OutcomeOf(delivery'[d])] = [d \in Deliveries |-> OutcomeOf(delivery[d])]
  OBVIOUS
<1>3. [d \in Deliveries |-> delivery'[d].attempts] = [d \in Deliveries |-> delivery[d].attempts]
  OBVIOUS
<1>. QED BY <1>1, <1>2, <1>3 DEF Refines, ContractSees, OutcomeOf

\* The transaction of a change commits its event (outbox.Repository.Insert).
LEMMA InsertRefines == ASSUME TypeOK, NEW e \in Events, Insert(e) PROVE Refines
<1>1. /\ outbox'[e].status = "pending"
      /\ \A x \in Events : x # e => outbox'[x] = outbox[x]
  BY DEF Insert, TypeOK, OutboxRow
<1>2. {x \in Events : outbox'[x].status # "none"}
          = {x \in Events : outbox[x].status # "none"} \cup {e}
  BY <1>1
<1>3. Contract!Store(e)
  BY <1>2 DEF Insert, Contract!Store, ingestion, delivering
<1>. QED BY <1>3 DEF Refines, Contract!Next

\* The ingest transaction opens the deliveries that did not exist (Service.Ingest).
LEMMA CommitRefines ==
    ASSUME TypeOK, DeliveryInv, OnlyCommitted, NoneUntried, NEW w \in Workers,
           NEW m \in consumer[w], m.pc = "uncommitted", Commit(m), UNCHANGED <<outbox, response>>
    PROVE  Refines
<1>1. m.ev \in Events /\ m.to \in SUBSET Endpoints
  BY DEF TypeOK, Handling
<1>2. outbox[m.ev].status # "none"
  BY DEF OnlyCommitted
<1>3. \A p \in m.to : delivery[<<m.ev, p>>].status = "none" /\ <<m.ev, p>> \in Deliveries
  BY <1>1 DEF DeliveryInv, OneIngestion, CreatesNew, Deliveries
<1>4. \A d \in Deliveries :
         /\ OutcomeOf(delivery'[d]) = IF d[1] = m.ev /\ d[2] \in m.to THEN "open"
                                      ELSE OutcomeOf(delivery[d])
         /\ delivery'[d].attempts = delivery[d].attempts
  BY CommitFresh DEF NoneUntried, OutcomeOf, Open, Commit
<1>5. [d \in Deliveries |-> delivery'[d].attempts] = [d \in Deliveries |-> delivery[d].attempts]
  BY <1>4
<1>6. [d \in Deliveries |-> OutcomeOf(delivery'[d])]
          = [d \in Deliveries |-> IF d[1] = m.ev /\ d[2] \in m.to THEN "open"
                                  ELSE OutcomeOf(delivery[d])]
  BY <1>4
<1>7. Contract!Ingest(m.ev, m.to)
  BY <1>1, <1>2, <1>3, <1>5, <1>6 DEF Contract!Ingest, Contract!Deliveries, Deliveries, Commit,
     OutcomeOf, Open
<1>. QED BY <1>1, <1>7 DEF Refines, Contract!Next

\* Claiming counts an attempt at open deliveries (claimWebhookDeliveries).
LEMMA ClaimRefines ==
    ASSUME TypeOK, NEW w \in Workers, NEW batch \in SUBSET Deliveries,
           \A d \in batch : Claimable(d), Claimed(w, batch),
           UNCHANGED <<outbox, webhookEvents, response>>
    PROVE  Refines
<1>1. \A d \in Deliveries :
         /\ OutcomeOf(delivery'[d]) = OutcomeOf(delivery[d])
         /\ delivery'[d].attempts = IF d \in batch THEN delivery[d].attempts + 1
                                    ELSE delivery[d].attempts
  BY DEF Claimed, TypeOK, DeliveryRow, OutcomeOf
<1>2. \A d \in batch : d \in Deliveries /\ OutcomeOf(delivery[d]) = "open"
  BY DEF Claimable, OutcomeOf
<1>3. Contract!Attempt(batch)
  BY <1>1, <1>2 DEF Contract!Attempt, Contract!Deliveries, Deliveries, OutcomeOf
<1>. QED BY <1>3 DEF Refines, Contract!Next, Contract!Deliveries, Deliveries

\* The one request of a counted attempt is answered (HTTPSender.Send).
LEMMA SendRefines ==
    ASSUME TypeOK, DeliveryInv, RequestsInv, NEW w \in Workers, Send(w)
    PROVE  Refines
<1>1. PICK c \in sender[w].batch, r \in Response :
          response' = [response EXCEPT ![c.of] =
              response[c.of] \cup {[count |-> c.count, response |-> r]}]
  BY DEF Send
<1>2. c.of \in Deliveries /\ c.count \in Nat /\ delivery[c.of].attempts \in Nat
  BY DEF TypeOK, Sending, Claim, DeliveryRow
<1>3. c.count \in 1..delivery[c.of].attempts
  BY <1>2 DEF DeliveryInv, ClaimsAreReal, RequestsInv, ClaimsUnanswered
<1>4. \A a \in response[c.of] : a.count # c.count
  BY DEF RequestsInv, ClaimsUnanswered
<1>5. UNCHANGED <<outbox, webhookEvents, delivery>>
  BY DEF Send, publishing, ingestion
<1>6. Contract!Answered(c.of, c.count, r)
  BY <1>1, <1>2, <1>3, <1>4, <1>5 DEF Contract!Answered, OutcomeOf
<1>7. c.of \in Contract!Deliveries /\ r \in Contract!Response
  BY <1>2 DEF Contract!Deliveries, Deliveries, Contract!Response, Response
<1>. QED BY <1>2, <1>3, <1>6, <1>7 DEF Refines, Contract!Next

\* A row whose outcome changes, alone.
LEMMA OutcomeUpdate ==
    ASSUME NEW d \in Deliveries, NEW as, OutcomeOf(delivery'[d]) = as,
           \A x \in Deliveries : x # d => OutcomeOf(delivery'[x]) = OutcomeOf(delivery[x])
    PROVE  [x \in Deliveries |-> OutcomeOf(delivery'[x])]
               = [[x \in Deliveries |-> OutcomeOf(delivery[x])] EXCEPT ![d] = as]
OBVIOUS

\* What is recorded for an attempt settles the delivery or leaves it open (deliverBatch).
LEMMA MarkRefines ==
    ASSUME TypeOK, DeliveryInv, NEW w \in Workers, NEW s \in sender[w].sent, HoldsLock(s.of),
           delivery' = [delivery EXCEPT ![s.of].status = Outcome(s), ![s.of].locked = FALSE],
           UNCHANGED <<outbox, webhookEvents, response>>
    PROVE  Refines
<1>1. PICK d \in Deliveries :
      /\ d = s.of
      /\ delivery'[d].status = Outcome(s)
      /\ \A x \in Deliveries : /\ x # d => delivery'[x] = delivery[x]
                               /\ delivery'[x].attempts = delivery[x].attempts
  BY MarkedRow
<1>2. OutcomeOf(delivery[d]) = "open"
  BY <1>1 DEF DeliveryInv, LockedIsOpen, HoldsLock, OutcomeOf
<1>3. s.response \in Response /\ s.count \in Nat
  BY DEF TypeOK, Sending, Sent
<1>4. [count |-> s.count, response |-> s.response] \in response[d]
  BY <1>1 DEF DeliveryInv, ClaimsAreReal
<1>5. [x \in Deliveries |-> delivery'[x].attempts] = [x \in Deliveries |-> delivery[x].attempts]
  BY <1>1
<1>6. ASSUME NEW as \in Settled, Outcome(s) = as PROVE Contract!Settle(d, as)
  <2>1. OutcomeOf(delivery'[d]) = as
    BY <1>1, <1>6 DEF OutcomeOf, Open, Settled
  <2>2. [x \in Deliveries |-> OutcomeOf(delivery'[x])]
            = [[x \in Deliveries |-> OutcomeOf(delivery[x])] EXCEPT ![d] = as]
    <3>1. \A x \in Deliveries : x # d => OutcomeOf(delivery'[x]) = OutcomeOf(delivery[x])
      BY <1>1
    <3>. QED BY <2>1, <3>1, OutcomeUpdate
  <2>. QED BY <1>1, <1>2, <1>5, <2>2 DEF Contract!Settle, OutcomeOf
<1>7. d \in Contract!Deliveries
  BY <1>1 DEF Contract!Deliveries, Deliveries
<1>8. CASE Outcome(s) = "succeeded"
  <2>1. s.response = "ok"
    BY <1>8 DEF Outcome
  <2>2. Contract!Succeed(d)
    BY <1>4, <1>6, <1>8, <2>1 DEF Contract!Succeed, Settled
  <2>. QED BY <1>7, <2>2 DEF Refines, Contract!Next
<1>9. CASE Outcome(s) = "failed"
  <2>1. Contract!Refuses([count |-> s.count, response |-> s.response])
    BY <1>3, <1>9, PipelineAssumption DEF Outcome, Response, Contract!Refuses
  <2>2. Contract!Fail(d)
    BY <1>4, <1>6, <1>9, <2>1 DEF Contract!Fail, Settled
  <2>. QED BY <1>7, <2>2 DEF Refines, Contract!Next
<1>10. CASE Outcome(s) = "retrying"
  <2>1. OutcomeOf(delivery'[d]) = "open"
    BY <1>1, <1>10 DEF OutcomeOf, Open
  <2>2. \A x \in Deliveries : OutcomeOf(delivery'[x]) = OutcomeOf(delivery[x])
    BY <1>1, <1>2, <2>1
  <2>. QED BY <1>1, <2>2, Unseen
<1>. QED BY <1>8, <1>9, <1>10 DEF Outcome

\* Deleting an endpoint cancels what is open to it (Service.Delete).
LEMMA CancelRefines == ASSUME TypeOK, NEW p \in Endpoints, Cancel(p) PROVE Refines
<1>1. \A d \in Deliveries :
         OutcomeOf(delivery'[d]) = IF d[2] = p /\ OutcomeOf(delivery[d]) = "open" THEN "canceled"
                                   ELSE OutcomeOf(delivery[d])
  BY CanceledRow DEF OutcomeOf, TypeOK, DeliveryRow, Open, Settled
<1>2. [d \in Deliveries |-> OutcomeOf(delivery'[d])]
          = [d \in Deliveries |-> IF d[2] = p /\ OutcomeOf(delivery[d]) = "open" THEN "canceled"
                                  ELSE OutcomeOf(delivery[d])]
  BY <1>1
<1>3. [d \in Deliveries |-> delivery'[d].attempts] = [d \in Deliveries |-> delivery[d].attempts]
  BY CanceledRow
<1>4. UNCHANGED <<outbox, webhookEvents, response>>
  BY DEF Cancel, publishing, ingestion
<1>5. Contract!Cancel(p)
  BY <1>2, <1>3, <1>4 DEF Contract!Cancel, Contract!Deliveries, Deliveries, OutcomeOf
<1>. QED BY <1>5 DEF Refines, Contract!Next

\* The customer reopens a failed delivery (Service.Retry).
LEMMA RetryRefines == ASSUME TypeOK, NEW d \in Deliveries, Retry(d) PROVE Refines
<1>1. OutcomeOf(delivery[d]) = "failed" /\ OutcomeOf(delivery'[d]) = "open"
  BY RetriedRow DEF OutcomeOf, Open
<1>2. [x \in Deliveries |-> OutcomeOf(delivery'[x])]
          = [[x \in Deliveries |-> OutcomeOf(delivery[x])] EXCEPT ![d] = "open"]
  BY <1>1, RetriedRow
<1>3. [x \in Deliveries |-> delivery'[x].attempts] = [x \in Deliveries |-> delivery[x].attempts]
  BY RetriedRow
<1>4. UNCHANGED <<outbox, webhookEvents, response>>
  BY DEF Retry, publishing, ingestion
<1>5. Contract!Reopen(d) /\ d \in Contract!Deliveries
  BY <1>1, <1>2, <1>3, <1>4 DEF Contract!Reopen, Contract!Deliveries, Deliveries, OutcomeOf
<1>. QED BY <1>5 DEF Refines, Contract!Next

\* Every step of the pipeline is one the contract allows.
LEMMA ContractStep == ASSUME PipelineInv, [Next]_vars PROVE Refines
<1>. TypeOK /\ DeliveryInv /\ OnlyCommitted /\ RequestsInv /\ NoneUntried
  BY DEF PipelineInv, RequestsInv
<1>1. ASSUME UNCHANGED <<outbox, webhookEvents, delivery, response>> PROVE Refines
  BY <1>1, Unseen
<1>2. ASSUME UNCHANGED <<webhookEvents, delivery, response>>,
             \A e \in Events : (outbox'[e].status = "none") <=> (outbox[e].status = "none")
      PROVE  Refines
  BY <1>2, Unseen
<1>3. ASSUME NEW e \in Events, ReleaseStaleLocks(e) PROVE Refines
  <2>1. \A x \in Events : outbox'[x].status = outbox[x].status
    BY <1>3 DEF ReleaseStaleLocks, TypeOK, OutboxRow
  <2>. QED BY <1>2, <1>3, <2>1 DEF ReleaseStaleLocks, ingestion, delivering
<1>4. ASSUME NEW w \in Workers, ClaimPending(w) PROVE Refines
  <2>1. \A x \in Events : outbox'[x].status = outbox[x].status
    BY <1>4 DEF ClaimPending, TypeOK, OutboxRow
  <2>. QED BY <1>2, <1>4, <2>1 DEF ClaimPending, ingestion, delivering
<1>5. ASSUME NEW w \in Workers, MarkEvent(w) PROVE Refines
  <2>1. \A x \in Events : (outbox'[x].status = "none") <=> (outbox[x].status = "none")
    BY <1>5 DEF MarkEvent, Marked, TypeOK, OutboxRow, Publishing
  <2>. QED BY <1>2, <1>5, <2>1 DEF MarkEvent, ingestion, delivering
<1>6. ASSUME NEW w \in Workers,
             \/ CreateDeliveries(w) \/ Acknowledge(w) \/ Crash(w)
             \/ \E e \in Events : Publish(w, e) \/ Receive(w, e) \/ PublishFault(w, e)
      PROVE  Refines
  BY <1>1, <1>6 DEF Publish, CreateDeliveries, Acknowledge, Crash, Receive, PublishFault,
     publishing, ingestion, delivering
<1>7. ASSUME NEW w \in Workers, CommitIngest(w) \/ IngestFault(w) PROVE Refines
  BY <1>1, <1>7, CommitRefines DEF CommitIngest, IngestFault, publishing
<1>8. ASSUME NEW w \in Workers, ClaimDeliveries(w) PROVE Refines
  <2>1. PICK batch \in SUBSET Deliveries : (\A d \in batch : Claimable(d)) /\ Claimed(w, batch)
    BY <1>8 DEF ClaimDeliveries
  <2>2. UNCHANGED <<outbox, webhookEvents, response>>
    BY <1>8 DEF ClaimDeliveries, publishing, ingestion
  <2>. QED BY <2>1, <2>2, ClaimRefines
<1>9. ASSUME NEW w \in Workers, NEW d \in Deliveries, ClaimStale(w, d) PROVE Refines
  <2>1. {d} \in SUBSET Deliveries /\ (\A x \in {d} : Claimable(x)) /\ Claimed(w, {d})
    BY <1>9 DEF ClaimStale
  <2>2. UNCHANGED <<outbox, webhookEvents, response>>
    BY <1>9 DEF ClaimStale, publishing, ingestion
  <2>. QED BY <2>1, <2>2, ClaimRefines
<1>10. ASSUME NEW w \in Workers, MarkDelivery(w) PROVE Refines
  BY <1>1, <1>10, MarkRefines DEF MarkDelivery, publishing, ingestion
<1>11. ASSUME EndpointApi PROVE Refines
  BY <1>1, <1>11, CancelRefines, RetryRefines
  DEF EndpointApi, Update, Disable, DeleteFault, publishing, ingestion
<1>12. CASE UNCHANGED vars
  BY <1>1, <1>12 DEF vars
<1>. QED BY <1>3, <1>4, <1>5, <1>6, <1>7, <1>8, <1>9, <1>10, <1>11, <1>12, InsertRefines, SendRefines
         DEF Next, PublisherStep, ConsumerStep, SenderStep, Failure

\* Refinement: an endpoint hears of committed events only, each counted
\* attempt makes at most one request, and a delivery is settled by an answer
\* that justifies it, whatever crashes, expires or is done twice
\* (claimWebhookDeliveries, deliverBatch, Service.Delete, Service.Retry).
THEOREM PipelineKeepsContract == Spec => ImplementsDelivery
<1>1. Init => Contract!Init
  BY ContractInit
<1>2. PipelineInv /\ [Next]_vars => [Contract!Next]_(Contract!vars)
  BY ContractStep DEF Refines, ContractSees, Contract!vars, OutcomeOf
<1>. QED BY <1>1, <1>2, PipelineInductive, PTL DEF Spec, ImplementsDelivery, Contract!Spec

(***************************************************************************)
(* What the contract says by itself                                        *)
(***************************************************************************)
\* An outcome that may be seen after a settled one: the same, or open after the customer's retry.
Follows(old, new) == old \in Settled => new = old \/ (old = "failed" /\ new = "open")
OutcomesFollow == \A d \in Deliveries : Follows(OutcomeOf(delivery[d]), OutcomeOf(delivery'[d]))

\* What an outcome rests on.
Grounded(outcome, answers) ==
    /\ outcome = "succeeded" => \E a \in answers : a.response = "ok"
    /\ outcome = "failed" => \E a \in answers : Refuses(a)
ContractInv == \A d \in Deliveries : Grounded(OutcomeOf(delivery[d]), response[d])
AnswersOfDeliveries == response = [d \in Deliveries |-> response[d]]

LEMMA OutcomesSeen == ContractInv <=> OutcomesAreGrounded
BY DEF ContractInv, OutcomesAreGrounded, Grounded, OutcomeOf, Open

\* One delivery's outcome changes, or its answers grow.
LEMMA OutcomesInContract ==
    ASSUME AnswersOfDeliveries, ContractInv, [Contract!Next]_(Contract!vars)
    PROVE  AnswersOfDeliveries' /\ ContractInv' /\ OutcomesFollow
<1> DEFINE seen == [d \in Deliveries |-> OutcomeOf(delivery[d])]
<1>1. /\ \A d \in Deliveries : seen[d] = OutcomeOf(delivery[d])
      /\ \A d \in Deliveries : seen'[d] = OutcomeOf(delivery[d])'
  OBVIOUS
<1>2. ASSUME UNCHANGED response,
             \A d \in Deliveries :
                 \/ seen'[d] = seen[d]
                 \/ seen[d] \notin Settled /\ Grounded(seen'[d], response[d])
                 \/ seen[d] = "failed" /\ seen'[d] = "open"
      PROVE  AnswersOfDeliveries' /\ ContractInv' /\ OutcomesFollow
  <2> HIDE DEF seen
  <2>1. AnswersOfDeliveries'
    BY <1>2 DEF AnswersOfDeliveries
  <2>2. OutcomesFollow
    BY <1>1, <1>2 DEF OutcomesFollow, Follows
  <2>3. ContractInv'
    BY <1>1, <1>2 DEF ContractInv, Grounded
  <2> QED
    BY <2>1, <2>2, <2>3
<1>3. ASSUME UNCHANGED response, NEW d \in Deliveries, NEW as, seen' = [seen EXCEPT ![d] = as],
             \/ seen[d] \notin Settled /\ Grounded(as, response[d])
             \/ seen[d] = "failed" /\ as = "open"
      PROVE  AnswersOfDeliveries' /\ ContractInv' /\ OutcomesFollow
  <2>1. seen'[d] = as /\ \A x \in Deliveries \ {d} : seen'[x] = seen[x]
    BY <1>3
  <2> HIDE DEF seen
  <2> QED
    BY <1>2, <1>3, <2>1
<1>4. /\ "open" \notin Settled /\ "none" \notin Settled
      /\ \A d \in Deliveries : Grounded("open", response[d]) /\ Grounded("canceled", response[d])
  BY DEF Settled, Grounded
<1>5. ASSUME NEW e \in Events, Contract!Store(e) PROVE AnswersOfDeliveries' /\ ContractInv' /\ OutcomesFollow
  BY <1>2, <1>5 DEF Contract!Store, OutcomeOf
<1>6. ASSUME NEW e \in Events, NEW to \in SUBSET Endpoints, Contract!Ingest(e, to)
      PROVE  AnswersOfDeliveries' /\ ContractInv' /\ OutcomesFollow
  <2>1. seen' = [d \in Deliveries |-> IF d[1] = e /\ d[2] \in to THEN "open" ELSE seen[d]]
    BY <1>6 DEF Contract!Ingest, Contract!Deliveries, Deliveries, OutcomeOf
  <2>2. \A p \in to : seen[<<e, p>>] = "none"
    BY <1>6 DEF Contract!Ingest, Deliveries, OutcomeOf
  <2>3. UNCHANGED response
    BY <1>6 DEF Contract!Ingest
  <2>4. ASSUME NEW d \in Deliveries, d[1] = e, d[2] \in to
        PROVE  seen[d] \notin Settled /\ Grounded(seen'[d], response[d])
    <3>1. d = <<e, d[2]>>
      BY <2>4 DEF Deliveries
    <3>2. seen[d] = "none" /\ seen'[d] = "open"
      BY <2>1, <2>2, <2>4, <3>1
    <3> QED
      BY <1>4, <3>2
  <2>5. \A d \in Deliveries : ~(d[1] = e /\ d[2] \in to) => seen'[d] = seen[d]
    BY <2>1
  <2> HIDE DEF seen
  <2> QED
    BY <1>2, <2>3, <2>4, <2>5
<1>7. ASSUME NEW batch \in SUBSET Deliveries, Contract!Attempt(batch)
      PROVE  AnswersOfDeliveries' /\ ContractInv' /\ OutcomesFollow
  BY <1>2, <1>7 DEF Contract!Attempt, OutcomeOf
<1>8. ASSUME NEW d \in Deliveries, NEW n, NEW r, Contract!Answered(d, n, r)
      PROVE  AnswersOfDeliveries' /\ ContractInv' /\ OutcomesFollow
  <2>1. /\ response' = [response EXCEPT ![d] = response[d] \cup {[count |-> n, response |-> r]}]
        /\ seen' = seen
    BY <1>8 DEF Contract!Answered, OutcomeOf
  <2>2. \A x \in Deliveries : response[x] \subseteq response'[x]
    BY <2>1 DEF AnswersOfDeliveries
  <2>3. AnswersOfDeliveries'
    BY <2>1 DEF AnswersOfDeliveries
  <2>4. \A x \in Deliveries : OutcomeOf(delivery[x])' = OutcomeOf(delivery[x])
    BY <1>1, <2>1
  <2>5. OutcomesFollow
    BY <2>4 DEF OutcomesFollow, Follows
  <2>6. ContractInv'
    BY <2>2, <2>4 DEF ContractInv, Grounded
  <2> QED
    BY <2>3, <2>5, <2>6
<1>9. ASSUME NEW d \in Deliveries, Contract!Succeed(d) \/ Contract!Fail(d) \/ Contract!Reopen(d)
      PROVE  AnswersOfDeliveries' /\ ContractInv' /\ OutcomesFollow
  <2>1. UNCHANGED response
    BY <1>9 DEF Contract!Succeed, Contract!Fail, Contract!Reopen, Contract!Settle
  <2>2. CASE Contract!Succeed(d)
    <3>1. seen[d] = "open" /\ seen' = [seen EXCEPT ![d] = "succeeded"]
      BY <2>2 DEF Contract!Succeed, Contract!Settle, OutcomeOf
    <3>2. Grounded("succeeded", response[d])
      BY <2>2 DEF Contract!Succeed, Grounded
    <3> HIDE DEF seen
    <3> QED
      BY <1>3, <1>4, <2>1, <3>1, <3>2
  <2>3. CASE Contract!Fail(d)
    <3>1. seen[d] = "open" /\ seen' = [seen EXCEPT ![d] = "failed"]
      BY <2>3 DEF Contract!Fail, Contract!Settle, OutcomeOf
    <3>2. Grounded("failed", response[d])
      BY <2>3 DEF Contract!Fail, Contract!Refuses, Refuses, Grounded
    <3> HIDE DEF seen
    <3> QED
      BY <1>3, <1>4, <2>1, <3>1, <3>2
  <2>4. CASE Contract!Reopen(d)
    <3>1. seen[d] = "failed" /\ seen' = [seen EXCEPT ![d] = "open"]
      BY <2>4 DEF Contract!Reopen, OutcomeOf
    <3> HIDE DEF seen
    <3> QED
      BY <1>3, <2>1, <3>1
  <2> QED
    BY <1>9, <2>2, <2>3, <2>4
<1>10. ASSUME NEW p \in Endpoints, Contract!Cancel(p)
       PROVE  AnswersOfDeliveries' /\ ContractInv' /\ OutcomesFollow
  <2>1. /\ seen' = [d \in Deliveries |-> IF d[2] = p /\ seen[d] = "open" THEN "canceled" ELSE seen[d]]
        /\ UNCHANGED response
    BY <1>10 DEF Contract!Cancel, Contract!Deliveries, Deliveries, OutcomeOf
  <2>2. \A d \in Deliveries :
            seen'[d] = seen[d] \/ (seen[d] = "open" /\ seen'[d] = "canceled")
    BY <2>1
  <2> HIDE DEF seen
  <2> QED
    BY <1>2, <1>4, <2>1, <2>2
<1>11. CASE UNCHANGED Contract!vars
  BY <1>2, <1>11 DEF Contract!vars, OutcomeOf
<1>12. CASE Contract!Next
  BY <1>5, <1>6, <1>7, <1>8, <1>9, <1>10, <1>12 DEF Contract!Next, Contract!Deliveries, Deliveries
<1> QED
  BY <1>11, <1>12

\* The contract alone says that recorded outcomes are true, and that only the customer's retry
\* opens a settled delivery again (deliverBatch, Service.Retry).
THEOREM ContractIsHonest == ImplementsDelivery => []OutcomesAreGrounded /\ [][OutcomesFollow]_ContractSees
<1>1. Contract!Init => AnswersOfDeliveries /\ ContractInv
  <2> SUFFICES ASSUME Contract!Init PROVE AnswersOfDeliveries /\ ContractInv
    OBVIOUS
  <2>1. response = [d \in Deliveries |-> {}]
    BY DEF Contract!Init, Contract!Deliveries, Deliveries
  <2>2. [d \in Deliveries |-> OutcomeOf(delivery[d])] = [d \in Deliveries |-> "none"]
    BY DEF Contract!Init, Contract!Deliveries, Deliveries, OutcomeOf
  <2>3. ASSUME NEW d \in Deliveries PROVE OutcomeOf(delivery[d]) = "none"
    <3>1. [x \in Deliveries |-> OutcomeOf(delivery[x])][d] = [x \in Deliveries |-> "none"][d]
      BY <2>2
    <3> QED
      BY <3>1
  <2> QED
    BY <2>1, <2>3 DEF AnswersOfDeliveries, ContractInv, Grounded
<1>2. AnswersOfDeliveries /\ ContractInv /\ [Contract!Next]_(Contract!vars)
          => AnswersOfDeliveries' /\ ContractInv' /\ [OutcomesFollow]_ContractSees
  BY OutcomesInContract
<1>3. ContractInv => OutcomesAreGrounded
  BY OutcomesSeen
<1> QED
  BY <1>1, <1>2, <1>3, PTL DEF ImplementsDelivery, Contract!Spec
=============================================================================
