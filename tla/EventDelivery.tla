--------------------------- MODULE EventDelivery ---------------------------
(***************************************************************************)
(* What the customer may rely on about the events of an organization and   *)
(* their delivery to webhook endpoints, without outbox, stream, workers,   *)
(* locks and crashes.  An event that was committed may become known to the *)
(* webhook service, which opens deliveries of it; each attempt at an open  *)
(* delivery is counted and makes at most one request; how it ends may      *)
(* settle the delivery, the deletion of its endpoint cancels it, and the   *)
(* customer may reopen a failed one.                                       *)
(* EventPipeline implements this contract.                                 *)
(***************************************************************************)
EXTENDS Naturals

CONSTANTS
    Events,
    Endpoints,
    MaxAttempts        \* attempts after which a retryable answer is final

VARIABLES
    stored,            \* events committed together with the change they report
    known,             \* events the webhook service has ingested
    outcome,           \* what the delivery history shows for each delivery
    tries,             \* attempts counted for each delivery
    answers            \* what the endpoint answered, to which attempt

vars == <<stored, known, outcome, tries, answers>>

Deliveries == Events \X Endpoints
Response   == {"ok", "retryable", "permanent"}

Init ==
    /\ stored = {}
    /\ known = {}
    /\ outcome = [d \in Deliveries |-> "none"]
    /\ tries = [d \in Deliveries |-> 0]
    /\ answers = [d \in Deliveries |-> {}]

\* A change of the platform and its event are committed.
Store(e) ==
    /\ stored' = stored \cup {e}
    /\ UNCHANGED <<known, outcome, tries, answers>>

\* A committed event is ingested, perhaps not for the first time, and its
\* deliveries to some endpoints that have none yet are opened.
Ingest(e, to) ==
    /\ e \in stored
    /\ \A p \in to : outcome[<<e, p>>] = "none"
    /\ known' = known \cup {e}
    /\ outcome' = [d \in Deliveries |-> IF d[1] = e /\ d[2] \in to THEN "open" ELSE outcome[d]]
    /\ UNCHANGED <<stored, tries, answers>>

\* An attempt at each of some open deliveries is counted.
Attempt(batch) ==
    /\ \A d \in batch : outcome[d] = "open"
    /\ tries' = [d \in Deliveries |-> IF d \in batch THEN tries[d] + 1 ELSE tries[d]]
    /\ UNCHANGED <<stored, known, outcome, answers>>

\* The one request of attempt n ends, a timeout or an error being as
\* retryable as an answer that says so; by then the delivery may have been
\* settled by another attempt.
Answered(d, n, r) ==
    /\ n \in 1..tries[d]
    /\ \A a \in answers[d] : a.count # n
    /\ answers' = [answers EXCEPT ![d] = answers[d] \cup {[count |-> n, response |-> r]}]
    /\ UNCHANGED <<stored, known, outcome, tries>>

Settle(d, as) ==
    /\ outcome[d] = "open"
    /\ outcome' = [outcome EXCEPT ![d] = as]
    /\ UNCHANGED <<stored, known, tries, answers>>

Succeed(d) ==
    /\ \E a \in answers[d] : a.response = "ok"
    /\ Settle(d, "succeeded")

\* An answer for good, or to the last attempt.
Refuses(a) ==
    a.response = "permanent" \/ (a.response = "retryable" /\ a.count >= MaxAttempts)

Fail(d) ==
    /\ \E a \in answers[d] : Refuses(a)
    /\ Settle(d, "failed")

\* An endpoint is deleted: what is open to it is canceled.
Cancel(p) ==
    /\ outcome' = [d \in Deliveries |->
           IF d[2] = p /\ outcome[d] = "open" THEN "canceled" ELSE outcome[d]]
    /\ UNCHANGED <<stored, known, tries, answers>>

\* The customer asks for a failed delivery to be tried again.
Reopen(d) ==
    /\ outcome[d] = "failed"
    /\ outcome' = [outcome EXCEPT ![d] = "open"]
    /\ UNCHANGED <<stored, known, tries, answers>>

Next ==
    \/ \E e \in Events : Store(e) \/ \E to \in SUBSET Endpoints : Ingest(e, to)
    \/ \E batch \in SUBSET Deliveries : Attempt(batch)
    \/ \E d \in Deliveries : \/ \E n \in 1..tries[d], r \in Response : Answered(d, n, r)
                             \/ Succeed(d) \/ Fail(d) \/ Reopen(d)
    \/ \E p \in Endpoints : Cancel(p)

Spec == Init /\ [][Next]_vars
=============================================================================
