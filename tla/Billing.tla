-------------------------------- MODULE Billing --------------------------------
(***************************************************************************)
(* The subscription of one organization (commercial/billing and            *)
(* commercial/subscriptions): the payment provider's webhooks are kept as  *)
(* receipts and processed by the workers, and a reconciliation job repairs *)
(* what webhooks missed from the provider's own state.                     *)
(*                                                                         *)
(* Time is the provider's: every change of a subscription is one moment.   *)
(***************************************************************************)
EXTENDS Naturals, Sequences, FiniteSets

CONSTANTS
    PolarSubs,      \* subscriptions the organization may buy at the provider
    NoSub,
    BillingWorkers, \* webhook jobs
    Reconciler,     \* the reconciliation job
    MaxMoments,     \* changes at the provider (bound)
    MaxReceipts,    \* webhooks that arrive; the others are lost (bound)
    WebhookAttempts,\* webhookMaxAttempts
    BillingFaults,  \* crashes, failed calls and leases that run out too early (bound)
    ProviderPays    \* the statuses a subscription may have at the provider

ASSUME BillingAssumption ==
    /\ NoSub \notin PolarSubs \cup BillingWorkers /\ Reconciler \notin BillingWorkers
    /\ ProviderPays \subseteq {"active", "past_due", "unpaid", "paused", "canceled"}
    /\ MaxMoments \in Nat /\ MaxReceipts \in Nat /\ WebhookAttempts \in Nat \ {0}
    /\ BillingFaults \in Nat

VARIABLES
    provider,  \* the provider's log: what each moment changed
    receipt,   \* rows of billing_webhook_events, by the moment they report
    local,     \* the organization's row of subscriptions
    actor,     \* what each job does
    applied,   \* how often each receipt's transaction was committed (history)
    billingFaults

billingVars == <<provider, receipt, local, actor, applied, billingFaults>>

Actors == BillingWorkers \cup {Reconciler}
Now == Len(provider)
NoRow == [sub |-> NoSub, status |-> "none", at |-> 0, since |-> 0]
NoWebhookJob == [at |-> "idle", n |-> 0, todo |-> <<>>, candidate |-> NoSub, known |-> NoSub]
LocalStatus == {"none", "active", "past_due", "incomplete", "canceled"}
LocalRow == [sub: PolarSubs \cup {NoSub}, status: LocalStatus, at: 0..MaxMoments,
             since: 0..MaxMoments]
EventKind == {"subscription", "state", "other"}
ReceiptStatus == {"none", "pending", "processing", "processed", "ignored", "dead_letter"}

BillingTypeOK ==
    /\ Len(provider) <= MaxMoments
    /\ \A n \in 1..Now : provider[n] \in [sub: PolarSubs, status: ProviderPays]
    /\ receipt \in [1..MaxMoments -> [status: ReceiptStatus, kind: EventKind,
                                      attempts: 0..WebhookAttempts,
                                      token: BillingWorkers \cup {NoSub}, stale: BOOLEAN]]
    /\ \A n \in 1..MaxMoments : receipt[n].token # NoSub <=> receipt[n].status = "processing"
    /\ local \in LocalRow
    /\ \A x \in Actors :
           /\ actor[x].at \in {"idle", "claimed", "recover", "fetch", "candidate",
                               "apply", "fail", "reject"}
           /\ Len(actor[x].todo) <= 2
           /\ actor[x].at = "recover" /\ x \in BillingWorkers => actor[x].n > 0
    /\ applied \in [1..MaxMoments -> 0..2]
    /\ billingFaults \in 0..BillingFaults

BillingInit ==
    /\ provider = <<>>
    /\ receipt = [n \in 1..MaxMoments |-> [status |-> "none", kind |-> "other", attempts |-> 0,
                                           token |-> NoSub, stale |-> FALSE]]
    /\ local = NoRow
    /\ actor = [x \in Actors |-> NoWebhookJob]
    /\ applied = [n \in 1..MaxMoments |-> 0]
    /\ billingFaults = 0

BillingFault == billingFaults < BillingFaults /\ billingFaults' = billingFaults + 1

(***************************************************************************)
(* The provider                                                            *)
(***************************************************************************)
\* The moments up to t that changed subscription s, and its status then.
MomentsOf(s, t) == {n \in 1..t : provider[n].sub = s}
LastMoment(s, t) == CHOOSE n \in MomentsOf(s, t) : \A k \in MomentsOf(s, t) : k <= n
AsOf(s, t) == IF MomentsOf(s, t) = {} THEN "none" ELSE provider[LastMoment(s, t)].status
Current(s) == AsOf(s, Now)

\* Checkout is open while no subscription is known or the known one is canceled.
CheckoutOpen == local.sub = NoSub \/ local.status = "canceled"

\* A purchase, or a change of a subscription that is not over.
ProviderChanges(s, status) ==
    /\ Now < MaxMoments
    /\ IF Current(s) = "none" THEN status = "active" /\ CheckoutOpen
       ELSE Current(s) # "canceled"
    /\ provider' = Append(provider, [sub |-> s, status |-> status])
    /\ UNCHANGED <<receipt, local, actor, applied, billingFaults>>

\* polarStatus.
PolarStatus(status) ==
    CASE status = "unpaid" -> "canceled"
      [] status = "paused" -> "incomplete"
      [] OTHER -> status

(***************************************************************************)
(* Receipts                                                                *)
(***************************************************************************)
\* Webhook: a receipt is inserted before the answer; a repeated one changes nothing. The
\* webhook is one of the subscription, one of the customer's state or one of no interest.
Webhook(n, kind) ==
    /\ n \in 1..Now /\ receipt[n].status = "none"
    /\ Cardinality({k \in 1..MaxMoments : receipt[k].status # "none"}) < MaxReceipts
    /\ receipt' = [receipt EXCEPT ![n].status = "pending", ![n].kind = kind]
    /\ UNCHANGED <<provider, local, actor, applied, billingFaults>>

\* The transaction of a worker holds the row: no claim and no reaper gets it.
RowLocked(n) == \E w \in BillingWorkers :
                    actor[w].n = n /\ actor[w].at \notin {"idle", "claimed", "fail", "reject"}

\* More than 60 seconds since the claim, which a worker at work seldom needs.
LeaseGetsStale(n) ==
    /\ receipt[n].status = "processing" /\ ~receipt[n].stale
    /\ receipt' = [receipt EXCEPT ![n].stale = TRUE]
    /\ IF actor[receipt[n].token].n = n THEN BillingFault ELSE UNCHANGED billingFaults
    /\ UNCHANGED <<provider, local, actor, applied>>

\* Rows ClaimBillingWebhookEvent may take.
ReceiptClaimable(n) ==
    /\ receipt[n].attempts < WebhookAttempts /\ ~RowLocked(n)
    /\ \/ receipt[n].status = "pending"
       \/ receipt[n].status = "processing" /\ receipt[n].stale

ClaimReceipt(w, n) ==
    /\ actor[w].at = "idle" /\ ReceiptClaimable(n)
    /\ receipt' = [receipt EXCEPT ![n].status = "processing", ![n].attempts = @ + 1,
                                  ![n].token = w, ![n].stale = FALSE]
    /\ actor' = [actor EXCEPT ![w] = [NoWebhookJob EXCEPT !.at = "claimed", !.n = n]]
    /\ UNCHANGED <<provider, local, applied, billingFaults>>

\* ReapExhaustedBillingWebhookEvents.
Reapable(n) ==
    /\ receipt[n].status = "processing" /\ receipt[n].stale /\ ~RowLocked(n)
    /\ receipt[n].attempts >= WebhookAttempts

\* Mutant: a receipt that is settled keeps its claim.
ReceiptSettledClaimed(n, status) == receipt' = [receipt EXCEPT ![n].status = status]
\* A receipt that is settled has no claim.
ReceiptSettled(n, status) ==
    receipt' = [receipt EXCEPT ![n].status = status, ![n].token = NoSub, ![n].stale = FALSE]

ReapExhausted(n) ==
    /\ Reapable(n) /\ ReceiptSettled(n, "dead_letter")
    /\ UNCHANGED <<provider, local, actor, applied, billingFaults>>

\* Mutant: the claim is not looked at again.
FencedNever(w, n) == TRUE

\* The receipt is still this worker's: every statement after the claim asks.
Fenced(w, n) == receipt[n].status = "processing" /\ receipt[n].token = w

(***************************************************************************)
(* WebhookJob.process and Consumer.Handle                                  *)
(***************************************************************************)
SetActor(x, job) == actor' = [actor EXCEPT ![x] = job]
JobUnchanged == UNCHANGED <<provider, applied>>

\* A past-due subscription keeps the grace period that is known already.
PastDueSince(s, status, known, at) ==
    IF status # "past_due" THEN 0
    ELSE IF known.status = "past_due" /\ known.sub = s THEN known.since ELSE at

\* syncPolarSubscription: the request it makes for the row, with the grace period it read.
SyncRequest(s, status, at) ==
    [sub |-> s, status |-> PolarStatus(status), at |-> at,
     since |-> PastDueSince(s, status, local, at)]

\* The transaction begins: a receipt that was taken over is left alone. An event of a
\* subscription is applied as it was reported, one of the customer's state starts a recovery,
\* others are ignored.
HandleEvent(w) ==
    LET n == actor[w].n
        Goto(at, todo) == SetActor(w, [actor[w] EXCEPT !.at = at, !.todo = todo])
    IN  /\ actor[w].at = "claimed"
        /\ \/ ~Fenced(w, n) /\ SetActor(w, NoWebhookJob)
           \/ /\ Fenced(w, n) /\ receipt[n].kind = "subscription"
              /\ Goto("apply", <<SyncRequest(provider[n].sub, provider[n].status, n)>>)
           \/ Fenced(w, n) /\ receipt[n].kind = "state" /\ Goto("recover", <<>>)
           \/ Fenced(w, n) /\ receipt[n].kind = "other" /\ Goto("apply", <<>>)
        /\ JobUnchanged /\ UNCHANGED <<receipt, local, billingFaults>>

(***************************************************************************)
(* RecoverOrganization, in a worker's transaction or in the reconciler     *)
(***************************************************************************)
\* Customer state lists active subscriptions, not the past-due ones.
ActiveSubs == {s \in PolarSubs : Current(s) = "active"}

\* Every pass of the reconciler, and the event of a worker, begin here. The local row and the
\* customer's state are read; two purchases need a person.
RecoverReads(x) ==
    LET job == [actor[x] EXCEPT !.known = local.sub,
                    !.candidate = IF ActiveSubs = {} THEN NoSub
                                  ELSE CHOOSE s \in PolarSubs : s \in ActiveSubs]
    IN  /\ actor[x].at = IF x = Reconciler THEN "idle" ELSE "recover"
        /\ SetActor(x, [job EXCEPT !.at = IF Cardinality(ActiveSubs) > 1 THEN "reject"
                                          ELSE IF local.sub # NoSub THEN "fetch"
                                          ELSE IF job.candidate # NoSub THEN "candidate"
                                          ELSE "apply"])
        /\ JobUnchanged /\ UNCHANGED <<receipt, local, billingFaults>>

\* ModifiedAt of the subscription that was read.
ModifiedAt(s) == LastMoment(s, Now)

\* The known subscription is fetched first. Another one replaces it only when the provider
\* says that it is canceled.
RecoverExisting(x) ==
    LET s == actor[x].known
        other == actor[x].candidate \notin {NoSub, s}
    IN  /\ actor[x].at = "fetch"
        /\ SetActor(x, [actor[x] EXCEPT
                           !.todo = Append(@, SyncRequest(s, Current(s), ModifiedAt(s))),
                           !.at = IF ~other THEN "apply"
                                  ELSE IF Current(s) = "canceled" THEN "candidate"
                                  ELSE "reject"])
        /\ JobUnchanged /\ UNCHANGED <<receipt, local, billingFaults>>

RecoverCandidate(x) ==
    LET s == actor[x].candidate
    IN  /\ actor[x].at = "candidate"
        /\ SetActor(x, [actor[x] EXCEPT !.at = "apply",
                           !.todo = Append(@, SyncRequest(s, Current(s), ModifiedAt(s)))])
        /\ JobUnchanged /\ UNCHANGED <<receipt, local, billingFaults>>

(***************************************************************************)
(* The row of the subscription                                             *)
(***************************************************************************)
\* UpsertOrganizationSubscription keeps the grace period that runs.
KeepsGrace(row, req) ==
    row.status = "past_due" /\ req.status = "past_due" /\ row.sub = req.sub /\ row.since # 0

\* It refuses an older report, and another subscription while the known one is not canceled.
Upserts(row, req) ==
    /\ req.at >= row.at
    /\ row.sub \in {NoSub, req.sub} \/ row.status = "canceled"

Upserted(row, req) ==
    IF ~Upserts(row, req) THEN row
    ELSE [req EXCEPT !.since = IF KeepsGrace(row, req) THEN row.since ELSE @]

ApplyAll(todo) ==
    CASE Len(todo) = 0 -> local
      [] Len(todo) = 1 -> Upserted(local, todo[1])
      [] Len(todo) = 2 -> Upserted(Upserted(local, todo[1]), todo[2])

\* The worker's transaction: the row and the receipt together.
CommitReceipt(w) ==
    LET n == actor[w].n
    IN  /\ actor[w].at = "apply" /\ Fenced(w, n)
        /\ local' = ApplyAll(actor[w].todo)
        /\ ReceiptSettled(n, IF receipt[n].kind = "other" THEN "ignored" ELSE "processed")
        /\ applied' = [applied EXCEPT ![n] = @ + 1]
        /\ SetActor(w, NoWebhookJob)
        /\ UNCHANGED <<provider, billingFaults>>

\* The reconciler has no transaction: its requests are two statements, between which a
\* worker may commit.
ApplyReconciled ==
    LET job == actor[Reconciler]
    IN  /\ job.at = "apply"
        /\ IF job.todo = <<>> THEN SetActor(Reconciler, NoWebhookJob) /\ UNCHANGED local
           ELSE /\ local' = Upserted(local, Head(job.todo))
                /\ SetActor(Reconciler, [job EXCEPT !.todo = Tail(@)])
        /\ JobUnchanged /\ UNCHANGED <<receipt, billingFaults>>

(***************************************************************************)
(* Failures                                                                *)
(***************************************************************************)
\* A statement or a request fails: the transaction is rolled back.
ActorFails(x) ==
    /\ actor[x].at \in {"recover", "fetch", "candidate", "apply"} /\ BillingFault
    /\ SetActor(x, IF x = Reconciler THEN NoWebhookJob
                   ELSE [NoWebhookJob EXCEPT !.at = "fail", !.n = actor[x].n])
    /\ JobUnchanged /\ UNCHANGED <<receipt, local>>

\* The reconciler reports a conflict, after the first of its requests was applied.
ReconcilerRejects ==
    /\ actor[Reconciler].at = "reject"
    /\ local' = ApplyAll(actor[Reconciler].todo)
    /\ SetActor(Reconciler, NoWebhookJob)
    /\ JobUnchanged /\ UNCHANGED <<receipt, billingFaults>>

\* fail: another attempt, or the dead letters after a permanent error or the last attempt;
\* a receipt that was taken over is left alone.
FailReceipt(w) ==
    LET n == actor[w].n
    IN  /\ actor[w].at \in {"fail", "reject"}
        /\ IF Fenced(w, n)
           THEN ReceiptSettled(n, IF \/ actor[w].at = "reject"
                                     \/ receipt[n].attempts >= WebhookAttempts
                                  THEN "dead_letter" ELSE "pending")
           ELSE UNCHANGED receipt
        /\ SetActor(w, NoWebhookJob)
        /\ JobUnchanged /\ UNCHANGED <<local, billingFaults>>

BillingCrash(w) ==
    /\ actor[w].at # "idle" /\ BillingFault
    /\ SetActor(w, NoWebhookJob)
    /\ JobUnchanged /\ UNCHANGED <<receipt, local>>

(***************************************************************************)
(* What the organization may use. The two deadlines of the row, the end of *)
(* the paid period and the end of the grace period, are over or not at the *)
(* moment of the question.                                                 *)
(***************************************************************************)
Deadlines == {"period", "grace"}

\* PaidAccessActive.
PaidAccess(over) ==
    \/ local.status = "active" /\ "period" \notin over
    \/ local.status = "past_due" /\ local.since # 0 /\ "grace" \notin over

\* limits.Service.Get: the plan of the subscription, or the free one.
EffectivePlan(over) == IF PaidAccess(over) THEN local.sub ELSE NoSub

\* Status: the plan that is shown, and whether a checkout or the portal is offered.
BillingStatus(over) ==
    [plan |-> EffectivePlan(over), checkout |-> CheckoutOpen, portal |-> local.sub # NoSub]

(***************************************************************************)
(* Specification                                                           *)
(***************************************************************************)
RecoverStep(x) == RecoverReads(x) \/ RecoverExisting(x) \/ RecoverCandidate(x)
WebhookJobStep(w) ==
    \/ \E n \in 1..MaxMoments : ClaimReceipt(w, n)
    \/ HandleEvent(w) \/ RecoverStep(w) \/ CommitReceipt(w) \/ FailReceipt(w)
ReconcilerStep ==
    RecoverStep(Reconciler) \/ ApplyReconciled \/ ReconcilerRejects

BillingNext ==
    \/ \E s \in PolarSubs, status \in ProviderPays : ProviderChanges(s, status)
    \/ \E n \in 1..MaxMoments, kind \in EventKind : Webhook(n, kind)
    \/ \E n \in 1..MaxMoments : LeaseGetsStale(n) \/ ReapExhausted(n)
    \/ \E w \in BillingWorkers : WebhookJobStep(w)
    \/ ReconcilerStep
    \/ \E x \in Actors : ActorFails(x)
    \/ \E w \in BillingWorkers : BillingCrash(w)

(***************************************************************************)
(* Properties                                                              *)
(***************************************************************************)
\* The row is what the provider said at the moment the row is dated: reports that come late,
\* twice or out of order, and reads that overtake them, never mix one moment's status with
\* another's date (RecoverOrganization: "a later provider event wins in SQL").
LocalIsDated ==
    local.sub # NoSub => local.status = PolarStatus(AsOf(local.sub, local.at))

\* A receipt takes effect once, although its lease may run out while a worker has it.
ReceiptAppliedOnce == \A n \in 1..MaxMoments : applied[n] <= 1

\* Reports of a subscription that stays past due never move the end of its grace period.
GraceNeverMoves ==
    [][(local.status = "past_due" /\ local'.status = "past_due" /\ local'.sub = local.sub)
           => local'.since = local.since]_billingVars

\* Access is paid for: the plan of a subscription is in force only if the provider said at the
\* moment of the row that it is active, or that it is past due, and then its grace period began
\* at a moment at which it was past due already, never with a report of another status.
\* Nobody can buy a second subscription while one gives access.
AccessIsPaid ==
    \A over \in SUBSET Deadlines : EffectivePlan(over) # NoSub =>
        /\ AsOf(local.sub, local.at) \in {"active", "past_due"}
        /\ AsOf(local.sub, local.at) = "past_due" =>
               local.since \in 1..local.at /\ AsOf(local.sub, local.since) = "past_due"
        /\ ~BillingStatus(over).checkout /\ BillingStatus(over).portal

\* What the platform run checks of payments.
BillingSound == [](LocalIsDated /\ ReceiptAppliedOnce /\ AccessIsPaid) /\ GraceNeverMoves

\* Receipts in the queue. Each is processed or put to the dead letters, even when its workers
\* crash.
OpenReceipts == {n \in 1..MaxMoments : receipt[n].status \in {"pending", "processing"}}

\* The subscription the organization pays for, when there is no doubt about it.
PaidSub(s) ==
    Current(s) = "active" /\ \A r \in PolarSubs \ {s} : Current(r) \in {"none", "canceled"}

\* Subscriptions that were bought last and are missing here: the reconciler finds them although
\* every webhook was lost.
MissedPurchases ==
    {s \in PolarSubs : /\ Now > 0 /\ PaidSub(s) /\ provider[Now].sub = s
                       /\ ~(local.sub = s /\ local.status = "active")}
=============================================================================
