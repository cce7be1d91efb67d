---------------------------- MODULE OutboundCall ----------------------------
(***************************************************************************)
(* Outbound calls: Service.Create, one remote call per step, run by the    *)
(* API server against the call runtime of CallCore.                        *)
(*                                                                         *)
(* All routes of a plan are endpoints of the one trunk the request names,  *)
(* so a retry competes for the same trunk lease.                           *)
(***************************************************************************)
EXTENDS CallCore

CONSTANTS
    OrgLimit,     \* plan concurrency; validPlanLimits refuses a plan without one
    TrunkLimit,   \* max_concurrent_calls of the trunk
    MaxRoutes     \* eligible endpoints of the trunk, at most maxOutboundAttempts

ASSUME OutboundAssumption ==
    /\ OrgLimit \in Nat \ {0}
    /\ TrunkLimit \in Nat
    /\ MaxRoutes \in Nat

VARIABLE create   \* the Create request of each call

vars == <<coreVars, create>>

\* Steps after which FreeSWITCH may run the originate command.
Originated == {"submitted", "uncertain", "bind", "bfHangup", "bfTrunk",
               "bfOrg", "bfFail", "unbound", "done"}
CreatePc == {"start", "org", "failOrg", "route", "failRoute", "attribute",
             "acquire", "resolve", "prepare", "originate", "markRelease",
             "release", "fail", "relOrg", "over"} \cup Originated

Create == [pc: CreatePc, left: 0..MaxRoutes, chan: Channels \cup {NoChannel}]

\* The request has returned or its process has died.
Returned(c) == create[c].pc \in {"over", "done", "unbound"}

\* The channel binding failed after a successful originate.
BindFailed(c) == create[c].pc \in {"bfHangup", "bfTrunk", "bfOrg", "bfFail", "unbound"}

TypeOK ==
    /\ CoreTypeOK
    /\ create \in [Calls -> Create]

Init ==
    /\ CoreInit
    /\ create = [c \in Calls |-> [pc |-> "start", left |-> 0, chan |-> NoChannel]]

At(c, pc) == create[c].pc = pc
Goto(c, pc) == create' = [create EXCEPT ![c].pc = pc]

(***************************************************************************)
(* Admission                                                               *)
(***************************************************************************)
\* repo.Create commits the row and its call.initiated event.
CreateRow(c) ==
    /\ At(c, "start")
    /\ row' = [row EXCEPT ![c] = [NoRow EXCEPT !.state = "initiating",
                                               !.outbound = TRUE]]
    /\ outbox' = [outbox EXCEPT ![c] = <<"initiated">>]
    /\ Goto(c, "org")
    /\ UNCHANGED <<attempt, marker, redisVars, fsVars, lc, job, faults>>

\* acquireOrganizationAdmission.
AcquireOrg(c) ==
    /\ At(c, "org")
    /\ IF CanAcquire(orgLease, c, OrgLimit)
       THEN orgLease' = Acquired(orgLease, c) /\ Goto(c, "route")
       ELSE UNCHANGED orgLease /\ Goto(c, "failOrg")
    /\ UNCHANGED <<dbVars, trunkLease, binding, owner, fsVars, lc, job, faults>>

\* The lookup or the acquisition fails, possibly after Redis applied it.
AcquireOrgFault(c) ==
    /\ At(c, "org")
    /\ \/ UNCHANGED orgLease
       \/ /\ CanAcquire(orgLease, c, OrgLimit)
          /\ orgLease' = Acquired(orgLease, c)
    /\ Goto(c, "failOrg")
    /\ Fault
    /\ UNCHANGED <<dbVars, trunkLease, binding, owner, fsVars, lc, job>>

\* ResolveOutbound finds between none and MaxRoutes eligible endpoints.
ResolveRoutes(c) ==
    /\ At(c, "route")
    /\ \E n \in 0..MaxRoutes :
          create' = [create EXCEPT ![c].pc = IF n = 0 THEN "failRoute" ELSE "attribute",
                                   ![c].left = n]
    /\ UNCHANGED <<dbVars, redisVars, fsVars, lc, job, faults>>

(***************************************************************************)
(* One route attempt                                                       *)
(***************************************************************************)
\* SetRouteAttribution has no state guard.
Attribute(c) ==
    /\ At(c, "attribute")
    /\ row' = [row EXCEPT ![c].trunk = TRUE]
    /\ Goto(c, "acquire")
    /\ UNCHANGED <<attempt, marker, outbox, redisVars, fsVars, lc, job, faults>>

\* Mutant: the route plan is not bounded.
NextRouteUnbounded(c) ==
    create' = [create EXCEPT ![c].pc = "attribute", ![c].left = create[c].left - 1]

\* executeRoutePlan after a retryable failure: the next route, if any.
NextRoute(c) ==
    create' = [create EXCEPT ![c].pc = IF create[c].left > 1 THEN "attribute" ELSE "fail",
                             ![c].left = IF create[c].left > 1 THEN create[c].left - 1 ELSE 0]

AcquireTrunk(c) ==
    /\ At(c, "acquire")
    /\ CanAcquire(trunkLease, c, TrunkLimit)
    /\ trunkLease' = Acquired(trunkLease, c)
    /\ Goto(c, "resolve")
    /\ UNCHANGED <<dbVars, orgLease, binding, owner, fsVars, lc, job, faults>>

\* The concurrency or the CPS limit refuses the call: a retryable failure.
RefuseTrunk(c) ==
    /\ At(c, "acquire")
    /\ c \notin trunkLease
    /\ NextRoute(c)
    /\ UNCHANGED <<dbVars, redisVars, fsVars, lc, job, faults>>

\* An admission error is classified like a refusal; Redis may have applied it.
AcquireTrunkFault(c) ==
    /\ At(c, "acquire")
    /\ \/ UNCHANGED trunkLease
       \/ /\ CanAcquire(trunkLease, c, TrunkLimit)
          /\ trunkLease' = Acquired(trunkLease, c)
    /\ NextRoute(c)
    /\ Fault
    /\ UNCHANGED <<dbVars, orgLease, binding, owner, fsVars, lc, job>>

\* egressPolicy.ResolveHost accepts the endpoint's addresses or not.
ResolveEgress(c) ==
    /\ At(c, "resolve")
    /\ Goto(c, "prepare") \/ Goto(c, "release")
    /\ UNCHANGED <<dbVars, redisVars, fsVars, lc, job, faults>>

\* PrepareOrigination durably records a fresh channel UUID.
Prepare(c, ch) ==
    /\ At(c, "prepare")
    /\ attempt[ch].call = NoCall
    /\ attempt' = [attempt EXCEPT ![ch] = [call |-> c, status |-> "prepared"]]
    /\ create' = [create EXCEPT ![c].pc = "originate", ![c].chan = ch]
    /\ UNCHANGED <<row, marker, outbox, redisVars, fsVars, lc, job, faults>>

\* FreeSWITCH queues the background originate of the request's channel.
Queued(c) == [fs EXCEPT ![create[c].chan] = [st |-> "queued", cid |-> c]]

Originate(c) ==
    /\ At(c, "originate")
    /\ \/ fs' = Queued(c) /\ Goto(c, "submitted")
       \/ UNCHANGED fs /\ Goto(c, "markRelease")   \* refused before it was sent
    /\ UNCHANGED <<dbVars, redisVars, evq, lc, job, faults>>

\* Mutant: an uncertain outcome is retried on the next route.
OriginateUncertainRetry(c) ==
    /\ At(c, "originate")
    /\ fs' = Queued(c) \/ UNCHANGED fs
    /\ NextRoute(c)
    /\ Fault
    /\ UNCHANGED <<dbVars, redisVars, evq, lc, job>>

\* Mutant: an uncertain outcome is treated as a refusal.
OriginateUncertainRelease(c) ==
    /\ At(c, "originate")
    /\ fs' = Queued(c) \/ UNCHANGED fs
    /\ Goto(c, "markRelease")
    /\ Fault
    /\ UNCHANGED <<dbVars, redisVars, evq, lc, job>>

\* No acknowledgement: the command may have been queued or not.
OriginateUncertain(c) ==
    /\ At(c, "originate")
    /\ fs' = Queued(c) \/ UNCHANGED fs
    /\ Goto(c, "uncertain")
    /\ Fault
    /\ UNCHANGED <<dbVars, redisVars, evq, lc, job>>

MarkSubmitted(c) ==
    /\ At(c, "submitted")
    /\ attempt' = IF attempt[create[c].chan].status = "prepared"
                  THEN [attempt EXCEPT ![create[c].chan].status = "submitted"]
                  ELSE attempt
    /\ Goto(c, "bind")
    /\ UNCHANGED <<row, marker, outbox, redisVars, fsVars, lc, job, faults>>

MarkUncertain(c) ==
    /\ create[c].pc \in {"uncertain", "markRelease"}
    /\ attempt' = IF attempt[create[c].chan].status \in {"prepared", "submitted"}
                  THEN [attempt EXCEPT ![create[c].chan].status = "uncertain"]
                  ELSE attempt
    /\ Goto(c, IF At(c, "uncertain") THEN "done" ELSE "release")
    /\ UNCHANGED <<row, marker, outbox, redisVars, fsVars, lc, job, faults>>

ReleaseTrunk(c) ==
    /\ At(c, "release")
    /\ trunkLease' = Released(trunkLease, c)
    /\ Goto(c, "fail")
    /\ UNCHANGED <<dbVars, orgLease, binding, owner, fsVars, lc, job, faults>>

(***************************************************************************)
(* Completion                                                              *)
(***************************************************************************)
\* MarkFailed of a request that dials nothing; its error is ignored.
AfterFail(pc) == IF pc = "failOrg" THEN "over" ELSE "relOrg"

FailCall(c) ==
    /\ create[c].pc \in {"failOrg", "failRoute", "fail"}
    /\ mutate(c, "failed") \/ (~CanMark(row[c], "failed") /\ UNCHANGED dbVars)
    /\ Goto(c, AfterFail(create[c].pc))
    /\ UNCHANGED <<redisVars, fsVars, lc, job, faults>>

ReleaseOrg(c) ==
    /\ At(c, "relOrg")
    /\ orgLease' = Released(orgLease, c)
    /\ Goto(c, "over")
    /\ UNCHANGED <<dbVars, trunkLease, binding, owner, fsVars, lc, job, faults>>

BindChannel(c) ==
    /\ At(c, "bind")
    /\ ChannelBind(c, create[c].chan)
    /\ Goto(c, "done")
    /\ UNCHANGED <<dbVars, orgLease, trunkLease, fsVars, lc, job, faults>>

\* The binding failed: hang up, release both leases, mark the call failed.
UnwindHangup(c) ==
    /\ At(c, "bfHangup")
    /\ IF fs[create[c].chan].st \in FsLive
       THEN \E e \in HangupEvents(create[c].chan) : Emit(create[c].chan, "gone", e)
       ELSE UNCHANGED fsVars
    /\ Goto(c, "bfTrunk")
    /\ UNCHANGED <<dbVars, redisVars, lc, job, faults>>

UnwindTrunk(c) ==
    /\ At(c, "bfTrunk")
    /\ trunkLease' = Released(trunkLease, c)
    /\ Goto(c, "bfOrg")
    /\ UNCHANGED <<dbVars, orgLease, binding, owner, fsVars, lc, job, faults>>

UnwindOrg(c) ==
    /\ At(c, "bfOrg")
    /\ orgLease' = Released(orgLease, c)
    /\ Goto(c, "bfFail")
    /\ UNCHANGED <<dbVars, trunkLease, binding, owner, fsVars, lc, job, faults>>

UnwindFail(c) ==
    /\ At(c, "bfFail")
    /\ mutate(c, "failed") \/ (~CanMark(row[c], "failed") /\ UNCHANGED dbVars)
    /\ Goto(c, "unbound")
    /\ UNCHANGED <<redisVars, fsVars, lc, job, faults>>

(***************************************************************************)
(* A remote call of the request fails without effect: where Create goes.   *)
(***************************************************************************)
OnError(pc) ==
    CASE pc = "route" -> "failRoute"
      [] pc = "attribute" -> "fail"
      [] pc = "prepare" -> "release"
      [] pc = "submitted" -> "done"
      [] pc = "uncertain" -> "done"
      [] pc = "markRelease" -> "release"
      [] pc = "release" -> "fail"
      [] pc \in {"failOrg", "failRoute", "fail"} -> AfterFail(pc)
      [] pc = "relOrg" -> "over"
      [] pc = "bind" -> "bfHangup"
      [] pc = "bfHangup" -> "bfTrunk"
      [] pc = "bfTrunk" -> "bfOrg"
      [] pc = "bfOrg" -> "bfFail"
      [] pc = "bfFail" -> "unbound"

CreateFault(c) ==
    /\ create[c].pc \in {"route", "attribute", "prepare", "submitted", "uncertain",
                         "markRelease", "release", "failOrg", "failRoute", "fail",
                         "relOrg", "bind", "bfHangup", "bfTrunk", "bfOrg", "bfFail"}
    /\ Goto(c, OnError(create[c].pc))
    /\ Fault
    /\ UNCHANGED <<dbVars, redisVars, fsVars, lc, job>>

\* The server process dies, or the client's disconnect cancels the context
\* every later call of the request is made with.
CreateCrash(c) ==
    /\ ~At(c, "start")
    /\ ~Returned(c)
    /\ Goto(c, IF BindFailed(c) THEN "unbound"
               ELSE IF create[c].pc \in Originated THEN "done" ELSE "over")
    /\ Fault
    /\ UNCHANGED <<dbVars, redisVars, fsVars, lc, job>>

\* A lease nobody refreshes any more reaches its 26 hour expiry.
Refreshers(c) ==
    \/ c \in ActiveCalls
    \/ c \in job.calls
    \/ \E ch \in Channels : lc[ch].call = c /\ lc[ch].pc \in {"refreshOrg", "refreshTrunk"}

LeaseExpire(c) ==
    /\ Returned(c)
    /\ ~Refreshers(c)
    /\ c \in orgLease \cup trunkLease
    /\ orgLease' = orgLease \ {c}
    /\ trunkLease' = trunkLease \ {c}
    /\ UNCHANGED <<dbVars, binding, owner, fsVars, lc, job, faults, create>>

(***************************************************************************)
(* Specification                                                           *)
(***************************************************************************)
CreateStep(c) ==
    \/ CreateRow(c) \/ AcquireOrg(c) \/ ResolveRoutes(c) \/ Attribute(c)
    \/ AcquireTrunk(c) \/ RefuseTrunk(c) \/ ResolveEgress(c)
    \/ \E ch \in Channels : Prepare(c, ch)
    \/ Originate(c) \/ MarkSubmitted(c) \/ MarkUncertain(c)
    \/ ReleaseTrunk(c) \/ FailCall(c) \/ ReleaseOrg(c) \/ BindChannel(c)
    \/ UnwindHangup(c) \/ UnwindTrunk(c) \/ UnwindOrg(c) \/ UnwindFail(c)

CreateFailure(c) ==
    \/ AcquireOrgFault(c) \/ AcquireTrunkFault(c) \/ OriginateUncertain(c)
    \/ CreateFault(c) \/ CreateCrash(c)

RuntimeStep ==
    \/ \E ch \in Channels : FreeSwitch(ch) \/ Lifecycle(ch)
    \/ \E c \in Calls, ch \in Channels : Control(c, ch)
    \/ Reconcile
    \/ Failure
    \/ WorkerRestart

Next ==
    \/ \E c \in Calls : CreateStep(c) \/ CreateFailure(c) \/ LeaseExpire(c)
    \/ RuntimeStep /\ UNCHANGED create

\* The job ticks for ever and each handler runs to completion; a request,
\* once started, keeps running unless its process dies.
Fairness ==
    /\ WF_vars(Reconcile /\ UNCHANGED create)
    /\ \A ch \in Channels : WF_vars(Lifecycle(ch) /\ UNCHANGED create)
    /\ \A c \in Calls : WF_vars(~At(c, "start") /\ CreateStep(c))
    /\ \A c \in Calls : WF_vars(LeaseExpire(c))

Spec == Init /\ [][Next]_vars
FairSpec == Spec /\ Fairness

(***************************************************************************)
(* Properties                                                              *)
(***************************************************************************)
\* Whatever Create, the lifecycle handlers and the job interleave, the row and
\* the outbox of a call show its subscribers a legal history: forward moves,
\* one end, one event per change (Repository.mutate and the Mark* guards).
ImplementsLifecycle == Abstract!LifecycleSpec

\* However the attempts of a call fail, are retried, time out or are left
\* uncertain, FreeSWITCH is asked for at most one channel for it
\* (executeRoutePlan, classifyOriginateFailure): no call is dialled twice.
AtMostOneOriginate ==
    \A ch1, ch2 \in Channels :
        fs[ch1].cid # NoCall /\ fs[ch1].cid = fs[ch2].cid => ch1 = ch2

\* While a channel placed for a call may be up, the call holds the trunk lease
\* and the organization lease, whatever failed in between (Create keeps the
\* leases of an uncertain originate; Reconcile and ObserveLifecycle renew
\* them); only the unwinding of a failed channel binding gives them up first.
LiveChannelHoldsLeases ==
    \A ch \in Channels :
        LET c == fs[ch].cid
        IN  fs[ch].st \in FsLive \cup {"queued"} /\ ~BindFailed(c)
            => c \in trunkLease /\ c \in orgLease

\* The channels that calls of the organization may have up never exceed the
\* plan's concurrency (acquireOrganizationAdmission), also when the job
\* renews leases between two steps of a request.
OrgAdmissionRespected ==
    Cardinality({ch \in Channels : /\ fs[ch].st \in FsLive \cup {"queued"}
                                   /\ ~BindFailed(fs[ch].cid)}) <= OrgLimit

\* An attempt leaves the unresolved list only after the call can be reached
\* through its channel: ObserveLifecycle and reconcileOriginations bind the
\* channel before they mark the attempt observed.
ObservedIsBound ==
    \A ch \in Channels :
        attempt[ch].status = "observed" /\ row[attempt[ch].call].state \in LiveState
        => binding[attempt[ch].call] = ch

\* Every terminal call gives its capacity back for good, despite lost events,
\* failed releases, restarts and late refreshes (cleanupTerminalAdmission,
\* reconcileTerminalCleanup, lease expiry).
CapacityReturned ==
    \A c \in Calls :
        isTerminalState(row[c].state) ~> [](c \notin orgLease \cup trunkLease)

\* Each committed cleanup marker is worked off (reconcileTerminalCleanup).
CleanupCompletes == \A c \in Calls : c \in marker ~> c \notin marker

\* A channel that stays up is found again although the originate was
\* uncertain, the request died or its events were lost (reconcileOriginations).
ChannelRecovered ==
    \A c \in Calls, ch \in Channels :
        fs[ch].cid = c /\ fs[ch].st \in FsLive
            ~> \/ fs[ch].st = "gone"
               \/ binding[c] = ch
               \/ isTerminalState(row[c].state)

\* A request that ends without a channel gives its capacity back: a process
\* that died between two steps cannot hold it for ever.
AbandonedRequestReleases ==
    \A c \in Calls : At(c, "over") ~> [](c \notin orgLease \cup trunkLease)
=============================================================================
