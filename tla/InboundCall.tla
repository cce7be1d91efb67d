---------------------------- MODULE InboundCall -----------------------------
(***************************************************************************)
(* Inbound calls: Service.AdmitInbound, one remote call per step, run by   *)
(* every worker that receives the CHANNEL_CREATE event of a channel,       *)
(* against the call runtime of CallCore.                                   *)
(*                                                                         *)
(* Until the call row exists the leases are named by the channel; BindCall-*)
(* Lease renames them to the call.                                         *)
(***************************************************************************)
EXTENDS CallCore

CONSTANTS
    Workers,      \* processes subscribed to the FreeSWITCH events
    Handler,      \* the worker whose lifecycle handlers are modelled
    OrgLimit,     \* plan concurrency of the organization
    TrunkLimit    \* max_concurrent_calls of the trunk

ASSUME InboundAssumption ==
    /\ Handler \in Workers
    /\ NoCall \notin Channels
    /\ OrgLimit \in Nat \ {0}
    /\ TrunkLimit \in Nat

VARIABLE adm      \* adm[w][ch]: the admission of channel ch by worker w

vars == <<coreVars, adm>>

\* Compensations, executed in the order the code lists them: release a lease
\* named by the channel or by the call, mark the call failed, hang up, or
\* (reuse) go on with the call another admission created.
Undo == {"trunkByChannel", "orgByChannel", "trunkByCall", "orgByCall",
         "markFailed", "hangup", "reuse"}
AdmPc == {"none", "lookup", "acquireOrg", "acquireTrunk", "create", "attribute",
          "bindOrg", "bindTrunk", "reuse", "refreshOrg", "refreshTrunk",
          "bind", "setCallID", "undo", "admitted", "rejected"}
Adm == [pc: AdmPc, call: Calls \cup {NoCall}, new: BOOLEAN, undo: Seq(Undo)]
IdleAdm == [pc |-> "none", call |-> NoCall, new |-> FALSE, undo |-> << >>]

TypeOK ==
    /\ CoreTypeOK
    /\ adm \in [Workers -> [Channels -> Adm]]

Init ==
    /\ CoreInit
    /\ adm = [w \in Workers |-> [ch \in Channels |-> IdleAdm]]

At(w, ch, pc) == adm[w][ch].pc = pc
Goto(w, ch, pc) == adm' = [adm EXCEPT ![w][ch].pc = pc]
UndoBy(w, ch, steps) ==
    adm' = [adm EXCEPT ![w][ch].pc = "undo", ![w][ch].undo = steps]

\* The call that owns the dialog of a channel (the unique SIP Call-ID).
Existing(ch) == {c \in Calls : row[c].state # "none" /\ row[c].sip = ch}

\* A caller's channel appears; every worker that is connected receives its CHANNEL_CREATE.
FsArrive(ch) ==
    /\ fs[ch].st = "none"
    /\ fs' = [fs EXCEPT ![ch].st = "created"]
    /\ adm' = [w \in Workers |->
                  [adm[w] EXCEPT ![ch].pc = IF @ = "none" THEN "lookup" ELSE @]]
    /\ UNCHANGED <<dbVars, redisVars, evq, lc, job, faults>>

(***************************************************************************)
(* Lookup and admission of a new dialog                                    *)
(***************************************************************************)
\* GetBySIPCallIDGlobal and validateExistingInbound, or, for a new dialog,
\* ResolveInbound and the runtime allowance, which may refuse it.
Lookup(w, ch) ==
    /\ At(w, ch, "lookup")
    /\ \/ \E c \in Existing(ch) :
             adm' = [adm EXCEPT ![w][ch] =
                       IF isTerminalState(row[c].state)
                       THEN [@ EXCEPT !.pc = "undo", !.undo = <<"hangup">>]
                       ELSE [@ EXCEPT !.pc = "reuse", !.call = c]]
       \/ /\ Existing(ch) = {}
          /\ Goto(w, ch, "acquireOrg") \/ UndoBy(w, ch, <<"hangup">>)
    /\ UNCHANGED <<dbVars, redisVars, fsVars, lc, job, faults>>

AcquireOrg(w, ch) ==
    /\ At(w, ch, "acquireOrg")
    /\ IF CanAcquire(orgLease, ch, OrgLimit)
       THEN orgLease' = Acquired(orgLease, ch) /\ Goto(w, ch, "acquireTrunk")
       ELSE UNCHANGED orgLease /\ UndoBy(w, ch, <<"hangup">>)
    /\ UNCHANGED <<dbVars, trunkLease, binding, owner, fsVars, lc, job, faults>>

AcquireTrunk(w, ch) ==
    /\ At(w, ch, "acquireTrunk")
    /\ IF CanAcquire(trunkLease, ch, TrunkLimit)
       THEN trunkLease' = Acquired(trunkLease, ch) /\ Goto(w, ch, "create")
       ELSE UNCHANGED trunkLease /\ UndoBy(w, ch, <<"orgByChannel", "hangup">>)
    /\ UNCHANGED <<dbVars, orgLease, binding, owner, fsVars, lc, job, faults>>

\* Mutant: the admission loses the id of the row it created.
CreateInboundForgotten(w, ch) ==
    /\ At(w, ch, "create")
    /\ \E c \in Calls :
          /\ row[c].state = "none"
          /\ row' = [row EXCEPT ![c] = [NoRow EXCEPT !.state = "ringing", !.sip = ch]]
          /\ outbox' = [outbox EXCEPT ![c] = <<"ringing">>]
    /\ Goto(w, ch, "bindOrg")
    /\ UNCHANGED <<attempt, marker, redisVars, fsVars, lc, job, faults>>

\* Mutant: the insert trusts the lookup made before the leases were taken.
CreateInboundUnchecked(w, ch) ==
    /\ At(w, ch, "create")
    /\ \E c \in Calls :
          /\ row[c].state = "none"
          /\ row' = [row EXCEPT ![c] = [NoRow EXCEPT !.state = "ringing", !.sip = ch]]
          /\ outbox' = [outbox EXCEPT ![c] = <<"ringing">>]
          /\ adm' = [adm EXCEPT ![w][ch] = [@ EXCEPT !.pc = "attribute", !.call = c, !.new = TRUE]]
    /\ UNCHANGED <<attempt, marker, redisVars, fsVars, lc, job, faults>>

\* CreateInbound commits the row and its call.ringing event; the loser of the
\* unique SIP Call-ID gives the channel's leases back and reuses the row.
CreateInbound(w, ch) ==
    /\ At(w, ch, "create")
    /\ \/ /\ Existing(ch) = {}
          /\ \E c \in Calls :
                /\ row[c].state = "none"
                /\ row' = [row EXCEPT ![c] = [NoRow EXCEPT !.state = "ringing",
                                                           !.sip = ch]]
                /\ outbox' = [outbox EXCEPT ![c] = <<"ringing">>]
                /\ adm' = [adm EXCEPT ![w][ch] = [@ EXCEPT !.pc = "attribute",
                                                           !.call = c, !.new = TRUE]]
       \/ /\ \E c \in Existing(ch) :
                adm' = [adm EXCEPT ![w][ch] =
                          [@ EXCEPT !.pc = "undo", !.call = c,
                                    !.undo = <<"trunkByChannel", "orgByChannel",
                                       IF isTerminalState(row[c].state)
                                       THEN "hangup" ELSE "reuse">>]]
          /\ UNCHANGED <<row, outbox>>
    /\ UNCHANGED <<attempt, marker, redisVars, fsVars, lc, job, faults>>

\* SetRouteAttribution of the new row.
Attribute(w, ch) ==
    /\ At(w, ch, "attribute")
    /\ row' = [row EXCEPT ![adm[w][ch].call].trunk = TRUE]
    /\ Goto(w, ch, "bindOrg")
    /\ UNCHANGED <<attempt, marker, outbox, redisVars, fsVars, lc, job, faults>>

AfterBindOrgError   == <<"markFailed", "trunkByChannel", "orgByChannel", "hangup">>
AfterBindTrunkError == <<"markFailed", "trunkByChannel", "orgByCall", "hangup">>
AfterChannelError   == <<"trunkByCall", "orgByCall", "markFailed", "hangup">>

\* BindOrganization fails when the lease of the channel is gone.
BindOrg(w, ch) ==
    /\ At(w, ch, "bindOrg")
    /\ IF CanBindLease(orgLease, ch)
       THEN /\ orgLease' = BoundLease(orgLease, ch, adm[w][ch].call)
            /\ Goto(w, ch, "bindTrunk")
       ELSE UNCHANGED orgLease /\ UndoBy(w, ch, AfterBindOrgError)
    /\ UNCHANGED <<dbVars, trunkLease, binding, owner, fsVars, lc, job, faults>>

BindTrunk(w, ch) ==
    /\ At(w, ch, "bindTrunk")
    /\ IF CanBindLease(trunkLease, ch)
       THEN /\ trunkLease' = BoundLease(trunkLease, ch, adm[w][ch].call)
            /\ Goto(w, ch, "bind")
       ELSE UNCHANGED trunkLease /\ UndoBy(w, ch, AfterBindTrunkError)
    /\ UNCHANGED <<dbVars, orgLease, binding, owner, fsVars, lc, job, faults>>

(***************************************************************************)
(* Reuse of an existing call                                               *)
(***************************************************************************)
\* ensureInboundAttribution.
Reuse(w, ch) ==
    /\ At(w, ch, "reuse")
    /\ row' = [row EXCEPT ![adm[w][ch].call].trunk = TRUE]
    /\ Goto(w, ch, "refreshOrg")
    /\ UNCHANGED <<attempt, marker, outbox, redisVars, fsVars, lc, job, faults>>

RefreshOrg(w, ch) ==
    /\ At(w, ch, "refreshOrg")
    /\ orgLease' = Refreshed(orgLease, adm[w][ch].call)
    /\ Goto(w, ch, "refreshTrunk")
    /\ UNCHANGED <<dbVars, trunkLease, binding, owner, fsVars, lc, job, faults>>

RefreshTrunk(w, ch) ==
    /\ At(w, ch, "refreshTrunk")
    /\ trunkLease' = Refreshed(trunkLease, adm[w][ch].call)
    /\ Goto(w, ch, "bind")
    /\ UNCHANGED <<dbVars, orgLease, binding, owner, fsVars, lc, job, faults>>

(***************************************************************************)
(* bindInboundChannel: the stored binding, then the channel variable       *)
(***************************************************************************)
Bind(w, ch) ==
    /\ At(w, ch, "bind")
    /\ ChannelBind(adm[w][ch].call, ch)
    /\ Goto(w, ch, "setCallID")
    /\ UNCHANGED <<dbVars, orgLease, trunkLease, fsVars, lc, job, faults>>

\* What AdmitInbound does when the channel could not be bound.
UndoBinding(w, ch) ==
    UndoBy(w, ch, IF adm[w][ch].new THEN AfterChannelError ELSE <<"hangup">>)

\* uuid_setvar fails when the channel is gone; the binding is deleted then.
SetCallID(w, ch) ==
    /\ At(w, ch, "setCallID")
    /\ IF fs[ch].st \in FsLive
       THEN /\ fs' = [fs EXCEPT ![ch].cid = adm[w][ch].call]
            /\ Goto(w, ch, "admitted")
            /\ UNCHANGED <<binding, owner>>
       ELSE /\ ChannelDelete(adm[w][ch].call)
            /\ UndoBinding(w, ch)
            /\ UNCHANGED fs
    /\ UNCHANGED <<dbVars, orgLease, trunkLease, evq, lc, job, faults>>

(***************************************************************************)
(* Compensation                                                            *)
(***************************************************************************)
\* One compensation; its error is ignored by the code.
Compensate(step, c, ch) ==
    /\ orgLease' = CASE step = "orgByChannel" -> Released(orgLease, ch)
                     [] step = "orgByCall" -> Released(orgLease, c)
                     [] OTHER -> orgLease
    /\ trunkLease' = CASE step = "trunkByChannel" -> Released(trunkLease, ch)
                       [] step = "trunkByCall" -> Released(trunkLease, c)
                       [] OTHER -> trunkLease
    /\ IF step = "markFailed" /\ CanMark(row[c], "failed")
       THEN mutate(c, "failed") ELSE UNCHANGED dbVars
    /\ IF step = "hangup" /\ fs[ch].st \in FsLive
       THEN \E e \in HangupEvents(ch) : Emit(ch, "gone", e)
       ELSE UNCHANGED fsVars

Compensated(w, ch) ==
    LET step == Head(adm[w][ch].undo)
    IN  adm' = [adm EXCEPT ![w][ch].undo = Tail(@),
                           ![w][ch].pc = CASE step = "hangup" -> "rejected"
                                           [] step = "reuse" -> "reuse"
                                           [] OTHER -> "undo"]

UndoStep(w, ch) ==
    /\ At(w, ch, "undo")
    /\ Compensate(Head(adm[w][ch].undo), adm[w][ch].call, ch)
    /\ Compensated(w, ch)
    /\ UNCHANGED <<binding, owner, lc, job, faults>>

(***************************************************************************)
(* Failures                                                                *)
(***************************************************************************)
\* What AdmitInbound undoes when the remote call at pc fails.  A failed
\* SetRouteAttribution has overwritten the call, so its MarkFailed names no row.
OnError(pc, new) ==
    CASE pc \in {"lookup", "acquireOrg", "reuse", "refreshOrg", "refreshTrunk"}
           -> <<"hangup">>
      [] pc = "acquireTrunk" -> <<"orgByChannel", "hangup">>
      [] pc \in {"create", "attribute"}
           -> <<"trunkByChannel", "orgByChannel", "hangup">>
      [] pc = "bindOrg" -> AfterBindOrgError
      [] pc = "bindTrunk" -> AfterBindTrunkError
      [] pc \in {"bind", "setCallID"} -> IF new THEN AfterChannelError ELSE <<"hangup">>

\* The acquisition that reports an error may have been applied by Redis.
AdmitFault(w, ch) ==
    /\ adm[w][ch].pc \notin {"none", "undo", "admitted", "rejected"}
    /\ UndoBy(w, ch, OnError(adm[w][ch].pc, adm[w][ch].new))
    /\ \/ UNCHANGED orgLease
       \/ At(w, ch, "acquireOrg") /\ CanAcquire(orgLease, ch, OrgLimit)
                                 /\ orgLease' = Acquired(orgLease, ch)
    /\ \/ UNCHANGED trunkLease
       \/ At(w, ch, "acquireTrunk") /\ CanAcquire(trunkLease, ch, TrunkLimit)
                                   /\ trunkLease' = Acquired(trunkLease, ch)
    /\ IF At(w, ch, "setCallID")
       THEN ChannelDelete(adm[w][ch].call) ELSE UNCHANGED <<binding, owner>>
    /\ Fault
    /\ UNCHANGED <<dbVars, fsVars, lc, job>>

\* A compensation fails: the code goes on with the next one.
UndoFault(w, ch) ==
    /\ At(w, ch, "undo")
    /\ Head(adm[w][ch].undo) # "reuse"
    /\ Compensated(w, ch)
    /\ Fault
    /\ UNCHANGED <<dbVars, redisVars, fsVars, lc, job>>

Finished(w, ch) == adm[w][ch].pc \in {"none", "admitted", "rejected"}

\* A worker dies: nobody is told about the channels it was admitting again.
WorkerCrash(w) ==
    /\ adm' = [adm EXCEPT ![w] =
                  [ch \in Channels |-> IF Finished(w, ch) THEN @[ch]
                                       ELSE [@[ch] EXCEPT !.pc = "rejected", !.undo = << >>]]]
    /\ IF w = Handler
       THEN WorkerRestart
       ELSE Fault /\ UNCHANGED <<dbVars, redisVars, fsVars, lc, job>>

(***************************************************************************)
(* Specification                                                           *)
(***************************************************************************)
AdmitStep(w, ch) ==
    \/ Lookup(w, ch) \/ AcquireOrg(w, ch) \/ AcquireTrunk(w, ch)
    \/ CreateInbound(w, ch) \/ Attribute(w, ch) \/ BindOrg(w, ch)
    \/ BindTrunk(w, ch) \/ Reuse(w, ch) \/ RefreshOrg(w, ch)
    \/ RefreshTrunk(w, ch) \/ Bind(w, ch) \/ SetCallID(w, ch) \/ UndoStep(w, ch)

AdmitFailure(w, ch) == AdmitFault(w, ch) \/ UndoFault(w, ch)

\* The Handler's queue of a channel is FIFO: CHANNEL_CREATE comes first.
InboundLifecycle(ch) == Finished(Handler, ch) /\ Lifecycle(ch)

\* A lease reaches its expiry once nothing renews or still needs it.
LeaseExpire(id) ==
    /\ id \in orgLease \cup trunkLease
    /\ id \notin ActiveCalls \cup job.calls
    /\ \A ch \in Channels : lc[ch].pc \in {"refreshOrg", "refreshTrunk"} => lc[ch].call # id
    /\ \A w \in Workers, ch \in Channels :
          Finished(w, ch) \/ (ch # id /\ adm[w][ch].call # id)
    /\ orgLease' = orgLease \ {id}
    /\ trunkLease' = trunkLease \ {id}
    /\ UNCHANGED <<dbVars, binding, owner, fsVars, lc, job, faults, adm>>

InboundCore ==
    \/ \E ch \in Channels : FreeSwitch(ch) \/ InboundLifecycle(ch)
    \/ \E c \in Calls, ch \in Channels : Control(c, ch)
    \/ Reconcile
    \/ Failure

Next ==
    \/ \E ch \in Channels : FsArrive(ch)
    \/ \E w \in Workers, ch \in Channels : AdmitStep(w, ch) \/ AdmitFailure(w, ch)
    \/ \E w \in Workers : WorkerCrash(w)
    \/ \E id \in Calls \cup Channels : LeaseExpire(id)
    \/ InboundCore /\ UNCHANGED adm

Fairness ==
    /\ WF_vars(Reconcile /\ UNCHANGED adm)
    /\ \A ch \in Channels : WF_vars(InboundLifecycle(ch) /\ UNCHANGED adm)
    /\ \A w \in Workers, ch \in Channels : WF_vars(AdmitStep(w, ch))
    /\ \A id \in Calls \cup Channels : WF_vars(LeaseExpire(id))

Spec == Init /\ [][Next]_vars
FairSpec == Spec /\ Fairness

(***************************************************************************)
(* Properties                                                              *)
(***************************************************************************)
\* Whatever admissions, lifecycle handlers and the job interleave, the row and
\* the outbox of an inbound call show its subscribers a legal history
\* (Repository.mutate and the Mark* guards).
ImplementsLifecycle == Abstract!LifecycleSpec

\* The channel of a call that was admitted and has not ended counts against
\* both limits, through every rename, renewal and failure (BindOrganization,
\* Bind, Refresh): a call in progress is never missing from the leases.
AdmittedHoldsLeases ==
    \A ch \in Channels, c \in Calls :
        fs[ch].cid = c /\ fs[ch].st \in FsLive /\ row[c].state \in LiveState
        => c \in orgLease /\ c \in trunkLease

\* A call in progress can be controlled: bindInboundChannel and the lifecycle
\* handler keep its binding until the terminal cleanup deletes it.
AdmittedIsReachable ==
    \A ch \in Channels, c \in Calls :
        fs[ch].cid = c /\ fs[ch].st \in FsLive /\ row[c].state \in LiveState
        => binding[c] = ch

\* Admitted channels that are up stay within the plan's concurrency and the
\* trunk's max_concurrent_calls, although every lease changes its name on the
\* way and the job adds leases of its own.
InboundLimitsRespected ==
    LET up == {ch \in Channels : fs[ch].cid # NoCall /\ fs[ch].st \in FsLive}
    IN  Cardinality(up) <= OrgLimit /\ Cardinality(up) <= TrunkLimit

\* A dialog has one call, and nothing that leads from a channel to a call or
\* back leads out of its dialog: neither the channel's variable, nor the two
\* stored bindings, nor the call an admission works on.  So no control and no
\* lifecycle event of one caller reaches the call of another, and two workers
\* that admit one dialog at once work on one row (GetBySIPCallIDGlobal, the
\* unique SIP Call-ID of CreateInbound, bindInboundChannel).
DialogsStayApart ==
    /\ \A c, d \in Calls :
          row[c].state # "none" /\ row[d].state # "none" /\ row[c].sip = row[d].sip => c = d
    /\ \A ch \in Channels, w \in Workers :
          \A c \in Calls \cap {fs[ch].cid, owner[ch], adm[w][ch].call} : c \in Existing(ch)
    /\ \A c \in Calls : binding[c] \in Channels => c \in Existing(binding[c])

\* Capacity taken for a channel or a call that has ended is given back for
\* good, whichever step of the admission failed or crashed (AdmitInbound's
\* releases, cleanupTerminalAdmission, lease expiry).
CapacityReturned ==
    /\ \A ch \in Channels :
          fs[ch].st = "gone" ~> [](ch \notin orgLease \cup trunkLease)
    /\ \A c \in Calls :
          isTerminalState(row[c].state) ~> [](c \notin orgLease \cup trunkLease)

\* While the caller's channel is up and nothing has failed, no admission marks
\* its call as failed: the loser of the race for the SIP Call-ID reuses the
\* durable call (CreateInbound's error path in AdmitInbound).
ConcurrentAdmissionReuses ==
    faults = 0 =>
        \A w \in Workers, ch \in Channels :
            fs[ch].st \in FsLive =>
                \A i \in 1..Len(adm[w][ch].undo) : adm[w][ch].undo[i] # "markFailed"
=============================================================================
