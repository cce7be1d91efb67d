------------------------- MODULE OutboundCallProofs -------------------------
(***************************************************************************)
(* Outbound calls, for any number of calls, channels, routes and failures: *)
(* types, no call dialled twice, the refinement of CallLifecycle, the      *)
(* leases of a channel, the limit and the reachability of an attempt.      *)
(***************************************************************************)
EXTENDS OutboundCall, CallCoreProofs, FiniteSetTheorems

(***************************************************************************)
(* Types                                                                   *)
(***************************************************************************)
TypeInv == CoreInv /\ create \in [Calls -> Create]

\* The initial state is well formed.
LEMMA TypeInvInit == Init => TypeInv
BY CoreInvInit, OutboundAssumption DEF Init, TypeInv, Create, CreatePc

\* Moving a request to another step keeps it well formed.
LEMMA GotoType ==
    ASSUME TypeInv, NEW c \in Calls, NEW pc \in CreatePc, Goto(c, pc)
    PROVE  create' \in [Calls -> Create]
<1>1. [create[c] EXCEPT !.pc = pc] \in Create
  BY DEF TypeInv, Create
<1>2. create' = [create EXCEPT ![c] = [create[c] EXCEPT !.pc = pc]]
  BY DEF Goto
<1> QED
  BY <1>1, <1>2 DEF TypeInv

\* So does going on with the next route: the plan is never overrun.
LEMMA NextRouteType ==
    ASSUME TypeInv, NEW c \in Calls, NextRoute(c)
    PROVE  create' \in [Calls -> Create]
<1> DEFINE l == create[c].left
           new == [create[c] EXCEPT !.pc = IF l > 1 THEN "attribute" ELSE "fail",
                                    !.left = IF l > 1 THEN l - 1 ELSE 0]
<1>1. create[c] \in Create /\ l \in 0..MaxRoutes
  BY DEF TypeInv, Create
<1>2. new \in Create
  <2>1. (IF l > 1 THEN l - 1 ELSE 0) \in 0..MaxRoutes
    BY <1>1, OutboundAssumption
  <2>2. (IF l > 1 THEN "attribute" ELSE "fail") \in CreatePc
    BY DEF CreatePc
  <2> QED
    BY <1>1, <2>1, <2>2 DEF Create
<1>3. create' = [create EXCEPT ![c] = new]
  BY DEF NextRoute
<1> QED
  BY <1>2, <1>3 DEF TypeInv

\* Setting the status of an attempt keeps the attempts well formed.
LEMMA StatusType ==
    ASSUME CoreTypeOK, NEW ch, NEW st \in AttemptStatus
    PROVE  [attempt EXCEPT ![ch].status = st] \in [Channels -> Attempt]
<1>1. CASE ch \in Channels
  <2>1. attempt[ch] \in Attempt
    BY <1>1 DEF CoreTypeOK
  <2>2. [attempt[ch] EXCEPT !.status = st] \in Attempt
    BY <2>1 DEF Attempt
  <2> QED
    BY <2>2, <1>1 DEF CoreTypeOK
<1>2. CASE ch \notin Channels
  BY <1>2 DEF CoreTypeOK
<1> QED
  BY <1>1, <1>2

\* Emitting for a channel that may be absent keeps the channels well formed.
LEMMA EmitAnyType ==
    ASSUME CoreTypeOK, NEW ch \in Channels \cup {NoChannel}, NEW st \in FsState,
           NEW e \in LifecycleEvent, Emit(ch, st, e)
    PROVE  /\ fs' \in [Channels -> [st: FsState, cid: Calls \cup {NoCall}]]
           /\ evq' \in [Channels -> Seq(LifecycleEvent)]
<1>1. CASE ch \in Channels
  BY <1>1, EmitType
<1>2. CASE ch = NoChannel
  BY ZenonT(40), <1>2, CallAssumption DEF Emit, CoreTypeOK
<1> QED
  BY <1>1, <1>2

\* Every step of a request, failures and expiry included, keeps types.
LEMMA CreateTypeStep ==
    ASSUME TypeInv, NEW c \in Calls, CreateStep(c) \/ CreateFailure(c) \/ LeaseExpire(c)
    PROVE  TypeInv'
<1>p. CreatePc = {"start", "org", "failOrg", "route", "failRoute", "attribute", "acquire",
                  "resolve", "prepare", "originate", "markRelease", "release", "fail",
                  "relOrg", "over", "submitted", "uncertain", "bind", "bfHangup", "bfTrunk",
                  "bfOrg", "bfFail", "unbound", "done"}
  BY DEF CreatePc, Originated
<1>t. row[c] \in Row /\ create[c] \in Create
  BY DEF TypeInv, CoreInv, CoreTypeOK
<1>q. Queued(c) \in [Channels -> [st: FsState, cid: Calls \cup {NoCall}]]
  BY DEF Queued, TypeInv, CoreInv, CoreTypeOK, FsState
<1>1. CASE CreateRow(c)
  <2>1. create' \in [Calls -> Create]
    BY <1>1, <1>p, GotoType DEF CreateRow
  <2>2. row' \in [Calls -> Row]
    <3>1. [NoRow EXCEPT !.state = "initiating", !.outbound = TRUE] \in Row
      BY DEF NoRow, Row, CallState, LiveState, MediaState
    <3> QED
      BY <1>1, <3>1 DEF CreateRow, TypeInv, CoreInv, CoreTypeOK
  <2>3. outbox' \in [Calls -> Seq(LifecycleEvent)]
    <3>1. <<"initiated">> \in Seq(LifecycleEvent)
      BY DEF LifecycleEvent
    <3> QED
      BY <1>1, <3>1 DEF CreateRow, TypeInv, CoreInv, CoreTypeOK
  <2> QED
    BY <1>1, <2>1, <2>2, <2>3 DEF CreateRow, TypeInv, CoreInv, CoreTypeOK, LcHasCall,
       JobHasCall, redisVars, fsVars
<1>2. CASE AcquireOrg(c)
  <2>1. create' \in [Calls -> Create]
    BY <1>2, <1>p, GotoType DEF AcquireOrg
  <2> QED
    BY <1>2, <2>1 DEF AcquireOrg, Acquired,
       TypeInv, CoreInv, CoreTypeOK, LcHasCall, JobHasCall, dbVars, redisVars, fsVars
<1>3. CASE AcquireOrgFault(c)
  <2>1. create' \in [Calls -> Create]
    BY <1>3, <1>p, GotoType DEF AcquireOrgFault
  <2> QED
    BY <1>3, <2>1 DEF AcquireOrgFault, Acquired, Fault,
       TypeInv, CoreInv, CoreTypeOK, LcHasCall, JobHasCall, dbVars, redisVars, fsVars
<1>4. CASE ResolveRoutes(c)
  <2>1. PICK n \in 0..MaxRoutes :
           create' = [create EXCEPT ![c] = [create[c] EXCEPT
                        !.pc = IF n = 0 THEN "failRoute" ELSE "attribute", !.left = n]]
    BY ZenonT(40), <1>4 DEF ResolveRoutes
  <2>2. (IF n = 0 THEN "failRoute" ELSE "attribute") \in CreatePc
    BY <1>p
  <2>3. create' \in [Calls -> Create]
    BY <2>1, <2>2, <1>t DEF TypeInv, Create
  <2> QED
    BY <1>4, <2>3 DEF ResolveRoutes,
       TypeInv, CoreInv, CoreTypeOK, LcHasCall, JobHasCall, dbVars, redisVars, fsVars
<1>5. CASE Attribute(c)
  <2>1. [row[c] EXCEPT !.trunk = TRUE] \in Row
    BY <1>t DEF Row
  <2>2. row' \in [Calls -> Row]
    BY <1>5, <2>1 DEF Attribute, TypeInv, CoreInv, CoreTypeOK
  <2>3. create' \in [Calls -> Create]
    BY <1>5, <1>p, GotoType DEF Attribute
  <2> QED
    BY <1>5, <2>2, <2>3 DEF Attribute,
       TypeInv, CoreInv, CoreTypeOK, LcHasCall, JobHasCall, dbVars, redisVars, fsVars
<1>6. CASE AcquireTrunk(c)
  <2>1. create' \in [Calls -> Create]
    BY <1>6, <1>p, GotoType DEF AcquireTrunk
  <2> QED
    BY <1>6, <2>1 DEF AcquireTrunk, Acquired,
       TypeInv, CoreInv, CoreTypeOK, LcHasCall, JobHasCall, dbVars, redisVars, fsVars
<1>7. CASE RefuseTrunk(c)
  <2>1. create' \in [Calls -> Create]
    BY <1>7, <1>p, NextRouteType DEF RefuseTrunk
  <2> QED
    BY <1>7, <2>1 DEF RefuseTrunk,
       TypeInv, CoreInv, CoreTypeOK, LcHasCall, JobHasCall, dbVars, redisVars, fsVars
<1>8. CASE AcquireTrunkFault(c)
  <2>1. create' \in [Calls -> Create]
    BY <1>8, <1>p, NextRouteType DEF AcquireTrunkFault
  <2> QED
    BY <1>8, <2>1 DEF AcquireTrunkFault, Acquired, Fault,
       TypeInv, CoreInv, CoreTypeOK, LcHasCall, JobHasCall, dbVars, redisVars, fsVars
<1>9. CASE ResolveEgress(c)
  <2>1. create' \in [Calls -> Create]
    BY <1>9, <1>p, GotoType DEF ResolveEgress
  <2> QED
    BY <1>9, <2>1 DEF ResolveEgress,
       TypeInv, CoreInv, CoreTypeOK, LcHasCall, JobHasCall, dbVars, redisVars, fsVars
<1>10. CASE \E ch \in Channels : Prepare(c, ch)
  <2>1. PICK ch \in Channels : Prepare(c, ch)
    BY <1>10
  <2>2. attempt' \in [Channels -> Attempt]
    BY <2>1 DEF Prepare, TypeInv, CoreInv, CoreTypeOK, Attempt, AttemptStatus, Unresolved
  <2>3. create' = [create EXCEPT ![c] = [create[c] EXCEPT !.pc = "originate", !.chan = ch]]
    BY <2>1 DEF Prepare
  <2>4. create' \in [Calls -> Create]
    BY <2>3, <1>p, <1>t DEF TypeInv, Create
  <2> QED
    BY <2>1, <2>2, <2>4 DEF Prepare,
       TypeInv, CoreInv, CoreTypeOK, LcHasCall, JobHasCall, dbVars, redisVars, fsVars
<1>11. CASE Originate(c)
  <2>1. fs' \in [Channels -> [st: FsState, cid: Calls \cup {NoCall}]]
    BY <1>11, <1>q DEF Originate, TypeInv, CoreInv, CoreTypeOK
  <2>2. create' \in [Calls -> Create]
    BY <1>11, <1>p, GotoType DEF Originate
  <2> QED
    BY <1>11, <2>1, <2>2 DEF Originate, Fault,
       TypeInv, CoreInv, CoreTypeOK, LcHasCall, JobHasCall, dbVars, redisVars, fsVars
<1>12. CASE OriginateUncertain(c)
  <2>1. fs' \in [Channels -> [st: FsState, cid: Calls \cup {NoCall}]]
    BY <1>12, <1>q DEF OriginateUncertain, TypeInv, CoreInv, CoreTypeOK
  <2>2. create' \in [Calls -> Create]
    BY <1>12, <1>p, GotoType DEF OriginateUncertain
  <2> QED
    BY <1>12, <2>1, <2>2 DEF OriginateUncertain, Fault,
       TypeInv, CoreInv, CoreTypeOK, LcHasCall, JobHasCall, dbVars, redisVars, fsVars
<1>13. CASE MarkSubmitted(c)
  <2>1. attempt' \in [Channels -> Attempt]
    BY <1>13, StatusType DEF MarkSubmitted, AttemptStatus, Unresolved, TypeInv, CoreInv, CoreTypeOK
  <2>2. create' \in [Calls -> Create]
    BY <1>13, <1>p, GotoType DEF MarkSubmitted
  <2> QED
    BY <1>13, <2>1, <2>2 DEF MarkSubmitted,
       TypeInv, CoreInv, CoreTypeOK, LcHasCall, JobHasCall, dbVars, redisVars, fsVars
<1>14. CASE MarkUncertain(c)
  <2>1. attempt' \in [Channels -> Attempt]
    BY <1>14, StatusType DEF MarkUncertain, AttemptStatus, Unresolved, TypeInv, CoreInv, CoreTypeOK
  <2>2. create' \in [Calls -> Create]
    BY <1>14, <1>p, GotoType DEF MarkUncertain
  <2> QED
    BY <1>14, <2>1, <2>2 DEF MarkUncertain,
       TypeInv, CoreInv, CoreTypeOK, LcHasCall, JobHasCall, dbVars, redisVars, fsVars
<1>15. CASE ReleaseTrunk(c)
  <2>1. create' \in [Calls -> Create]
    BY <1>15, <1>p, GotoType DEF ReleaseTrunk
  <2> QED
    BY <1>15, <2>1 DEF ReleaseTrunk, Released,
       TypeInv, CoreInv, CoreTypeOK, LcHasCall, JobHasCall, dbVars, redisVars, fsVars
<1>16. CASE FailCall(c)
  <2>1. /\ row' \in [Calls -> Row]
        /\ attempt' \in [Channels -> Attempt]
        /\ marker' \in SUBSET Calls
        /\ outbox' \in [Calls -> Seq(LifecycleEvent)]
    <3>1. CASE mutate(c, "failed")
      BY <3>1, MutateType DEF TypeInv, CoreInv, LifecycleEvent, TerminalEvent
    <3>2. CASE UNCHANGED dbVars
      BY <3>2 DEF dbVars, TypeInv, CoreInv, CoreTypeOK
    <3> QED
      BY <1>16, <3>1, <3>2 DEF FailCall
  <2>2. create' \in [Calls -> Create]
    BY <1>16, <1>p, GotoType DEF FailCall, AfterFail
  <2> QED
    BY <1>16, <2>1, <2>2 DEF FailCall,
       TypeInv, CoreInv, CoreTypeOK, LcHasCall, JobHasCall, redisVars, fsVars
<1>17. CASE ReleaseOrg(c)
  <2>1. create' \in [Calls -> Create]
    BY <1>17, <1>p, GotoType DEF ReleaseOrg
  <2> QED
    BY <1>17, <2>1 DEF ReleaseOrg, Released,
       TypeInv, CoreInv, CoreTypeOK, LcHasCall, JobHasCall, dbVars, redisVars, fsVars
<1>18. CASE BindChannel(c)
  <2>1. /\ binding' \in [Calls -> Channels \cup {NoChannel}]
        /\ owner' \in [Channels -> Calls \cup {NoCall}]
    BY <1>18, <1>t, BindType DEF BindChannel, TypeInv, CoreInv, Create
  <2>2. create' \in [Calls -> Create]
    BY <1>18, <1>p, GotoType DEF BindChannel
  <2> QED
    BY <1>18, <2>1, <2>2 DEF BindChannel,
       TypeInv, CoreInv, CoreTypeOK, LcHasCall, JobHasCall, dbVars, redisVars, fsVars
<1>19. CASE UnwindHangup(c)
  <2>1. /\ fs' \in [Channels -> [st: FsState, cid: Calls \cup {NoCall}]]
        /\ evq' \in [Channels -> Seq(LifecycleEvent)]
    BY <1>19, <1>t, EmitAnyType DEF UnwindHangup, fsVars, TypeInv, CoreInv, CoreTypeOK, Create,
       HangupEvents, LifecycleEvent, TerminalEvent, FsState
  <2>2. create' \in [Calls -> Create]
    BY <1>19, <1>p, GotoType DEF UnwindHangup
  <2> QED
    BY <1>19, <2>1, <2>2 DEF UnwindHangup,
       TypeInv, CoreInv, CoreTypeOK, LcHasCall, JobHasCall, dbVars, redisVars
<1>20. CASE UnwindTrunk(c)
  <2>1. create' \in [Calls -> Create]
    BY <1>20, <1>p, GotoType DEF UnwindTrunk
  <2> QED
    BY <1>20, <2>1 DEF UnwindTrunk, Released,
       TypeInv, CoreInv, CoreTypeOK, LcHasCall, JobHasCall, dbVars, redisVars, fsVars
<1>21. CASE UnwindOrg(c)
  <2>1. create' \in [Calls -> Create]
    BY <1>21, <1>p, GotoType DEF UnwindOrg
  <2> QED
    BY <1>21, <2>1 DEF UnwindOrg, Released,
       TypeInv, CoreInv, CoreTypeOK, LcHasCall, JobHasCall, dbVars, redisVars, fsVars
<1>22. CASE UnwindFail(c)
  <2>1. /\ row' \in [Calls -> Row]
        /\ attempt' \in [Channels -> Attempt]
        /\ marker' \in SUBSET Calls
        /\ outbox' \in [Calls -> Seq(LifecycleEvent)]
    <3>1. CASE mutate(c, "failed")
      BY <3>1, MutateType DEF TypeInv, CoreInv, LifecycleEvent, TerminalEvent
    <3>2. CASE UNCHANGED dbVars
      BY <3>2 DEF dbVars, TypeInv, CoreInv, CoreTypeOK
    <3> QED
      BY <1>22, <3>1, <3>2 DEF UnwindFail
  <2>2. create' \in [Calls -> Create]
    BY <1>22, <1>p, GotoType DEF UnwindFail
  <2> QED
    BY <1>22, <2>1, <2>2 DEF UnwindFail,
       TypeInv, CoreInv, CoreTypeOK, LcHasCall, JobHasCall, redisVars, fsVars
<1>23. CASE CreateFault(c)
  <2>1. OnError(create[c].pc) \in CreatePc
    BY <1>23, <1>p DEF CreateFault, OnError, AfterFail
  <2>2. create' \in [Calls -> Create]
    BY <1>23, <2>1, GotoType DEF CreateFault
  <2> QED
    BY <1>23, <2>2 DEF CreateFault, Fault,
       TypeInv, CoreInv, CoreTypeOK, LcHasCall, JobHasCall, dbVars, redisVars, fsVars
<1>24. CASE CreateCrash(c)
  <2>1. create' \in [Calls -> Create]
    <3>1. Goto(c, "unbound") \/ Goto(c, "done") \/ Goto(c, "over")
      BY <1>24 DEF CreateCrash
    <3> QED
      BY <3>1, <1>p, GotoType
  <2> QED
    BY <1>24, <2>1 DEF CreateCrash, Fault,
       TypeInv, CoreInv, CoreTypeOK, LcHasCall, JobHasCall, dbVars, redisVars, fsVars
<1>25. CASE LeaseExpire(c)
  <2>1. create' \in [Calls -> Create]
    BY <1>25, <1>p, GotoType DEF LeaseExpire, TypeInv
  <2> QED
    BY <1>25, <2>1 DEF LeaseExpire,
       TypeInv, CoreInv, CoreTypeOK, LcHasCall, JobHasCall, dbVars, redisVars, fsVars
<1> QED
  BY <1>1, <1>2, <1>3, <1>4, <1>5, <1>6, <1>7, <1>8, <1>9, <1>10, <1>11, <1>12,
     <1>13, <1>14, <1>15, <1>16, <1>17, <1>18, <1>19, <1>20, <1>21, <1>22, <1>23, <1>24, <1>25
  DEF CreateStep, CreateFailure

\* The next-state relation preserves types.
LEMMA TypeInvStep == TypeInv /\ [Next]_vars => TypeInv'
<1> SUFFICES ASSUME TypeInv, [Next]_vars PROVE TypeInv'
  OBVIOUS
<1>1. ASSUME NEW c \in Calls, CreateStep(c) \/ CreateFailure(c) \/ LeaseExpire(c)
      PROVE  TypeInv'
  BY <1>1, CreateTypeStep
<1>2. CASE RuntimeStep /\ UNCHANGED create
  BY <1>2, CoreInvStep DEF TypeInv, RuntimeStep, CoreStep
<1>3. CASE UNCHANGED vars
  BY <1>3 DEF vars, coreVars, dbVars, redisVars, fsVars, TypeInv, CoreInv, CoreTypeOK,
     LcHasCall, JobHasCall
<1> QED
  BY <1>1, <1>2, <1>3 DEF Next

\* The type invariant: Spec => []TypeOK for every value of the constants.
THEOREM TypeCorrect == Spec => []TypeOK
<1>1. TypeInv => TypeOK
  BY DEF TypeInv, CoreInv, TypeOK
<1> QED
  BY TypeInvInit, TypeInvStep, <1>1, PTL DEF Spec

(***************************************************************************)
(* What a request may touch: its own row, leases, attempt, channel and     *)
(* binding.                                                                *)
(***************************************************************************)
RequestStep(c) == CreateStep(c) \/ CreateFailure(c) \/ LeaseExpire(c)

\* No other row.
LEMMA OtherRows ==
    ASSUME TypeInv, NEW c \in Calls, RequestStep(c), NEW d \in Calls, d # c
    PROVE  row'[d] = row[d]
<1>1. CASE CreateRow(c) \/ Attribute(c)
  BY <1>1 DEF CreateRow, Attribute, TypeInv, CoreInv, CoreTypeOK
<1>2. CASE FailCall(c) \/ UnwindFail(c)
  BY <1>2 DEF FailCall, UnwindFail, mutate, dbVars, TypeInv, CoreInv, CoreTypeOK
<1>3. CASE CreateStep(c) /\ ~CreateRow(c) /\ ~Attribute(c) /\ ~FailCall(c) /\ ~UnwindFail(c)
  BY <1>3 DEF CreateStep, AcquireOrg, ResolveRoutes, AcquireTrunk, RefuseTrunk,
     ResolveEgress, Prepare, Originate, MarkSubmitted, MarkUncertain, ReleaseTrunk,
     ReleaseOrg, BindChannel, UnwindHangup, UnwindTrunk, UnwindOrg, dbVars
<1>4. CASE CreateFailure(c) \/ LeaseExpire(c)
  BY <1>4 DEF CreateFailure, AcquireOrgFault, AcquireTrunkFault, OriginateUncertain,
     CreateFault, CreateCrash, LeaseExpire, dbVars
<1> QED
  BY <1>1, <1>2, <1>3, <1>4 DEF RequestStep

\* No other lease.
LEMMA OtherLeases ==
    ASSUME TypeInv, NEW c \in Calls, RequestStep(c), NEW d, d # c
    PROVE  (d \in orgLease' <=> d \in orgLease) /\ (d \in trunkLease' <=> d \in trunkLease)
<1>1. CASE CreateStep(c)
  BY <1>1 DEF CreateStep, CreateRow, AcquireOrg, ResolveRoutes, Attribute,
     AcquireTrunk, RefuseTrunk, ResolveEgress, Prepare, Originate, MarkSubmitted, MarkUncertain,
     ReleaseTrunk, FailCall, ReleaseOrg, BindChannel, UnwindHangup, UnwindTrunk, UnwindOrg,
     UnwindFail, redisVars, Acquired, Released
<1>2. CASE CreateFailure(c) \/ LeaseExpire(c)
  BY <1>2 DEF CreateFailure, AcquireOrgFault, AcquireTrunkFault, OriginateUncertain,
     CreateFault, CreateCrash, LeaseExpire, redisVars, Acquired
<1> QED
  BY <1>1, <1>2 DEF RequestStep

\* An attempt is made for a call once; its status is that of the request's
\* own channel, or finished with the call.
LEMMA RequestAttempts ==
    ASSUME TypeInv, NEW c \in Calls, RequestStep(c), NEW ch \in Channels
    PROVE  \/ attempt'[ch].call = attempt[ch].call
           \/ /\ attempt[ch].call = NoCall /\ attempt'[ch].call = c
              /\ attempt'[ch].status = "prepared" /\ Prepare(c, ch)
<1>0. attempt[ch] \in Attempt /\ attempt \in [Channels -> Attempt]
  BY DEF TypeInv, CoreInv, CoreTypeOK
<1>1. ASSUME NEW u \in Channels, Prepare(c, u)
      PROVE  \/ attempt'[ch].call = attempt[ch].call
             \/ /\ attempt[ch].call = NoCall /\ attempt'[ch].call = c
                /\ attempt'[ch].status = "prepared" /\ Prepare(c, ch)
  BY <1>0, <1>1 DEF Prepare
<1>2. CASE attempt' = attempt
  BY <1>2
<1>3. ASSUME NEW u, NEW st, attempt' = [attempt EXCEPT ![u].status = st]
      PROVE  attempt'[ch].call = attempt[ch].call
  <2>1. [attempt[ch] EXCEPT !.status = st].call = attempt[ch].call
    BY <1>0 DEF Attempt
  <2> QED
    BY <1>0, <1>3, <2>1
<1>4. CASE MarkSubmitted(c) \/ MarkUncertain(c)
  BY <1>2, <1>3, <1>4 DEF MarkSubmitted, MarkUncertain
<1>5. CASE attempt' = FinishAttempts(c)
  <2>1. [attempt[ch] EXCEPT !.status = "finished"].call = attempt[ch].call
    BY <1>0 DEF Attempt
  <2> QED
    BY <1>5, <2>1 DEF FinishAttempts
<1>6. CASE FailCall(c) \/ UnwindFail(c)
  BY <1>2, <1>5, <1>6 DEF FailCall, UnwindFail, mutate, dbVars
<1>7. CASE /\ CreateStep(c) /\ ~MarkSubmitted(c) /\ ~MarkUncertain(c) /\ ~FailCall(c)
           /\ ~UnwindFail(c) /\ ~ \E u \in Channels : Prepare(c, u)
  BY <1>2, <1>7 DEF CreateStep, CreateRow, AcquireOrg, ResolveRoutes, Attribute, AcquireTrunk,
     RefuseTrunk, ResolveEgress, Originate, ReleaseTrunk, ReleaseOrg, BindChannel,
     UnwindHangup, UnwindTrunk, UnwindOrg, dbVars
<1>8. CASE CreateFailure(c) \/ LeaseExpire(c)
  BY <1>2, <1>8 DEF CreateFailure, AcquireOrgFault, AcquireTrunkFault, OriginateUncertain,
     CreateFault, CreateCrash, LeaseExpire, dbVars
<1> QED
  BY <1>1, <1>4, <1>6, <1>7, <1>8 DEF RequestStep

\* No other channel, and nothing in the memory of the worker.
LEMMA OtherChannels ==
    ASSUME TypeInv, NEW c \in Calls, RequestStep(c)
    PROVE  /\ lc' = lc /\ job' = job
           /\ \A ch \in Channels : ch # create[c].chan => fs'[ch] = fs[ch] /\ evq'[ch] = evq[ch]
<1>0. /\ fs \in [Channels -> [st: FsState, cid: Calls \cup {NoCall}]]
      /\ evq \in [Channels -> Seq(LifecycleEvent)]
  BY DEF TypeInv, CoreInv, CoreTypeOK
<1>1. CASE Originate(c) \/ OriginateUncertain(c)
  BY <1>0, <1>1 DEF Originate, OriginateUncertain, Queued
<1>2. CASE UnwindHangup(c)
  <2>1. fsVars' = fsVars \/ \E e : Emit(create[c].chan, "gone", e)
    BY <1>2 DEF UnwindHangup
  <2> QED
    BY <1>0, <1>2, <2>1 DEF UnwindHangup, Emit, fsVars
<1>3. CASE CreateStep(c) /\ ~UnwindHangup(c) /\ ~Originate(c)
  BY <1>3 DEF CreateStep, CreateRow, AcquireOrg, ResolveRoutes, Attribute, AcquireTrunk,
     RefuseTrunk, ResolveEgress, Prepare, MarkSubmitted, MarkUncertain,
     ReleaseTrunk, FailCall, ReleaseOrg, BindChannel, UnwindTrunk, UnwindOrg, UnwindFail, fsVars
<1>4. CASE (CreateFailure(c) /\ ~OriginateUncertain(c)) \/ LeaseExpire(c)
  BY <1>4 DEF CreateFailure, AcquireOrgFault, AcquireTrunkFault, CreateFault, CreateCrash,
     LeaseExpire, fsVars
<1> QED
  BY <1>1, <1>2, <1>3, <1>4 DEF RequestStep

(***************************************************************************)
(* No call is dialled twice.                                               *)
(***************************************************************************)
\* A channel is only ever requested for a call by its one originating request.
OriginInv ==
    \A ch \in Channels :
        fs[ch].cid \in Calls => /\ create[fs[ch].cid].chan = ch
                                /\ create[fs[ch].cid].pc \in Originated

\* Once a request has originated it does not go back or change its channel.
LEMMA OriginatedStays ==
    ASSUME TypeInv, NEW c \in Calls, CreateStep(c) \/ CreateFailure(c) \/ LeaseExpire(c),
           create[c].pc \in Originated
    PROVE  create'[c].pc \in Originated /\ create'[c].chan = create[c].chan
<1>1. ASSUME NEW pc, Goto(c, pc)
      PROVE  create'[c].pc = pc /\ create'[c].chan = create[c].chan
  BY <1>1 DEF Goto, TypeInv, Create
<1>2. create[c].pc \in {"submitted", "uncertain", "bind", "bfHangup", "bfTrunk", "bfOrg",
                        "bfFail", "unbound", "done"}
  BY DEF Originated
<1>3. CASE CreateStep(c)
  <2>1. \E pc \in {"bind", "done", "bfTrunk", "bfOrg", "bfFail", "unbound"} : Goto(c, pc)
    BY <1>2, <1>3 DEF CreateStep, CreateRow, AcquireOrg, ResolveRoutes, Attribute,
       AcquireTrunk, RefuseTrunk, ResolveEgress, Prepare, Originate, MarkSubmitted,
       MarkUncertain, ReleaseTrunk, FailCall, ReleaseOrg, BindChannel, UnwindHangup,
       UnwindTrunk, UnwindOrg, UnwindFail, At
  <2> QED
    BY <1>1, <2>1 DEF Originated
<1>4. CASE CreateFault(c)
  <2>1. OnError(create[c].pc) \in Originated
    BY <1>2, <1>4 DEF CreateFault, OnError, Originated
  <2> QED
    BY <1>1, <1>4, <2>1 DEF CreateFault
<1>5. CASE CreateCrash(c)
  <2>1. Goto(c, "unbound") \/ Goto(c, "done")
    BY <1>5 DEF CreateCrash
  <2> QED
    BY <1>1, <2>1 DEF Originated
<1>6. CASE LeaseExpire(c)
  BY <1>6 DEF LeaseExpire
<1>7. CASE AcquireOrgFault(c) \/ AcquireTrunkFault(c) \/ OriginateUncertain(c)
  BY <1>2, <1>7 DEF AcquireOrgFault, AcquireTrunkFault, OriginateUncertain, At
<1> QED
  BY <1>3, <1>4, <1>5, <1>6, <1>7 DEF CreateFailure

\* Only the originate command gives a channel to a call.
LEMMA OnlyOriginateDials ==
    ASSUME TypeInv, NEW c \in Calls, CreateStep(c) \/ CreateFailure(c) \/ LeaseExpire(c)
    PROVE  \/ \A ch \in Channels : fs'[ch].cid = fs[ch].cid
           \/ /\ create[c].pc = "originate"
              /\ fs' = Queued(c)
              /\ create'[c].chan = create[c].chan
              /\ create'[c].pc \in Originated
<1>1. CASE UNCHANGED fs
  BY <1>1
<1>2. CASE UnwindHangup(c)
  <2>1. fs' = fs \/ fs' = [fs EXCEPT ![create[c].chan].st = "gone"]
    BY <1>2 DEF UnwindHangup, Emit, fsVars
  <2>2. \A ch \in Channels : fs[ch] \in [st: FsState, cid: Calls \cup {NoCall}]
    BY DEF TypeInv, CoreInv, CoreTypeOK
  <2>3. \A ch \in Channels : [fs[ch] EXCEPT !.st = "gone"].cid = fs[ch].cid
    BY <2>2
  <2> QED
    BY <2>1, <2>3 DEF TypeInv, CoreInv, CoreTypeOK
<1>3. CASE Originate(c) \/ OriginateUncertain(c)
  BY <1>1, <1>3 DEF Originate, OriginateUncertain, At, Goto, TypeInv, Create, Originated
<1>4. CASE CreateStep(c) /\ ~UnwindHangup(c) /\ ~Originate(c)
  BY <1>1, <1>4 DEF CreateStep, CreateRow, AcquireOrg, ResolveRoutes, Attribute,
     AcquireTrunk, RefuseTrunk, ResolveEgress, Prepare, MarkSubmitted, MarkUncertain,
     ReleaseTrunk, FailCall, ReleaseOrg, BindChannel, UnwindTrunk, UnwindOrg, UnwindFail, fsVars
<1>5. CASE CreateFailure(c) /\ ~OriginateUncertain(c)
  BY <1>1, <1>5 DEF CreateFailure, AcquireOrgFault, AcquireTrunkFault, CreateFault,
     CreateCrash, fsVars
<1>6. CASE LeaseExpire(c)
  BY <1>1, <1>6 DEF LeaseExpire, fsVars
<1> QED
  BY <1>2, <1>3, <1>4, <1>5, <1>6

\* A request leaves every other request alone.
LEMMA OtherRequests ==
    ASSUME TypeInv, NEW c \in Calls, CreateStep(c) \/ CreateFailure(c) \/ LeaseExpire(c),
           NEW d \in Calls, d # c
    PROVE  create'[d] = create[d]
<1>1. ASSUME NEW pc, Goto(c, pc) PROVE create'[d] = create[d]
  BY <1>1 DEF Goto, TypeInv
<1>2. ASSUME NextRoute(c) PROVE create'[d] = create[d]
  BY <1>2 DEF NextRoute, TypeInv
<1>3. CASE ResolveRoutes(c) \/ \E ch \in Channels : Prepare(c, ch)
  BY <1>3 DEF ResolveRoutes, Prepare, TypeInv
<1>4. CASE CreateStep(c) /\ ~ResolveRoutes(c) /\ ~ \E ch \in Channels : Prepare(c, ch)
  BY <1>1, <1>2, <1>4 DEF CreateStep, CreateRow, AcquireOrg, Attribute,
     AcquireTrunk, RefuseTrunk, ResolveEgress, Originate, MarkSubmitted, MarkUncertain,
     ReleaseTrunk, FailCall, ReleaseOrg, BindChannel, UnwindHangup, UnwindTrunk, UnwindOrg,
     UnwindFail
<1>5. CASE CreateFailure(c)
  BY <1>1, <1>2, <1>5 DEF CreateFailure, AcquireOrgFault, AcquireTrunkFault,
     OriginateUncertain, CreateFault, CreateCrash
<1>6. CASE LeaseExpire(c)
  BY <1>6 DEF LeaseExpire
<1> QED
  BY <1>3, <1>4, <1>5, <1>6

\* The invariant holds initially.
LEMMA OriginInvInit == Init => OriginInv
BY CallAssumption DEF Init, CoreInit, OriginInv

\* It is preserved by every step.
LEMMA OriginInvStep == TypeInv /\ OriginInv /\ [Next]_vars => OriginInv'
<1> SUFFICES ASSUME TypeInv, OriginInv, [Next]_vars PROVE OriginInv'
  OBVIOUS
<1>1. ASSUME NEW c \in Calls, CreateStep(c) \/ CreateFailure(c) \/ LeaseExpire(c)
      PROVE  OriginInv'
  <2>1. ASSUME NEW d \in Calls, create[d].pc \in Originated
        PROVE  create'[d].pc \in Originated /\ create'[d].chan = create[d].chan
    BY <1>1, <2>1, OriginatedStays, OtherRequests
  <2>2. CASE \A ch \in Channels : fs'[ch].cid = fs[ch].cid
    BY <2>1, <2>2 DEF OriginInv
  <2>3. CASE /\ create[c].pc = "originate"
             /\ fs' = Queued(c)
             /\ create'[c].chan = create[c].chan
             /\ create'[c].pc \in Originated
    <3> SUFFICES ASSUME NEW ch \in Channels, fs'[ch].cid \in Calls
                 PROVE  /\ create'[fs'[ch].cid].chan = ch
                        /\ create'[fs'[ch].cid].pc \in Originated
      BY DEF OriginInv
    <3>1. CASE ch = create[c].chan
      BY <2>3, <3>1 DEF Queued, TypeInv, CoreInv, CoreTypeOK
    <3>2. CASE ch # create[c].chan
      <4>1. fs'[ch] = fs[ch]
        BY <2>3, <3>2 DEF Queued, TypeInv, CoreInv, CoreTypeOK
      <4> QED
        BY <2>1, <4>1 DEF OriginInv
    <3> QED
      BY <3>1, <3>2
  <2> QED
    BY <1>1, <2>2, <2>3, OnlyOriginateDials
<1>2. CASE RuntimeStep /\ UNCHANGED create
  BY <1>2, CoreStepKeepsCid DEF TypeInv, RuntimeStep, CoreStep, OriginInv
<1>3. CASE UNCHANGED vars
  BY <1>3 DEF vars, coreVars, fsVars, OriginInv
<1> QED
  BY <1>1, <1>2, <1>3 DEF Next

\* However its attempts fail, are retried or stay uncertain, FreeSWITCH is
\* asked for at most one channel per call (executeRoutePlan,
\* classifyOriginateFailure), for any number of routes and failures.
THEOREM NeverDialledTwice == Spec => []AtMostOneOriginate
<1>1. TypeInv /\ OriginInv => AtMostOneOriginate
  BY ZenonT(40), CallAssumption DEF TypeInv, CoreInv, CoreTypeOK, OriginInv, AtMostOneOriginate
<1> QED
  BY TypeInvInit, TypeInvStep, OriginInvInit, OriginInvStep, <1>1, PTL DEF Spec

(***************************************************************************)
(* Refinement of CallLifecycle.                                            *)
(***************************************************************************)
\* The row of a request that has not started does not exist.
StartInv == \A c \in Calls : create[c].pc = "start" => row[c] = NoRow

\* A request creates its own row once and otherwise changes what subscribers
\* see through mutate only; it never returns to its start.
LEMMA CreateStepVisible ==
    ASSUME TypeInv, NEW c \in Calls, CreateStep(c) \/ CreateFailure(c) \/ LeaseExpire(c)
    PROVE  Quiet \/ mutate(c, "failed") \/ CreateRow(c)
<1>1. CASE Attribute(c)
  <2>1. row[c] \in Row
    BY DEF TypeInv, CoreInv, CoreTypeOK
  <2>2. /\ [row[c] EXCEPT !.trunk = TRUE].state = row[c].state
        /\ [row[c] EXCEPT !.trunk = TRUE].media = row[c].media
    BY <2>1 DEF Row
  <2> QED
    BY <1>1, <2>2 DEF Attribute, Quiet, TypeInv, CoreInv, CoreTypeOK
<1>2. CASE FailCall(c) \/ UnwindFail(c)
  BY <1>2, UnchangedIsQuiet DEF FailCall, UnwindFail, dbVars
<1>3. CASE CreateStep(c) /\ ~CreateRow(c) /\ ~Attribute(c) /\ ~FailCall(c) /\ ~UnwindFail(c)
  BY <1>3, UnchangedIsQuiet DEF CreateStep, AcquireOrg, ResolveRoutes, AcquireTrunk,
     RefuseTrunk, ResolveEgress, Prepare, Originate, MarkSubmitted, MarkUncertain,
     ReleaseTrunk, ReleaseOrg, BindChannel, UnwindHangup, UnwindTrunk, UnwindOrg, dbVars
<1>4. CASE CreateFailure(c)
  BY <1>4, UnchangedIsQuiet DEF CreateFailure, AcquireOrgFault, AcquireTrunkFault,
     OriginateUncertain, CreateFault, CreateCrash, dbVars
<1>5. CASE LeaseExpire(c)
  BY <1>5, UnchangedIsQuiet DEF LeaseExpire, dbVars
<1> QED
  BY <1>1, <1>2, <1>3, <1>4, <1>5

\* A request that took a step has started, and writes no row but its own.
LEMMA CreateStepOwnRow ==
    ASSUME TypeInv, NEW c \in Calls, CreateStep(c) \/ CreateFailure(c) \/ LeaseExpire(c),
           NEW d \in Calls, create'[d].pc = "start"
    PROVE  create[d].pc = "start" /\ row'[d] = row[d]
<1>1. CASE LeaseExpire(c)
  BY <1>1 DEF LeaseExpire, dbVars
<1>2. CASE CreateStep(c) \/ CreateFailure(c)
  <2>1. d # c
    <3>1. ASSUME NEW pc, Goto(c, pc) PROVE create'[c].pc = pc
      BY <3>1 DEF Goto, TypeInv, Create
    <3>2. ASSUME NextRoute(c) PROVE create'[c].pc # "start"
      BY <3>2 DEF NextRoute, TypeInv, Create
    <3>3. ASSUME ResolveRoutes(c) \/ \E ch \in Channels : Prepare(c, ch)
          PROVE  create'[c].pc # "start"
      <4>0. create[c] \in Create /\ create \in [Calls -> Create]
        BY DEF TypeInv
      <4>1. CASE ResolveRoutes(c)
        <5>1. PICK n \in 0..MaxRoutes :
                 create' = [create EXCEPT ![c] = [create[c] EXCEPT
                              !.pc = IF n = 0 THEN "failRoute" ELSE "attribute", !.left = n]]
          BY ZenonT(40), <4>1 DEF ResolveRoutes
        <5> QED
          BY <4>0, <5>1 DEF Create
      <4>2. CASE \E ch \in Channels : Prepare(c, ch)
        <5>1. PICK ch \in Channels :
                 create' = [create EXCEPT ![c] = [create[c] EXCEPT !.pc = "originate", !.chan = ch]]
          BY ZenonT(40), <4>2 DEF Prepare
        <5> QED
          BY <4>0, <5>1 DEF Create
      <4> QED
        BY <3>3, <4>1, <4>2
    <3>4. ASSUME CreateFault(c) PROVE create'[c].pc # "start"
      <4>1. OnError(create[c].pc) # "start"
        BY <3>4 DEF CreateFault, OnError, AfterFail
      <4> QED
        BY <3>1, <3>4, <4>1 DEF CreateFault
    <3>5. ASSUME CreateCrash(c) PROVE create'[c].pc # "start"
      <4>1. Goto(c, "unbound") \/ Goto(c, "done") \/ Goto(c, "over")
        BY <3>5 DEF CreateCrash
      <4> QED
        BY <3>1, <4>1
    <3>6. ASSUME CreateStep(c) PROVE create'[c].pc # "start"
      BY <3>1, <3>2, <3>3, <3>6 DEF CreateStep, CreateRow, AcquireOrg, Attribute,
         AcquireTrunk, RefuseTrunk, ResolveEgress, Originate, MarkSubmitted, MarkUncertain,
         ReleaseTrunk, FailCall, AfterFail, ReleaseOrg, BindChannel, UnwindHangup,
         UnwindTrunk, UnwindOrg, UnwindFail
    <3>7. ASSUME AcquireOrgFault(c) \/ AcquireTrunkFault(c) \/ OriginateUncertain(c)
          PROVE  create'[c].pc # "start"
      BY <3>1, <3>2, <3>7 DEF AcquireOrgFault, AcquireTrunkFault, OriginateUncertain
    <3> QED
      BY <1>2, <3>4, <3>5, <3>6, <3>7 DEF CreateFailure
  <2>2. create'[d] = create[d]
    BY <1>2, <2>1, OtherRequests
  <2>3. row'[d] = row[d]
    BY <1>2, <2>1, OtherRows DEF RequestStep
  <2> QED
    BY <2>2, <2>3
<1> QED
  BY <1>1, <1>2

\* No row exists before the first request.
LEMMA StartInvInit == Init => StartInv
BY DEF Init, CoreInit, StartInv

\* No step creates the row of a request that has not started.
LEMMA StartInvStep == TypeInv /\ StartInv /\ [Next]_vars => StartInv'
<1> SUFFICES ASSUME TypeInv, StartInv, [Next]_vars PROVE StartInv'
  OBVIOUS
<1>1. ASSUME NEW c \in Calls, CreateStep(c) \/ CreateFailure(c) \/ LeaseExpire(c)
      PROVE  StartInv'
  BY <1>1, CreateStepOwnRow DEF StartInv
<1>2. CASE RuntimeStep /\ UNCHANGED create
  BY <1>2, CoreStepKeepsNoRow DEF TypeInv, RuntimeStep, CoreStep, StartInv
<1>3. CASE UNCHANGED vars
  BY <1>3 DEF vars, coreVars, dbVars, StartInv
<1> QED
  BY <1>1, <1>2, <1>3 DEF Next

\* Creating the row begins the call.
LEMMA CreateRowRefines ==
    ASSUME TypeInv, StartInv, NEW c \in Calls, CreateRow(c)
    PROVE  Abstract!LifecycleNext
<1>1. row[c] = NoRow /\ row \in [Calls -> Row]
  BY DEF CreateRow, At, StartInv, TypeInv, CoreInv, CoreTypeOK
<1>2. row' = [row EXCEPT ![c] = [NoRow EXCEPT !.state = "initiating", !.outbound = TRUE]]
  BY DEF CreateRow
<1> DEFINE new == [NoRow EXCEPT !.state = "initiating", !.outbound = TRUE]
           st == [x \in Calls |-> row[x].state]
           md == [x \in Calls |-> row[x].media]
<1>a. /\ NoRow.state = "none" /\ NoRow.media = "active"
      /\ new.state = "initiating" /\ new.media = "active"
  BY DEF NoRow
<1>b. st[c] = "none" /\ md' = md /\ st' = [st EXCEPT ![c] = "initiating"]
  <2> HIDE DEF new
  <2> QED
    BY <1>1, <1>2, <1>a DEF new
<1>3. Abstract!Begin(c)
  BY <1>b DEF CreateRow, Abstract!Begin
<1> QED
  BY <1>3 DEF Abstract!LifecycleNext

\* Whatever requests, handlers, the job, failures and restarts interleave,
\* the rows and the outbox implement the promise made to subscribers.
THEOREM RefinesLifecycle == Spec => ImplementsLifecycle
<1>1. Init => Abstract!LifecycleInit
  BY DEF Init, CoreInit, NoRow, Abstract!LifecycleInit
<1>2. TypeInv /\ TypeInv' /\ StartInv /\ [Next]_vars
      => [Abstract!LifecycleNext]_(Abstract!lifecycleVars)
  <2> SUFFICES ASSUME TypeInv, TypeInv', StartInv, [Next]_vars
               PROVE  Abstract!LifecycleNext \/ UNCHANGED Abstract!lifecycleVars
    OBVIOUS
  <2>1. CoreTypeOK /\ CoreTypeOK'
    BY DEF TypeInv, CoreInv
  <2>2. ASSUME NEW c \in Calls, CreateStep(c) \/ CreateFailure(c) \/ LeaseExpire(c)
        PROVE  Abstract!LifecycleNext \/ UNCHANGED Abstract!lifecycleVars
    <3>1. "failed" \in LifecycleEvent
      BY DEF LifecycleEvent, TerminalEvent
    <3> QED
      BY <2>1, <2>2, <3>1, CreateStepVisible, QuietRefines, MutateRefines, CreateRowRefines
  <2>3. CASE RuntimeStep /\ UNCHANGED create
    <3>1. CoreInv /\ CoreStep
      BY <2>3 DEF TypeInv, RuntimeStep, CoreStep
    <3> QED
      BY <2>1, <3>1, CoreStepVisible, QuietRefines, MutateRefines DEF HandlerMutates
  <2>4. CASE UNCHANGED vars
    BY <2>4 DEF vars, coreVars, dbVars, Abstract!lifecycleVars
  <2> QED
    BY <2>2, <2>3, <2>4 DEF Next
<1> QED
  BY TypeInvInit, TypeInvStep, StartInvInit, StartInvStep, <1>1, <1>2, PTL
  DEF Spec, ImplementsLifecycle, Abstract!LifecycleSpec
(***************************************************************************)
(* A channel that may be up holds its leases.                              *)
(***************************************************************************)
\* Pairs FreeSWITCH knows of; every pointer in the system names one of them.
Dialled == {p \in Calls \X Channels : fs[p[2]].cid = p[1]}

\* The request holds the organization lease and has not originated.
Dialling == {"route", "attribute", "acquire", "resolve", "prepare", "originate"}
OnTrunk  == {"resolve", "prepare", "originate"}

\* The channel a request holds is the one of its recorded attempt, fresh until
\* it originates and dialled for the call after a successful originate.
RequestChannel(c) ==
    /\ create[c].chan \in Channels => attempt[create[c].chan].call = c
    /\ create[c].pc \in {"originate"} \cup Originated => create[c].chan \in Channels
    /\ create[c].pc = "originate" => fs[create[c].chan].cid = NoCall
    /\ create[c].pc \in {"submitted", "bind"} => fs[create[c].chan].cid = c

\* The row and the leases a request relies on at each step.
RequestHolds(c) ==
    /\ create[c].pc \in {"org"} \cup Dialling => row[c].state \in LiveState
    /\ create[c].pc \in Dialling => c \in orgLease
    /\ create[c].pc \in OnTrunk => c \in trunkLease
    /\ create[c].pc \in {"acquire"} \cup OnTrunk \cup Originated => row[c].trunk
    /\ create[c].pc \in {"start", "org"} => c \notin orgLease /\ ~row[c].trunk

\* A channel that may be up belongs to a running call with both leases.
ChannelHolds(ch) ==
    /\ fs[ch].cid = NoCall => fs[ch].st = "none"
    /\ fs[ch].st \in MayBeUp /\ ~BindFailed(fs[ch].cid) =>
          /\ fs[ch].cid \in trunkLease /\ fs[ch].cid \in orgLease
          /\ row[fs[ch].cid].state \in LiveState

HoldInv ==
    /\ \A c \in Calls : RequestChannel(c)
    /\ \A c \in Calls : RequestHolds(c)
    /\ \A ch \in Channels : ChannelHolds(ch)

\* What the runtime may rely on, with a request in any state.
WorldInv == CleanupInv /\ HangupInv /\ RefreshInv /\ Linked(Dialled)

LeaseInv == TypeInv /\ OriginInv /\ StartInv /\ WorldInv /\ HoldInv

\* Nothing is held at the start.
LEMMA LeaseInvInit == Init => LeaseInv
<1> SUFFICES ASSUME Init PROVE LeaseInv
  OBVIOUS
<1>1. CleanupInv /\ HangupInv
  BY CleanupInvInit DEF Init
<1>2. RefreshInv /\ Linked(Dialled)
  BY CallAssumption DEF Init, CoreInit, RefreshInv, Linked, IdleJob, IdleLc
<1>3. \A c \in Calls : create[c].pc = "start" /\ create[c].chan = NoChannel
  BY DEF Init
<1>4. \A c \in Calls : RequestChannel(c) /\ RequestHolds(c)
  BY <1>3, CallAssumption DEF Init, CoreInit, RequestChannel, RequestHolds, NoRow, Originated,
     Dialling, OnTrunk
<1>5. \A ch \in Channels : ChannelHolds(ch)
  BY DEF Init, CoreInit, ChannelHolds, MayBeUp, FsLive
<1> QED
  BY <1>1, <1>2, <1>4, <1>5, TypeInvInit, OriginInvInit, StartInvInit DEF LeaseInv, WorldInv, HoldInv

\* A call is not ended by the runtime while none of its channels is gone.
LEMMA RuntimeKeepsLive ==
    ASSUME TypeInv, WorldInv, CoreStep, NEW c \in Calls, row[c].state \in LiveState,
           \A u \in Channels : fs[u].cid = c => fs[u].st # "gone"
    PROVE  /\ row'[c].state \in LiveState
           /\ c \in orgLease => c \in orgLease'
           /\ c \in trunkLease => c \in trunkLease'
<1>0. CoreInv /\ CoreInv' /\ CoreTypeOK /\ CoreTypeOK'
  BY CoreInvStep DEF TypeInv, CoreInv
<1>1. ~Over(c) /\ row[c].state # "none"
  BY <1>0, LiveIsNotOver
<1>2. ASSUME NEW u \in Channels, lc[u].pc = "transition", lc[u].call = c,
             lc[u].ev \in TerminalEvent
      PROVE  FALSE
  <2>1. fs[u].cid = c
    BY <1>2 DEF WorldInv, Linked, Dialled
  <2>2. fs[u].st = "gone"
    BY <1>2 DEF WorldInv, HangupInv, NoEarlyHangup
  <2> QED
    BY <2>1, <2>2
<1>3. ~Over(c)'
  BY <1>0, <1>1, <1>2, CoreStepOver
<1>4. row'[c].state # "none"
  BY <1>0, <1>1, CoreStepKeepsIdentity
<1>5. row'[c].state \in LiveState
  BY <1>0, <1>3, <1>4 DEF CoreTypeOK, Row, CallState, LiveState, TerminalState, Over,
     isTerminalState
<1> QED
  BY <1>0, <1>1, <1>5, CoreStepKeepsLeases DEF WorldInv

\* The call of a channel is the one its attempt was recorded for.
LEMMA DialledWasAttempted ==
    ASSUME TypeInv, OriginInv, HoldInv, NEW ch \in Channels, fs[ch].cid # NoCall
    PROVE  fs[ch].cid \in Calls /\ attempt[ch].call = fs[ch].cid
<1>1. fs[ch].cid \in Calls
  BY DEF TypeInv, CoreInv, CoreTypeOK
<1> QED
  BY <1>1 DEF OriginInv, HoldInv, RequestChannel

\* The runtime renews the lease of a call only through a channel dialled for
\* it, or because its row has a trunk.
LEMMA RuntimeTakesNoLease ==
    ASSUME TypeInv, WorldInv, CoreStep, NEW c \in Calls, ~row[c].trunk,
           \A u \in Channels : fs[u].cid # c, c \notin orgLease
    PROVE  c \notin orgLease'
<1>1. ASSUME NEW u \in Channels, lc[u].pc = "refreshOrg" PROVE lc[u].call # c
  BY <1>1 DEF WorldInv, Linked, Dialled
<1>2. job.pc = "refreshOrg" => job.call # c
  BY DEF WorldInv, RefreshInv
<1>3. ASSUME NEW pc, NEW d, NEW t, CleanupStep(pc, d, t) PROVE orgLease' \subseteq orgLease
  BY <1>3 DEF CleanupStep, Released
<1> QED
  BY <1>1, <1>2, <1>3, CoreStepLeases DEF TypeInv

\* The runtime keeps what requests and channels hold.
LEMMA HoldRuntime ==
    ASSUME LeaseInv, CoreStep, UNCHANGED create PROVE HoldInv'
<1>0. /\ CoreInv /\ TypeInv /\ WorldInv /\ HoldInv /\ OriginInv
      /\ CoreTypeOK /\ CoreTypeOK'
  BY CoreInvStep DEF LeaseInv, TypeInv, CoreInv
<1>1. \A ch \in Channels : fs'[ch].cid = fs[ch].cid
  BY <1>0, CoreStepKeepsCid
<1>2. /\ \A c \in Calls : row'[c].trunk = row[c].trunk
      /\ \A ch \in Channels : attempt'[ch].call = attempt[ch].call
  BY <1>0, CoreStepKeepsIdentity
<1>3. ASSUME NEW c \in Calls PROVE RequestChannel(c)'
  BY <1>0, <1>1, <1>2 DEF HoldInv, RequestChannel, Originated
<1>4. ASSUME NEW c \in Calls PROVE RequestHolds(c)'
  <2>0. RequestHolds(c) /\ create'[c] = create[c]
    BY <1>0 DEF HoldInv
  <2>1. create[c].pc \in {"start", "org"} \cup Dialling => \A u \in Channels : fs[u].cid # c
    <3>1. create[c].pc \in Originated => create[c].pc \notin {"start", "org"} \cup Dialling
      BY DEF Originated, Dialling
    <3> QED
      BY <1>0, <3>1 DEF OriginInv
  <2>2. create[c].pc \in {"org"} \cup Dialling =>
            /\ row'[c].state \in LiveState
            /\ c \in orgLease => c \in orgLease'
            /\ c \in trunkLease => c \in trunkLease'
    BY <1>0, <2>0, <2>1, RuntimeKeepsLive DEF RequestHolds
  <2>3. create[c].pc \in {"start", "org"} => c \notin orgLease'
    BY <1>0, <2>0, <2>1, RuntimeTakesNoLease DEF RequestHolds
  <2>4. OnTrunk \subseteq Dialling
    BY DEF OnTrunk, Dialling
  <2> QED
    BY <1>2, <2>0, <2>2, <2>3, <2>4 DEF RequestHolds
<1>5. ASSUME NEW ch \in Channels PROVE ChannelHolds(ch)'
  <2>0. ChannelHolds(ch) /\ (fs[ch].cid # NoCall => fs[ch].cid \in Calls)
    BY <1>0 DEF HoldInv, CoreTypeOK
  <2>1. fs[ch].cid = NoCall => fs'[ch].st = "none"
    BY <1>0, <2>0, CoreStepStates DEF ChannelHolds
  <2>2. ASSUME fs'[ch].st \in MayBeUp, ~BindFailed(fs[ch].cid)
        PROVE  /\ fs[ch].cid \in trunkLease' /\ fs[ch].cid \in orgLease'
               /\ row'[fs[ch].cid].state \in LiveState
    <3>1. fs[ch].st \in MayBeUp
      BY <1>0, <2>2, CoreStepStates
    <3>2. fs[ch].cid \in Calls
      BY <2>0, <3>1 DEF ChannelHolds, MayBeUp, FsLive
    <3>3. \A u \in Channels : fs[u].cid = fs[ch].cid => u = ch
      BY <1>0, <3>2 DEF OriginInv
    <3>4. fs[ch].st # "gone"
      BY <3>1 DEF MayBeUp, FsLive
    <3> QED
      BY <1>0, <2>0, <2>2, <3>1, <3>2, <3>3, <3>4, RuntimeKeepsLive DEF ChannelHolds
  <2> QED
    BY <1>1, <2>1, <2>2 DEF ChannelHolds, BindFailed
<1> QED
  BY <1>3, <1>4, <1>5 DEF HoldInv

\* It also keeps what it relies on itself.
LEMMA WorldRuntime ==
    ASSUME LeaseInv, CoreStep, UNCHANGED create PROVE WorldInv'
<1>0. CoreInv /\ TypeInv /\ WorldInv /\ HoldInv /\ OriginInv
  BY DEF LeaseInv, TypeInv
<1>1. CleanupInv' /\ HangupInv' /\ RefreshInv'
  BY <1>0, CleanupInvStep, HangupInvStep, RefreshInvStep DEF WorldInv
<1>2. \A ch \in job.chans : fs[ch].st \in FsLive =>
          attempt[ch].call \in Calls /\ <<attempt[ch].call, ch>> \in Dialled
  <2> SUFFICES ASSUME NEW ch \in job.chans, fs[ch].st \in FsLive
               PROVE  attempt[ch].call \in Calls /\ <<attempt[ch].call, ch>> \in Dialled
    OBVIOUS
  <2>1. ch \in Channels
    BY <1>0 DEF CoreInv, CoreTypeOK, Job
  <2>2. fs[ch].cid # NoCall
    BY <1>0, <2>1 DEF HoldInv, ChannelHolds, FsLive
  <2> QED
    BY <1>0, <2>1, <2>2, DialledWasAttempted DEF Dialled
<1>3. Linked(Dialled)'
  <2>1. Dialled' = Dialled
    BY <1>0, CoreStepKeepsCid DEF Dialled
  <2> DEFINE P == Dialled
             Q == Dialled'
  <2>2. P \subseteq Q /\ Linked(P)
    BY <1>0, <2>1 DEF WorldInv
  <2> QED
    BY <1>0, <1>2, <2>1, <2>2, LinkedStep DEF WorldInv, Linked
<1> QED
  BY <1>1, <1>3 DEF WorldInv

\* A request never takes its call back to life or off its trunk, and marks it
\* for cleanup only as it ends it.
LEMMA OwnRow ==
    ASSUME TypeInv, StartInv, NEW c \in Calls, RequestStep(c)
    PROVE  /\ Over(c) => Over(c)'
           /\ row[c].trunk => row'[c].trunk
           /\ marker' = marker \/ (marker' \subseteq marker \cup {c} /\ Over(c)')
<1>0. /\ CoreTypeOK /\ row[c] \in Row /\ row \in [Calls -> Row]
      /\ "failed" \in LifecycleEvent /\ "failed" \in TerminalEvent
  BY DEF TypeInv, CoreInv, CoreTypeOK, LifecycleEvent, TerminalEvent
<1>1. CASE CreateRow(c)
  BY <1>1 DEF CreateRow, At, StartInv, NoRow, Over, isTerminalState, TerminalState
<1>2. CASE Attribute(c)
  <2>1. [row[c] EXCEPT !.trunk = TRUE].state = row[c].state /\ [row[c] EXCEPT !.trunk = TRUE].trunk
    BY <1>0 DEF Row
  <2> QED
    BY <1>0, <1>2, <2>1 DEF Attribute, Over
<1>3. CASE mutate(c, "failed")
  <2>1. Marked(row[c], "failed").trunk = row[c].trunk
    BY <1>0 DEF Marked, Row
  <2>2. row'[c].trunk = row[c].trunk
    BY <1>0, <1>3, <2>1 DEF mutate
  <2> QED
    BY <1>0, <1>3, <2>2, MutateOver
<1>4. CASE row' = row /\ marker' = marker
  BY <1>4 DEF Over
<1>5. CASE CreateStep(c) /\ ~CreateRow(c) /\ ~Attribute(c)
  BY <1>3, <1>4, <1>5 DEF CreateStep, AcquireOrg, ResolveRoutes, AcquireTrunk, RefuseTrunk,
     ResolveEgress, Prepare, Originate, MarkSubmitted, MarkUncertain, ReleaseTrunk, FailCall,
     ReleaseOrg, BindChannel, UnwindHangup, UnwindTrunk, UnwindOrg, UnwindFail, dbVars
<1>6. CASE CreateFailure(c) \/ LeaseExpire(c)
  BY <1>4, <1>6 DEF CreateFailure, AcquireOrgFault, AcquireTrunkFault, OriginateUncertain,
     CreateFault, CreateCrash, LeaseExpire, dbVars
<1> QED
  BY <1>1, <1>2, <1>5, <1>6 DEF RequestStep

\* A request that took its channel down emitted the hangup; otherwise it only
\* dials its fresh channel.
LEMMA RequestChannels ==
    ASSUME TypeInv, NEW c \in Calls, RequestStep(c)
    PROVE  \/ fs' = fs /\ evq' = evq
           \/ /\ create[c].pc = "originate" /\ fs' = Queued(c) /\ evq' = evq
              /\ UNCHANGED <<row, orgLease, trunkLease>>
           \/ /\ create[c].pc = "bfHangup" /\ fs[create[c].chan].st \in FsLive
              /\ \E e \in TerminalEvent : Emit(create[c].chan, "gone", e)
<1>1. CASE UnwindHangup(c)
  BY <1>1 DEF UnwindHangup, At, HangupEvents, TerminalEvent, fsVars
<1>2. CASE Originate(c) \/ OriginateUncertain(c)
  BY <1>2 DEF Originate, OriginateUncertain, At, dbVars, redisVars
<1>3. CASE CreateStep(c) /\ ~UnwindHangup(c) /\ ~Originate(c)
  BY <1>3 DEF CreateStep, CreateRow, AcquireOrg, ResolveRoutes, Attribute, AcquireTrunk,
     RefuseTrunk, ResolveEgress, Prepare, MarkSubmitted, MarkUncertain,
     ReleaseTrunk, FailCall, ReleaseOrg, BindChannel, UnwindTrunk, UnwindOrg, UnwindFail, fsVars
<1>4. CASE (CreateFailure(c) /\ ~OriginateUncertain(c)) \/ LeaseExpire(c)
  BY <1>4 DEF CreateFailure, AcquireOrgFault, AcquireTrunkFault, CreateFault, CreateCrash,
     LeaseExpire, fsVars
<1> QED
  BY <1>1, <1>2, <1>3, <1>4 DEF RequestStep

\* A request binds its call only to the channel it dialled.
LEMMA RequestBindings ==
    ASSUME NEW c \in Calls, RequestStep(c)
    PROVE  \/ UNCHANGED <<binding, owner>>
           \/ create[c].pc = "bind" /\ ChannelBind(c, create[c].chan)
<1>1. CASE CreateStep(c)
  BY <1>1 DEF CreateStep, CreateRow, AcquireOrg, ResolveRoutes, Attribute,
     AcquireTrunk, RefuseTrunk, ResolveEgress, Prepare, Originate, MarkSubmitted, MarkUncertain,
     ReleaseTrunk, FailCall, ReleaseOrg, BindChannel, UnwindHangup, UnwindTrunk, UnwindOrg,
     UnwindFail, redisVars, At
<1>2. CASE CreateFailure(c) \/ LeaseExpire(c)
  BY <1>2 DEF CreateFailure, AcquireOrgFault, AcquireTrunkFault, OriginateUncertain,
     CreateFault, CreateCrash, LeaseExpire, redisVars
<1> QED
  BY <1>1, <1>2 DEF RequestStep

\* A request keeps what the runtime relies on.
LEMMA WorldRequest ==
    ASSUME LeaseInv, NEW c \in Calls, RequestStep(c) PROVE WorldInv'
<1>0. /\ CoreInv /\ TypeInv /\ StartInv /\ OriginInv /\ HoldInv
      /\ CleanupInv /\ HangupInv /\ RefreshInv /\ Linked(Dialled)
      /\ lc' = lc /\ job' = job
  BY OtherChannels DEF LeaseInv, TypeInv, WorldInv
<1>1. \A d \in Calls : /\ Over(d) => Over(d)'
                       /\ row[d].trunk => row'[d].trunk
  BY <1>0, OwnRow, OtherRows DEF Over
<1>2. CleanupInv'
  <2>1. \A d \in marker' : Over(d)'
    BY <1>0, <1>1, OwnRow DEF CleanupInv, CoreInv, CoreTypeOK
  <2>2. /\ job.pc \in CleanupPc => \A d \in job.calls : d \in Calls
        /\ \A ch \in Channels : lc[ch].pc \in CleanupPc => lc[ch].call \in Calls
    BY <1>0 DEF CoreInv, CoreTypeOK, LcHasCall, CleanupPc, Job
  <2>3. job'.pc \in CleanupPc => \A d \in job'.calls : Over(d)'
    BY <1>0, <1>1, <2>2 DEF CleanupInv
  <2>4. \A ch \in Channels : lc'[ch].pc \in CleanupPc => row'[lc[ch].call].state \in TerminalState
    BY <1>0, <1>1, <2>2 DEF CleanupInv, Over, isTerminalState
  <2> QED
    BY <1>0, <2>1, <2>3, <2>4 DEF CleanupInv, Over, isTerminalState
<1>3. RefreshInv'
  <2>1. job.calls \subseteq Calls
    BY <1>0 DEF CoreInv, CoreTypeOK, Job
  <2> QED
    BY <1>0, <1>1, <2>1 DEF RefreshInv
<1>4. HangupInv'
  <2>0. fs \in [Channels -> [st: FsState, cid: Calls \cup {NoCall}]] /\ evq \in [Channels -> Seq(LifecycleEvent)]
    BY <1>0 DEF CoreInv, CoreTypeOK
  <2>1. CASE fs' = fs /\ evq' = evq
    BY <1>0, <2>1 DEF HangupInv, NoEarlyHangup
  <2>2. CASE create[c].pc = "originate" /\ fs' = Queued(c) /\ evq' = evq
    <3>1. create[c].chan \in Channels /\ fs[create[c].chan].st = "none"
      BY <1>0, <2>2 DEF HoldInv, RequestChannel, ChannelHolds
    <3>2. fs[create[c].chan].st # "gone"
      BY <3>1
    <3>3. ASSUME NEW ch \in Channels PROVE NoEarlyHangup(ch)'
      <4>1. NoEarlyHangup(ch)
        BY <1>0 DEF HangupInv
      <4>2. CASE ch = create[c].chan
        BY <1>0, <2>2, <3>2, <4>1, <4>2 DEF NoEarlyHangup
      <4>3. CASE ch # create[c].chan
        <5>1. fs'[ch] = fs[ch]
          BY <2>0, <2>2, <4>3 DEF Queued
        <5> QED
          BY <1>0, <2>2, <4>1, <5>1 DEF NoEarlyHangup
      <4> QED
        BY <4>2, <4>3
    <3> QED
      BY <3>3 DEF HangupInv
  <2>3. CASE /\ create[c].pc = "bfHangup" /\ fs[create[c].chan].st \in FsLive
             /\ \E e \in TerminalEvent : Emit(create[c].chan, "gone", e)
    <3>1. create[c].chan \in Channels
      BY <1>0, <2>3 DEF HoldInv, RequestChannel, Originated
    <3>2. fs[create[c].chan].st # "gone" /\ "gone" \in FsState
      BY <2>3 DEF FsLive, FsState
    <3>3. PICK e \in TerminalEvent : Emit(create[c].chan, "gone", e)
      BY <2>3
    <3>4. e \in LifecycleEvent
      BY <3>3 DEF LifecycleEvent
    <3> QED
      BY <1>0, <3>1, <3>2, <3>3, <3>4, EmitKeepsHangup DEF Emit
  <2> QED
    BY <1>0, <2>1, <2>2, <2>3, RequestChannels
<1>5. Linked(Dialled)'
  <2>1. \A p \in Dialled : p \in Dialled'
    <3> SUFFICES ASSUME NEW d \in Calls, NEW ch \in Channels, fs[ch].cid = d
                 PROVE  fs'[ch].cid = d
      BY DEF Dialled
    <3>1. CASE \A u \in Channels : fs'[u].cid = fs[u].cid
      BY <3>1
    <3>2. CASE create[c].pc = "originate" /\ fs' = Queued(c)
      <4>1. ch # create[c].chan
        BY <1>0, <3>2, CallAssumption DEF HoldInv, RequestChannel
      <4> QED
        BY <1>0, <3>2, <4>1 DEF Queued, CoreInv, CoreTypeOK
    <3> QED
      BY <1>0, <3>1, <3>2, OnlyOriginateDials DEF RequestStep
  <2>2. /\ \A ch \in Channels : owner'[ch] \in Calls => <<owner'[ch], ch>> \in Dialled'
        /\ \A d \in Calls : binding'[d] \in Channels => <<d, binding'[d]>> \in Dialled'
    <3>1. CASE UNCHANGED <<binding, owner>>
      BY <1>0, <2>1, <3>1 DEF Linked
    <3>2. CASE create[c].pc = "bind" /\ ChannelBind(c, create[c].chan)
      <4>1. create[c].chan \in Channels /\ fs[create[c].chan].cid = c
        BY <1>0, <3>2 DEF HoldInv, RequestChannel, Originated
      <4>2. <<c, create[c].chan>> \in Dialled'
        BY <2>1, <4>1 DEF Dialled
      <4>3. /\ \A ch \in Channels : owner'[ch] = IF ch = create[c].chan THEN c ELSE owner[ch]
            /\ \A d \in Calls : binding'[d] = IF d = c THEN create[c].chan ELSE binding[d]
        BY <1>0, <3>2, <4>1 DEF ChannelBind, CoreInv, CoreTypeOK
      <4> QED
        BY <1>0, <2>1, <4>2, <4>3 DEF Linked
    <3> QED
      BY <3>1, <3>2, RequestBindings
  <2>3. \A ch \in Channels : fs'[ch].cid \in Calls => <<fs'[ch].cid, ch>> \in Dialled'
    BY DEF Dialled
  <2>4. \A ch \in Channels : lc'[ch].pc # "idle" => <<lc'[ch].call, ch>> \in Dialled'
    BY <1>0, <2>1 DEF Linked
  <2>5. job'.pc \in {"bind", "observe"} =>
          job'.call \in Calls /\ job'.chan \in Channels /\ <<job'.call, job'.chan>> \in Dialled'
    BY <1>0, <2>1 DEF Linked
  <2> QED
    BY <2>2, <2>3, <2>4, <2>5 DEF Linked
<1> QED
  BY <1>2, <1>3, <1>4, <1>5 DEF WorldInv

\* The unwinding of a failed binding goes on to its end.
LEMMA UnwindGoesOn ==
    ASSUME TypeInv, NEW c \in Calls, RequestStep(c), BindFailed(c)
    PROVE  create'[c].pc \in {"bfHangup", "bfTrunk", "bfOrg", "bfFail", "unbound"}
<1>0. create[c].pc \in {"bfHangup", "bfTrunk", "bfOrg", "bfFail", "unbound"}
  BY DEF BindFailed
<1>1. ASSUME NEW pc, Goto(c, pc) PROVE create'[c].pc = pc
  BY <1>1 DEF Goto, TypeInv, Create
<1>2. CASE CreateStep(c)
  <2>1. \E pc \in {"bfTrunk", "bfOrg", "bfFail", "unbound"} : Goto(c, pc)
    BY <1>0, <1>2 DEF CreateStep, CreateRow, AcquireOrg, ResolveRoutes, Attribute,
       AcquireTrunk, RefuseTrunk, ResolveEgress, Prepare, Originate, MarkSubmitted,
       MarkUncertain, ReleaseTrunk, FailCall, ReleaseOrg, BindChannel, UnwindHangup,
       UnwindTrunk, UnwindOrg, UnwindFail, At
  <2> QED
    BY <1>1, <2>1
<1>3. CASE CreateFault(c)
  <2>1. OnError(create[c].pc) \in {"bfTrunk", "bfOrg", "bfFail", "unbound"}
    BY <1>0, <1>3 DEF CreateFault, OnError
  <2> QED
    BY <1>1, <1>3, <2>1 DEF CreateFault
<1>4. CASE CreateCrash(c)
  BY <1>1, <1>4 DEF CreateCrash
<1>5. CASE LeaseExpire(c)
  BY <1>0, <1>5 DEF LeaseExpire
<1>6. CASE AcquireOrgFault(c) \/ AcquireTrunkFault(c) \/ OriginateUncertain(c)
  BY <1>0, <1>6 DEF AcquireOrgFault, AcquireTrunkFault, OriginateUncertain, At
<1> QED
  BY <1>2, <1>3, <1>4, <1>5, <1>6 DEF RequestStep, CreateFailure

\* A request that keeps its channel keeps everything the channel needs; only
\* the unwinding of a failed binding gives it up.
LEMMA BoundKeeps ==
    ASSUME TypeInv, NEW c \in Calls, RequestStep(c), create[c].pc \in Originated,
           c \in ActiveCalls, ~BindFailed(c)'
    PROVE  ~BindFailed(c) /\ UNCHANGED <<row, orgLease, trunkLease>>
<1>0. create[c].pc \in {"submitted", "uncertain", "bind", "bfHangup", "bfTrunk", "bfOrg",
                        "bfFail", "unbound", "done"}
  BY DEF Originated
<1>1. ASSUME NEW pc, Goto(c, pc) PROVE create'[c].pc = pc
  BY <1>1 DEF Goto, TypeInv, Create
<1>2. CASE MarkSubmitted(c) \/ MarkUncertain(c) \/ BindChannel(c)
  BY <1>0, <1>2 DEF MarkSubmitted, MarkUncertain, BindChannel, BindFailed, At, redisVars, dbVars
<1>3. CASE UnwindHangup(c) \/ UnwindTrunk(c) \/ UnwindOrg(c) \/ UnwindFail(c)
  BY <1>1, <1>3 DEF UnwindHangup, UnwindTrunk, UnwindOrg, UnwindFail, BindFailed
<1>4. CASE CreateFault(c)
  <2>1. create[c].pc \in {"bind", "bfHangup", "bfTrunk", "bfOrg", "bfFail"} => BindFailed(c)'
    <3>1. create'[c].pc = OnError(create[c].pc)
      BY <1>1, <1>4 DEF CreateFault
    <3> QED
      BY <3>1 DEF OnError, BindFailed
  <2> QED
    BY <1>0, <1>4, <2>1 DEF CreateFault, BindFailed, redisVars, dbVars
<1>5. CASE CreateCrash(c)
  <2>1. BindFailed(c) => create'[c].pc = "unbound"
    BY <1>1, <1>5 DEF CreateCrash
  <2> QED
    BY <1>5, <2>1 DEF CreateCrash, BindFailed, redisVars, dbVars
<1>6. CASE LeaseExpire(c)
  BY <1>6 DEF LeaseExpire, Refreshers
<1>7. CASE CreateStep(c) /\ ~MarkSubmitted(c) /\ ~MarkUncertain(c) /\ ~BindChannel(c)
  BY <1>0, <1>3, <1>7 DEF CreateStep, CreateRow, AcquireOrg, ResolveRoutes, Attribute,
     AcquireTrunk, RefuseTrunk, ResolveEgress, Prepare, Originate, ReleaseTrunk, FailCall,
     ReleaseOrg, At
<1>8. CASE AcquireOrgFault(c) \/ AcquireTrunkFault(c) \/ OriginateUncertain(c)
  BY <1>0, <1>8 DEF AcquireOrgFault, AcquireTrunkFault, OriginateUncertain, At
<1> QED
  BY <1>2, <1>4, <1>5, <1>6, <1>7, <1>8 DEF RequestStep, CreateFailure

\* A request leaves every channel that may be up with its leases.
LEMMA ChannelRequest ==
    ASSUME LeaseInv, NEW c \in Calls, RequestStep(c), NEW ch \in Channels
    PROVE  ChannelHolds(ch)'
<1>0. /\ TypeInv /\ CoreTypeOK /\ OriginInv /\ HoldInv /\ ChannelHolds(ch)
      /\ RequestChannel(c) /\ RequestHolds(c)
      /\ fs \in [Channels -> [st: FsState, cid: Calls \cup {NoCall}]]
  BY DEF LeaseInv, HoldInv, TypeInv, CoreInv, CoreTypeOK
<1>1. CASE /\ create[c].pc = "originate" /\ fs' = Queued(c) /\ ch = create[c].chan
           /\ UNCHANGED <<row, orgLease, trunkLease>>
  <2>1. fs'[ch] = [st |-> "queued", cid |-> c] /\ c # NoCall
    BY <1>0, <1>1, CallAssumption DEF Queued
  <2> QED
    BY <1>0, <1>1, <2>1 DEF ChannelHolds, RequestHolds, Dialling, OnTrunk
<1>2. ASSUME /\ fs'[ch].cid = fs[ch].cid
             /\ fs'[ch].st \in MayBeUp => fs[ch].st \in MayBeUp
             /\ fs[ch].st = "none" => fs'[ch].st = "none"
      PROVE  ChannelHolds(ch)'
  <2> DEFINE d == fs[ch].cid
  <2>1. d = NoCall => fs'[ch].st = "none"
    BY <1>0, <1>2 DEF ChannelHolds
  <2>2. ASSUME fs'[ch].st \in MayBeUp, ~BindFailed(d)'
        PROVE  d \in trunkLease' /\ d \in orgLease' /\ row'[d].state \in LiveState
    <3>1. fs[ch].st \in MayBeUp /\ d \in Calls
      BY <1>0, <1>2, <2>1, <2>2 DEF MayBeUp, FsLive
    <3>2. CASE d # c
      <4>1. create'[d] = create[d]
        BY <1>0, <3>1, <3>2, OtherRequests DEF RequestStep
      <4>2. d \in trunkLease /\ d \in orgLease /\ row[d].state \in LiveState
        BY <1>0, <1>2, <2>2, <3>1, <4>1 DEF ChannelHolds, BindFailed
      <4> QED
        BY <1>0, <3>1, <3>2, <4>2, OtherRows, OtherLeases
    <3>3. CASE d = c
      <4>1. create[c].pc \in Originated /\ row[c].trunk
        BY <1>0, <3>1, <3>3 DEF OriginInv, RequestHolds
      <4>2. create[c].pc \notin {"bfHangup", "bfTrunk", "bfOrg", "bfFail", "unbound"} =>
               c \in trunkLease /\ c \in orgLease /\ row[c].state \in LiveState
        BY <1>0, <3>1, <3>3 DEF ChannelHolds, BindFailed
      <4>3. CASE BindFailed(c)
        <5>1. create'[c].pc \in {"bfHangup", "bfTrunk", "bfOrg", "bfFail", "unbound"}
          BY <1>0, <4>1, <4>3, UnwindGoesOn
        <5> QED
          BY <1>2, <2>2, <3>3, <5>1 DEF BindFailed
      <4>4. CASE ~BindFailed(c)
        <5>1. c \in trunkLease /\ c \in orgLease /\ row[c].state \in LiveState
          BY <4>2, <4>4 DEF BindFailed
        <5>2. c \in ActiveCalls
          BY <4>1, <5>1 DEF ActiveCalls
        <5>3. ~BindFailed(c)'
          BY <1>2, <2>2, <3>3 DEF BindFailed
        <5> QED
          BY <1>0, <3>3, <4>1, <5>1, <5>2, <5>3, BoundKeeps
      <4> QED
        BY <4>3, <4>4
    <3> QED
      BY <3>2, <3>3
  <2> QED
    BY <1>2, <2>1, <2>2 DEF ChannelHolds, BindFailed
<1>3. CASE fs' = fs
  BY <1>2, <1>3
<1>4. CASE create[c].pc = "originate" /\ fs' = Queued(c) /\ ch # create[c].chan
  BY <1>0, <1>2, <1>4 DEF Queued
<1>5. CASE \E e \in TerminalEvent : Emit(create[c].chan, "gone", e) /\ fs[create[c].chan].st \in FsLive
  <2>1. fs' = [fs EXCEPT ![create[c].chan].st = "gone"] /\ fs[create[c].chan].st # "none"
    BY <1>5 DEF Emit, FsLive
  <2> QED
    BY <1>0, <1>2, <2>1 DEF MayBeUp, FsLive
<1> QED
  BY <1>0, <1>1, <1>3, <1>4, <1>5, RequestChannels

\* A request that goes on with no channel and no lease to rely on.
Settled == {"failOrg", "failRoute", "fail", "markRelease", "release", "relOrg", "over"}

\* What a step of a request that has not originated is, unless it gives up.
LEMMA RequestMoves ==
    ASSUME TypeInv, NEW c \in Calls, RequestStep(c)
    PROVE  \/ create'[c].pc \in Settled /\ create'[c].chan = create[c].chan
           \/ create[c].pc \in Originated
           \/ CreateRow(c)
           \/ AcquireOrg(c) /\ orgLease' = Acquired(orgLease, c) /\ Goto(c, "route")
           \/ ResolveRoutes(c) \/ Attribute(c) \/ AcquireTrunk(c) \/ RefuseTrunk(c)
           \/ AcquireTrunkFault(c) \/ ResolveEgress(c)
           \/ \E ch \in Channels : Prepare(c, ch)
           \/ Originate(c) \/ OriginateUncertain(c)
<1>1. ASSUME NEW pc, Goto(c, pc) PROVE create'[c].pc = pc /\ create'[c].chan = create[c].chan
  BY <1>1 DEF Goto, TypeInv, Create
<1>2. CASE AcquireOrg(c)
  BY <1>1, <1>2 DEF AcquireOrg, Settled
<1>3. CASE MarkSubmitted(c) \/ BindChannel(c) \/ UnwindHangup(c) \/ UnwindTrunk(c) \/ UnwindOrg(c)
           \/ UnwindFail(c)
  BY <1>3 DEF MarkSubmitted, BindChannel, UnwindHangup, UnwindTrunk, UnwindOrg, UnwindFail,
     At, Originated
<1>4. CASE MarkUncertain(c)
  BY <1>1, <1>4 DEF MarkUncertain, At, Originated, Settled
<1>5. CASE ReleaseTrunk(c) \/ FailCall(c) \/ ReleaseOrg(c) \/ AcquireOrgFault(c)
  BY <1>1, <1>5 DEF ReleaseTrunk, FailCall, ReleaseOrg, AcquireOrgFault, AfterFail, Settled
<1>6. CASE CreateFault(c)
  <2>1. create[c].pc \in Originated \/ OnError(create[c].pc) \in Settled
    BY <1>6 DEF CreateFault, OnError, AfterFail, Settled, Originated
  <2> QED
    BY <1>1, <1>6, <2>1 DEF CreateFault
<1>7. CASE CreateCrash(c)
  <2>1. create[c].pc \in Originated \/ Goto(c, "over")
    BY <1>7 DEF CreateCrash, BindFailed, Originated
  <2> QED
    BY <1>1, <2>1 DEF Settled
<1>8. CASE LeaseExpire(c)
  BY <1>8 DEF LeaseExpire, Returned, Originated, Settled
<1> QED
  BY <1>2, <1>3, <1>4, <1>5, <1>6, <1>7, <1>8 DEF RequestStep, CreateStep, CreateFailure

\* The next step of a request that goes on, and the channel it holds.
LEMMA RouteMoves ==
    ASSUME TypeInv, NEW c \in Calls, ResolveRoutes(c) \/ NextRoute(c)
    PROVE  create'[c].pc \in {"attribute", "failRoute", "fail"} /\ create'[c].chan = create[c].chan
<1>0. create[c] \in Create /\ create \in [Calls -> Create]
  BY DEF TypeInv
<1>1. CASE ResolveRoutes(c)
  <2>1. PICK n \in 0..MaxRoutes :
           create' = [create EXCEPT ![c] = [create[c] EXCEPT
                        !.pc = IF n = 0 THEN "failRoute" ELSE "attribute", !.left = n]]
    BY ZenonT(40), <1>1 DEF ResolveRoutes
  <2> QED
    BY <1>0, <2>1 DEF Create
<1>2. CASE NextRoute(c)
  BY <1>0, <1>2 DEF NextRoute, Create
<1> QED
  BY <1>1, <1>2

\* A request keeps its own channel.
LEMMA OwnChannel ==
    ASSUME LeaseInv, NEW c \in Calls, RequestStep(c)
    PROVE  RequestChannel(c)'
<1>0. /\ TypeInv /\ RequestChannel(c) /\ create[c] \in Create /\ create \in [Calls -> Create]
      /\ \A ch \in Channels : attempt[ch].call = c => attempt'[ch].call = c
  BY RequestAttempts, CallAssumption DEF LeaseInv, HoldInv, TypeInv
<1>1. ASSUME NEW pc, Goto(c, pc) PROVE create'[c].pc = pc /\ create'[c].chan = create[c].chan
  BY <1>0, <1>1 DEF Goto, Create
<1>a. ASSUME create'[c].chan = create[c].chan,
             create'[c].pc \notin {"originate"} \cup Originated
      PROVE  RequestChannel(c)'
  BY <1>0, <1>a DEF RequestChannel, Originated
<1>2. CASE create[c].pc \in Originated
  <2>1. create'[c].pc \in Originated /\ create'[c].chan = create[c].chan
    BY <1>0, <1>2, OriginatedStays DEF RequestStep
  <2>2. create[c].chan \in Channels /\ create'[c].pc # "originate"
    BY <1>0, <1>2, <2>1 DEF RequestChannel, Originated
  <2>3. create'[c].pc \in {"submitted", "bind"} => fs[create[c].chan].cid = c
    <3>1. CASE create'[c].pc \in {"submitted", "bind"} /\ create[c].pc \notin {"submitted", "bind"}
      <4>1. create[c].pc \in {"uncertain", "bfHangup", "bfTrunk", "bfOrg", "bfFail", "unbound", "done"}
        BY <1>2, <3>1 DEF Originated
      <4>2. CASE CreateFault(c)
        <5>1. OnError(create[c].pc) \notin {"submitted", "bind"}
          BY <4>1, <4>2 DEF CreateFault, OnError
        <5> QED
          BY <1>1, <3>1, <4>2, <5>1 DEF CreateFault
      <4>3. CASE CreateCrash(c) \/ LeaseExpire(c)
        BY <1>1, <3>1, <4>3 DEF CreateCrash, LeaseExpire
      <4>4. CASE CreateStep(c)
        BY <1>1, <3>1, <4>1, <4>4 DEF CreateStep, CreateRow, AcquireOrg, ResolveRoutes, Attribute,
           AcquireTrunk, RefuseTrunk, ResolveEgress, Prepare, Originate, MarkSubmitted,
           MarkUncertain, ReleaseTrunk, FailCall, ReleaseOrg, BindChannel, UnwindHangup,
           UnwindTrunk, UnwindOrg, UnwindFail, At
      <4>5. CASE AcquireOrgFault(c) \/ AcquireTrunkFault(c) \/ OriginateUncertain(c)
        BY <4>1, <4>5 DEF AcquireOrgFault, AcquireTrunkFault, OriginateUncertain, At
      <4> QED
        BY <4>2, <4>3, <4>4, <4>5 DEF RequestStep, CreateFailure
    <3> QED
      BY <1>0, <3>1 DEF RequestChannel
  <2>4. create[c].pc # "originate"
    BY <1>2 DEF Originated
  <2>5. fs'[create[c].chan].cid = fs[create[c].chan].cid
    BY <1>0, <2>2, <2>4, OnlyOriginateDials DEF RequestStep
  <2> QED
    BY <1>0, <2>1, <2>2, <2>3, <2>5 DEF RequestChannel
<1>3. CASE create'[c].pc \in Settled /\ create'[c].chan = create[c].chan
  BY <1>3, <1>a DEF Settled, Originated
<1>4. CASE CreateRow(c) \/ Goto(c, "route") \/ Attribute(c) \/ AcquireTrunk(c) \/ ResolveEgress(c)
  <2>1. \E pc \in {"org", "route", "acquire", "resolve", "prepare", "release"} : Goto(c, pc)
    BY <1>4 DEF CreateRow, Attribute, AcquireTrunk, ResolveEgress
  <2> QED
    BY <1>1, <1>a, <2>1 DEF Originated
<1>5. CASE ResolveRoutes(c) \/ RefuseTrunk(c) \/ AcquireTrunkFault(c)
  <2>1. ResolveRoutes(c) \/ NextRoute(c)
    BY <1>5 DEF RefuseTrunk, AcquireTrunkFault
  <2> QED
    BY <1>0, <1>a, <2>1, RouteMoves DEF Originated
<1>6. ASSUME NEW ch \in Channels, Prepare(c, ch) PROVE RequestChannel(c)'
  <2>1. create' = [create EXCEPT ![c] = [create[c] EXCEPT !.pc = "originate", !.chan = ch]]
    BY <1>6 DEF Prepare
  <2>2. create'[c].pc = "originate" /\ create'[c].chan = ch
    BY <1>0, <2>1 DEF Create
  <2>3. attempt'[ch].call = c /\ attempt[ch].call = NoCall /\ fs' = fs
    BY <1>6 DEF Prepare, fsVars, LeaseInv, TypeInv, CoreInv, CoreTypeOK
  <2>4. fs[ch].cid = NoCall
    BY <2>3, DialledWasAttempted DEF LeaseInv
  <2> QED
    BY <2>2, <2>3, <2>4 DEF RequestChannel, Originated
<1>7. CASE Originate(c) \/ OriginateUncertain(c)
  <2>1. create[c].pc = "originate" /\ create[c].chan \in Channels
    BY <1>0, <1>7 DEF Originate, OriginateUncertain, At, RequestChannel
  <2>2. CASE Goto(c, "markRelease")
    BY <1>1, <1>a, <2>2 DEF Originated
  <2>3. CASE Goto(c, "uncertain")
    BY <1>0, <1>1, <2>1, <2>3 DEF RequestChannel
  <2>4. CASE Goto(c, "submitted") /\ fs' = Queued(c)
    <3>1. fs'[create[c].chan].cid = c
      BY <2>1, <2>4 DEF Queued, LeaseInv, TypeInv, CoreInv, CoreTypeOK
    <3> QED
      BY <1>0, <1>1, <2>1, <2>4, <3>1 DEF RequestChannel
  <2> QED
    BY <1>7, <2>2, <2>3, <2>4 DEF Originate, OriginateUncertain
<1> QED
  BY <1>0, <1>2, <1>3, <1>4, <1>5, <1>6, <1>7, RequestMoves

\* A request keeps the row and the leases its next step relies on.
LEMMA OwnHolds ==
    ASSUME LeaseInv, NEW c \in Calls, RequestStep(c)
    PROVE  RequestHolds(c)'
<1>0. /\ TypeInv /\ RequestHolds(c) /\ create[c] \in Create /\ create \in [Calls -> Create]
      /\ row[c] \in Row /\ row \in [Calls -> Row]
  BY DEF LeaseInv, HoldInv, TypeInv, CoreInv, CoreTypeOK
<1>1. ASSUME NEW pc, Goto(c, pc) PROVE create'[c].pc = pc
  BY <1>0, <1>1 DEF Goto, Create
<1>2. CASE create[c].pc \in Originated
  <2>1. create'[c].pc \in Originated
    BY <1>0, <1>2, OriginatedStays DEF RequestStep
  <2>2. row'[c].trunk
    BY <1>0, <1>2, OwnRow DEF RequestHolds, LeaseInv
  <2> QED
    BY <2>1, <2>2 DEF RequestHolds, Originated, Dialling, OnTrunk
<1>3. CASE create'[c].pc \in Settled
  BY <1>3 DEF RequestHolds, Settled, Originated, Dialling, OnTrunk
<1>4. CASE CreateRow(c)
  <2>1. create'[c].pc = "org" /\ create[c].pc = "start"
    BY <1>1, <1>4 DEF CreateRow, At
  <2>2. row'[c] = [NoRow EXCEPT !.state = "initiating", !.outbound = TRUE] /\ orgLease' = orgLease
    BY <1>0, <1>4 DEF CreateRow, redisVars
  <2>3. row'[c].state = "initiating" /\ ~row'[c].trunk
    BY <2>2 DEF NoRow
  <2> QED
    BY <1>0, <2>1, <2>2, <2>3 DEF RequestHolds, LiveState, Originated, Dialling, OnTrunk
<1>5. CASE AcquireOrg(c) /\ orgLease' = Acquired(orgLease, c) /\ Goto(c, "route")
  <2>1. create'[c].pc = "route" /\ create[c].pc = "org" /\ row' = row
    BY <1>1, <1>5 DEF AcquireOrg, At, dbVars
  <2> QED
    BY <1>0, <1>5, <2>1 DEF RequestHolds, Acquired, Originated, Dialling, OnTrunk
<1>6. CASE Attribute(c)
  <2>1. create'[c].pc = "acquire" /\ create[c].pc = "attribute" /\ orgLease' = orgLease
    BY <1>1, <1>6 DEF Attribute, At, redisVars
  <2>2. row' = [row EXCEPT ![c] = [row[c] EXCEPT !.trunk = TRUE]]
    BY <1>6 DEF Attribute
  <2>3. row'[c].trunk /\ row'[c].state = row[c].state
    BY <1>0, <2>2 DEF Row
  <2> QED
    BY <1>0, <2>1, <2>3 DEF RequestHolds, Originated, Dialling, OnTrunk
<1>7. CASE AcquireTrunk(c)
  <2>1. /\ create'[c].pc = "resolve" /\ create[c].pc = "acquire"
        /\ row' = row /\ orgLease' = orgLease /\ c \in trunkLease'
    BY <1>1, <1>7 DEF AcquireTrunk, At, dbVars, Acquired
  <2> QED
    BY <1>0, <2>1 DEF RequestHolds, Originated, Dialling, OnTrunk
<1>8. CASE ResolveRoutes(c) \/ RefuseTrunk(c) \/ AcquireTrunkFault(c)
  <2>1. create'[c].pc \in {"attribute", "failRoute", "fail"}
    BY <1>0, <1>8, RouteMoves DEF RefuseTrunk, AcquireTrunkFault
  <2>2. create[c].pc \in {"route", "acquire"} /\ row' = row /\ orgLease' = orgLease
    BY <1>8 DEF ResolveRoutes, RefuseTrunk, AcquireTrunkFault, At, dbVars, redisVars
  <2> QED
    BY <1>0, <2>1, <2>2 DEF RequestHolds, Originated, Dialling, OnTrunk
<1>9. CASE ResolveEgress(c)
  <2>1. create'[c].pc \in {"prepare", "release"} /\ create[c].pc = "resolve"
    BY <1>1, <1>9 DEF ResolveEgress, At
  <2>2. row' = row /\ orgLease' = orgLease /\ trunkLease' = trunkLease
    BY <1>9 DEF ResolveEgress, dbVars, redisVars
  <2> QED
    BY <1>0, <2>1, <2>2 DEF RequestHolds, Originated, Dialling, OnTrunk
<1>10. ASSUME NEW ch \in Channels, Prepare(c, ch) PROVE RequestHolds(c)'
  <2>1. create' = [create EXCEPT ![c] = [create[c] EXCEPT !.pc = "originate", !.chan = ch]]
    BY <1>10 DEF Prepare
  <2>2. create'[c].pc = "originate" /\ create[c].pc = "prepare"
    BY <1>0, <1>10, <2>1 DEF Create, Prepare, At
  <2>3. row' = row /\ orgLease' = orgLease /\ trunkLease' = trunkLease
    BY <1>10 DEF Prepare, redisVars
  <2> QED
    BY <1>0, <2>2, <2>3 DEF RequestHolds, Originated, Dialling, OnTrunk
<1>11. CASE Originate(c) \/ OriginateUncertain(c)
  <2>1. create'[c].pc \in {"submitted", "markRelease", "uncertain"} /\ create[c].pc = "originate"
    BY <1>1, <1>11 DEF Originate, OriginateUncertain, At
  <2>2. row' = row
    BY <1>11 DEF Originate, OriginateUncertain, dbVars
  <2> QED
    BY <1>0, <2>1, <2>2 DEF RequestHolds, Originated, Dialling, OnTrunk
<1> QED
  BY <1>0, <1>2, <1>3, <1>4, <1>5, <1>6, <1>7, <1>8, <1>9, <1>10, <1>11, RequestMoves

\* A request keeps what every other request holds.
LEMMA OtherHolds ==
    ASSUME LeaseInv, NEW c \in Calls, RequestStep(c), NEW d \in Calls, d # c
    PROVE  RequestChannel(d)' /\ RequestHolds(d)'
<1>0. /\ TypeInv /\ OriginInv /\ RequestChannel(d) /\ RequestHolds(d) /\ RequestChannel(c)
      /\ create'[d] = create[d] /\ row'[d] = row[d]
  BY OtherRequests, OtherRows DEF LeaseInv, HoldInv, RequestStep
<1>1. \A ch \in Channels : attempt[ch].call = d => attempt'[ch].call = d
  BY <1>0, RequestAttempts, CallAssumption
<1>2. create[d].chan \in Channels => fs'[create[d].chan].cid = fs[create[d].chan].cid
  <2>1. create[d].chan \in Channels /\ create[c].pc = "originate" => create[c].chan # create[d].chan
    BY <1>0 DEF RequestChannel
  <2> QED
    BY <1>0, <2>1, OnlyOriginateDials DEF RequestStep, Queued, TypeInv, CoreInv, CoreTypeOK
<1>3. RequestChannel(d)'
  BY <1>0, <1>1, <1>2 DEF RequestChannel, Originated
<1>4. RequestHolds(d)'
  BY <1>0, OtherLeases DEF RequestHolds
<1> QED
  BY <1>3, <1>4

\* The invariant is preserved by every step.
LEMMA LeaseInvStep == LeaseInv /\ [Next]_vars => LeaseInv'
<1> SUFFICES ASSUME LeaseInv, [Next]_vars PROVE LeaseInv'
  OBVIOUS
<1>1. TypeInv' /\ OriginInv' /\ StartInv'
  BY TypeInvStep, OriginInvStep, StartInvStep DEF LeaseInv
<1>2. ASSUME NEW c \in Calls, RequestStep(c) PROVE WorldInv' /\ HoldInv'
  <2>1. WorldInv'
    BY <1>2, WorldRequest
  <2>2. \A d \in Calls : RequestChannel(d)' /\ RequestHolds(d)'
    BY <1>2, OwnChannel, OwnHolds, OtherHolds
  <2>3. \A ch \in Channels : ChannelHolds(ch)'
    BY <1>2, ChannelRequest
  <2> QED
    BY <2>1, <2>2, <2>3 DEF HoldInv
<1>3. ASSUME RuntimeStep, UNCHANGED create PROVE WorldInv' /\ HoldInv'
  BY <1>3, HoldRuntime, WorldRuntime DEF RuntimeStep, CoreStep
<1>4. ASSUME UNCHANGED vars PROVE WorldInv' /\ HoldInv'
  <2>1. WorldInv'
    BY <1>4 DEF vars, coreVars, dbVars, redisVars, fsVars, LeaseInv, WorldInv, CleanupInv, HangupInv,
       RefreshInv, Linked, Dialled, NoEarlyHangup, Over, isTerminalState
  <2>2. HoldInv'
    BY <1>4 DEF vars, coreVars, dbVars, redisVars, fsVars, LeaseInv, HoldInv, RequestChannel,
       RequestHolds, ChannelHolds, BindFailed
  <2> QED
    BY <2>1, <2>2
<1>5. WorldInv' /\ HoldInv'
  BY <1>2, <1>3, <1>4 DEF Next, RequestStep
<1> QED
  BY <1>1, <1>5 DEF LeaseInv

\* The inductive invariant of outbound calls, for any number of calls,
\* channels, routes, limits and failures.
THEOREM LeaseInductive == Spec => []LeaseInv
BY LeaseInvInit, LeaseInvStep, PTL DEF Spec

\* While a channel placed for a call may be up the call holds both leases,
\* whatever failed, restarted or was left uncertain in between; only the
\* unwinding of a failed channel binding gives them up first (Create,
\* Reconcile, ObserveLifecycle, cleanupTerminalAdmission).
THEOREM ChannelsHoldLeases == Spec => []LiveChannelHoldsLeases
<1>1. LeaseInv => LiveChannelHoldsLeases
  BY DEF LeaseInv, HoldInv, ChannelHolds, MayBeUp, LiveChannelHoldsLeases
<1> QED
  BY LeaseInductive, <1>1, PTL

(***************************************************************************)
(* The admission limit of the organization.                                *)
(***************************************************************************)
\* Calls whose admission counts: their request may still dial, or a channel
\* of theirs may be up.
Holder(c) ==
    \/ create[c].pc \in Dialling
    \/ ~BindFailed(c) /\ \E ch \in Channels : fs[ch].cid = c /\ fs[ch].st \in MayBeUp
Holders == {c \in Calls : Holder(c)}

\* The organization has finitely many leases, and no more holders than
\* admissions.
CountInv ==
    /\ IsFiniteSet(orgLease)
    /\ Cardinality(Holders) <= OrgLimit

\* Nobody holds anything at the start.
LEMMA CountInvInit == Init => CountInv
<1> SUFFICES ASSUME Init PROVE CountInv
  OBVIOUS
<1>1. Holders = {}
  BY DEF Init, CoreInit, Holders, Holder, MayBeUp, FsLive, Dialling
<1> QED
  BY <1>1, FS_EmptySet, OutboundAssumption DEF Init, CoreInit, CountInv

\* Every holder has an organization lease.
LEMMA HoldersHaveLeases == LeaseInv => Holders \subseteq orgLease
BY DEF LeaseInv, HoldInv, RequestHolds, ChannelHolds, Holders, Holder

\* Every step adds at most one organization lease.
LEMMA OrgLeaseGrowth ==
    ASSUME LeaseInv, [Next]_vars PROVE \E x : orgLease' \subseteq orgLease \cup {x}
<1>1. ASSUME NEW c \in Calls, RequestStep(c) PROVE orgLease' \subseteq orgLease \cup {c}
  BY <1>1, OtherLeases DEF LeaseInv
<1>2. ASSUME RuntimeStep PROVE \E x : orgLease' \subseteq orgLease \cup {x}
  <2>1. ASSUME NEW pc, NEW d, NEW t, CleanupStep(pc, d, t)
        PROVE  orgLease' \subseteq orgLease \cup {d}
    BY <2>1 DEF CleanupStep, Released
  <2>2. CoreInv /\ CoreStep
    BY <1>2 DEF LeaseInv, TypeInv, RuntimeStep, CoreStep
  <2> QED
    BY <2>1, <2>2, CoreStepLeases
<1>3. ASSUME UNCHANGED vars PROVE \E x : orgLease' \subseteq orgLease \cup {x}
  BY <1>3 DEF vars, coreVars, redisVars
<1> QED
  BY <1>1, <1>2, <1>3 DEF Next, RequestStep

\* A request that may dial was just admitted, or could dial before.
LEMMA DiallingFrom ==
    ASSUME TypeInv, NEW c \in Calls, RequestStep(c), create'[c].pc \in Dialling
    PROVE  \/ create[c].pc \in Dialling
           \/ /\ create[c].pc = "org" /\ orgLease' = orgLease \cup {c}
              /\ CanAcquire(orgLease, c, OrgLimit)
<1>1. ASSUME NEW pc, Goto(c, pc) PROVE create'[c].pc = pc
  BY <1>1 DEF Goto, TypeInv, Create
<1>2. create'[c].pc \notin Settled /\ create'[c].pc # "org" /\ create'[c].pc # "failOrg"
  BY DEF Dialling, Settled
<1>3. create[c].pc \notin Originated
  BY OriginatedStays DEF RequestStep, Dialling, Originated
<1>4. ~CreateRow(c)
  BY <1>1, <1>2 DEF CreateRow
<1>5. CASE AcquireOrg(c)
  BY <1>1, <1>2, <1>5 DEF AcquireOrg, At, Acquired
<1>6. CASE ~AcquireOrg(c)
  BY <1>2, <1>3, <1>4, <1>6, RequestMoves DEF ResolveRoutes, Attribute, AcquireTrunk, RefuseTrunk,
     AcquireTrunkFault, ResolveEgress, Prepare, Originate, OriginateUncertain, At, Dialling
<1> QED
  BY <1>5, <1>6

\* A request that has originated could dial before, or had originated.
LEMMA OriginatedFrom ==
    ASSUME TypeInv, NEW c \in Calls, RequestStep(c), create'[c].pc \in Originated
    PROVE  create[c].pc \in Originated \/ create[c].pc \in Dialling
<1>1. ASSUME NEW pc, Goto(c, pc) PROVE create'[c].pc = pc
  BY <1>1 DEF Goto, TypeInv, Create
<1>2. create'[c].pc \notin Settled /\ create'[c].pc \notin {"org", "route"}
  BY DEF Originated, Settled
<1>3. ~CreateRow(c) /\ ~Goto(c, "route")
  BY <1>1, <1>2 DEF CreateRow
<1> QED
  BY <1>2, <1>3, RequestMoves DEF ResolveRoutes, Attribute, AcquireTrunk, RefuseTrunk,
     AcquireTrunkFault, ResolveEgress, Prepare, Originate, OriginateUncertain, At, Dialling

\* A step makes nobody a holder but the request it admits.
LEMMA HoldersStep ==
    ASSUME LeaseInv, [Next]_vars
    PROVE  \/ Holders' \subseteq Holders
           \/ \E c \in Calls : /\ Holders' \subseteq Holders \cup {c}
                               /\ Holders' \subseteq orgLease'
                               /\ orgLease' = orgLease \cup {c}
                               /\ c \notin orgLease /\ CanAcquire(orgLease, c, OrgLimit)
<1>0. LeaseInv' /\ TypeInv /\ CoreInv /\ OriginInv /\ HoldInv
  BY LeaseInvStep DEF LeaseInv, TypeInv
<1>1. ASSUME RuntimeStep, UNCHANGED create PROVE Holders' \subseteq Holders
  <2>1. \A ch \in Channels : /\ fs'[ch].cid = fs[ch].cid
                             /\ fs'[ch].st \in MayBeUp => fs[ch].st \in MayBeUp
    BY <1>0, <1>1, CoreStepKeepsCid, CoreStepStates DEF RuntimeStep, CoreStep
  <2> QED
    BY <1>1, <2>1 DEF Holders, Holder, BindFailed
<1>2. ASSUME NEW c \in Calls, RequestStep(c)
      PROVE  \/ Holders' \subseteq Holders
             \/ /\ Holders' \subseteq Holders \cup {c} /\ Holders' \subseteq orgLease'
                /\ orgLease' = orgLease \cup {c}
                /\ c \notin orgLease /\ CanAcquire(orgLease, c, OrgLimit)
  <2>0. fs \in [Channels -> [st: FsState, cid: Calls \cup {NoCall}]]
    BY <1>0 DEF CoreInv, CoreTypeOK
  <2>1. ASSUME NEW ch \in Channels, create[c].pc # "originate" \/ fs'[ch].cid # c
        PROVE  /\ fs'[ch].cid = fs[ch].cid
               /\ fs'[ch].st \in MayBeUp => fs[ch].st \in MayBeUp
    <3>1. CASE fs' = fs
      BY <3>1
    <3>2. CASE create[c].pc = "originate" /\ fs' = Queued(c)
      BY <2>0, <2>1, <3>2 DEF Queued
    <3>3. CASE fs' = [fs EXCEPT ![create[c].chan].st = "gone"]
      BY <2>0, <3>3 DEF MayBeUp, FsLive
    <3> QED
      BY <1>0, <1>2, <3>1, <3>2, <3>3, RequestChannels DEF Emit
  <2>2. ASSUME NEW d \in Calls, d # c, Holder(d)' PROVE Holder(d)
    <3>1. create'[d] = create[d]
      BY <1>0, <1>2, <2>2, OtherRequests DEF RequestStep
    <3> QED
      BY <2>1, <2>2, <3>1 DEF Holder, BindFailed
  <2>3. ASSUME Holder(c)', ~Holder(c)
        PROVE  /\ create[c].pc = "org" /\ orgLease' = orgLease \cup {c}
               /\ CanAcquire(orgLease, c, OrgLimit)
    <3>1. create[c].pc \notin Dialling /\ create[c].pc # "originate"
      BY <2>3 DEF Holder, Dialling
    <3>2. CASE create'[c].pc \in Dialling
      BY <1>0, <1>2, <3>1, <3>2, DiallingFrom
    <3>3. CASE create'[c].pc \notin Dialling
      <4>1. PICK ch \in Channels : fs'[ch].cid = c /\ fs'[ch].st \in MayBeUp
        BY <2>3, <3>3 DEF Holder
      <4>2. create'[c].pc \in Originated
        BY <1>0, <4>1 DEF LeaseInv, OriginInv
      <4>3. create[c].pc \in Originated
        BY <1>0, <1>2, <3>1, <4>2, OriginatedFrom
      <4>4. ~BindFailed(c)
        <5>1. ~BindFailed(c)'
          BY <2>3, <3>3 DEF Holder
        <5> QED
          BY <1>0, <1>2, <5>1, UnwindGoesOn DEF BindFailed
      <4> QED
        BY <2>1, <2>3, <3>1, <4>1, <4>4 DEF Holder
    <3> QED
      BY <3>2, <3>3
  <2>4. CASE Holder(c)' /\ ~Holder(c)
    <3>1. create[c].pc = "org" => c \notin orgLease
      BY <1>0 DEF HoldInv, RequestHolds
    <3>2. Holders' \subseteq orgLease'
      BY <1>0 DEF LeaseInv, HoldInv, RequestHolds, ChannelHolds, Holders, Holder
    <3> QED
      BY <2>2, <2>3, <2>4, <3>1, <3>2 DEF Holders
  <2>5. CASE Holder(c)' => Holder(c)
    BY <2>2, <2>5 DEF Holders
  <2> QED
    BY <2>4, <2>5
<1>3. ASSUME UNCHANGED vars PROVE Holders' \subseteq Holders
  BY <1>3 DEF vars, coreVars, fsVars, Holders, Holder, BindFailed
<1> QED
  BY <1>1, <1>2, <1>3 DEF Next, RequestStep

\* The count is preserved: a newcomer finds a free place among the leases,
\* and all other holders are among them.
LEMMA CountInvStep == LeaseInv /\ CountInv /\ [Next]_vars => CountInv'
<1> SUFFICES ASSUME LeaseInv, CountInv, [Next]_vars PROVE CountInv'
  OBVIOUS
<1>1. IsFiniteSet(orgLease')
  <2>1. PICK x : orgLease' \subseteq orgLease \cup {x}
    BY OrgLeaseGrowth
  <2>2. IsFiniteSet(orgLease \cup {x})
    BY FS_AddElement DEF CountInv
  <2> QED
    BY <2>1, <2>2, FS_Subset
<1>2. Holders \subseteq orgLease /\ IsFiniteSet(Holders)
  BY HoldersHaveLeases, FS_Subset DEF CountInv
<1>3. CASE Holders' \subseteq Holders
  <2>1. Cardinality(Holders') <= Cardinality(Holders) /\ Cardinality(Holders') \in Nat
    BY <1>2, <1>3, FS_Subset, FS_CardinalityType
  <2>2. Cardinality(Holders) \in Nat
    BY <1>2, FS_CardinalityType
  <2> QED
    BY <1>1, <2>1, <2>2, OutboundAssumption DEF CountInv
<1>4. ASSUME NEW c \in Calls, Holders' \subseteq orgLease', orgLease' = orgLease \cup {c},
             c \notin orgLease, CanAcquire(orgLease, c, OrgLimit)
      PROVE  CountInv'
  <2>1. Cardinality(orgLease') = Cardinality(orgLease) + 1 /\ Cardinality(orgLease) < OrgLimit
    BY <1>4, FS_AddElement DEF CountInv, CanAcquire
  <2>2. Cardinality(orgLease) \in Nat
    BY FS_CardinalityType DEF CountInv
  <2>3. Cardinality(Holders') <= Cardinality(orgLease') /\ IsFiniteSet(Holders')
    BY <1>1, <1>4, FS_Subset
  <2>4. Cardinality(Holders') \in Nat
    BY <2>3, FS_CardinalityType
  <2> QED
    BY <1>1, <2>1, <2>2, <2>3, <2>4, OutboundAssumption DEF CountInv
<1> QED
  BY <1>3, <1>4, HoldersStep

\* The channels that calls of the organization may have up never exceed its
\* plan's concurrency, for any limit and any number of calls and channels,
\* also when the job renews leases between two steps of a request
\* (acquireOrganizationAdmission).
THEOREM AdmissionRespected == Spec => []OrgAdmissionRespected
<1>1. LeaseInv /\ CountInv => OrgAdmissionRespected
  <2> SUFFICES ASSUME LeaseInv, CountInv PROVE OrgAdmissionRespected
    OBVIOUS
  <2> DEFINE Up == {ch \in Channels : fs[ch].st \in MayBeUp /\ ~BindFailed(fs[ch].cid)}
             f == [ch \in Up |-> fs[ch].cid]
  <2>1. IsFiniteSet(Holders)
    BY HoldersHaveLeases, FS_Subset DEF CountInv
  <2>2. \A ch \in Up : fs[ch].cid \in Calls
    BY DEF LeaseInv, TypeInv, CoreInv, CoreTypeOK, HoldInv, ChannelHolds, MayBeUp, FsLive
  <2>3. \A ch \in Up : fs[ch].cid \in Holders
    BY <2>2 DEF Holders, Holder
  <2>4. \A a, b \in Up : fs[a].cid = fs[b].cid => a = b
    BY <2>2 DEF LeaseInv, OriginInv
  <2>5. f \in Injection(Up, Holders)
    BY <2>3, <2>4 DEF Injection, IsInjective
  <2>6. Cardinality(Up) <= Cardinality(Holders) /\ IsFiniteSet(Up)
    BY <2>1, <2>5, FS_Injection
  <2>7. Cardinality(Up) \in Nat /\ Cardinality(Holders) \in Nat
    BY <2>1, <2>6, FS_CardinalityType
  <2>8. Cardinality(Up) <= OrgLimit
    BY <2>6, <2>7, OutboundAssumption DEF CountInv
  <2> QED
    BY <2>8 DEF OrgAdmissionRespected, MayBeUp
<1> QED
  BY LeaseInductive, CountInvInit, CountInvStep, LeaseInvStep, <1>1, PTL DEF Spec

(***************************************************************************)
(* An observed attempt can be reached through its channel.                 *)
(***************************************************************************)
\* The call is over, or its binding is the channel.
Reached(c, ch) == Over(c) \/ binding[c] = ch

\* A recorded attempt has a call; an observed one has dialled and bound it.
AttemptReach(ch) ==
    /\ attempt[ch].status # "none" => attempt[ch].call \in Calls
    /\ attempt[ch].status = "observed" => /\ fs[ch].cid = attempt[ch].call
                                          /\ Reached(attempt[ch].call, ch)

\* The handler of a progress event and the job bind before they mark.
HandlerReach(ch) ==
    lc[ch].pc = "snapshot" /\ lc[ch].ev \notin TerminalEvent => Reached(lc[ch].call, ch)
JobReach == job.pc = "observe" => Reached(job.call, job.chan)

ReachInv ==
    /\ \A ch \in Channels : AttemptReach(ch)
    /\ \A ch \in Channels : HandlerReach(ch)
    /\ JobReach

\* No attempt is recorded at the start.
LEMMA ReachInvInit == Init => ReachInv
BY DEF Init, CoreInit, ReachInv, AttemptReach, HandlerReach, JobReach, IdleLc, IdleJob, NoAttempt

\* The runtime keeps a call reachable through the only channel dialled for it.
LEMMA ReachedStays ==
    ASSUME LeaseInv, CoreStep, NEW c \in Calls, NEW ch \in Channels, fs[ch].cid = c, Reached(c, ch)
    PROVE  Reached(c, ch)'
<1>1. CoreInv /\ CleanupInv /\ Linked(Dialled)
  BY DEF LeaseInv, TypeInv, WorldInv
<1>2. \A u \in Channels : <<c, u>> \in Dialled => u = ch
  BY DEF LeaseInv, OriginInv, Dialled
<1>3. CASE Over(c)
  BY <1>1, <1>3, CoreStepOver DEF Reached
<1>4. CASE ~Over(c)
  <2>1. binding[c] = ch
    BY <1>4 DEF Reached
  <2> HIDE DEF Dialled
  <2>2. binding'[c] = ch
    BY <1>1, <1>2, <1>4, <2>1, CoreStepKeepsBinding
  <2> QED
    BY <2>2 DEF Reached
<1> QED
  BY <1>3, <1>4

\* The runtime keeps observed attempts reachable.
LEMMA ReachRuntime ==
    ASSUME LeaseInv, ReachInv, CoreStep, UNCHANGED create PROVE ReachInv'
<1>0. /\ CoreInv /\ CoreTypeOK /\ HangupInv /\ WorldInv
      /\ \A ch \in Channels : fs'[ch].cid = fs[ch].cid /\ attempt'[ch].call = attempt[ch].call
  BY CoreStepKeepsCid, CoreStepKeepsIdentity DEF LeaseInv, TypeInv, CoreInv, WorldInv
<1>1. ASSUME NEW ch \in Channels PROVE AttemptReach(ch)'
  <2>1. attempt'[ch].status # "none" => attempt'[ch].call \in Calls
    BY <1>0, CoreStepObserves DEF ReachInv, AttemptReach
  <2>2. ASSUME attempt'[ch].status = "observed"
        PROVE  fs[ch].cid = attempt[ch].call /\ Reached(attempt[ch].call, ch)
    <3>1. CASE attempt[ch].status = "observed"
      BY <3>1 DEF ReachInv, AttemptReach
    <3>2. CASE LcSnapshot(ch) /\ lc[ch].ev \notin TerminalEvent /\ attempt[ch].call = lc[ch].call
      <4>1. lc[ch].pc = "snapshot"
        BY <3>2 DEF LcSnapshot
      <4>2. fs[ch].cid = lc[ch].call
        BY <1>0, <4>1 DEF WorldInv, Linked, Dialled
      <4> QED
        BY <3>2, <4>1, <4>2 DEF ReachInv, HandlerReach
    <3>3. CASE JobObserve /\ job.chan = ch /\ attempt[ch].call = job.call
      <4>1. job.pc = "observe"
        BY <3>3 DEF JobObserve
      <4>2. fs[ch].cid = job.call
        BY <1>0, <3>3, <4>1 DEF WorldInv, Linked, Dialled
      <4> QED
        BY <3>3, <4>1, <4>2 DEF ReachInv, JobReach
    <3> QED
      BY <1>0, <2>2, <3>1, <3>2, <3>3, CoreStepObserves
  <2>3. attempt'[ch].status = "observed" => Reached(attempt[ch].call, ch)'
    <3> SUFFICES ASSUME attempt'[ch].status = "observed" PROVE Reached(attempt[ch].call, ch)'
      OBVIOUS
    <3>1. attempt[ch].call \in Calls
      BY <1>0, <2>1
    <3> DEFINE c == attempt[ch].call
    <3>2. \A d \in Calls : d = c => (Over(d)' \/ binding'[d] = ch)
      BY <2>2, <3>1, ReachedStays DEF Reached
    <3> QED
      BY <1>0, <3>1, <3>2 DEF Reached, Over
  <2> QED
    BY <1>0, <2>1, <2>2, <2>3 DEF AttemptReach, Reached, Over
<1>2. ASSUME NEW ch \in Channels PROVE HandlerReach(ch)'
  <2> SUFFICES ASSUME lc'[ch].pc = "snapshot", lc'[ch].ev \notin TerminalEvent
               PROVE  Reached(lc[ch].call, ch)'
    BY DEF HandlerReach
  <2>1. CASE lc'[ch] = lc[ch]
    <3>1. lc[ch].call \in Calls /\ fs[ch].cid = lc[ch].call /\ Reached(lc[ch].call, ch)
      BY <1>0, <2>1 DEF CoreInv, LcHasCall, WorldInv, Linked, Dialled, ReachInv, HandlerReach
    <3>2. \A d \in Calls : d = lc[ch].call => (Over(d)' \/ binding'[d] = ch)
      BY <3>1, ReachedStays DEF Reached
    <3> QED
      BY <2>1, <3>1, <3>2 DEF Reached, Over
  <2>2. CASE lc'[ch].call \in Calls /\ binding'[lc'[ch].call] = ch
    BY <2>2 DEF Reached
  <2> QED
    BY <1>0, <2>1, <2>2, SnapshotFrom
<1>3. JobReach'
  <2> SUFFICES ASSUME job'.pc = "observe" PROVE Reached(job.call, job.chan)'
    BY DEF JobReach
  <2>1. CASE job' = job
    <3>1. job.call \in Calls /\ job.chan \in Channels /\ fs[job.chan].cid = job.call
          /\ Reached(job.call, job.chan)
      BY <1>0, <2>1 DEF WorldInv, Linked, Dialled, ReachInv, JobReach
    <3>2. \A d \in Calls, u \in Channels :
             d = job.call /\ u = job.chan => (Over(d)' \/ binding'[d] = u)
      BY <3>1, ReachedStays DEF Reached
    <3> QED
      BY <2>1, <3>1, <3>2 DEF Reached, Over
  <2>2. CASE JobBind /\ job'.call = job.call /\ job'.chan = job.chan
    <3>1. job.call \in Calls
      BY <1>0, <2>2 DEF JobBind, WorldInv, Linked
    <3>2. binding'[job.call] = job.chan
      BY <1>0, <2>2, <3>1 DEF JobBind, ChannelBind, CoreTypeOK
    <3> QED
      BY <2>2, <3>2 DEF Reached
  <2> QED
    BY <1>0, <2>1, <2>2, ObserveFrom
<1> QED
  BY <1>1, <1>2, <1>3 DEF ReachInv

\* A request records an attempt and marks it, but never as observed.
LEMMA RequestStatus ==
    ASSUME LeaseInv, NEW c \in Calls, RequestStep(c), NEW ch \in Channels
    PROVE  \/ attempt'[ch] = attempt[ch]
           \/ attempt'[ch].call = c /\ attempt'[ch].status # "observed"
           \/ /\ attempt[ch].status # "none" /\ attempt'[ch].status = "finished"
              /\ attempt'[ch].call = attempt[ch].call
<1> DEFINE Goal == \/ attempt'[ch] = attempt[ch]
                   \/ attempt'[ch].call = c /\ attempt'[ch].status # "observed"
                   \/ /\ attempt[ch].status # "none" /\ attempt'[ch].status = "finished"
                      /\ attempt'[ch].call = attempt[ch].call
<1>0. /\ CoreTypeOK /\ RequestChannel(c) /\ create[c].chan \in Channels \cup {NoChannel}
      /\ attempt[ch] \in Attempt /\ attempt \in [Channels -> Attempt]
  BY DEF LeaseInv, HoldInv, TypeInv, CoreInv, Create, CoreTypeOK
<1>1. CASE attempt' = attempt
  BY <1>1
<1>2. ASSUME NEW u \in Channels, Prepare(c, u) PROVE Goal
  BY <1>0, <1>2 DEF Prepare
<1>3. ASSUME NEW st \in {"submitted", "uncertain"},
             attempt' = [attempt EXCEPT ![create[c].chan].status = st]
      PROVE  Goal
  <2>1. /\ [attempt[ch] EXCEPT !.status = st].call = attempt[ch].call
        /\ [attempt[ch] EXCEPT !.status = st].status = st
    BY <1>0 DEF Attempt
  <2>2. CASE ch = create[c].chan
    BY <1>0, <1>3, <2>1, <2>2 DEF RequestChannel
  <2>3. CASE ch # create[c].chan
    BY <1>0, <1>3, <2>3
  <2> QED
    BY <2>2, <2>3
<1>4. CASE MarkSubmitted(c) \/ MarkUncertain(c)
  BY <1>1, <1>3, <1>4 DEF MarkSubmitted, MarkUncertain
<1>5. CASE attempt' = FinishAttempts(c)
  <2>1. [attempt[ch] EXCEPT !.status = "finished"].call = attempt[ch].call
    BY <1>0 DEF Attempt
  <2>2. attempt'[ch] = attempt[ch] \/ attempt'[ch] = [attempt[ch] EXCEPT !.status = "finished"]
    BY <1>5 DEF FinishAttempts
  <2> QED
    BY <1>0, <1>5, <2>1, <2>2, FinishStatus
<1>6. CASE FailCall(c) \/ UnwindFail(c)
  BY <1>1, <1>5, <1>6 DEF FailCall, UnwindFail, mutate, dbVars
<1>7. CASE /\ CreateStep(c) /\ ~MarkSubmitted(c) /\ ~MarkUncertain(c) /\ ~FailCall(c)
           /\ ~UnwindFail(c) /\ ~ \E u \in Channels : Prepare(c, u)
  BY <1>1, <1>7 DEF CreateStep, CreateRow, AcquireOrg, ResolveRoutes, Attribute, AcquireTrunk,
     RefuseTrunk, ResolveEgress, Originate, ReleaseTrunk, ReleaseOrg, BindChannel,
     UnwindHangup, UnwindTrunk, UnwindOrg, dbVars
<1>8. CASE CreateFailure(c) \/ LeaseExpire(c)
  BY <1>1, <1>8 DEF CreateFailure, AcquireOrgFault, AcquireTrunkFault, OriginateUncertain,
     CreateFault, CreateCrash, LeaseExpire, dbVars
<1> QED
  BY <1>2, <1>4, <1>6, <1>7, <1>8 DEF RequestStep

\* A request leaves every observed attempt reachable.
LEMMA ReachRequest ==
    ASSUME LeaseInv, ReachInv, NEW c \in Calls, RequestStep(c) PROVE ReachInv'
<1>0. /\ TypeInv /\ CoreTypeOK /\ OriginInv /\ StartInv /\ WorldInv /\ CoreInv
      /\ lc' = lc /\ job' = job
      /\ RequestChannel(c)
  BY OtherChannels DEF LeaseInv, TypeInv, CoreInv, HoldInv
<1>1. ASSUME NEW d \in Calls, NEW ch \in Channels, fs[ch].cid = d, Reached(d, ch)
      PROVE  fs'[ch].cid = d /\ Reached(d, ch)'
  <2>1. fs'[ch].cid = d
    <3>1. CASE \A u \in Channels : fs'[u].cid = fs[u].cid
      BY <1>1, <3>1
    <3>2. CASE create[c].pc = "originate" /\ fs' = Queued(c)
      <4>1. ch # create[c].chan
        BY <1>0, <1>1, <3>2, CallAssumption DEF RequestChannel
      <4> QED
        BY <1>0, <1>1, <3>2, <4>1 DEF Queued, CoreTypeOK
    <3> QED
      BY <1>0, <3>1, <3>2, OnlyOriginateDials DEF RequestStep
  <2>2. Over(d) => Over(d)'
    BY <1>0, OwnRow, OtherRows DEF Over
  <2>3. CASE UNCHANGED <<binding, owner>>
    BY <1>1, <2>1, <2>2, <2>3 DEF Reached
  <2>4. CASE create[c].pc = "bind" /\ ChannelBind(c, create[c].chan)
    <3>1. d = c => ch = create[c].chan
      BY <1>0, <1>1 DEF OriginInv
    <3>2. binding'[d] = IF d = c THEN create[c].chan ELSE binding[d]
      BY <1>0, <2>4 DEF ChannelBind, CoreTypeOK
    <3> QED
      BY <1>1, <2>1, <2>2, <3>1, <3>2 DEF Reached
  <2> QED
    BY <2>3, <2>4, RequestBindings
<1>2. ASSUME NEW ch \in Channels PROVE AttemptReach(ch)'
  <2>0. AttemptReach(ch) /\ c # NoCall
    BY CallAssumption DEF ReachInv
  <2>1. CASE attempt'[ch] = attempt[ch]
    <3>1. attempt[ch].status = "observed" =>
             /\ fs'[ch].cid = attempt[ch].call
             /\ \A d \in Calls : d = attempt[ch].call => (Over(d)' \/ binding'[d] = ch)
      BY <1>1, <2>0 DEF AttemptReach, Reached
    <3>2. attempt[ch].status = "observed" => attempt[ch].call \in Calls
      BY <2>0 DEF AttemptReach
    <3> QED
      BY <2>0, <2>1, <3>1, <3>2 DEF AttemptReach, Reached, Over
  <2>2. CASE attempt'[ch].call = c /\ attempt'[ch].status # "observed"
    BY <2>2 DEF AttemptReach
  <2>3. CASE /\ attempt[ch].status # "none" /\ attempt'[ch].status = "finished"
             /\ attempt'[ch].call = attempt[ch].call
    BY <2>0, <2>3 DEF AttemptReach
  <2> QED
    BY <2>1, <2>2, <2>3, RequestStatus
<1>3. ASSUME NEW ch \in Channels PROVE HandlerReach(ch)'
  <2> SUFFICES ASSUME lc[ch].pc = "snapshot", lc[ch].ev \notin TerminalEvent
               PROVE  Reached(lc[ch].call, ch)'
    BY <1>0 DEF HandlerReach
  <2>1. lc[ch].call \in Calls /\ fs[ch].cid = lc[ch].call /\ Reached(lc[ch].call, ch)
    BY <1>0 DEF CoreInv, LcHasCall, WorldInv, Linked, Dialled, ReachInv, HandlerReach
  <2>2. \A d \in Calls : d = lc[ch].call => (Over(d)' \/ binding'[d] = ch)
    BY <1>1, <2>1 DEF Reached
  <2> QED
    BY <1>0, <2>1, <2>2 DEF Reached, Over
<1>4. JobReach'
  <2> SUFFICES ASSUME job.pc = "observe" PROVE Reached(job.call, job.chan)'
    BY <1>0 DEF JobReach
  <2>1. job.call \in Calls /\ job.chan \in Channels /\ fs[job.chan].cid = job.call
        /\ Reached(job.call, job.chan)
    BY <1>0 DEF WorldInv, Linked, Dialled, ReachInv, JobReach
  <2>2. \A d \in Calls, u \in Channels :
           d = job.call /\ u = job.chan => (Over(d)' \/ binding'[d] = u)
    BY <1>1, <2>1 DEF Reached
  <2> QED
    BY <1>0, <2>1, <2>2 DEF Reached, Over
<1> QED
  BY <1>2, <1>3, <1>4 DEF ReachInv

\* It is preserved by every step.
LEMMA ReachInvStep == LeaseInv /\ ReachInv /\ [Next]_vars => ReachInv'
<1> SUFFICES ASSUME LeaseInv, ReachInv, [Next]_vars PROVE ReachInv'
  OBVIOUS
<1>1. ASSUME NEW c \in Calls, RequestStep(c) PROVE ReachInv'
  BY <1>1, ReachRequest
<1>2. ASSUME RuntimeStep, UNCHANGED create PROVE ReachInv'
  BY <1>2, ReachRuntime DEF RuntimeStep, CoreStep
<1>3. ASSUME UNCHANGED vars PROVE ReachInv'
  BY <1>3 DEF vars, coreVars, dbVars, redisVars, fsVars, ReachInv, AttemptReach, HandlerReach,
     JobReach, Reached, Over
<1> QED
  BY <1>1, <1>2, <1>3 DEF Next, RequestStep

\* An attempt leaves the unresolved list only when its call can be reached
\* through its channel, or is over: the handler and the job bind the channel
\* before they mark the attempt (ObserveLifecycle, reconcileOriginations).
THEOREM ObservedAttemptsAreBound == Spec => []ObservedIsBound
<1>1. LeaseInv /\ ReachInv => ObservedIsBound
  <2> SUFFICES ASSUME LeaseInv, ReachInv, NEW ch \in Channels, attempt[ch].status = "observed",
                      row[attempt[ch].call].state \in LiveState
               PROVE  binding[attempt[ch].call] = ch
    BY DEF ObservedIsBound
  <2>1. attempt[ch].call \in Calls /\ Reached(attempt[ch].call, ch)
    BY DEF ReachInv, AttemptReach
  <2> QED
    BY <2>1 DEF Reached, Over, isTerminalState, LiveState, TerminalState
<1> QED
  BY LeaseInductive, LeaseInvStep, ReachInvInit, ReachInvStep, <1>1, PTL DEF Spec

=============================================================================
