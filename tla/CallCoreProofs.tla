--------------------------- MODULE CallCoreProofs ---------------------------
(***************************************************************************)
(* What every step of the call runtime preserves, whichever module adds    *)
(* the creation of calls: types, who a running handler or pass works for,  *)
(* and which parts of a row, of the outbox and of a channel a step may     *)
(* touch.                                                                  *)
(***************************************************************************)
EXTENDS CallCore, TLAPS

CoreStep ==
    \/ \E ch \in Channels : FreeSwitch(ch) \/ Lifecycle(ch)
    \/ \E c \in Calls, ch \in Channels : Control(c, ch)
    \/ Reconcile
    \/ Failure
    \/ WorkerRestart

\* A handler that is running has a call; so has the second renewal of the job.
LcHasCall == \A ch \in Channels : lc[ch].pc # "idle" => lc[ch].call \in Calls
JobHasCall == job.pc = "refreshOrg" => job.call \in Calls

CoreInv == CoreTypeOK /\ LcHasCall /\ JobHasCall

\* The initial state satisfies the invariant.
LEMMA CoreInvInit == CoreInit => CoreInv
BY CallAssumption DEF CoreInit, CoreInv, CoreTypeOK, LcHasCall, JobHasCall, Row,
   NoRow, Attempt, NoAttempt, Lc, IdleLc, LcPc, CleanupPc, Job, IdleJob, JobPc,
   CallState, LiveState, TerminalState, MediaState, AttemptStatus, Unresolved,
   FsState, FsLive, LifecycleEvent, TerminalEvent

\* A conditional update keeps the tables it writes well formed.
LEMMA MutateType ==
    ASSUME CoreTypeOK, NEW c \in Calls, NEW e \in LifecycleEvent, mutate(c, e)
    PROVE  /\ row' \in [Calls -> Row]
           /\ attempt' \in [Channels -> Attempt]
           /\ marker' \in SUBSET Calls
           /\ outbox' \in [Calls -> Seq(LifecycleEvent)]
<1>0. row[c] \in Row
  BY DEF CoreTypeOK
<1>1. Marked(row[c], e) \in Row
  <2>1. CASE e = "held"
    BY <1>0, <2>1 DEF Marked, Row, MediaState
  <2>2. CASE e = "resumed"
    BY <1>0, <2>2 DEF Marked, Row, MediaState
  <2>3. CASE e \notin {"held", "resumed"}
    <3>1. e \in CallState
      BY <2>3 DEF mutate, CanMark, CallState, LiveState, TerminalState
    <3>2. Marked(row[c], e) = [row[c] EXCEPT !.state = e]
      BY <2>3 DEF Marked
    <3> QED
      BY <1>0, <3>1, <3>2 DEF Row
  <2> QED
    BY <2>1, <2>2, <2>3
<1>2. row' \in [Calls -> Row]
  BY <1>1 DEF CoreTypeOK, mutate
<1>3. FinishAttempts(c) \in [Channels -> Attempt]
  BY DEF CoreTypeOK, FinishAttempts, Attempt, AttemptStatus
<1>4. attempt' \in [Channels -> Attempt] /\ marker' \in SUBSET Calls
  BY <1>3 DEF CoreTypeOK, mutate
<1>5. outbox' \in [Calls -> Seq(LifecycleEvent)]
  BY DEF CoreTypeOK, mutate
<1> QED
  BY <1>2, <1>4, <1>5

\* Emitting an event keeps the channels and the queues well formed.
LEMMA EmitType ==
    ASSUME CoreTypeOK, NEW ch \in Channels, NEW st \in FsState,
           NEW e \in LifecycleEvent, Emit(ch, st, e)
    PROVE  /\ fs' \in [Channels -> [st: FsState, cid: Calls \cup {NoCall}]]
           /\ evq' \in [Channels -> Seq(LifecycleEvent)]
<1>1. fs[ch] \in [st: FsState, cid: Calls \cup {NoCall}]
  BY DEF CoreTypeOK
<1>2. [fs[ch] EXCEPT !.st = st] \in [st: FsState, cid: Calls \cup {NoCall}]
  BY <1>1
<1>3. fs' = [fs EXCEPT ![ch] = [fs[ch] EXCEPT !.st = st]]
  BY DEF Emit
<1>4. fs' \in [Channels -> [st: FsState, cid: Calls \cup {NoCall}]]
  BY <1>2, <1>3 DEF CoreTypeOK
<1>5. evq' \in [Channels -> Seq(LifecycleEvent)]
  BY DEF CoreTypeOK, Emit
<1> QED
  BY <1>4, <1>5

\* A FreeSWITCH step only moves a channel on and queues its event.
LEMMA FreeSwitchInv ==
    ASSUME CoreInv, NEW ch \in Channels, FreeSwitch(ch)
    PROVE  CoreInv'
<1> USE DEF CoreInv
<1>1. /\ fs' \in [Channels -> [st: FsState, cid: Calls \cup {NoCall}]]
      /\ evq' \in [Channels -> Seq(LifecycleEvent)]
  <2>1. CASE FsRefuse(ch)
    BY <2>1 DEF FsRefuse, CoreTypeOK, FsState
  <2>2. CASE ~FsRefuse(ch)
    <3>1. PICK st \in FsState, e \in LifecycleEvent : Emit(ch, st, e)
      BY <2>2 DEF FreeSwitch, FsCreate, FsRing, FsAnswer, FsHold, FsUnhold, FsHangup,
         HangupEvents, FsState, FsLive, LifecycleEvent, TerminalEvent
    <3> QED
      BY <3>1, EmitType
  <2> QED
    BY <2>1, <2>2
<1>2. UNCHANGED <<dbVars, redisVars, lc, job, faults>>
  BY DEF FreeSwitch, FsCreate, FsRefuse, FsRing, FsAnswer, FsHold, FsUnhold, FsHangup
<1> QED
  BY <1>1, <1>2 DEF CoreTypeOK, LcHasCall, JobHasCall, dbVars, redisVars

\* Replacing the state of one handler.
LEMMA LcUpdate ==
    ASSUME CoreInv, NEW ch \in Channels, NEW r \in Lc,
           r.pc # "idle" => r.call \in Calls, lc' = [lc EXCEPT ![ch] = r]
    PROVE  lc' \in [Channels -> Lc] /\ LcHasCall'
BY DEF CoreInv, CoreTypeOK, LcHasCall

\* A binding keeps the channel store well formed.
LEMMA BindType ==
    ASSUME CoreTypeOK, NEW c \in Calls \cup {NoCall}, NEW ch \in Channels \cup {NoChannel},
           ChannelBind(c, ch)
    PROVE  /\ binding' \in [Calls -> Channels \cup {NoChannel}]
           /\ owner' \in [Channels -> Calls \cup {NoCall}]
BY DEF CoreTypeOK, ChannelBind

\* So does its deletion.
LEMMA DeleteType ==
    ASSUME CoreTypeOK, NEW c, ChannelDelete(c)
    PROVE  /\ binding' \in [Calls -> Channels \cup {NoChannel}]
           /\ owner' \in [Channels -> Calls \cup {NoCall}]
<1>1. binding' \in [Calls -> Channels \cup {NoChannel}]
  BY DEF CoreTypeOK, ChannelDelete
<1>2. owner' \in [Channels -> Calls \cup {NoCall}]
  BY DEF CoreTypeOK, ChannelDelete
<1> QED
  BY <1>1, <1>2

\* A cleanup step touches the channel store, the leases and the markers only.
LEMMA CleanupType ==
    ASSUME CoreTypeOK, NEW c \in Calls, NEW pc, NEW t, CleanupStep(pc, c, t)
    PROVE  /\ binding' \in [Calls -> Channels \cup {NoChannel}]
           /\ owner' \in [Channels -> Calls \cup {NoCall}]
           /\ orgLease' \in SUBSET (Calls \cup Channels)
           /\ trunkLease' \in SUBSET (Calls \cup Channels)
           /\ marker' \in SUBSET Calls
<1>1. CASE pc = "delete" /\ ChannelDelete(c) /\ UNCHANGED <<orgLease, trunkLease, marker>>
  BY <1>1, DeleteType DEF CoreTypeOK
<1>2. CASE UNCHANGED <<binding, owner>>
  BY <1>2 DEF CleanupStep, Released, CoreTypeOK
<1> QED
  BY <1>1, <1>2 DEF CleanupStep

\* Recording that a channel was seen keeps the attempts well formed.
LEMMA ObserveType ==
    ASSUME CoreTypeOK, NEW ch, NEW c
    PROVE  Observe(ch, c) \in [Channels -> Attempt]
<1>1. CASE ch \in Channels
  <2>1. attempt[ch] \in Attempt
    BY <1>1 DEF CoreTypeOK
  <2>2. [attempt[ch] EXCEPT !.status = "observed"] \in Attempt
    BY <2>1 DEF Attempt, AttemptStatus
  <2> QED
    BY <2>2, <1>1 DEF Observe, CoreTypeOK
<1>2. CASE ch \notin Channels
  BY <1>2 DEF Observe, CoreTypeOK
<1> QED
  BY <1>1, <1>2

\* Whether an event was applied before is a Boolean for every event type.
LEMMA AppliedBoolean ==
    ASSUME NEW r, NEW e \in LifecycleEvent
    PROVE  lifecycleAlreadyApplied(r, e) \in BOOLEAN
<1>1. CASE e = "initiated"
  BY <1>1 DEF lifecycleAlreadyApplied
<1>2. CASE e = "ringing"
  BY <1>2 DEF lifecycleAlreadyApplied
<1>3. CASE e = "answered"
  BY <1>3 DEF lifecycleAlreadyApplied
<1>4. CASE e = "active"
  BY <1>4 DEF lifecycleAlreadyApplied
<1>5. CASE e = "held"
  BY <1>5 DEF lifecycleAlreadyApplied
<1>6. CASE e = "resumed"
  BY <1>6 DEF lifecycleAlreadyApplied
<1>7. CASE e \in TerminalEvent
  <2>1. lifecycleAlreadyApplied(r, e) = isTerminalState(r.state)
    BY <1>7 DEF lifecycleAlreadyApplied, TerminalEvent
  <2> QED
    BY <2>1 DEF isTerminalState
<1> QED
  BY <1>1, <1>2, <1>3, <1>4, <1>5, <1>6, <1>7 DEF LifecycleEvent

\* A step of the lifecycle handler preserves the invariant.
LEMMA LifecycleInv ==
    ASSUME CoreInv, NEW ch \in Channels, Lifecycle(ch)
    PROVE  CoreInv'
<1> USE DEF CoreInv
<1>0. lc[ch] \in Lc
  BY DEF CoreTypeOK
<1>a. LcPc = {"idle", "snapshot", "refreshOrg", "refreshTrunk", "transition",
             "delete", "relOrg", "relTrunk", "finish"}
  BY DEF LcPc, CleanupPc
<1>b. IdleLc \in Lc /\ IdleLc.pc = "idle"
  BY <1>a DEF Lc, IdleLc, LifecycleEvent
<1>1. CASE LcBegin(ch)
  <2>1. Head(evq[ch]) \in LifecycleEvent /\ evq' \in [Channels -> Seq(LifecycleEvent)]
    BY <1>1 DEF LcBegin, CoreTypeOK
  <2>2. Correlated(ch) \in Calls \cup {NoCall}
    BY DEF Correlated, CoreTypeOK
  <2>3. CASE Correlated(ch) = NoCall
    BY <1>1, <2>1, <2>3 DEF LcBegin, CoreTypeOK, LcHasCall, JobHasCall, dbVars
  <2>4. CASE Correlated(ch) \in Calls
    <3> DEFINE r == [IdleLc EXCEPT !.pc = "snapshot", !.ev = Head(evq[ch]),
                                   !.call = Correlated(ch)]
    <3>1. r \in Lc /\ r.call \in Calls
      BY <2>1, <2>4, <1>a DEF Lc, IdleLc
    <3>2. lc' = [lc EXCEPT ![ch] = r]
      BY <1>1, <2>4, CallAssumption DEF LcBegin
    <3>3. lc' \in [Channels -> Lc] /\ LcHasCall'
      BY <3>1, <3>2, LcUpdate
    <3>4. /\ binding' \in [Calls -> Channels \cup {NoChannel}]
          /\ owner' \in [Channels -> Calls \cup {NoCall}]
      BY <1>1, <2>4, BindType, CallAssumption DEF LcBegin, CoreTypeOK
    <3> QED
      BY <1>1, <2>1, <3>3, <3>4 DEF LcBegin, CoreTypeOK, JobHasCall, dbVars
  <2> QED
    BY <2>2, <2>3, <2>4
<1>2. CASE LcSnapshot(ch)
  <2> DEFINE c == lc[ch].call
             e == lc[ch].ev
             r == row[c]
             conflict == r.outbound /\ r.sip \notin {NoChannel, ch}
             applied == lifecycleAlreadyApplied(r, e)
             next == IF r.state = "none" \/ conflict THEN "idle"
                     ELSE IF ~isTerminalLifecycle(e) THEN "refreshOrg"
                     ELSE IF applied THEN "delete" ELSE "transition"
             t == IF next = "delete" THEN HasCleanupTrunk(c) ELSE r.trunk
             new == IF next = "idle" THEN IdleLc
                    ELSE [lc[ch] EXCEPT !.pc = next, !.applied = applied, !.trunk = t]
  <2>1. c \in Calls /\ r \in Row
    BY <1>2 DEF LcSnapshot, LcHasCall, CoreTypeOK
  <2>2. row' \in [Calls -> Row]
    <3>1. [r EXCEPT !.sip = ch] \in Row
      BY <2>1 DEF Row
    <3>2. row' = row \/ row' = [row EXCEPT ![c] = [r EXCEPT !.sip = ch]]
      BY <1>2 DEF LcSnapshot
    <3> QED
      BY <3>1, <3>2 DEF CoreTypeOK
  <2>3. attempt' \in [Channels -> Attempt]
    BY <1>2, ObserveType DEF LcSnapshot, CoreTypeOK
  <2>4. next \in LcPc
    <3> HIDE DEF conflict, applied, r, e
    <3> QED BY <1>a
  <2>5. applied \in BOOLEAN /\ t \in BOOLEAN
    <3>1. applied \in BOOLEAN
      BY <1>0, AppliedBoolean DEF Lc
    <3>2. r.trunk \in BOOLEAN
      BY <2>1 DEF Row
    <3>3. HasCleanupTrunk(c) \in BOOLEAN
      BY <3>2 DEF HasCleanupTrunk
    <3> QED
      BY <3>1, <3>2, <3>3
  <2>6. new \in Lc /\ (new.pc # "idle" => new.call \in Calls)
    <3> HIDE DEF next, applied, t
    <3> QED BY <2>1, <2>4, <2>5, <1>0, <1>b DEF Lc
  <2>7. lc' = [lc EXCEPT ![ch] = new]
    BY <1>2 DEF LcSnapshot
  <2>8. lc' \in [Channels -> Lc] /\ LcHasCall'
    <3> HIDE DEF new
    <3> QED BY <2>6, <2>7, LcUpdate
  <2> QED
    BY <1>2, <2>2, <2>3, <2>8 DEF LcSnapshot, CoreTypeOK, JobHasCall, redisVars, fsVars
<1>3. CASE LcRefreshOrg(ch)
  <2>1. lc[ch].call \in Calls
    BY <1>3 DEF LcRefreshOrg, LcHasCall
  <2>2. \A pc \in LcPc : /\ [lc[ch] EXCEPT !.pc = pc] \in Lc
                         /\ [lc[ch] EXCEPT !.pc = pc].call \in Calls
    BY <1>0, <2>1 DEF Lc
  <2>3. PICK r \in Lc : lc' = [lc EXCEPT ![ch] = r] /\ (r.pc # "idle" => r.call \in Calls)
    BY <1>3, <1>a, <1>b, <2>2 DEF LcRefreshOrg, CoreTypeOK
  <2>4. lc' \in [Channels -> Lc] /\ LcHasCall'
    BY <2>3, LcUpdate
  <2> QED
    BY <1>3, <2>1, <2>4 DEF LcRefreshOrg, Refreshed, CoreTypeOK, JobHasCall, dbVars, fsVars
<1>4. CASE LcRefreshTrunk(ch)
  <2>1. lc[ch].call \in Calls
    BY <1>4 DEF LcRefreshTrunk, LcHasCall
  <2>2. \A pc \in LcPc : /\ [lc[ch] EXCEPT !.pc = pc] \in Lc
                         /\ [lc[ch] EXCEPT !.pc = pc].call \in Calls
    BY <1>0, <2>1 DEF Lc
  <2>3. PICK r \in Lc : lc' = [lc EXCEPT ![ch] = r] /\ (r.pc # "idle" => r.call \in Calls)
    BY <1>4, <1>a, <1>b, <2>2 DEF LcRefreshTrunk, CoreTypeOK
  <2>4. lc' \in [Channels -> Lc] /\ LcHasCall'
    BY <2>3, LcUpdate
  <2> QED
    BY <1>4, <2>1, <2>4 DEF LcRefreshTrunk, Refreshed, CoreTypeOK, JobHasCall, dbVars, fsVars
<1>5. CASE LcTransition(ch)
  <2>1. lc[ch].call \in Calls /\ lc[ch].ev \in LifecycleEvent
    BY <1>5, <1>0 DEF LcTransition, LcHasCall, Lc
  <2>2. /\ row' \in [Calls -> Row]
        /\ attempt' \in [Channels -> Attempt]
        /\ marker' \in SUBSET Calls
        /\ outbox' \in [Calls -> Seq(LifecycleEvent)]
    <3>1. CASE mutate(lc[ch].call, lc[ch].ev)
      BY <3>1, <2>1, MutateType
    <3>2. CASE UNCHANGED dbVars
      BY <3>2 DEF dbVars, CoreTypeOK
    <3> QED
      BY <1>5, <3>1, <3>2 DEF LcTransition
  <2>3. HasCleanupTrunk(lc[ch].call) \in BOOLEAN
    <3>1. row[lc[ch].call].trunk \in BOOLEAN
      BY <2>1 DEF CoreTypeOK, Row
    <3> QED
      BY <3>1 DEF HasCleanupTrunk
  <2>4. PICK r \in Lc : lc' = [lc EXCEPT ![ch] = r] /\ (r.pc # "idle" => r.call \in Calls)
    <3> DEFINE end == [lc[ch] EXCEPT !.pc = "delete", !.trunk = HasCleanupTrunk(lc[ch].call)]
    <3>1. end \in Lc /\ end.call \in Calls
      BY <1>0, <1>a, <2>1, <2>3 DEF Lc
    <3>2. lc' = [lc EXCEPT ![ch] = end] \/ lc' = [lc EXCEPT ![ch] = IdleLc]
      BY <1>5 DEF LcTransition
    <3> QED
      BY <3>1, <3>2, <1>b
  <2>5. lc' \in [Channels -> Lc] /\ LcHasCall'
    BY <2>4, LcUpdate
  <2> QED
    BY <1>5, <2>2, <2>5 DEF LcTransition, CoreTypeOK, JobHasCall, redisVars, fsVars
<1>6. CASE LcCleanup(ch)
  <2>1. lc[ch].call \in Calls
    BY <1>6 DEF LcCleanup, CleanupPc, LcHasCall
  <2>2. lc[ch].pc # "finish" => CleanupNext(lc[ch].pc) \in LcPc
    BY <1>6, <1>a DEF LcCleanup, CleanupPc, CleanupNext
  <2>3. PICK r \in Lc : lc' = [lc EXCEPT ![ch] = r] /\ (r.pc # "idle" => r.call \in Calls)
    <3>1. CASE lc[ch].pc = "finish"
      BY <1>6, <3>1, <1>b DEF LcCleanup
    <3>2. CASE lc[ch].pc # "finish"
      <4> DEFINE r == [lc[ch] EXCEPT !.pc = CleanupNext(lc[ch].pc)]
      <4>1. r \in Lc /\ r.call \in Calls
        BY <1>0, <2>1, <2>2, <3>2 DEF Lc
      <4>2. lc' = [lc EXCEPT ![ch] = r]
        BY <1>6, <3>2 DEF LcCleanup, CoreTypeOK
      <4> QED
        BY <4>1, <4>2
    <3> QED
      BY <3>1, <3>2
  <2>4. lc' \in [Channels -> Lc] /\ LcHasCall'
    BY <2>3, LcUpdate
  <2> QED
    BY <1>6, <2>1, <2>4, CleanupType DEF LcCleanup, CoreTypeOK, JobHasCall, fsVars
<1> QED
  BY <1>1, <1>2, <1>3, <1>4, <1>5, <1>6 DEF Lifecycle

\* A step of the reconciliation job preserves the invariant.
LEMMA ReconcileInv ==
    ASSUME CoreInv, Reconcile
    PROVE  CoreInv'
<1> USE DEF CoreInv
<1>a. JobPc = {"idle", "refreshTrunk", "refreshOrg", "originations", "probe", "bind",
              "observe", "cleanups", "delete", "relOrg", "relTrunk", "finish"}
  BY DEF JobPc, CleanupPc
<1>b. IdleJob \in Job /\ job \in Job
  BY <1>a DEF IdleJob, Job, CoreTypeOK
<1>c. ActiveCalls \in SUBSET Calls /\ UnresolvedOriginations \in SUBSET Channels
  BY DEF ActiveCalls, UnresolvedOriginations
<1>d. \A ch : NextProbe(ch) \in Job /\ NextProbe(ch).pc # "refreshOrg"
  BY <1>a, <1>b DEF NextProbe, IdleJob, Job
<1>e. \A c : NextCleanup(c) \in Job /\ NextCleanup(c).pc # "refreshOrg"
  BY <1>a, <1>b DEF NextCleanup, IdleJob, Job
<1>1. CASE JobListActive
  BY ZenonT(40), <1>1, <1>a, <1>b, <1>c DEF JobListActive, CoreTypeOK, LcHasCall, JobHasCall,
     dbVars, redisVars, fsVars, Job, IdleJob
<1>2. CASE JobRefreshOrg
  BY <1>2, <1>a, <1>b DEF JobRefreshOrg, Refreshed, CoreTypeOK, LcHasCall, JobHasCall,
     dbVars, fsVars, Job, IdleJob
<1>3. CASE JobListOriginations
  BY <1>3, <1>a, <1>b, <1>c DEF JobListOriginations, CoreTypeOK, LcHasCall, JobHasCall,
     dbVars, redisVars, fsVars, Job
<1>4. CASE JobBind
  <2>1. job.call \in Calls \cup {NoCall} /\ job.chan \in Channels \cup {NoChannel}
    BY <1>b DEF Job
  <2>2. /\ binding' \in [Calls -> Channels \cup {NoChannel}]
        /\ owner' \in [Channels -> Calls \cup {NoCall}]
    BY <1>4, <2>1, BindType DEF JobBind
  <2>3. job' \in Job /\ job'.pc # "refreshOrg"
    BY <1>4, <1>a, <1>b DEF JobBind, Job
  <2> QED
    BY <1>4, <2>2, <2>3 DEF JobBind, CoreTypeOK, LcHasCall, JobHasCall, dbVars, fsVars
<1>5. CASE JobObserve
  BY <1>5, <1>d, ObserveType DEF JobObserve, CoreTypeOK, LcHasCall, JobHasCall, redisVars, fsVars
<1>6. CASE JobListCleanup
  BY ZenonT(40), <1>6, <1>a, <1>b DEF JobListCleanup, CoreTypeOK, LcHasCall, JobHasCall,
     dbVars, redisVars, fsVars, Job, IdleJob
<1>7. ASSUME NEW c \in Calls, JobRefreshTrunk(c) PROVE CoreInv'
  BY <1>7, <1>a, <1>b DEF JobRefreshTrunk, Refreshed, CoreTypeOK, LcHasCall, JobHasCall,
     dbVars, fsVars, Job
<1>8. ASSUME NEW c \in Calls, JobCleanup(c) PROVE CoreInv'
  <2>1. row[c].trunk \in BOOLEAN
    BY DEF CoreTypeOK, Row
  <2>2. HasCleanupTrunk(c) \in BOOLEAN
    BY <2>1 DEF HasCleanupTrunk
  <2>3. job' \in Job /\ job'.pc # "refreshOrg"
    <3>1. CASE job.pc = "delete"
      <4>1. job' = [job EXCEPT !.pc = "relOrg", !.call = c, !.trunk = HasCleanupTrunk(c)]
        BY <1>8, <3>1 DEF JobCleanup
      <4> QED
        BY <4>1, <1>a, <1>b, <2>2 DEF Job
    <3>2. CASE job.pc = "finish"
      BY <1>8, <1>e, <3>2 DEF JobCleanup
    <3>3. CASE job.pc \in {"relOrg", "relTrunk"}
      <4>1. job' = [job EXCEPT !.pc = CleanupNext(job.pc)]
        BY <1>8, <3>3 DEF JobCleanup
      <4>2. CleanupNext(job.pc) \in {"relTrunk", "finish"}
        BY <3>3 DEF CleanupNext
      <4> QED
        BY <4>1, <4>2, <1>a, <1>b DEF Job
    <3> QED
      BY <1>8, <3>1, <3>2, <3>3 DEF JobCleanup, CleanupPc
  <2> QED
    BY <1>8, <2>3, CleanupType DEF JobCleanup, CoreTypeOK, LcHasCall, JobHasCall, fsVars
<1>9. ASSUME NEW ch \in Channels, JobProbe(ch) PROVE CoreInv'
  <2>1. attempt[ch].call \in Calls \cup {NoCall}
    BY DEF CoreTypeOK, Attempt
  <2>2. job' \in Job /\ job'.pc # "refreshOrg"
    BY <1>9, <2>1, <1>a, <1>b, <1>d DEF JobProbe, Job
  <2> QED
    BY <1>9, <2>2 DEF JobProbe, CoreTypeOK, LcHasCall, JobHasCall, dbVars, redisVars, fsVars
<1> QED
  BY <1>1, <1>2, <1>3, <1>4, <1>5, <1>6, <1>7, <1>8, <1>9 DEF Reconcile

\* A control command is a FreeSWITCH step of the bound channel.
LEMMA ControlIsFreeSwitch ==
    ASSUME NEW c \in Calls, NEW ch \in Channels, Control(c, ch)
    PROVE  FreeSwitch(ch)
BY DEF Control, Answer, Hangup, Hold, Resume, FreeSwitch

\* Lost events, failed calls and restarts forget work in memory only.
LEMMA FailureInv ==
    ASSUME CoreInv, Failure \/ WorkerRestart
    PROVE  CoreInv'
<1> USE DEF CoreInv
<1>a. IdleJob \in Job /\ IdleJob.pc = "idle"
  BY DEF IdleJob, Job, JobPc
<1>b. IdleLc \in Lc /\ IdleLc.pc = "idle"
  BY DEF IdleLc, Lc, LcPc, LifecycleEvent
<1>c. \A c : NextCleanup(c) \in Job /\ NextCleanup(c).pc # "refreshOrg"
  BY DEF NextCleanup, IdleJob, Job, JobPc, CleanupPc, CoreTypeOK
<1>1. CASE JobFail
  BY <1>1, <1>a, <1>c DEF JobFail, Fault, CoreTypeOK, LcHasCall, JobHasCall,
     dbVars, redisVars, fsVars
<1>2. ASSUME NEW ch \in Channels, LoseEvent(ch) PROVE CoreInv'
  BY <1>2 DEF LoseEvent, Fault, CoreTypeOK, LcHasCall, JobHasCall, dbVars, redisVars
<1>3. ASSUME NEW ch \in Channels, LcFail(ch) PROVE CoreInv'
  BY <1>3, <1>b DEF LcFail, Fault, CoreTypeOK, LcHasCall, JobHasCall, dbVars, redisVars, fsVars
<1>4. CASE WorkerRestart
  BY <1>4, <1>a, <1>b DEF WorkerRestart, Fault, CoreTypeOK, LcHasCall, JobHasCall,
     dbVars, redisVars
<1> QED
  BY <1>1, <1>2, <1>3, <1>4 DEF Failure

\* Every runtime step preserves the invariant.
LEMMA CoreInvStep == CoreInv /\ CoreStep => CoreInv'
BY FreeSwitchInv, LifecycleInv, ReconcileInv, ControlIsFreeSwitch, FailureInv DEF CoreStep

(***************************************************************************)
(* What a runtime step may not touch.                                      *)
(***************************************************************************)
\* Nothing a subscriber sees changes.
Quiet ==
    /\ outbox' = outbox
    /\ \A c \in Calls : row'[c].state = row[c].state /\ row'[c].media = row[c].media

\* A step that leaves row and outbox alone is quiet.
LEMMA UnchangedIsQuiet == UNCHANGED <<row, outbox>> => Quiet
BY DEF Quiet

\* The handler of a channel runs the Mark* statement of its event.
HandlerMutates(ch) ==
    /\ lc[ch].pc = "transition" /\ lc[ch].call \in Calls /\ lc[ch].ev \in LifecycleEvent
    /\ mutate(lc[ch].call, lc[ch].ev)

\* The runtime changes the visible state of a call through that statement only.
LEMMA CoreStepVisible ==
    ASSUME CoreInv, CoreStep
    PROVE  Quiet \/ \E ch \in Channels : HandlerMutates(ch)
<1>1. ASSUME NEW ch \in Channels, FreeSwitch(ch) PROVE Quiet
  BY <1>1, UnchangedIsQuiet DEF FreeSwitch, FsCreate, FsRefuse, FsRing, FsAnswer, FsHold,
     FsUnhold, FsHangup, dbVars
<1>2. ASSUME NEW ch \in Channels, Lifecycle(ch)
      PROVE  Quiet \/ HandlerMutates(ch)
  <2>1. CASE LcSnapshot(ch)
    <3>1. outbox' = outbox /\ (row' = row \/ row' = [row EXCEPT ![lc[ch].call].sip = ch])
      BY <2>1 DEF LcSnapshot
    <3>2. lc[ch].call \in Calls /\ row[lc[ch].call] \in Row
      BY <2>1 DEF LcSnapshot, CoreInv, CoreTypeOK, LcHasCall
    <3>3. /\ [row[lc[ch].call] EXCEPT !.sip = ch].state = row[lc[ch].call].state
          /\ [row[lc[ch].call] EXCEPT !.sip = ch].media = row[lc[ch].call].media
      BY <3>2 DEF Row
    <3> QED
      BY <3>1, <3>2, <3>3 DEF Quiet, CoreInv, CoreTypeOK
  <2>2. CASE LcTransition(ch)
    <3>1. lc[ch].call \in Calls /\ lc[ch].ev \in LifecycleEvent
      BY <2>2 DEF LcTransition, CoreInv, CoreTypeOK, LcHasCall, Lc
    <3> QED
      BY <2>2, <3>1, UnchangedIsQuiet DEF LcTransition, HandlerMutates, dbVars
  <2> QED
    BY <1>2, <2>1, <2>2, UnchangedIsQuiet
    DEF Lifecycle, LcBegin, LcRefreshOrg, LcRefreshTrunk, LcCleanup, dbVars
<1>3. ASSUME Reconcile PROVE Quiet
  BY <1>3, UnchangedIsQuiet DEF Reconcile, JobListActive, JobRefreshOrg, JobListOriginations,
     JobBind, JobObserve, JobListCleanup, JobRefreshTrunk, JobCleanup, JobProbe, dbVars
<1>4. ASSUME Failure \/ WorkerRestart PROVE Quiet
  BY <1>4, UnchangedIsQuiet DEF Failure, JobFail, LoseEvent, LcFail, WorkerRestart, dbVars
<1> QED
  BY <1>1, <1>2, <1>3, <1>4, ControlIsFreeSwitch DEF CoreStep

\* The call a channel belongs to is fixed when it is dialled or admitted.
LEMMA CoreStepKeepsCid ==
    ASSUME CoreInv, CoreStep
    PROVE  \A ch \in Channels : fs'[ch].cid = fs[ch].cid
<1>1. ASSUME NEW ch \in Channels, FreeSwitch(ch)
      PROVE  \A c \in Channels : fs'[c].cid = fs[c].cid
  <2>1. PICK st : fs' = [fs EXCEPT ![ch].st = st]
    BY <1>1 DEF FreeSwitch, FsCreate, FsRefuse, FsRing, FsAnswer, FsHold, FsUnhold,
       FsHangup, Emit
  <2> QED
    BY <2>1 DEF CoreInv, CoreTypeOK
<1>2. ASSUME NEW ch \in Channels, Lifecycle(ch) PROVE fs' = fs
  BY <1>2 DEF Lifecycle, LcBegin, LcSnapshot, LcRefreshOrg, LcRefreshTrunk, LcTransition,
     LcCleanup, fsVars
<1>3. ASSUME Reconcile PROVE fs' = fs
  BY <1>3 DEF Reconcile, JobListActive, JobRefreshOrg, JobListOriginations,
     JobBind, JobObserve, JobListCleanup, JobRefreshTrunk, JobCleanup, JobProbe, fsVars
<1>4. ASSUME Failure \/ WorkerRestart PROVE fs' = fs
  BY <1>4 DEF Failure, JobFail, LoseEvent, LcFail, WorkerRestart, fsVars
<1> QED
  BY <1>1, <1>2, <1>3, <1>4, ControlIsFreeSwitch DEF CoreStep

\* The runtime never touches a row that was not created yet.
LEMMA CoreStepKeepsNoRow ==
    ASSUME CoreInv, CoreStep, NEW c \in Calls, row[c] = NoRow
    PROVE  row'[c] = NoRow
<1>1. CASE row' = row
  BY <1>1
<1>2. ASSUME NEW ch \in Channels, LcSnapshot(ch) PROVE row'[c] = NoRow
  <2>1. CASE lc[ch].call = c
    <3>1. ~row[c].outbound
      BY DEF NoRow
    <3> QED
      BY <1>2, <2>1, <3>1 DEF LcSnapshot
  <2>2. CASE lc[ch].call # c
    BY <1>2, <2>2 DEF LcSnapshot, CoreInv, CoreTypeOK
  <2> QED
    BY <2>1, <2>2
<1>3. ASSUME NEW d \in Calls, NEW e \in LifecycleEvent, mutate(d, e) PROVE row'[c] = NoRow
  <2>1. row[c].state = "none"
    BY DEF NoRow
  <2>2. d # c
    BY <1>3, <2>1 DEF mutate, CanMark, LiveState
  <2> QED
    BY <1>3, <2>2 DEF mutate, CoreInv, CoreTypeOK
<1>4. ASSUME NEW ch \in Channels, LcTransition(ch) PROVE row'[c] = NoRow
  <2>1. lc[ch].call \in Calls /\ lc[ch].ev \in LifecycleEvent
    BY <1>4 DEF LcTransition, CoreInv, CoreTypeOK, LcHasCall, Lc
  <2> QED
    BY <1>1, <1>3, <1>4, <2>1 DEF LcTransition, dbVars
<1>5. ASSUME NEW ch \in Channels, FreeSwitch(ch) PROVE row' = row
  BY <1>5 DEF FreeSwitch, FsCreate, FsRefuse, FsRing, FsAnswer, FsHold, FsUnhold,
     FsHangup, dbVars
<1>6. ASSUME Reconcile PROVE row' = row
  BY <1>6 DEF Reconcile, JobListActive, JobRefreshOrg, JobListOriginations,
     JobBind, JobObserve, JobListCleanup, JobRefreshTrunk, JobCleanup, JobProbe, dbVars
<1>7. ASSUME Failure \/ WorkerRestart PROVE row' = row
  BY <1>7 DEF Failure, JobFail, LoseEvent, LcFail, WorkerRestart, dbVars
<1>8. ASSUME NEW ch \in Channels, Lifecycle(ch) PROVE row'[c] = NoRow
  BY <1>1, <1>2, <1>4, <1>8
  DEF Lifecycle, LcBegin, LcRefreshOrg, LcRefreshTrunk, LcCleanup, dbVars
<1> QED
  BY <1>1, <1>5, <1>6, <1>7, <1>8, ControlIsFreeSwitch DEF CoreStep

(***************************************************************************)
(* Only ended calls are cleaned up, and only hung-up channels end a call.  *)
(***************************************************************************)
Over(c) == isTerminalState(row[c].state)

\* Markers, the cleanup part of a pass and a handler that cleans up are about
\* calls whose row is terminal.
CleanupInv ==
    /\ \A c \in marker : Over(c)
    /\ job.pc \in CleanupPc => \A c \in job.calls : Over(c)
    /\ \A ch \in Channels : lc[ch].pc \in CleanupPc => Over(lc[ch].call)

\* A hangup event that is queued or being handled is that of a channel that
\* is gone, and a handler cleans up after such an event only.
NoEarlyHangup(ch) ==
    /\ \A i \in 1..Len(evq[ch]) : evq[ch][i] \in TerminalEvent => fs[ch].st = "gone"
    /\ lc[ch].pc # "idle" /\ lc[ch].ev \in TerminalEvent => fs[ch].st = "gone"
    /\ lc[ch].pc \in CleanupPc => lc[ch].ev \in TerminalEvent
HangupInv == \A ch \in Channels : NoEarlyHangup(ch)

\* A conditional update ends a call or leaves it running, and never touches
\* another one.
LEMMA MutateOver ==
    ASSUME CoreTypeOK, NEW d \in Calls, NEW e \in LifecycleEvent, mutate(d, e), NEW c \in Calls
    PROVE  /\ Over(c) => Over(c)'
           /\ c # d => row'[c] = row[c]
           /\ e \notin TerminalEvent => (Over(c)' => Over(c))
           /\ e \in TerminalEvent => Over(d)'
           /\ marker' \subseteq marker \cup {d}
           /\ Over(d)' \/ marker' = marker
<1>0. row[d] \in Row /\ row' = [row EXCEPT ![d] = Marked(row[d], e)] /\ row \in [Calls -> Row]
  BY DEF CoreTypeOK, mutate
<1>1. c # d => row'[c] = row[c]
  BY <1>0
<1>2. ~Over(d)
  BY DEF mutate, CanMark, Over, isTerminalState, TerminalState, LiveState
<1>3. CASE e \in {"held", "resumed"}
  <2>1. Marked(row[d], e).state = row[d].state
    BY <1>0, <1>3 DEF Marked, Row
  <2> QED
    BY <1>0, <1>1, <1>2, <1>3, <2>1 DEF Over, isTerminalState, mutate, TerminalEvent
<1>4. CASE e \notin {"held", "resumed"}
  <2>1. Marked(row[d], e).state = e
    BY <1>0, <1>4 DEF Marked, Row
  <2> QED
    BY <1>0, <1>1, <1>2, <1>4, <2>1 DEF Over, isTerminalState, TerminalState, mutate,
       TerminalEvent
<1> QED
  BY <1>3, <1>4

\* A call that is over stays over; it is ended by the handler of a hangup.
LEMMA CoreStepOver ==
    ASSUME CoreInv, CoreStep, NEW c \in Calls
    PROVE  /\ Over(c) => Over(c)'
           /\ Over(c)' /\ ~Over(c) => \E ch \in Channels :
                 lc[ch].pc = "transition" /\ lc[ch].call = c /\ lc[ch].ev \in TerminalEvent
<1>1. CASE Quiet
  BY <1>1 DEF Quiet, Over
<1>2. ASSUME NEW ch \in Channels, HandlerMutates(ch)
      PROVE  /\ Over(c) => Over(c)'
             /\ Over(c)' /\ ~Over(c) => lc[ch].call = c /\ lc[ch].ev \in TerminalEvent
  BY <1>2, MutateOver DEF HandlerMutates, CoreInv, Over
<1> QED
  BY <1>1, <1>2, CoreStepVisible DEF HandlerMutates

\* Nothing waits to be cleaned up at the start.
LEMMA CleanupInvInit == CoreInit => CleanupInv /\ HangupInv
BY DEF CoreInit, CleanupInv, HangupInv, NoEarlyHangup, IdleJob, IdleLc, CleanupPc

\* What a FreeSWITCH step does to the channel and to its queue.
LEMMA FreeSwitchShape ==
    ASSUME CoreInv, NEW ch \in Channels, FreeSwitch(ch)
    PROVE  /\ UNCHANGED <<row, attempt, marker, outbox, orgLease, trunkLease, binding, owner, lc, job>>
           /\ fs[ch].st \in FsLive \cup {"queued"}
           /\ \E st \in FsLive \cup {"gone"} :
                 /\ fs' = [fs EXCEPT ![ch].st = st]
                 /\ \/ evq' = evq
                    \/ \E e \in LifecycleEvent : /\ evq' = [evq EXCEPT ![ch] = Append(@, e)]
                                                 /\ e \in TerminalEvent => st = "gone"
<1>1. UNCHANGED <<row, attempt, marker, outbox, orgLease, trunkLease, binding, owner, lc, job>>
  BY DEF FreeSwitch, FsCreate, FsRefuse, FsRing, FsAnswer, FsHold, FsUnhold, FsHangup,
     dbVars, redisVars
<1>2. fs[ch].st \in FsLive \cup {"queued"}
  BY DEF FreeSwitch, FsCreate, FsRefuse, FsRing, FsAnswer, FsHold, FsUnhold, FsHangup, FsLive
<1>3. CASE FsRefuse(ch)
  BY <1>1, <1>2, <1>3 DEF FsRefuse
<1>4. CASE FsHangup(ch)
  <2>1. PICK e \in LifecycleEvent : Emit(ch, "gone", e)
    BY <1>4 DEF FsHangup, HangupEvents, LifecycleEvent, TerminalEvent
  <2> QED
    BY <1>1, <1>2, <2>1 DEF Emit
<1>5. CASE ~FsRefuse(ch) /\ ~FsHangup(ch)
  <2>1. PICK st \in FsLive, e \in LifecycleEvent \ TerminalEvent : Emit(ch, st, e)
    BY <1>5 DEF FreeSwitch, FsCreate, FsRing, FsAnswer, FsHold, FsUnhold, FsLive,
       LifecycleEvent, TerminalEvent
  <2> QED
    BY <1>1, <1>2, <2>1 DEF Emit
<1> QED
  BY <1>3, <1>4, <1>5

\* Moving a channel that is not gone keeps the order of hangup and cleanup.
LEMMA EmitKeepsHangup ==
    ASSUME CoreInv, HangupInv, NEW ch \in Channels, NEW st \in FsState, fs[ch].st # "gone",
           fs' = [fs EXCEPT ![ch].st = st], lc' = lc,
           \/ evq' = evq
           \/ \E e \in LifecycleEvent : /\ evq' = [evq EXCEPT ![ch] = Append(@, e)]
                                        /\ e \in TerminalEvent => st = "gone"
    PROVE  HangupInv'
<1> SUFFICES ASSUME NEW u \in Channels PROVE NoEarlyHangup(u)'
  BY DEF HangupInv
<1>0. /\ fs[u] \in [st: FsState, cid: Calls \cup {NoCall}] /\ evq[u] \in Seq(LifecycleEvent)
      /\ fs \in [Channels -> [st: FsState, cid: Calls \cup {NoCall}]]
      /\ evq \in [Channels -> Seq(LifecycleEvent)]
  BY DEF CoreInv, CoreTypeOK
<1>1. NoEarlyHangup(u)
  BY DEF HangupInv
<1>2. CASE u # ch
  <2>1. fs'[u] = fs[u] /\ evq'[u] = evq[u]
    BY <1>0, <1>2
  <2> QED
    BY <1>1, <2>1 DEF NoEarlyHangup
<1>3. CASE u = ch
  <2>1. fs'[u].st = st
    BY <1>0, <1>3
  <2>2. \A i \in 1..Len(evq[u]) : evq[u][i] \notin TerminalEvent
    BY <1>1, <1>3 DEF NoEarlyHangup
  <2>3. lc[u].pc # "idle" => lc[u].ev \notin TerminalEvent
    BY <1>1, <1>3 DEF NoEarlyHangup
  <2>4. \A i \in 1..Len(evq'[u]) : evq'[u][i] \in TerminalEvent => st = "gone"
    <3>1. CASE evq' = evq
      BY <2>2, <3>1
    <3>2. ASSUME NEW e \in LifecycleEvent, evq' = [evq EXCEPT ![ch] = Append(@, e)],
                 e \in TerminalEvent => st = "gone"
          PROVE  \A i \in 1..Len(evq'[u]) : evq'[u][i] \in TerminalEvent => st = "gone"
      <4>1. evq'[u] = Append(evq[u], e)
        BY <1>0, <1>3, <3>2
      <4> QED
        BY <1>0, <2>2, <3>2, <4>1
    <3> QED
      BY <3>1, <3>2
  <2> QED
    BY <1>1, <2>1, <2>3, <2>4 DEF NoEarlyHangup
<1> QED
  BY <1>2, <1>3

\* A handler that goes on keeps its event and its call; it cleans up after a
\* hangup, and starts to once the row of its call is terminal.
LEMMA HandlerShape ==
    ASSUME CoreInv, HangupInv, NEW ch \in Channels, Lifecycle(ch), ~LcBegin(ch)
    PROVE  /\ fs' = fs /\ evq' = evq /\ lc[ch].pc # "idle"
           /\ \A u \in Channels \ {ch} : lc'[u] = lc[u]
           /\ lc'[ch].pc # "idle" => lc'[ch].ev = lc[ch].ev /\ lc'[ch].call = lc[ch].call
           /\ lc'[ch].pc \in CleanupPc =>
                 /\ lc[ch].ev \in TerminalEvent
                 /\ lc[ch].pc \in CleanupPc \/ row'[lc[ch].call].state \in TerminalState
           /\ lc'[ch].pc # "snapshot"
<1>0. lc[ch] \in Lc /\ NoEarlyHangup(ch) /\ lc \in [Channels -> Lc]
  BY DEF CoreInv, CoreTypeOK, HangupInv
<1>b. IdleLc \in Lc /\ IdleLc.pc = "idle" /\ "idle" \notin CleanupPc
  BY DEF IdleLc, Lc, LcPc, LifecycleEvent, CleanupPc
<1>1. fs' = fs /\ evq' = evq
  BY DEF Lifecycle, LcSnapshot, LcRefreshOrg, LcRefreshTrunk, LcTransition, LcCleanup, fsVars
<1>2. lc[ch].pc # "idle"
  BY DEF Lifecycle, LcSnapshot, LcRefreshOrg, LcRefreshTrunk, LcTransition, LcCleanup, CleanupPc
<1> DEFINE Goal == /\ \A u \in Channels \ {ch} : lc'[u] = lc[u]
                   /\ lc'[ch].pc # "idle" => lc'[ch].ev = lc[ch].ev /\ lc'[ch].call = lc[ch].call
                   /\ lc'[ch].pc \in CleanupPc =>
                         /\ lc[ch].ev \in TerminalEvent
                         /\ lc[ch].pc \in CleanupPc \/ row'[lc[ch].call].state \in TerminalState
                   /\ lc'[ch].pc # "snapshot"
<1>3. CASE LcSnapshot(ch)
  <2> DEFINE c == lc[ch].call
             e == lc[ch].ev
             conflict == row[c].outbound /\ row[c].sip \notin {NoChannel, ch}
             applied == lifecycleAlreadyApplied(row[c], e)
             next == IF row[c].state = "none" \/ conflict THEN "idle"
                     ELSE IF ~isTerminalLifecycle(e) THEN "refreshOrg"
                     ELSE IF applied THEN "delete" ELSE "transition"
             t == IF next = "delete" THEN HasCleanupTrunk(c) ELSE row[c].trunk
             new == IF next = "idle" THEN IdleLc
                    ELSE [lc[ch] EXCEPT !.pc = next, !.applied = applied, !.trunk = t]
  <2>1. lc' = [lc EXCEPT ![ch] = new]
    BY <1>3 DEF LcSnapshot
  <2>2. next \in CleanupPc => isTerminalLifecycle(e) /\ applied
    <3> HIDE DEF conflict, applied, e
    <3> QED BY DEF CleanupPc
  <2>3. next # "snapshot"
    <3> HIDE DEF conflict, applied, e
    <3> QED OBVIOUS
  <2>4. isTerminalLifecycle(e) /\ applied => Over(c)
    BY DEF lifecycleAlreadyApplied, isTerminalLifecycle, TerminalEvent, Over
  <2>5. Over(c) => row'[c].state \in TerminalState
    <3>1. c \in Calls
      BY <1>2 DEF CoreInv, LcHasCall
    <3>2. CoreStep
      BY DEF CoreStep
    <3>3. \A d \in Calls : Over(d) => Over(d)'
      BY <3>2, CoreStepOver
    <3> QED
      BY <3>1, <3>3 DEF Over, isTerminalState
  <2>6. /\ new.pc # "idle" => new.ev = e /\ new.call = c
        /\ new.pc = IF next = "idle" THEN "idle" ELSE next
    <3> HIDE DEF next, applied, t
    <3> QED BY <1>0, <1>b DEF Lc
  <2>7. lc'[ch] = new
    BY <1>0, <2>1
  <2> HIDE DEF new, next, applied
  <2>8. Goal
    BY <1>b, <2>1, <2>2, <2>3, <2>4, <2>5, <2>6, <2>7 DEF isTerminalLifecycle
  <2> QED
    BY <1>1, <1>2, <2>8
<1>4. CASE LcRefreshOrg(ch) \/ LcRefreshTrunk(ch)
  <2>1. lc' = [lc EXCEPT ![ch] = IdleLc]
        \/ \E pc \in {"refreshTrunk", "transition"} :
              lc' = [lc EXCEPT ![ch] = [lc[ch] EXCEPT !.pc = pc]]
    BY <1>0, <1>4 DEF LcRefreshOrg, LcRefreshTrunk
  <2>2. Goal
    BY <1>0, <1>b, <2>1 DEF Lc, CleanupPc
  <2> QED
    BY <1>1, <1>2, <2>2
<1>5. CASE LcTransition(ch)
  <2> DEFINE end == [lc[ch] EXCEPT !.pc = "delete", !.trunk = HasCleanupTrunk(lc[ch].call)]
  <2>0. lc[ch].call \in Calls /\ lc[ch].ev \in LifecycleEvent
    BY <1>0, <1>2 DEF CoreInv, LcHasCall, Lc
  <2>1. \/ lc' = [lc EXCEPT ![ch] = IdleLc]
        \/ /\ lc[ch].ev \in TerminalEvent /\ mutate(lc[ch].call, lc[ch].ev)
           /\ lc' = [lc EXCEPT ![ch] = end]
    BY <1>5 DEF LcTransition, isTerminalLifecycle
  <2>2. end.ev = lc[ch].ev /\ end.call = lc[ch].call /\ end.pc = "delete"
    BY <1>0 DEF Lc
  <2>3. lc[ch].ev \in TerminalEvent /\ mutate(lc[ch].call, lc[ch].ev) => row'[lc[ch].call].state \in TerminalState
    <3>1. ASSUME NEW d \in Calls, NEW e \in TerminalEvent, mutate(d, e)
          PROVE  row'[d].state \in TerminalState
      <4>1. e \in LifecycleEvent
        BY DEF LifecycleEvent
      <4> QED
        BY <3>1, <4>1, MutateOver DEF CoreInv, Over, isTerminalState
    <3> QED
      BY <2>0, <3>1
  <2> HIDE DEF end
  <2>4. Goal
    BY <1>0, <1>b, <2>1, <2>2, <2>3
  <2> QED
    BY <1>1, <1>2, <2>4
<1>6. CASE LcCleanup(ch)
  <2>1. lc[ch].ev \in TerminalEvent /\ lc[ch].pc \in CleanupPc
    BY <1>0, <1>6 DEF LcCleanup, NoEarlyHangup
  <2>2. \/ lc' = [lc EXCEPT ![ch] = IdleLc]
        \/ /\ lc[ch].pc # "finish"
           /\ lc' = [lc EXCEPT ![ch] = [lc[ch] EXCEPT !.pc = CleanupNext(lc[ch].pc)]]
    BY <1>0, <1>6 DEF LcCleanup
  <2>3. lc[ch].pc # "finish" => CleanupNext(lc[ch].pc) # "snapshot"
    BY <2>1 DEF CleanupPc, CleanupNext
  <2>4. Goal
    BY <1>b, <1>0, <2>1, <2>2, <2>3 DEF Lc
  <2> QED
    BY <1>1, <1>2, <2>4
<1> QED
  BY <1>3, <1>4, <1>5, <1>6 DEF Lifecycle

\* A handler that is given new work keeps the order of hangup and cleanup.
LEMMA HandlerKeepsHangup ==
    ASSUME CoreInv, HangupInv, NEW ch \in Channels, fs' = fs,
           \A u \in Channels \ {ch} : lc'[u] = lc[u],
           lc'[ch].pc # "idle" /\ lc'[ch].ev \in TerminalEvent => fs[ch].st = "gone",
           lc'[ch].pc \in CleanupPc => lc'[ch].ev \in TerminalEvent,
           evq' = evq \/ (evq[ch] # << >> /\ evq' = [evq EXCEPT ![ch] = Tail(@)])
    PROVE  HangupInv'
<1> SUFFICES ASSUME NEW u \in Channels PROVE NoEarlyHangup(u)'
  BY DEF HangupInv
<1>0. evq[u] \in Seq(LifecycleEvent) /\ evq \in [Channels -> Seq(LifecycleEvent)]
  BY DEF CoreInv, CoreTypeOK
<1>1. NoEarlyHangup(u)
  BY DEF HangupInv
<1>2. CASE u # ch
  <2>1. lc'[u] = lc[u] /\ evq'[u] = evq[u]
    BY <1>0, <1>2
  <2> QED
    BY <1>1, <2>1 DEF NoEarlyHangup
<1>3. CASE u = ch
  <2>2. \A i \in 1..Len(evq'[u]) : evq'[u][i] \in TerminalEvent => fs[u].st = "gone"
    <3>1. CASE evq' = evq
      BY <1>1, <3>1 DEF NoEarlyHangup
    <3>2. CASE evq[ch] # << >> /\ evq' = [evq EXCEPT ![ch] = Tail(@)]
      <4>1. evq'[u] = Tail(evq[u]) /\ evq[u] # << >>
        BY <1>0, <1>3, <3>2
      <4>2. /\ Len(Tail(evq[u])) = Len(evq[u]) - 1
            /\ \A i \in 1..Len(Tail(evq[u])) : Tail(evq[u])[i] = evq[u][i + 1]
        BY <1>0, <4>1
      <4>3. \A i \in 1..Len(evq[u]) : evq[u][i] \in TerminalEvent => fs[u].st = "gone"
        BY <1>1 DEF NoEarlyHangup
      <4>4. Len(evq[u]) \in Nat
        BY <1>0
      <4> QED
        BY <4>1, <4>2, <4>3, <4>4
    <3> QED
      BY <3>1, <3>2
  <2> QED
    BY <1>3, <2>2 DEF NoEarlyHangup
<1> QED
  BY <1>2, <1>3

\* Hangup events are those of channels that are gone, through every step.
LEMMA HangupInvStep == CoreInv /\ HangupInv /\ CoreStep => HangupInv'
<1> SUFFICES ASSUME CoreInv, HangupInv, CoreStep PROVE HangupInv'
  OBVIOUS
<1>b. IdleLc \in Lc /\ IdleLc.pc = "idle" /\ "idle" \notin CleanupPc
  BY DEF IdleLc, Lc, LcPc, LifecycleEvent, CleanupPc
<1>1. ASSUME NEW ch \in Channels, FreeSwitch(ch) PROVE HangupInv'
  <2>1. fs[ch].st # "gone"
    BY <1>1, FreeSwitchShape DEF FsLive
  <2>2. PICK st \in FsLive \cup {"gone"} :
           /\ fs' = [fs EXCEPT ![ch].st = st]
           /\ \/ evq' = evq
              \/ \E e \in LifecycleEvent : /\ evq' = [evq EXCEPT ![ch] = Append(@, e)]
                                           /\ e \in TerminalEvent => st = "gone"
    BY <1>1, FreeSwitchShape
  <2>3. st \in FsState /\ lc' = lc
    BY <1>1, FreeSwitchShape DEF FsState
  <2> QED
    BY <2>1, <2>2, <2>3, EmitKeepsHangup
<1>2. ASSUME NEW ch \in Channels, Lifecycle(ch) PROVE HangupInv'
  <2>0. lc[ch] \in Lc /\ NoEarlyHangup(ch) /\ evq[ch] \in Seq(LifecycleEvent)
    BY DEF CoreInv, CoreTypeOK, HangupInv
  <2>1. CASE LcBegin(ch)
    <3>1. fs' = fs /\ evq[ch] # << >> /\ evq' = [evq EXCEPT ![ch] = Tail(@)]
      BY <2>1 DEF LcBegin
    <3>2. Head(evq[ch]) \in TerminalEvent => fs[ch].st = "gone"
      <4>1. 1 \in 1..Len(evq[ch]) /\ Head(evq[ch]) = evq[ch][1]
        BY <2>0, <3>1
      <4> QED
        BY <2>0, <4>1 DEF NoEarlyHangup
    <3>3. CASE lc' = lc
      BY <2>0, <3>1, <3>3, HandlerKeepsHangup DEF NoEarlyHangup
    <3>4. CASE lc' # lc
      <4> DEFINE r == [IdleLc EXCEPT !.pc = "snapshot", !.ev = Head(evq[ch]),
                                     !.call = Correlated(ch)]
      <4>1. lc' = [lc EXCEPT ![ch] = r]
        BY <2>1, <3>4 DEF LcBegin
      <4>2. r.ev = Head(evq[ch]) /\ r.pc = "snapshot" /\ r.pc \notin CleanupPc
        BY DEF IdleLc, CleanupPc
      <4> HIDE DEF r
      <4>3. r = lc'[ch] /\ \A u \in Channels \ {ch} : lc'[u] = lc[u]
        BY <4>1 DEF CoreInv, CoreTypeOK
      <4> QED
        BY <3>1, <3>2, <4>2, <4>3, HandlerKeepsHangup
    <3> QED
      BY <3>3, <3>4
  <2>2. CASE ~LcBegin(ch)
    <3>0. Lifecycle(ch) /\ ~LcBegin(ch)
      BY <1>2, <2>2
    <3>1. fs' = fs /\ evq' = evq /\ lc[ch].pc # "idle"
      BY <3>0, HandlerShape
    <3>2. \A u \in Channels \ {ch} : lc'[u] = lc[u]
      BY <3>0, HandlerShape
    <3>3. lc'[ch].pc # "idle" => lc'[ch].ev = lc[ch].ev
      BY <3>0, HandlerShape
    <3>6. lc'[ch].pc \in CleanupPc => lc[ch].ev \in TerminalEvent
      BY <3>0, HandlerShape
    <3>4. lc[ch].ev \in TerminalEvent => fs[ch].st = "gone"
      BY <2>0, <3>1 DEF NoEarlyHangup
    <3>5. lc'[ch].pc \in CleanupPc => lc'[ch].pc # "idle"
      BY <1>b
    <3> QED
      BY <3>1, <3>2, <3>3, <3>4, <3>5, <3>6, HandlerKeepsHangup
  <2> QED
    BY <2>1, <2>2
<1>3. ASSUME Reconcile \/ JobFail PROVE HangupInv'
  <2>1. fs' = fs /\ evq' = evq /\ lc' = lc
    BY <1>3 DEF Reconcile, JobListActive, JobRefreshOrg, JobListOriginations, JobFail,
       JobBind, JobObserve, JobListCleanup, JobRefreshTrunk, JobCleanup, JobProbe, fsVars
  <2> QED
    BY <2>1 DEF HangupInv, NoEarlyHangup
<1>4. ASSUME NEW ch \in Channels, LoseEvent(ch) \/ LcFail(ch) PROVE HangupInv'
  <2>1. CASE LoseEvent(ch)
    BY <2>1, HandlerKeepsHangup DEF LoseEvent, HangupInv, NoEarlyHangup
  <2>2. CASE LcFail(ch)
    <3>1. lc'[ch] = IdleLc /\ \A u \in Channels \ {ch} : lc'[u] = lc[u]
      BY <2>2 DEF LcFail, CoreInv, CoreTypeOK
    <3> QED
      BY <1>b, <2>2, <3>1, HandlerKeepsHangup DEF LcFail, fsVars
  <2> QED
    BY <1>4, <2>1, <2>2
<1>5. CASE WorkerRestart
  BY <1>5, <1>b DEF WorkerRestart, HangupInv, NoEarlyHangup
<1> QED
  BY <1>1, <1>2, <1>3, <1>4, <1>5, ControlIsFreeSwitch DEF CoreStep, Failure

\* Steps of the job, of the environment and failures leave the rows alone.
LEMMA OnlyHandlersWriteRows ==
    ASSUME CoreInv, CoreStep, ~ \E ch \in Channels : Lifecycle(ch)
    PROVE  row' = row /\ outbox' = outbox /\ (marker' = marker \/ \E c \in Calls : JobCleanup(c))
<1>1. ASSUME NEW ch \in Channels, FreeSwitch(ch)
      PROVE  row' = row /\ outbox' = outbox /\ marker' = marker
  BY <1>1, FreeSwitchShape
<1>2. ASSUME Reconcile
      PROVE  row' = row /\ outbox' = outbox /\ (marker' = marker \/ \E c \in Calls : JobCleanup(c))
  BY <1>2 DEF Reconcile, JobListActive, JobRefreshOrg, JobListOriginations,
     JobBind, JobObserve, JobListCleanup, JobRefreshTrunk, JobCleanup, JobProbe, dbVars
<1>3. ASSUME Failure \/ WorkerRestart PROVE row' = row /\ outbox' = outbox /\ marker' = marker
  BY <1>3 DEF Failure, JobFail, LoseEvent, LcFail, WorkerRestart, dbVars
<1> QED
  BY <1>1, <1>2, <1>3, ControlIsFreeSwitch DEF CoreStep

\* The calls of a pass that cleans up were marked when it listed them.
LEMMA CleanupJobStep ==
    ASSUME CoreInv, CoreStep, job'.pc \in CleanupPc
    PROVE  job'.calls \subseteq marker \/ (job.pc \in CleanupPc /\ job'.calls \subseteq job.calls)
<1>0. job \in Job
  BY DEF CoreInv, CoreTypeOK
<1>1. CASE job' = job
  BY <1>1
<1>2. ASSUME Reconcile
      PROVE  job'.calls \subseteq marker \/ (job.pc \in CleanupPc /\ job'.calls \subseteq job.calls)
  <2>1. CASE JobListCleanup
    BY <2>1 DEF JobListCleanup, IdleJob
  <2>2. ASSUME NEW c \in Calls, JobCleanup(c)
        PROVE  job.pc \in CleanupPc /\ job'.calls \subseteq job.calls
    <3>1. job.pc \in CleanupPc
      BY <2>2 DEF JobCleanup
    <3>2. NextCleanup(c).calls \subseteq job.calls
      BY DEF NextCleanup, IdleJob
    <3>3. CASE job.pc = "delete"
      BY <1>0, <2>2, <3>1, <3>3 DEF JobCleanup, Job
    <3>4. CASE job.pc = "finish"
      BY <2>2, <3>1, <3>2, <3>4 DEF JobCleanup
    <3>5. CASE job.pc \in {"relOrg", "relTrunk"}
      <4>1. job' = [job EXCEPT !.pc = CleanupNext(job.pc)]
        BY <2>2, <3>5 DEF JobCleanup
      <4> QED
        BY <1>0, <3>1, <4>1 DEF Job
    <3> QED
      BY <3>1, <3>3, <3>4, <3>5 DEF CleanupPc
  <2>3. ASSUME NEW ch PROVE NextProbe(ch).pc \notin CleanupPc
    BY DEF NextProbe, IdleJob, CleanupPc
  <2>4. CASE \/ JobListActive \/ JobRefreshOrg \/ JobListOriginations \/ JobBind \/ JobObserve
             \/ \E c \in Calls : JobRefreshTrunk(c)
             \/ \E ch \in Channels : JobProbe(ch)
    <3>1. job'.pc \notin CleanupPc
      BY <1>0, <2>3, <2>4 DEF JobListActive, JobRefreshOrg, JobListOriginations, JobBind,
         JobObserve, JobRefreshTrunk, JobProbe, IdleJob, Job, CleanupPc
    <3> QED
      BY <3>1
  <2> QED
    BY <1>2, <2>1, <2>2, <2>4 DEF Reconcile
<1>3. CASE JobFail
  <2>1. IdleJob.pc \notin CleanupPc
    BY DEF IdleJob, CleanupPc
  <2>2. \A c : NextCleanup(c).calls \subseteq job.calls
    BY DEF NextCleanup, IdleJob
  <2> QED
    BY <1>3, <2>1, <2>2 DEF JobFail
<1>4. CASE WorkerRestart
  BY <1>4 DEF WorkerRestart, IdleJob, CleanupPc
<1>5. ASSUME NEW ch \in Channels, FreeSwitch(ch) PROVE job' = job
  BY <1>5, FreeSwitchShape
<1>6. ASSUME NEW ch \in Channels, Lifecycle(ch) \/ LoseEvent(ch) \/ LcFail(ch) PROVE job' = job
  BY <1>6 DEF Lifecycle, LcBegin, LcSnapshot, LcRefreshOrg, LcRefreshTrunk, LcTransition,
     LcCleanup, LoseEvent, LcFail
<1> QED
  BY <1>1, <1>2, <1>3, <1>4, <1>5, <1>6, ControlIsFreeSwitch DEF CoreStep, Failure

\* A marked call is over.
LEMMA MarkerStep ==
    ASSUME CoreInv, CleanupInv, CoreStep, NEW c \in marker'
    PROVE  c \in Calls /\ Over(c)'
<1>0. c \in Calls
  BY CoreInvStep DEF CoreInv, CoreTypeOK
<1>1. CASE c \in marker
  BY <1>0, <1>1, CoreStepOver DEF CleanupInv
<1>2. CASE c \notin marker
  <2>1. PICK ch \in Channels : LcTransition(ch) /\ marker' # marker
    <3>1. \A d \in Calls : JobCleanup(d) => marker' \subseteq marker
      BY DEF JobCleanup, CleanupStep
    <3>2. \A ch \in Channels : LcCleanup(ch) => marker' \subseteq marker
      BY DEF LcCleanup, CleanupStep
    <3>3. PICK ch \in Channels : Lifecycle(ch)
      BY <1>2, <3>1, OnlyHandlersWriteRows
    <3> QED
      BY <1>2, <3>2, <3>3 DEF Lifecycle, LcBegin, LcSnapshot, LcRefreshOrg, LcRefreshTrunk, dbVars
  <2>2. PICK d \in Calls, e \in LifecycleEvent : d = lc[ch].call /\ mutate(d, e)
    BY <2>1 DEF LcTransition, dbVars, CoreInv, CoreTypeOK, LcHasCall, Lc
  <2> QED
    BY <1>0, <1>2, <2>2, MutateOver DEF CoreInv
<1> QED
  BY <1>1, <1>2

\* Only ended calls are cleaned up, through every step.
LEMMA CleanupInvStep == CoreInv /\ CleanupInv /\ HangupInv /\ CoreStep => CleanupInv'
<1> SUFFICES ASSUME CoreInv, CleanupInv, HangupInv, CoreStep PROVE CleanupInv'
  OBVIOUS
<1>0. \A c \in Calls : Over(c) => Over(c)'
  BY CoreStepOver
<1>1. \A c \in marker' : Over(c)'
  BY MarkerStep
<1>2. job'.pc \in CleanupPc => \A c \in job'.calls : Over(c)'
  <2> SUFFICES ASSUME job'.pc \in CleanupPc, NEW c \in job'.calls PROVE Over(c)'
    OBVIOUS
  <2>1. c \in marker \/ (job.pc \in CleanupPc /\ c \in job.calls)
    BY CleanupJobStep
  <2>2. Over(c) /\ c \in Calls
    BY <2>1 DEF CleanupInv, CoreInv, CoreTypeOK, Job
  <2> QED
    BY <1>0, <2>2
<1>3. ASSUME NEW u \in Channels, lc'[u].pc \in CleanupPc
      PROVE  row'[lc'[u].call].state \in TerminalState
  <2>1. CASE lc'[u] = lc[u]
    <3>1. lc[u].call \in Calls /\ Over(lc[u].call)
      BY <1>3, <2>1 DEF CleanupInv, CoreInv, LcHasCall, CleanupPc
    <3> QED
      BY <1>0, <2>1, <3>1 DEF Over, isTerminalState
  <2>2. CASE lc'[u] # lc[u]
    <3>0. IdleLc.pc \notin CleanupPc
      BY DEF IdleLc, CleanupPc
    <3>1. PICK ch \in Channels : Lifecycle(ch)
      <4>1. \A ch \in Channels : FreeSwitch(ch) => lc' = lc
        BY FreeSwitchShape
      <4>2. Reconcile \/ JobFail => lc' = lc
        BY DEF Reconcile, JobListActive, JobRefreshOrg, JobListOriginations, JobFail,
           JobBind, JobObserve, JobListCleanup, JobRefreshTrunk, JobCleanup, JobProbe
      <4>3. \A ch \in Channels : LoseEvent(ch) => lc' = lc
        BY DEF LoseEvent
      <4>4. ~WorkerRestart
        BY <1>3, <3>0 DEF WorkerRestart
      <4>5. \A ch \in Channels : LcFail(ch) => lc'[u] = lc[u] \/ lc'[u] = IdleLc
        BY DEF LcFail, CoreInv, CoreTypeOK
      <4> QED
        BY <1>3, <2>2, <3>0, <4>1, <4>2, <4>3, <4>4, <4>5, ControlIsFreeSwitch
        DEF CoreStep, Failure
    <3>2. ~LcBegin(ch)
      <4> SUFFICES ASSUME LcBegin(ch) PROVE FALSE
        OBVIOUS
      <4> DEFINE r == [IdleLc EXCEPT !.pc = "snapshot", !.ev = Head(evq[ch]),
                                     !.call = Correlated(ch)]
      <4>1. r.pc \notin CleanupPc
        BY DEF IdleLc, CleanupPc
      <4>2. lc' = lc \/ lc' = [lc EXCEPT ![ch] = r]
        BY DEF LcBegin
      <4> HIDE DEF r
      <4> QED
        BY <1>3, <2>2, <4>1, <4>2 DEF CoreInv, CoreTypeOK
    <3>3. u = ch
      BY <2>2, <3>1, <3>2, HandlerShape
    <3>4. lc'[ch].pc # "idle"
      BY <1>3, <3>3 DEF CleanupPc
    <3>5. lc'[ch].call = lc[ch].call /\ lc[ch].call \in Calls
      BY <3>1, <3>2, <3>4, HandlerShape DEF CoreInv, LcHasCall
    <3>6. lc[ch].pc \in CleanupPc \/ row'[lc[ch].call].state \in TerminalState
      BY <1>3, <3>1, <3>2, <3>3, HandlerShape
    <3>7. lc[ch].pc \in CleanupPc => Over(lc[ch].call)
      BY DEF CleanupInv
    <3> QED
      BY <1>0, <3>3, <3>5, <3>6, <3>7 DEF Over, isTerminalState
  <2> QED
    BY <2>1, <2>2
<1> QED
  BY <1>1, <1>2, <1>3 DEF CleanupInv, Over, isTerminalState

(***************************************************************************)
(* Leases and bindings of a call that is not over.                         *)
(***************************************************************************)
\* Cleanup gives up the leases of its own call only.
LEMMA CleanupKeepsLeases ==
    ASSUME NEW pc, NEW c, NEW t, CleanupStep(pc, c, t), NEW id, id # c
    PROVE  /\ id \in orgLease => id \in orgLease'
           /\ id \in trunkLease => id \in trunkLease'
           /\ orgLease' \subseteq orgLease /\ trunkLease' \subseteq trunkLease
BY DEF CleanupStep, Released

\* What a runtime step does to the leases: it adds the call a handler or the
\* job renews, or removes the call they clean up.
LEMMA CoreStepLeases ==
    ASSUME CoreInv, CoreStep
    PROVE  \/ UNCHANGED <<orgLease, trunkLease>>
           \/ \E ch \in Channels : /\ lc[ch].pc = "refreshOrg" /\ trunkLease' = trunkLease
                                   /\ orgLease' = orgLease \cup {lc[ch].call}
           \/ \E ch \in Channels : /\ lc[ch].pc = "refreshTrunk" /\ orgLease' = orgLease
                                   /\ trunkLease' = trunkLease \cup {lc[ch].call}
           \/ \E c \in job.calls : /\ job.pc = "refreshTrunk" /\ orgLease' = orgLease
                                   /\ trunkLease' = trunkLease \cup {c}
           \/ /\ job.pc = "refreshOrg" /\ trunkLease' = trunkLease
              /\ orgLease' = orgLease \cup {job.call}
           \/ \E ch \in Channels : /\ lc[ch].pc \in CleanupPc
                                   /\ CleanupStep(lc[ch].pc, lc[ch].call, lc[ch].trunk)
           \/ \E c \in job.calls : /\ job.pc \in CleanupPc
                                   /\ CleanupStep(job.pc, c, job.trunk)
<1>1. ASSUME NEW ch \in Channels, FreeSwitch(ch) PROVE UNCHANGED <<orgLease, trunkLease>>
  BY <1>1, FreeSwitchShape
<1>2. ASSUME Failure \/ WorkerRestart PROVE UNCHANGED <<orgLease, trunkLease>>
  BY <1>2 DEF Failure, JobFail, LoseEvent, LcFail, WorkerRestart, redisVars
<1>3. ASSUME NEW ch \in Channels, Lifecycle(ch)
      PROVE  \/ UNCHANGED <<orgLease, trunkLease>>
             \/ /\ lc[ch].pc = "refreshOrg" /\ trunkLease' = trunkLease
                /\ orgLease' = orgLease \cup {lc[ch].call}
             \/ /\ lc[ch].pc = "refreshTrunk" /\ orgLease' = orgLease
                /\ trunkLease' = trunkLease \cup {lc[ch].call}
             \/ /\ lc[ch].pc \in CleanupPc
                /\ CleanupStep(lc[ch].pc, lc[ch].call, lc[ch].trunk)
  BY <1>3 DEF Lifecycle, LcBegin, LcSnapshot, LcRefreshOrg, LcRefreshTrunk, LcTransition,
     LcCleanup, Refreshed, redisVars
<1>4. ASSUME Reconcile
      PROVE  \/ UNCHANGED <<orgLease, trunkLease>>
             \/ \E c \in job.calls : /\ job.pc = "refreshTrunk" /\ orgLease' = orgLease
                                     /\ trunkLease' = trunkLease \cup {c}
             \/ /\ job.pc = "refreshOrg" /\ trunkLease' = trunkLease
                /\ orgLease' = orgLease \cup {job.call}
             \/ \E c \in job.calls : /\ job.pc \in CleanupPc
                                     /\ CleanupStep(job.pc, c, job.trunk)
  BY <1>4 DEF Reconcile, JobListActive, JobRefreshOrg, JobListOriginations,
     JobBind, JobObserve, JobListCleanup, JobRefreshTrunk, JobCleanup, JobProbe, Refreshed,
     redisVars
<1> QED
  BY <1>1, <1>2, <1>3, <1>4, ControlIsFreeSwitch DEF CoreStep

\* The runtime never takes a lease from a call that is not over, and none from
\* a channel.
LEMMA CoreStepKeepsLeases ==
    ASSUME CoreInv, CleanupInv, CoreStep, NEW id, id \in Calls => ~Over(id)
    PROVE  /\ id \in orgLease => id \in orgLease'
           /\ id \in trunkLease => id \in trunkLease'
<1>1. ASSUME NEW ch \in Channels, lc[ch].pc \in CleanupPc PROVE lc[ch].call # id
  BY <1>1 DEF CleanupInv, CoreInv, LcHasCall, CleanupPc
<1>2. ASSUME NEW c \in job.calls, job.pc \in CleanupPc PROVE c # id
  BY <1>2 DEF CleanupInv, CoreInv, CoreTypeOK, Job
<1> QED
  BY <1>1, <1>2, CoreStepLeases, CleanupKeepsLeases

\* Every pointer from a channel to a call, and back, in Redis, in FreeSWITCH
\* and in the memory of the worker names a pair of P.
Linked(P) ==
    /\ \A ch \in Channels : owner[ch] \in Calls => <<owner[ch], ch>> \in P
    /\ \A ch \in Channels : fs[ch].cid \in Calls => <<fs[ch].cid, ch>> \in P
    /\ \A ch \in Channels : lc[ch].pc # "idle" => <<lc[ch].call, ch>> \in P
    /\ \A c \in Calls : binding[c] \in Channels => <<c, binding[c]>> \in P
    /\ job.pc \in {"bind", "observe"} =>
          job.call \in Calls /\ job.chan \in Channels /\ <<job.call, job.chan>> \in P

\* What a runtime step does to the bindings.
LEMMA CoreStepBindings ==
    ASSUME CoreInv, NEW P, Linked(P), CoreStep
    PROVE  \/ UNCHANGED <<binding, owner>>
           \/ \E c \in Calls, ch \in Channels : <<c, ch>> \in P /\ ChannelBind(c, ch)
           \/ \E c \in Calls : /\ ChannelDelete(c)
                               /\ \/ \E ch \in Channels : lc[ch].pc \in CleanupPc /\ lc[ch].call = c
                                  \/ job.pc \in CleanupPc /\ c \in job.calls
<1>1. ASSUME NEW ch \in Channels, FreeSwitch(ch) PROVE UNCHANGED <<binding, owner>>
  BY <1>1, FreeSwitchShape
<1>2. ASSUME Failure \/ WorkerRestart PROVE UNCHANGED <<binding, owner>>
  BY <1>2 DEF Failure, JobFail, LoseEvent, LcFail, WorkerRestart, redisVars
<1>3. ASSUME NEW ch \in Channels, LcBegin(ch)
      PROVE  \/ UNCHANGED <<binding, owner>>
             \/ \E c \in Calls : <<c, ch>> \in P /\ ChannelBind(c, ch)
  <2>1. Correlated(ch) # NoCall => Correlated(ch) \in Calls /\ <<Correlated(ch), ch>> \in P
    BY DEF Correlated, Linked, CoreInv, CoreTypeOK
  <2> QED
    BY <1>3, <2>1 DEF LcBegin
<1>4. ASSUME NEW ch \in Channels, LcCleanup(ch)
      PROVE  \/ UNCHANGED <<binding, owner>>
             \/ \E c \in Calls : ChannelDelete(c) /\ lc[ch].pc \in CleanupPc /\ lc[ch].call = c
  <2>1. lc[ch].call \in Calls
    BY <1>4 DEF LcCleanup, CoreInv, LcHasCall, CleanupPc
  <2> QED
    BY <1>4, <2>1 DEF LcCleanup, CleanupStep
<1>5. ASSUME NEW ch \in Channels, Lifecycle(ch), ~LcBegin(ch), ~LcCleanup(ch)
      PROVE  UNCHANGED <<binding, owner>>
  BY <1>5 DEF Lifecycle, LcSnapshot, LcRefreshOrg, LcRefreshTrunk, LcTransition, redisVars
<1>6. ASSUME NEW c \in Calls, JobCleanup(c)
      PROVE  \/ UNCHANGED <<binding, owner>>
             \/ ChannelDelete(c) /\ job.pc \in CleanupPc /\ c \in job.calls
  BY <1>6 DEF JobCleanup, CleanupStep
<1>7. ASSUME Reconcile, ~ \E c \in Calls : JobCleanup(c)
      PROVE  \/ UNCHANGED <<binding, owner>>
             \/ \E c \in Calls, ch \in Channels : <<c, ch>> \in P /\ ChannelBind(c, ch)
  <2>1. CASE JobBind
    BY <2>1 DEF JobBind, Linked
  <2>2. CASE ~JobBind
    BY <1>7, <2>2 DEF Reconcile, JobListActive, JobRefreshOrg, JobListOriginations,
       JobObserve, JobListCleanup, JobRefreshTrunk, JobProbe, redisVars
  <2> QED
    BY <2>1, <2>2
<1> QED
  BY <1>1, <1>2, <1>3, <1>4, <1>5, <1>6, <1>7, ControlIsFreeSwitch DEF CoreStep

\* The binding of a call that is not over is only ever replaced by itself.
LEMMA CoreStepKeepsBinding ==
    ASSUME CoreInv, CleanupInv, NEW P, Linked(P), CoreStep,
           NEW c \in Calls, NEW ch \in Channels, ~Over(c), binding[c] = ch,
           \A u \in Channels : <<c, u>> \in P => u = ch
    PROVE  binding'[c] = ch
<1>0. binding \in [Calls -> Channels \cup {NoChannel}]
  BY DEF CoreInv, CoreTypeOK
<1>1. ASSUME NEW d \in Calls, NEW u \in Channels, <<d, u>> \in P, ChannelBind(d, u)
      PROVE  binding'[c] = ch
  BY <1>0, <1>1 DEF ChannelBind
<1>2. ASSUME NEW d \in Calls, ChannelDelete(d),
             \/ \E u \in Channels : lc[u].pc \in CleanupPc /\ lc[u].call = d
             \/ job.pc \in CleanupPc /\ d \in job.calls
      PROVE  binding'[c] = ch
  <2>1. Over(d)
    BY <1>2 DEF CleanupInv
  <2>2. d # c
    BY <2>1
  <2> QED
    BY <1>0, <1>2, <2>2 DEF ChannelDelete
<1> QED
  BY <1>1, <1>2, CoreStepBindings

\* A step that keeps to the pairs of P leaves every pointer within any larger Q.
LEMMA LinkedStep ==
    ASSUME CoreInv, HangupInv, NEW P, NEW Q, P \subseteq Q, Linked(P), CoreStep,
           \A ch \in job.chans : fs[ch].st \in FsLive =>
               attempt[ch].call \in Calls /\ <<attempt[ch].call, ch>> \in P
    PROVE  Linked(Q)'
<1>0. CoreInv'
  BY CoreInvStep
<1>1. /\ \A ch \in Channels : owner'[ch] \in Calls => <<owner'[ch], ch>> \in Q
      /\ \A c \in Calls : binding'[c] \in Channels => <<c, binding'[c]>> \in Q
  <2>0. /\ owner \in [Channels -> Calls \cup {NoCall}]
        /\ binding \in [Calls -> Channels \cup {NoChannel}]
    BY DEF CoreInv, CoreTypeOK
  <2>1. CASE UNCHANGED <<binding, owner>>
    BY <2>1 DEF Linked
  <2>2. ASSUME NEW c \in Calls, NEW ch \in Channels, <<c, ch>> \in P, ChannelBind(c, ch)
        PROVE  /\ \A u \in Channels : owner'[u] \in Calls => <<owner'[u], u>> \in Q
               /\ \A d \in Calls : binding'[d] \in Channels => <<d, binding'[d]>> \in Q
    BY <2>0, <2>2 DEF Linked, ChannelBind
  <2>3. ASSUME NEW c \in Calls, ChannelDelete(c)
        PROVE  /\ \A u \in Channels : owner'[u] \in Calls => <<owner'[u], u>> \in Q
               /\ \A d \in Calls : binding'[d] \in Channels => <<d, binding'[d]>> \in Q
    BY <2>0, <2>3, CallAssumption DEF Linked, ChannelDelete
  <2> QED
    BY <2>1, <2>2, <2>3, CoreStepBindings
<1>2. \A ch \in Channels : fs'[ch].cid \in Calls => <<fs'[ch].cid, ch>> \in Q
  BY CoreStepKeepsCid DEF Linked
<1>3. \A ch \in Channels : lc'[ch].pc # "idle" => <<lc'[ch].call, ch>> \in Q
  <2>0. IdleLc.pc = "idle" /\ lc \in [Channels -> Lc]
    BY DEF IdleLc, CoreInv, CoreTypeOK
  <2>1. CASE lc' = lc
    BY <2>1 DEF Linked
  <2>2. CASE WorkerRestart
    BY <2>0, <2>2 DEF WorkerRestart
  <2>3. ASSUME NEW u \in Channels, LcFail(u)
        PROVE  \A ch \in Channels : lc'[ch].pc # "idle" => <<lc'[ch].call, ch>> \in Q
    BY <2>0, <2>3 DEF LcFail, Linked
  <2>4. ASSUME NEW u \in Channels, LcBegin(u)
        PROVE  \A ch \in Channels : lc'[ch].pc # "idle" => <<lc'[ch].call, ch>> \in Q
    <3> DEFINE r == [IdleLc EXCEPT !.pc = "snapshot", !.ev = Head(evq[u]),
                                   !.call = Correlated(u)]
    <3>1. lc' = lc \/ (Correlated(u) # NoCall /\ lc' = [lc EXCEPT ![u] = r])
      BY <2>4 DEF LcBegin
    <3>2. Correlated(u) # NoCall => <<Correlated(u), u>> \in P
      BY DEF Correlated, Linked, CoreInv, CoreTypeOK
    <3>3. r.call = Correlated(u)
      BY DEF IdleLc
    <3> HIDE DEF r
    <3> QED
      BY <2>0, <2>1, <3>1, <3>2, <3>3 DEF Linked
  <2>5. ASSUME NEW u \in Channels, Lifecycle(u), ~LcBegin(u)
        PROVE  \A ch \in Channels : lc'[ch].pc # "idle" => <<lc'[ch].call, ch>> \in Q
    <3>1. lc[u].pc # "idle" /\ \A v \in Channels \ {u} : lc'[v] = lc[v]
      BY <2>5, HandlerShape
    <3>2. lc'[u].pc # "idle" => lc'[u].call = lc[u].call
      BY <2>5, HandlerShape
    <3> QED
      BY <3>1, <3>2 DEF Linked
  <2>6. \A ch \in Channels : FreeSwitch(ch) => lc' = lc
    BY FreeSwitchShape
  <2>7. Reconcile \/ JobFail \/ (\E ch \in Channels : LoseEvent(ch)) => lc' = lc
    BY DEF Reconcile, JobListActive, JobRefreshOrg, JobListOriginations, JobFail,
       JobBind, JobObserve, JobListCleanup, JobRefreshTrunk, JobCleanup, JobProbe, LoseEvent
  <2> QED
    BY <2>1, <2>2, <2>3, <2>4, <2>5, <2>6, <2>7, ControlIsFreeSwitch DEF CoreStep, Failure
<1>4. job'.pc \in {"bind", "observe"} =>
         job'.call \in Calls /\ job'.chan \in Channels /\ <<job'.call, job'.chan>> \in Q
  <2>0. job \in Job
    BY DEF CoreInv, CoreTypeOK
  <2>1. CASE job' = job
    BY <2>1 DEF Linked
  <2>2. CASE JobBind
    BY <2>0, <2>2 DEF JobBind, Job, Linked
  <2>3. ASSUME NEW ch \in Channels, JobProbe(ch)
        PROVE  job'.pc \in {"bind", "observe"} =>
                  job'.call \in Calls /\ job'.chan \in Channels /\ <<job'.call, job'.chan>> \in Q
    <3>1. NextProbe(ch).pc \notin {"bind", "observe"}
      BY DEF NextProbe, IdleJob
    <3>2. CASE job' = NextProbe(ch)
      BY <3>1, <3>2
    <3>3. CASE fs[ch].st \in FsLive
      <4>1. job' = [job EXCEPT !.pc = "bind", !.chan = ch, !.call = attempt[ch].call]
        BY <2>3, <3>3 DEF JobProbe
      <4>2. job'.call = attempt[ch].call /\ job'.chan = ch
        BY <2>0, <4>1 DEF Job
      <4> QED
        BY <2>3, <3>3, <4>2 DEF JobProbe
    <3> QED
      BY <2>3, <3>2, <3>3 DEF JobProbe
  <2>4. CASE JobListActive \/ JobRefreshOrg \/ JobListOriginations \/ JobObserve
             \/ JobListCleanup \/ JobFail \/ WorkerRestart
             \/ \E c \in Calls : JobRefreshTrunk(c) \/ JobCleanup(c)
    <3>1. job'.pc \notin {"bind", "observe"}
      <4>1. \A ch : NextProbe(ch).pc \notin {"bind", "observe"}
        BY DEF NextProbe, IdleJob
      <4>2. \A c : NextCleanup(c).pc \notin {"bind", "observe"}
        BY DEF NextCleanup, IdleJob
      <4>3. ASSUME NEW c \in Calls, JobCleanup(c) PROVE job'.pc \notin {"bind", "observe"}
        <5>1. CASE job.pc = "delete"
          BY <2>0, <4>3, <5>1 DEF JobCleanup, Job
        <5>2. CASE job.pc = "finish"
          BY <4>2, <4>3, <5>2 DEF JobCleanup
        <5>3. CASE job.pc \in {"relOrg", "relTrunk"}
          BY <2>0, <4>3, <5>3 DEF JobCleanup, Job, CleanupNext
        <5> QED
          BY <4>3, <5>1, <5>2, <5>3 DEF JobCleanup, CleanupPc
      <4>4. CASE JobListActive \/ JobRefreshOrg \/ JobListOriginations \/ JobListCleanup
                 \/ \E c \in Calls : JobRefreshTrunk(c)
        BY <2>0, <4>4 DEF JobListActive, JobRefreshOrg, JobListOriginations, JobListCleanup,
           JobRefreshTrunk, IdleJob, Job
      <4>5. CASE JobObserve \/ JobFail \/ WorkerRestart
        BY <4>1, <4>2, <4>5 DEF JobObserve, JobFail, WorkerRestart, IdleJob
      <4> QED
        BY <2>4, <4>3, <4>4, <4>5
    <3> QED
      BY <3>1
  <2>5. \A ch \in Channels : FreeSwitch(ch) => job' = job
    BY FreeSwitchShape
  <2>6. \A ch \in Channels : Lifecycle(ch) \/ LoseEvent(ch) \/ LcFail(ch) => job' = job
    BY DEF Lifecycle, LcBegin, LcSnapshot, LcRefreshOrg, LcRefreshTrunk, LcTransition,
       LcCleanup, LoseEvent, LcFail
  <2> QED
    BY <2>1, <2>2, <2>3, <2>4, <2>5, <2>6, ControlIsFreeSwitch DEF CoreStep, Failure, Reconcile
<1> QED
  BY <1>1, <1>2, <1>3, <1>4 DEF Linked

\* A conditional update changes the state or the media of its own row only,
\* and only of a row that exists.
LEMMA MutateKeepsIdentity ==
    ASSUME CoreTypeOK, NEW c \in Calls, NEW e \in LifecycleEvent, mutate(c, e), NEW d \in Calls
    PROVE  /\ row'[d].trunk = row[d].trunk /\ row'[d].outbound = row[d].outbound
           /\ row'[d].sip = row[d].sip
           /\ row'[d].state = "none" <=> row[d].state = "none"
<1>1. row[c] \in Row /\ row' = [row EXCEPT ![c] = Marked(row[c], e)] /\ row \in [Calls -> Row]
  BY DEF mutate, CoreTypeOK
<1>2. row[c].state # "none" /\ e # "none"
  BY DEF mutate, CanMark, LiveState, LifecycleEvent, TerminalEvent
<1>3. /\ Marked(row[c], e).trunk = row[c].trunk /\ Marked(row[c], e).outbound = row[c].outbound
      /\ Marked(row[c], e).sip = row[c].sip /\ Marked(row[c], e).state # "none"
  <2>1. CASE e = "held" \/ e = "resumed"
    BY <1>1, <1>2, <2>1 DEF Marked, Row
  <2>2. CASE e # "held" /\ e # "resumed"
    BY <1>1, <1>2, <2>2 DEF Marked, Row
  <2> QED
    BY <2>1, <2>2
<1> QED
  BY <1>1, <1>2, <1>3

\* The runtime neither creates nor deletes a row, and leaves its trunk, its
\* direction and the call of an attempt alone.
LEMMA CoreStepKeepsIdentity ==
    ASSUME CoreInv, CoreStep
    PROVE  /\ \A c \in Calls : /\ row'[c].trunk = row[c].trunk
                               /\ row'[c].outbound = row[c].outbound
                               /\ row'[c].state = "none" <=> row[c].state = "none"
           /\ \A ch \in Channels : attempt'[ch].call = attempt[ch].call
<1> DEFINE RowKept == \A c \in Calls : /\ row'[c].trunk = row[c].trunk
                                       /\ row'[c].outbound = row[c].outbound
                                       /\ row'[c].state = "none" <=> row[c].state = "none"
           AttemptKept == \A ch \in Channels : attempt'[ch].call = attempt[ch].call
<1>0. row \in [Calls -> Row] /\ attempt \in [Channels -> Attempt]
  BY DEF CoreInv, CoreTypeOK
<1>1. ASSUME NEW c \in Calls, NEW e \in LifecycleEvent, mutate(c, e) PROVE RowKept /\ AttemptKept
  <2>1. RowKept
    BY <1>1, MutateKeepsIdentity DEF CoreInv
  <2>2. \A ch \in Channels : [attempt[ch] EXCEPT !.status = "finished"].call = attempt[ch].call
    BY <1>0 DEF Attempt
  <2>3. AttemptKept
    BY <1>1, <2>2 DEF mutate, FinishAttempts
  <2> QED
    BY <2>1, <2>3
<1>2. ASSUME NEW ch, NEW c, attempt' = Observe(ch, c) PROVE AttemptKept
  <2>1. \A u \in Channels : [attempt[u] EXCEPT !.status = "observed"].call = attempt[u].call
    BY <1>0 DEF Attempt
  <2> QED
    BY <1>0, <1>2, <2>1 DEF Observe
<1>3. ASSUME NEW ch \in Channels, Lifecycle(ch) PROVE RowKept /\ AttemptKept
  <2>1. CASE LcTransition(ch)
    <3>1. lc[ch].call \in Calls /\ lc[ch].ev \in LifecycleEvent
      BY <2>1 DEF LcTransition, CoreInv, CoreTypeOK, LcHasCall, Lc
    <3> QED
      BY <1>1, <2>1, <3>1 DEF LcTransition, dbVars
  <2>2. CASE LcSnapshot(ch)
    <3>1. lc[ch].call \in Calls /\ row[lc[ch].call] \in Row
      BY <2>2 DEF LcSnapshot, CoreInv, CoreTypeOK, LcHasCall
    <3>2. row' = row \/ row' = [row EXCEPT ![lc[ch].call] = [row[lc[ch].call] EXCEPT !.sip = ch]]
      BY <2>2 DEF LcSnapshot
    <3>3. RowKept
      BY <1>0, <3>1, <3>2 DEF Row
    <3>4. AttemptKept
      BY <1>2, <2>2 DEF LcSnapshot
    <3> QED
      BY <3>3, <3>4
  <2>3. CASE ~LcTransition(ch) /\ ~LcSnapshot(ch)
    <3>1. row' = row /\ attempt' = attempt
      BY <1>3, <2>3 DEF Lifecycle, LcBegin, LcRefreshOrg, LcRefreshTrunk, LcCleanup, dbVars
    <3> QED
      BY <3>1
  <2> QED
    BY <2>1, <2>2, <2>3
<1>4. ASSUME ~ \E ch \in Channels : Lifecycle(ch) PROVE RowKept /\ AttemptKept
  <2>1. RowKept
    BY <1>4, OnlyHandlersWriteRows
  <2>2. attempt' = attempt \/ \E ch, c : attempt' = Observe(ch, c)
    <3>1. \A ch \in Channels : FreeSwitch(ch) => attempt' = attempt
      BY FreeSwitchShape
    <3>2. Reconcile => attempt' = attempt \/ \E ch, c : attempt' = Observe(ch, c)
      BY DEF Reconcile, JobListActive, JobRefreshOrg, JobListOriginations,
         JobBind, JobObserve, JobListCleanup, JobRefreshTrunk, JobCleanup, JobProbe, dbVars
    <3>3. Failure \/ WorkerRestart => attempt' = attempt
      BY DEF Failure, JobFail, LoseEvent, LcFail, WorkerRestart, dbVars
    <3> QED
      BY <1>4, <3>1, <3>2, <3>3, ControlIsFreeSwitch DEF CoreStep
  <2> QED
    BY <1>2, <2>1, <2>2
<1> QED
  BY <1>3, <1>4

\* Handlers record the SIP Call-ID of outbound calls only.
LEMMA CoreStepKeepsDialog ==
    ASSUME CoreInv, CoreStep, NEW c \in Calls, ~row[c].outbound
    PROVE  row'[c].sip = row[c].sip
<1>0. row \in [Calls -> Row] /\ CoreTypeOK
  BY DEF CoreInv, CoreTypeOK
<1>1. ASSUME NEW ch \in Channels, Lifecycle(ch) PROVE row'[c].sip = row[c].sip
  <2>1. CASE LcTransition(ch)
    <3>1. lc[ch].call \in Calls /\ lc[ch].ev \in LifecycleEvent
      BY <2>1 DEF LcTransition, CoreInv, CoreTypeOK, LcHasCall, Lc
    <3>2. mutate(lc[ch].call, lc[ch].ev) \/ row' = row
      BY <2>1 DEF LcTransition, dbVars
    <3> QED
      BY <1>0, <3>1, <3>2, MutateKeepsIdentity
  <2>2. CASE LcSnapshot(ch)
    <3>1. \/ row' = row
          \/ row[lc[ch].call].outbound /\ row' = [row EXCEPT ![lc[ch].call].sip = ch]
      BY <2>2 DEF LcSnapshot
    <3> QED
      BY <1>0, <3>1
  <2>3. CASE ~LcTransition(ch) /\ ~LcSnapshot(ch)
    BY <1>1, <2>3 DEF Lifecycle, LcBegin, LcRefreshOrg, LcRefreshTrunk, LcCleanup, dbVars
  <2> QED
    BY <2>1, <2>2, <2>3
<1> QED
  BY <1>1, OnlyHandlersWriteRows

\* The calls a pass renews have a trunk.
RefreshInv ==
    /\ job.pc \in {"refreshTrunk", "refreshOrg"} => \A c \in job.calls : row[c].trunk
    /\ job.pc = "refreshOrg" => job.call \in job.calls

\* Rows keep their trunk while a pass renews their leases.
LEMMA RefreshInvStep == CoreInv /\ RefreshInv /\ CoreStep => RefreshInv'
<1> SUFFICES ASSUME CoreInv, RefreshInv, CoreStep PROVE RefreshInv'
  OBVIOUS
<1>0. job \in Job /\ CoreInv'
  BY CoreInvStep DEF CoreInv, CoreTypeOK
<1>1. \A c \in Calls : row'[c].trunk = row[c].trunk
  BY CoreStepKeepsIdentity
<1>2. /\ job'.pc \in {"refreshTrunk", "refreshOrg"} => \A c \in job'.calls : row[c].trunk
      /\ job'.pc = "refreshOrg" => job'.call \in job'.calls
  <2>1. CASE job' = job
    BY <2>1 DEF RefreshInv
  <2>2. CASE JobListActive
    BY <2>2 DEF JobListActive, ActiveCalls, IdleJob
  <2>3. ASSUME NEW c \in Calls, JobRefreshTrunk(c)
        PROVE  /\ job'.pc \in {"refreshTrunk", "refreshOrg"} => \A d \in job'.calls : row[d].trunk
               /\ job'.pc = "refreshOrg" => job'.call \in job'.calls
    BY <1>0, <2>3 DEF JobRefreshTrunk, RefreshInv, Job
  <2>4. CASE JobRefreshOrg
    BY <2>4 DEF JobRefreshOrg, RefreshInv, IdleJob
  <2>5. CASE job'.pc \notin {"refreshTrunk", "refreshOrg"}
    BY <2>5
  <2>6. \A ch \in Channels : FreeSwitch(ch) => job' = job
    BY FreeSwitchShape
  <2>7. \A ch \in Channels : Lifecycle(ch) \/ LoseEvent(ch) \/ LcFail(ch) => job' = job
    BY DEF Lifecycle, LcBegin, LcSnapshot, LcRefreshOrg, LcRefreshTrunk, LcTransition,
       LcCleanup, LoseEvent, LcFail
  <2>8. CASE \/ JobListOriginations \/ JobBind \/ JobObserve \/ JobListCleanup
             \/ JobFail \/ WorkerRestart
             \/ \E c \in Calls : JobCleanup(c)
             \/ \E ch \in Channels : JobProbe(ch)
    <3>1. \A ch : NextProbe(ch).pc \notin {"refreshTrunk", "refreshOrg"}
      BY DEF NextProbe, IdleJob
    <3>2. \A c : NextCleanup(c).pc \notin {"refreshTrunk", "refreshOrg"}
      BY DEF NextCleanup, IdleJob
    <3>3. ASSUME NEW c \in Calls, JobCleanup(c)
          PROVE  job'.pc \notin {"refreshTrunk", "refreshOrg"}
      <4>1. CASE job.pc = "delete"
        BY <1>0, <3>3, <4>1 DEF JobCleanup, Job
      <4>2. CASE job.pc = "finish"
        BY <3>2, <3>3, <4>2 DEF JobCleanup
      <4>3. CASE job.pc \in {"relOrg", "relTrunk"}
        <5>1. job'.pc = CleanupNext(job.pc)
          BY <1>0, <3>3, <4>3 DEF JobCleanup, Job
        <5> QED
          BY <4>3, <5>1 DEF CleanupNext
      <4> QED
        BY <3>3, <4>1, <4>2, <4>3 DEF JobCleanup, CleanupPc
    <3>4. CASE JobListOriginations \/ JobBind \/ JobListCleanup
      BY <1>0, <3>4, <2>5 DEF JobListOriginations, JobBind, JobListCleanup, IdleJob, Job
    <3>5. CASE JobObserve \/ JobFail \/ WorkerRestart
      BY <2>5, <3>1, <3>2, <3>5 DEF JobObserve, JobFail, WorkerRestart, IdleJob
    <3>6. ASSUME NEW ch \in Channels, JobProbe(ch)
          PROVE  job'.pc \notin {"refreshTrunk", "refreshOrg"}
      BY <1>0, <3>1, <3>6 DEF JobProbe, Job
    <3> QED
      BY <2>5, <2>8, <3>3, <3>4, <3>5, <3>6
  <2> QED
    BY <2>1, <2>2, <2>3, <2>4, <2>6, <2>7, <2>8, ControlIsFreeSwitch
    DEF CoreStep, Failure, Reconcile
<1>3. job'.calls \subseteq Calls
  BY <1>0 DEF CoreInv, CoreTypeOK, Job
<1> QED
  BY <1>1, <1>2, <1>3 DEF RefreshInv

(***************************************************************************)
(* Channels, attempts and handlers: where a state of theirs comes from.    *)
(***************************************************************************)
\* A channel that is up, or queued to come up.
MayBeUp == FsLive \cup {"queued"}

\* Rows are live, over or absent.
LEMMA LiveIsNotOver ==
    ASSUME CoreTypeOK, NEW c \in Calls
    PROVE  row[c].state \in LiveState <=> ~Over(c) /\ row[c].state # "none"
BY DEF CoreTypeOK, Row, CallState, LiveState, TerminalState, Over, isTerminalState

\* The runtime moves a channel on only when it may be up, and never back up.
LEMMA CoreStepStates ==
    ASSUME CoreInv, CoreStep, NEW u \in Channels
    PROVE  /\ fs'[u].st \in MayBeUp => fs[u].st \in MayBeUp
           /\ fs[u].st = "none" => fs'[u].st = "none"
           /\ fs[u].st = "gone" => fs'[u].st = "gone"
<1>0. fs \in [Channels -> [st: FsState, cid: Calls \cup {NoCall}]]
  BY DEF CoreInv, CoreTypeOK
<1>1. ASSUME NEW ch \in Channels, FreeSwitch(ch)
      PROVE  /\ fs'[u].st \in MayBeUp => fs[u].st \in MayBeUp
             /\ fs[u].st = "none" => fs'[u].st = "none"
             /\ fs[u].st = "gone" => fs'[u].st = "gone"
  <2>1. fs[ch].st \in MayBeUp
    BY <1>1, FreeSwitchShape DEF MayBeUp
  <2>2. PICK st : fs' = [fs EXCEPT ![ch].st = st]
    BY <1>1, FreeSwitchShape
  <2> QED
    BY <1>0, <2>1, <2>2 DEF MayBeUp, FsLive
<1>2. ASSUME NEW ch \in Channels, Lifecycle(ch) PROVE fs' = fs
  BY <1>2 DEF Lifecycle, LcBegin, LcSnapshot, LcRefreshOrg, LcRefreshTrunk, LcTransition,
     LcCleanup, fsVars
<1>3. ASSUME Reconcile PROVE fs' = fs
  BY <1>3 DEF Reconcile, JobListActive, JobRefreshOrg, JobListOriginations,
     JobBind, JobObserve, JobListCleanup, JobRefreshTrunk, JobCleanup, JobProbe, fsVars
<1>4. ASSUME Failure \/ WorkerRestart PROVE fs' = fs
  BY <1>4 DEF Failure, JobFail, LoseEvent, LcFail, WorkerRestart, fsVars
<1> QED
  BY <1>1, <1>2, <1>3, <1>4, ControlIsFreeSwitch DEF CoreStep

\* A status set in place leaves the other attempts and the call alone.
LEMMA StatusSet ==
    ASSUME CoreTypeOK, NEW u \in Channels, NEW st, NEW ch \in Channels,
           attempt' = [attempt EXCEPT ![u].status = st]
    PROVE  IF ch = u THEN attempt'[ch].status = st ELSE attempt'[ch] = attempt[ch]
<1>1. attempt[u] \in Attempt /\ attempt \in [Channels -> Attempt]
  BY DEF CoreTypeOK
<1> QED
  BY <1>1 DEF Attempt

\* Finishing the attempts of a call observes none.
LEMMA FinishStatus ==
    ASSUME CoreTypeOK, NEW c, attempt' = FinishAttempts(c), NEW ch \in Channels
    PROVE  \/ attempt'[ch] = attempt[ch]
           \/ attempt[ch].status # "none" /\ attempt'[ch].status = "finished"
<1>1. attempt[ch] \in Attempt
  BY DEF CoreTypeOK
<1>2. [attempt[ch] EXCEPT !.status = "finished"].status = "finished"
  BY <1>1 DEF Attempt
<1> QED
  BY <1>1, <1>2 DEF FinishAttempts, Unresolved

\* Observing marks one unresolved attempt.
LEMMA ObserveStatus ==
    ASSUME CoreTypeOK, NEW u \in Channels, NEW c, attempt' = Observe(u, c), NEW ch \in Channels
    PROVE  \/ attempt'[ch] = attempt[ch]
           \/ ch = u /\ attempt[ch].call = c /\ attempt[ch].status # "none"
<1>1. CASE attempt' = attempt
  BY <1>1
<1>2. CASE /\ attempt[u].call = c /\ attempt[u].status \in Unresolved
           /\ attempt' = [attempt EXCEPT ![u].status = "observed"]
  BY <1>2, StatusSet DEF Unresolved
<1> QED
  BY <1>1, <1>2 DEF Observe

\* In the runtime an attempt becomes observed only by the handler of a
\* progress event of its channel, or by the job.
LEMMA CoreStepObserves ==
    ASSUME CoreInv, CoreStep, NEW ch \in Channels
    PROVE  /\ attempt'[ch].status # "none" => attempt[ch].status # "none"
           /\ attempt'[ch].status = "observed" =>
                 \/ attempt[ch].status = "observed"
                 \/ /\ LcSnapshot(ch) /\ lc[ch].ev \notin TerminalEvent
                    /\ attempt[ch].call = lc[ch].call
                 \/ JobObserve /\ job.chan = ch /\ attempt[ch].call = job.call
<1> DEFINE Goal == /\ attempt'[ch].status # "none" => attempt[ch].status # "none"
                   /\ attempt'[ch].status = "observed" =>
                        \/ attempt[ch].status = "observed"
                        \/ /\ LcSnapshot(ch) /\ lc[ch].ev \notin TerminalEvent
                           /\ attempt[ch].call = lc[ch].call
                        \/ JobObserve /\ job.chan = ch /\ attempt[ch].call = job.call
<1>0. CoreTypeOK
  BY DEF CoreInv
<1>1. CASE attempt' = attempt
  BY <1>1
<1>2. ASSUME NEW c, attempt' = FinishAttempts(c) PROVE Goal
  BY <1>0, <1>2, FinishStatus
<1>3. ASSUME NEW u \in Channels, LcSnapshot(u) PROVE Goal
  <2>1. attempt' = attempt \/ (attempt' = Observe(u, lc[u].call) /\ lc[u].ev \notin TerminalEvent)
    BY <1>3 DEF LcSnapshot, isTerminalLifecycle
  <2> QED
    BY <1>0, <1>1, <1>3, <2>1, ObserveStatus
<1>4. ASSUME NEW u \in Channels, LcTransition(u) PROVE Goal
  BY <1>1, <1>2, <1>4 DEF LcTransition, mutate, dbVars
<1>5. ASSUME NEW u \in Channels, Lifecycle(u) PROVE Goal
  BY <1>1, <1>3, <1>4, <1>5 DEF Lifecycle, LcBegin, LcRefreshOrg, LcRefreshTrunk, LcCleanup, dbVars
<1>6. CASE JobObserve
  <2>1. job.chan \in Channels \/ attempt' = attempt
    <3>1. job.chan \in Channels \cup {NoChannel}
      BY <1>0 DEF CoreTypeOK, Job
    <3>2. CASE job.chan = NoChannel
      BY <1>0, <1>6, <3>2, CallAssumption DEF JobObserve, Observe, CoreTypeOK
    <3> QED
      BY <3>1, <3>2
  <2> QED
    BY <1>0, <1>1, <1>6, <2>1, ObserveStatus DEF JobObserve
<1>7. CASE Reconcile /\ ~JobObserve
  BY <1>1, <1>7 DEF Reconcile, JobListActive, JobRefreshOrg, JobListOriginations,
     JobBind, JobListCleanup, JobRefreshTrunk, JobCleanup, JobProbe, dbVars
<1>8. ASSUME NEW u \in Channels, FreeSwitch(u) PROVE Goal
  BY <1>1, <1>8, FreeSwitchShape
<1>9. CASE Failure \/ WorkerRestart
  BY <1>1, <1>9 DEF Failure, JobFail, LoseEvent, LcFail, WorkerRestart, dbVars
<1> QED
  BY <1>5, <1>6, <1>7, <1>8, <1>9, ControlIsFreeSwitch DEF CoreStep

\* A handler waits for its snapshot as before, or has just bound its channel.
LEMMA SnapshotFrom ==
    ASSUME CoreInv, HangupInv, CoreStep, NEW ch \in Channels, lc'[ch].pc = "snapshot"
    PROVE  \/ lc'[ch] = lc[ch]
           \/ /\ lc'[ch].call \in Calls
              /\ lc'[ch].ev \notin TerminalEvent => binding'[lc'[ch].call] = ch
<1>0. /\ lc \in [Channels -> Lc] /\ IdleLc.pc # "snapshot"
      /\ binding \in [Calls -> Channels \cup {NoChannel}]
      /\ \A u \in Channels : Correlated(u) \in Calls \cup {NoCall}
  BY DEF CoreInv, CoreTypeOK, IdleLc, Correlated
<1>1. ASSUME NEW u \in Channels, Lifecycle(u), u # ch PROVE lc'[ch] = lc[ch]
  <2>1. CASE LcBegin(u)
    BY <1>0, <1>1, <2>1 DEF LcBegin
  <2> QED
    BY <1>1, <2>1, HandlerShape
<1>2. CASE Lifecycle(ch)
  <2>1. LcBegin(ch)
    BY <1>2, HandlerShape
  <2>2. CASE lc' = lc
    BY <2>2
  <2>3. CASE lc' # lc
    <3> DEFINE r == [IdleLc EXCEPT !.pc = "snapshot", !.ev = Head(evq[ch]), !.call = Correlated(ch)]
    <3>1. lc' = [lc EXCEPT ![ch] = r] /\ Correlated(ch) # NoCall
      BY <2>1, <2>3 DEF LcBegin
    <3>2. Head(evq[ch]) \notin TerminalEvent => ChannelBind(Correlated(ch), ch)
      BY <2>1, <3>1 DEF LcBegin, isTerminalLifecycle
    <3>3. r.ev = Head(evq[ch]) /\ r.call = Correlated(ch)
      BY DEF IdleLc
    <3> HIDE DEF r
    <3>4. lc'[ch] = r
      BY <1>0, <3>1
    <3> QED
      BY <1>0, <3>1, <3>2, <3>3, <3>4 DEF ChannelBind
  <2> QED
    BY <2>2, <2>3
<1>3. CASE WorkerRestart
  BY <1>0, <1>3 DEF WorkerRestart
<1>4. ASSUME NEW u \in Channels, LcFail(u) PROVE lc'[ch] = lc[ch]
  BY <1>0, <1>4 DEF LcFail
<1>5. ASSUME Reconcile \/ JobFail \/ \E u \in Channels : LoseEvent(u) PROVE lc' = lc
  BY <1>5 DEF Reconcile, JobListActive, JobRefreshOrg, JobListOriginations, JobFail, LoseEvent,
     JobBind, JobObserve, JobListCleanup, JobRefreshTrunk, JobCleanup, JobProbe
<1>6. ASSUME NEW u \in Channels, FreeSwitch(u) PROVE lc' = lc
  BY <1>6, FreeSwitchShape
<1> QED
  BY <1>1, <1>2, <1>3, <1>4, <1>5, <1>6, ControlIsFreeSwitch DEF CoreStep, Failure

\* The job waits to mark an attempt as before, or has just bound its channel.
LEMMA ObserveFrom ==
    ASSUME CoreInv, CoreStep, job'.pc = "observe"
    PROVE  \/ job' = job
           \/ JobBind /\ job'.call = job.call /\ job'.chan = job.chan
<1>0. job \in Job /\ IdleJob.pc = "idle"
  BY DEF CoreInv, CoreTypeOK, IdleJob
<1>1. CASE JobBind
  <2>1. job' = [job EXCEPT !.pc = "observe"]
    BY <1>1 DEF JobBind
  <2> QED
    BY <1>0, <1>1, <2>1 DEF Job
<1>2. ASSUME NEW u \in Channels, Lifecycle(u) PROVE job' = job
  BY <1>2 DEF Lifecycle, LcBegin, LcSnapshot, LcRefreshOrg, LcRefreshTrunk, LcTransition, LcCleanup
<1>3. ASSUME NEW u \in Channels, FreeSwitch(u) \/ LoseEvent(u) \/ LcFail(u) PROVE job' = job
  BY <1>3, FreeSwitchShape DEF LoseEvent, LcFail
<1>4. ASSUME WorkerRestart \/ JobFail PROVE job'.pc # "observe"
  BY <1>0, <1>4 DEF WorkerRestart, JobFail, NextCleanup, IdleJob
<1>5. ASSUME JobListActive \/ JobListOriginations \/ JobListCleanup PROVE job'.pc # "observe"
  BY <1>0, <1>5 DEF JobListActive, JobListOriginations, JobListCleanup, IdleJob, Job
<1>6. ASSUME JobRefreshOrg \/ JobObserve PROVE job'.pc # "observe"
  BY <1>6 DEF JobRefreshOrg, JobObserve, NextProbe, IdleJob
<1>7. ASSUME NEW c \in Calls, JobRefreshTrunk(c) PROVE job'.pc # "observe"
  BY <1>0, <1>7 DEF JobRefreshTrunk, Job
<1>8. ASSUME NEW c \in Calls, JobCleanup(c) PROVE job'.pc # "observe"
  <2>1. \/ job' = [job EXCEPT !.pc = "relOrg", !.call = c, !.trunk = HasCleanupTrunk(c)]
        \/ job' = NextCleanup(c)
        \/ job.pc \in {"relOrg", "relTrunk"} /\ job' = [job EXCEPT !.pc = CleanupNext(@)]
    BY <1>8 DEF JobCleanup, CleanupPc
  <2>2. job.pc \in {"relOrg", "relTrunk"} => CleanupNext(job.pc) # "observe"
    BY DEF CleanupNext
  <2> QED
    BY <1>0, <2>1, <2>2 DEF NextCleanup, IdleJob, Job
<1>9. ASSUME NEW u \in Channels, JobProbe(u) PROVE job'.pc # "observe"
  <2>1. \/ job' = [job EXCEPT !.pc = "bind", !.chan = u, !.call = attempt[u].call]
        \/ job' = NextProbe(u)
    BY <1>9 DEF JobProbe
  <2> QED
    BY <1>0, <2>1 DEF NextProbe, IdleJob, Job
<1> QED
  BY <1>1, <1>2, <1>3, <1>4, <1>5, <1>6, <1>7, <1>8, <1>9, ControlIsFreeSwitch
  DEF CoreStep, Reconcile, Failure

(***************************************************************************)
(* What the runtime shows subscribers is the abstract lifecycle.           *)
(***************************************************************************)
\* A conditional update is a step of the abstract lifecycle.
LEMMA MutateRefines ==
    ASSUME CoreTypeOK, NEW c \in Calls, NEW e \in LifecycleEvent, mutate(c, e)
    PROVE  Abstract!LifecycleNext
<1> DEFINE st == [x \in Calls |-> row[x].state]
           md == [x \in Calls |-> row[x].media]
<1>0. row[c] \in Row /\ row \in [Calls -> Row] /\ row' = [row EXCEPT ![c] = Marked(row[c], e)]
  BY DEF CoreTypeOK, mutate
<1>1. outbox' = [outbox EXCEPT ![c] = Append(@, e)]
  BY DEF mutate
<1>2. CASE e \notin {"held", "resumed"}
  <2>1. Marked(row[c], e) = [row[c] EXCEPT !.state = e]
    BY <1>2 DEF Marked
  <2>2. /\ st' = [st EXCEPT ![c] = e]
        /\ md' = md
    BY <1>0, <2>1 DEF Row
  <2>3. st[c] = row[c].state
    OBVIOUS
  <2>4. CASE e \in {"ringing", "answered", "active"}
    <3>1. /\ e \in Abstract!Up
          /\ st[c] \in Abstract!Up
          /\ Abstract!Rank[st[c]] < Abstract!Rank[e]
      BY <2>4, <2>3 DEF mutate, CanMark, Abstract!Up, Abstract!Rank
    <3>2. Abstract!Advance(c, e)
      BY <3>1, <2>2, <1>1 DEF Abstract!Advance, Abstract!Publish
    <3> QED
      BY <3>1, <3>2 DEF Abstract!LifecycleNext
  <2>5. CASE e \in TerminalEvent
    <3>1. Abstract!Finish(c, e)
      BY <2>5, <2>2, <2>3, <1>1 DEF mutate, CanMark, LiveState, TerminalEvent, Abstract!Finish,
         Abstract!Publish, Abstract!Up
    <3> QED
      BY <2>5, <3>1 DEF Abstract!LifecycleNext, Abstract!Ended, TerminalEvent
  <2>6. e # "initiated"
    BY DEF mutate, CanMark
  <2> QED
    BY <1>2, <2>4, <2>5, <2>6 DEF LifecycleEvent
<1>3. CASE e = "held"
  <2>1. Marked(row[c], e) = [row[c] EXCEPT !.media = "held"]
    BY <1>3 DEF Marked
  <2>2. st' = st /\ md' = [md EXCEPT ![c] = "held"]
    BY <1>0, <2>1 DEF Row
  <2>3. Abstract!SetMedia(c, "held", "held")
    BY <1>1, <1>3, <2>2 DEF mutate, CanMark, Abstract!SetMedia, Abstract!Publish
  <2> QED
    BY <2>3 DEF Abstract!LifecycleNext
<1>4. CASE e = "resumed"
  <2>1. Marked(row[c], e) = [row[c] EXCEPT !.media = "active"]
    BY <1>4 DEF Marked
  <2>2. st' = st /\ md' = [md EXCEPT ![c] = "active"]
    BY <1>0, <2>1 DEF Row
  <2>3. Abstract!SetMedia(c, "active", "resumed")
    BY <1>1, <1>4, <2>2 DEF mutate, CanMark, Abstract!SetMedia, Abstract!Publish
  <2> QED
    BY <2>3 DEF Abstract!LifecycleNext
<1> QED
  BY <1>2, <1>3, <1>4

\* A quiet step is a stuttering step of the abstract lifecycle.
LEMMA QuietRefines == CoreTypeOK /\ CoreTypeOK' /\ Quiet => UNCHANGED Abstract!lifecycleVars
BY DEF Quiet, CoreTypeOK, Abstract!lifecycleVars
=============================================================================
