------------------------------ MODULE CallCore ------------------------------
(***************************************************************************)
(* The shared runtime of a telephone call: the durable call row, its       *)
(* origination attempts, the terminal-cleanup marker and the outbox        *)
(* (PostgreSQL); the admission leases and channel bindings (Redis); the    *)
(* FreeSWITCH channels and the per-channel FIFO event queues of the        *)
(* worker; the lifecycle event handler and the reconciliation job.         *)
(*                                                                         *)
(* One organization and one trunk: keys of other tenants are disjoint.     *)
(* A channel stands for its SIP dialog as well.  How a call comes into     *)
(* being is left to the modules that extend this one (OutboundCall,        *)
(* InboundCall).                                                           *)
(***************************************************************************)
EXTENDS Naturals, Sequences, FiniteSets

CONSTANTS
    Calls,        \* calls.id values
    Channels,     \* FreeSWITCH channel UUIDs
    NoCall,       \* absent call id
    NoChannel,    \* absent channel id
    Faults,       \* bound on injected infrastructure failures and restarts
    Progress      \* bound: optional channel events explored, of {"ring", "hold"}

ASSUME CallAssumption ==
    /\ NoCall \notin Calls
    /\ NoChannel \notin Channels
    /\ Calls \cap Channels = {}
    /\ Faults \in Nat
    /\ Progress \subseteq {"ring", "hold"}

VARIABLES
    row,          \* calls table
    attempt,      \* call_origination_attempts table
    marker,       \* call_admission_cleanup table
    outbox,       \* call events committed to outbox_events, per call
    orgLease,     \* Redis sorted set of the organization: lease ids
    trunkLease,   \* Redis sorted set of the trunk: lease ids
    binding,      \* Redis: call id -> channel id
    owner,        \* Redis: channel id -> call id
    fs,           \* FreeSWITCH channels
    evq,          \* ESL event queue of each channel, in the worker
    lc,           \* lifecycle handler running for a channel
    job,          \* reconciliation pass
    faults        \* failures injected so far

dbVars    == <<row, attempt, marker, outbox>>
redisVars == <<orgLease, trunkLease, binding, owner>>
fsVars    == <<fs, evq>>
coreVars  == <<dbVars, redisVars, fsVars, lc, job, faults>>

(***************************************************************************)
(* Types                                                                   *)
(***************************************************************************)
TerminalState == {"completed", "failed", "cancelled"}
LiveState     == {"initiating", "ringing", "answered", "active"}
CallState     == {"none"} \cup LiveState \cup TerminalState
MediaState    == {"active", "held"}

\* Lifecycle event types; also the subjects of the outbox events.
TerminalEvent  == {"completed", "failed", "cancelled"}
LifecycleEvent == {"initiated", "ringing", "answered", "active", "held",
                   "resumed"} \cup TerminalEvent

Unresolved    == {"prepared", "submitted", "uncertain"}
AttemptStatus == {"none", "observed", "finished"} \cup Unresolved

\* Channel states; "resumed" is "answered" after its one hold.
FsLive  == {"created", "ringing", "answered", "held", "resumed"}
FsState == {"none", "queued", "gone"} \cup FsLive

Row     == [state: CallState, media: MediaState, trunk: BOOLEAN,
            outbound: BOOLEAN, sip: Channels \cup {NoChannel}]
NoRow   == [state |-> "none", media |-> "active", trunk |-> FALSE,
            outbound |-> FALSE, sip |-> NoChannel]
Attempt == [call: Calls \cup {NoCall}, status: AttemptStatus]
NoAttempt == [call |-> NoCall, status |-> "none"]

\* Steps of cleanupTerminalAdmission, shared by the handler and the job.
CleanupPc == {"delete", "relOrg", "relTrunk", "finish"}

LcPc   == {"idle", "snapshot", "refreshOrg", "refreshTrunk", "transition"}
          \cup CleanupPc
Lc     == [pc: LcPc, ev: LifecycleEvent, call: Calls \cup {NoCall},
           trunk: BOOLEAN, applied: BOOLEAN]
IdleLc == [pc |-> "idle", ev |-> "initiated", call |-> NoCall,
           trunk |-> FALSE, applied |-> FALSE]

JobPc   == {"idle", "refreshTrunk", "refreshOrg", "originations", "probe",
            "bind", "observe", "cleanups"} \cup CleanupPc
Job     == [pc: JobPc, calls: SUBSET Calls, chans: SUBSET Channels,
            call: Calls \cup {NoCall}, chan: Channels \cup {NoChannel},
            trunk: BOOLEAN]
IdleJob == [pc |-> "idle", calls |-> {}, chans |-> {}, call |-> NoCall,
            chan |-> NoChannel, trunk |-> FALSE]

CoreTypeOK ==
    /\ row \in [Calls -> Row]
    /\ attempt \in [Channels -> Attempt]
    /\ marker \in SUBSET Calls
    /\ outbox \in [Calls -> Seq(LifecycleEvent)]
    /\ orgLease \in SUBSET (Calls \cup Channels)
    /\ trunkLease \in SUBSET (Calls \cup Channels)
    /\ binding \in [Calls -> Channels \cup {NoChannel}]
    /\ owner \in [Channels -> Calls \cup {NoCall}]
    /\ fs \in [Channels -> [st: FsState, cid: Calls \cup {NoCall}]]
    /\ evq \in [Channels -> Seq(LifecycleEvent)]
    /\ lc \in [Channels -> Lc]
    /\ job \in Job
    /\ faults \in Nat

CoreInit ==
    /\ row = [c \in Calls |-> NoRow]
    /\ attempt = [ch \in Channels |-> NoAttempt]
    /\ marker = {}
    /\ outbox = [c \in Calls |-> << >>]
    /\ orgLease = {}
    /\ trunkLease = {}
    /\ binding = [c \in Calls |-> NoChannel]
    /\ owner = [ch \in Channels |-> NoCall]
    /\ fs = [ch \in Channels |-> [st |-> "none", cid |-> NoCall]]
    /\ evq = [ch \in Channels |-> << >>]
    /\ lc = [ch \in Channels |-> IdleLc]
    /\ job = IdleJob
    /\ faults = 0

isTerminalState(s) == s \in TerminalState
isTerminalLifecycle(e) == e \in TerminalEvent

\* An infrastructure call fails; at most Faults times.
Fault == faults < Faults /\ faults' = faults + 1

(***************************************************************************)
(* Repository: conditional updates and the transactional outbox.           *)
(***************************************************************************)
\* Mutant: the terminal statements have lost their state guard.
CanMarkUnguarded(r, e) ==
    \/ e \in {"completed", "failed"} /\ r.state # "none"
    \/ e \in {"ringing", "cancelled"} /\ r.state \in {"initiating", "ringing"}
    \/ e = "answered" /\ r.state \in {"initiating", "ringing"}
    \/ e \in {"held", "resumed"} /\ r.state \in {"answered", "active"}

\* The WHERE clause of the Mark* statement that event e runs.
CanMark(r, e) ==
    \/ e = "ringing" /\ r.state = "initiating"
    \/ e = "answered" /\ r.state \in {"initiating", "ringing"}
    \/ e = "active" /\ r.state \in {"answered", "ringing"}
    \/ e = "held" /\ r.state \in {"answered", "active"} /\ r.media = "active"
    \/ e = "resumed" /\ r.state \in {"answered", "active"} /\ r.media = "held"
    \/ e \in {"completed", "failed"} /\ r.state \in LiveState
    \/ e = "cancelled" /\ r.state \in {"initiating", "ringing"}

\* The SET clause of the same statement.
Marked(r, e) ==
    CASE e = "held" -> [r EXCEPT !.media = "held"]
      [] e = "resumed" -> [r EXCEPT !.media = "active"]
      [] OTHER -> [r EXCEPT !.state = e]

\* MarkCallOriginationFinishedForCall.
FinishAttempts(c) ==
    [ch \in Channels |->
        IF attempt[ch].call = c /\ attempt[ch].status \in Unresolved \cup {"observed"}
        THEN [attempt[ch] EXCEPT !.status = "finished"]
        ELSE attempt[ch]]

\* Mutant: a terminal state commits without its outbox event.
mutateSilently(c, e) ==
    /\ CanMark(row[c], e)
    /\ row' = [row EXCEPT ![c] = Marked(row[c], e)]
    /\ IF isTerminalState(Marked(row[c], e).state)
       THEN marker' = marker \cup {c} /\ attempt' = FinishAttempts(c) /\ UNCHANGED outbox
       ELSE outbox' = [outbox EXCEPT ![c] = Append(@, e)] /\ UNCHANGED <<marker, attempt>>

\* Repository.mutate: the row, the cleanup marker and the attempt tracking
\* of a terminal row, and the outbox event commit together.
mutate(c, e) ==
    /\ CanMark(row[c], e)
    /\ row' = [row EXCEPT ![c] = Marked(row[c], e)]
    /\ outbox' = [outbox EXCEPT ![c] = Append(@, e)]
    /\ IF isTerminalState(Marked(row[c], e).state)
       THEN /\ marker' = marker \cup {c}
            /\ attempt' = FinishAttempts(c)
       ELSE UNCHANGED <<marker, attempt>>

\* MarkCallOriginationObserved.
Observe(ch, c) ==
    IF attempt[ch].call = c /\ attempt[ch].status \in Unresolved
    THEN [attempt EXCEPT ![ch].status = "observed"]
    ELSE attempt

(***************************************************************************)
(* Redis: channel store and admission leases.                              *)
(***************************************************************************)
\* Mutant: only the reverse key is written.
ChannelBindReverse(c, ch) ==
    /\ owner' = [owner EXCEPT ![ch] = c]
    /\ UNCHANGED binding

\* ChannelStore.Bind and Delete.
ChannelBind(c, ch) ==
    /\ binding' = [binding EXCEPT ![c] = ch]
    /\ owner' = [owner EXCEPT ![ch] = c]

ChannelDelete(c) ==
    /\ binding' = [binding EXCEPT ![c] = NoChannel]
    /\ owner' = IF binding[c] = NoChannel THEN owner
                ELSE [owner EXCEPT ![binding[c]] = NoCall]

\* Mutant: the limit itself is still admitted.
CanAcquireOneMore(leases, id, limit) == id \in leases \/ Cardinality(leases) <= limit

\* AcquireConcurrentLease / the concurrent part of AcquireCallLease.
CanAcquire(leases, id, limit) == id \in leases \/ Cardinality(leases) < limit
Acquired(leases, id) == leases \cup {id}

\* Mutant: the lease is removed but not stored under the call.
BoundLeaseDropped(leases, id, c) == leases \ {id}

\* BindCallLease: rename a lease that still exists.
CanBindLease(leases, id) == id \in leases
BoundLease(leases, id, c) == (leases \ {id}) \cup {c}

\* RefreshCallLease: an unconditional ZADD.
Refreshed(leases, c) == leases \cup {c}

\* ReleaseCallLease: ZREM.
Released(leases, id) == leases \ {id}

(***************************************************************************)
(* FreeSWITCH (external): channels progress and emit ESL events in order.  *)
(***************************************************************************)
\* dispatchEvent of the event a channel change emits.
Emit(ch, st, e) ==
    /\ fs' = [fs EXCEPT ![ch].st = st]
    /\ evq' = [evq EXCEPT ![ch] = Append(@, e)]

FsCreate(ch) ==
    /\ fs[ch].st = "queued"
    /\ Emit(ch, "created", "initiated")
    /\ UNCHANGED <<dbVars, redisVars, lc, job, faults>>

\* A queued background originate that never creates a channel.
FsRefuse(ch) ==
    /\ fs[ch].st = "queued"
    /\ fs' = [fs EXCEPT ![ch].st = "gone"]
    /\ UNCHANGED <<dbVars, redisVars, evq, lc, job, faults>>

FsRing(ch) ==
    /\ "ring" \in Progress
    /\ fs[ch].st = "created"
    /\ Emit(ch, "ringing", "ringing")
    /\ UNCHANGED <<dbVars, redisVars, lc, job, faults>>

FsAnswer(ch) ==
    /\ fs[ch].st \in {"created", "ringing"}
    /\ Emit(ch, "answered", "answered")
    /\ UNCHANGED <<dbVars, redisVars, lc, job, faults>>

FsHold(ch) ==
    /\ "hold" \in Progress
    /\ fs[ch].st = "answered"
    /\ Emit(ch, "held", "held")
    /\ UNCHANGED <<dbVars, redisVars, lc, job, faults>>

FsUnhold(ch) ==
    /\ fs[ch].st = "held"
    /\ Emit(ch, "resumed", "resumed")
    /\ UNCHANGED <<dbVars, redisVars, lc, job, faults>>

\* lifecycleEventType of CHANNEL_HANGUP_COMPLETE: answered channels complete,
\* others are cancelled or failed by their hangup cause.
HangupEvents(ch) ==
    IF fs[ch].st \in {"answered", "held", "resumed"}
    THEN {"completed"} ELSE {"cancelled", "failed"}

FsHangup(ch) ==
    /\ fs[ch].st \in FsLive
    /\ \E e \in HangupEvents(ch) : Emit(ch, "gone", e)
    /\ UNCHANGED <<dbVars, redisVars, lc, job, faults>>

\* The head event is lost: the queue was full or the ESL connection dropped.
LoseEvent(ch) ==
    /\ evq[ch] # << >>
    /\ evq' = [evq EXCEPT ![ch] = Tail(@)]
    /\ Fault
    /\ UNCHANGED <<dbVars, redisVars, fs, lc, job>>

(***************************************************************************)
(* Call control API: the command reaches the channel bound to the call.    *)
(***************************************************************************)
\* controlContext and the state check of each operation.
Controllable(c, states, ch) ==
    /\ row[c].state \in states
    /\ binding[c] = ch

Answer(c, ch) ==
    /\ Controllable(c, {"initiating", "ringing"}, ch)
    /\ FsAnswer(ch)

Hangup(c, ch) ==
    /\ Controllable(c, LiveState, ch)
    /\ FsHangup(ch)

Hold(c, ch) ==
    /\ Controllable(c, {"answered", "active"}, ch)
    /\ row[c].media = "active"
    /\ FsHold(ch)

Resume(c, ch) ==
    /\ Controllable(c, {"answered", "active"}, ch)
    /\ row[c].media = "held"
    /\ FsUnhold(ch)

(***************************************************************************)
(* cleanupTerminalAdmission, one remote call per step.                     *)
(***************************************************************************)
\* ListCallCleanupTrunks is not empty.
HasCleanupTrunk(c) ==
    row[c].trunk \/ \E ch \in Channels : attempt[ch].call = c

CleanupStep(pc, c, trunk) ==
    \/ /\ pc = "delete"
       /\ ChannelDelete(c)
       /\ UNCHANGED <<orgLease, trunkLease, marker>>
    \/ /\ pc = "relOrg"
       /\ orgLease' = Released(orgLease, c)
       /\ UNCHANGED <<binding, owner, trunkLease, marker>>
    \/ /\ pc = "relTrunk"
       /\ trunkLease' = IF trunk THEN Released(trunkLease, c) ELSE trunkLease
       /\ UNCHANGED <<binding, owner, orgLease, marker>>
    \/ /\ pc = "finish"
       /\ marker' = marker \ {c}
       /\ UNCHANGED <<binding, owner, orgLease, trunkLease>>

CleanupNext(pc) ==
    CASE pc = "delete" -> "relOrg"
      [] pc = "relOrg" -> "relTrunk"
      [] pc = "relTrunk" -> "finish"

(***************************************************************************)
(* The lifecycle handler of a channel: one event at a time, in order.      *)
(***************************************************************************)
\* The call an event belongs to: its own variable or the stored binding.
Correlated(ch) == IF fs[ch].cid # NoCall THEN fs[ch].cid ELSE owner[ch]

lifecycleAlreadyApplied(r, e) ==
    CASE e = "initiated" -> TRUE
      [] e = "ringing" -> r.state # "initiating"
      [] e = "answered" -> r.state \in {"answered", "active"} \cup TerminalState
      [] e = "active" -> r.state \in {"active"} \cup TerminalState
      [] e = "held" -> r.media = "held" \/ isTerminalState(r.state)
      [] e = "resumed" -> r.media = "active" \/ isTerminalState(r.state)
      [] OTHER -> isTerminalState(r.state)

\* ObserveLifecycle binds the channel before it reads anything.
LcBegin(ch) ==
    /\ lc[ch].pc = "idle"
    /\ evq[ch] # << >>
    /\ evq' = [evq EXCEPT ![ch] = Tail(@)]
    /\ LET e == Head(evq[ch])
           c == Correlated(ch)
       IN  IF c = NoCall
           THEN UNCHANGED <<binding, owner, lc>>
           ELSE /\ lc' = [lc EXCEPT ![ch] = [IdleLc EXCEPT !.pc = "snapshot",
                                                          !.ev = e, !.call = c]]
                /\ IF isTerminalLifecycle(e)
                   THEN UNCHANGED <<binding, owner>>
                   ELSE ChannelBind(c, ch)
    /\ UNCHANGED <<dbVars, orgLease, trunkLease, fs, job, faults>>

\* GetLifecycleSnapshot, MarkOriginationObserved and BindOutboundSIPCallID;
\* a SIP Call-ID conflict aborts the handler.
LcSnapshot(ch) ==
    /\ lc[ch].pc = "snapshot"
    /\ LET c == lc[ch].call
           e == lc[ch].ev
           r == row[c]
           conflict == r.outbound /\ r.sip \notin {NoChannel, ch}
           applied == lifecycleAlreadyApplied(r, e)
           next == IF r.state = "none" \/ conflict THEN "idle"
                   ELSE IF ~isTerminalLifecycle(e) THEN "refreshOrg"
                   ELSE IF applied THEN "delete" ELSE "transition"
       IN  /\ attempt' = IF r.outbound /\ ~isTerminalLifecycle(e)
                         THEN Observe(ch, c) ELSE attempt
           /\ row' = IF r.outbound /\ ~conflict
                     THEN [row EXCEPT ![c].sip = ch] ELSE row
           /\ lc' = [lc EXCEPT ![ch] =
                        IF next = "idle" THEN IdleLc
                        ELSE [@ EXCEPT !.pc = next, !.applied = applied,
                                       !.trunk = IF next = "delete"
                                                 THEN HasCleanupTrunk(c)
                                                 ELSE r.trunk]]
    /\ UNCHANGED <<marker, outbox, redisVars, fsVars, job, faults>>

\* The snapshot, not the current row, decides what is refreshed and applied.
LcRefreshOrg(ch) ==
    /\ lc[ch].pc = "refreshOrg"
    /\ orgLease' = Refreshed(orgLease, lc[ch].call)
    /\ lc' = [lc EXCEPT ![ch] =
                 IF @.trunk THEN [@ EXCEPT !.pc = "refreshTrunk"]
                 ELSE IF @.applied THEN IdleLc
                 ELSE [@ EXCEPT !.pc = "transition"]]
    /\ UNCHANGED <<dbVars, trunkLease, binding, owner, fsVars, job, faults>>

LcRefreshTrunk(ch) ==
    /\ lc[ch].pc = "refreshTrunk"
    /\ trunkLease' = Refreshed(trunkLease, lc[ch].call)
    /\ lc' = [lc EXCEPT ![ch] = IF @.applied THEN IdleLc
                                ELSE [@ EXCEPT !.pc = "transition"]]
    /\ UNCHANGED <<dbVars, orgLease, binding, owner, fsVars, job, faults>>

\* The Mark* call; no row updated is a conflict and ends the handler.
LcTransition(ch) ==
    /\ lc[ch].pc = "transition"
    /\ LET c == lc[ch].call
           e == lc[ch].ev
       IN  \/ /\ mutate(c, e)
              /\ lc' = [lc EXCEPT ![ch] =
                           IF isTerminalLifecycle(e)
                           THEN [@ EXCEPT !.pc = "delete", !.trunk = HasCleanupTrunk(c)]
                           ELSE IdleLc]
           \/ /\ ~CanMark(row[c], e)
              /\ lc' = [lc EXCEPT ![ch] = IdleLc]
              /\ UNCHANGED dbVars
    /\ UNCHANGED <<redisVars, fsVars, job, faults>>

LcCleanup(ch) ==
    /\ lc[ch].pc \in CleanupPc
    /\ CleanupStep(lc[ch].pc, lc[ch].call, lc[ch].trunk)
    /\ lc' = [lc EXCEPT ![ch] = IF @.pc = "finish" THEN IdleLc
                                ELSE [@ EXCEPT !.pc = CleanupNext(lc[ch].pc)]]
    /\ UNCHANGED <<row, attempt, outbox, fsVars, job, faults>>

\* The next remote call fails: the handler returns and the event is gone.
LcFail(ch) ==
    /\ lc[ch].pc # "idle"
    /\ lc' = [lc EXCEPT ![ch] = IdleLc]
    /\ Fault
    /\ UNCHANGED <<dbVars, redisVars, fsVars, job>>

(***************************************************************************)
(* ReconciliationJob.Reconcile: one pass at a time.                        *)
(***************************************************************************)
\* Mutant: ended calls are listed too.
ActiveCallsUnfiltered == {c \in Calls : row[c].state # "none" /\ row[c].trunk}

ActiveCalls == {c \in Calls : row[c].state \in LiveState /\ row[c].trunk}

\* Mutant: only attempts FreeSWITCH acknowledged are inspected.
UnresolvedSubmitted ==
    {ch \in Channels : /\ attempt[ch].status = "submitted"
                       /\ row[attempt[ch].call].state = "initiating"}

UnresolvedOriginations ==
    {ch \in Channels : /\ attempt[ch].status \in Unresolved
                       /\ row[attempt[ch].call].state = "initiating"}

JobListActive ==
    /\ job.pc = "idle"
    /\ job' = [IdleJob EXCEPT !.pc = IF ActiveCalls = {} THEN "originations"
                                     ELSE "refreshTrunk",
                              !.calls = ActiveCalls]
    /\ UNCHANGED <<dbVars, redisVars, fsVars, lc, faults>>

\* Refresh, then RefreshOrganization, of each call listed earlier.
JobRefreshTrunk(c) ==
    /\ job.pc = "refreshTrunk"
    /\ c \in job.calls
    /\ trunkLease' = Refreshed(trunkLease, c)
    /\ job' = [job EXCEPT !.pc = "refreshOrg", !.call = c]
    /\ UNCHANGED <<dbVars, orgLease, binding, owner, fsVars, lc, faults>>

JobRefreshOrg ==
    /\ job.pc = "refreshOrg"
    /\ orgLease' = Refreshed(orgLease, job.call)
    /\ LET rest == job.calls \ {job.call}
       IN  job' = [IdleJob EXCEPT !.pc = IF rest = {} THEN "originations"
                                         ELSE "refreshTrunk",
                                  !.calls = rest]
    /\ UNCHANGED <<dbVars, trunkLease, binding, owner, fsVars, lc, faults>>

JobListOriginations ==
    /\ job.pc = "originations"
    /\ job' = [job EXCEPT !.pc = IF UnresolvedOriginations = {} THEN "cleanups"
                                 ELSE "probe",
                          !.chans = UnresolvedOriginations]
    /\ UNCHANGED <<dbVars, redisVars, fsVars, lc, faults>>

\* The pass after channel ch has been dealt with.
NextProbe(ch) ==
    LET rest == job.chans \ {ch}
    IN  [IdleJob EXCEPT !.pc = IF rest = {} THEN "cleanups" ELSE "probe",
                        !.chans = rest]

\* Mutant: the attempt is marked observed without binding its channel.
JobProbeUnbound(ch) ==
    /\ job.pc = "probe"
    /\ ch \in job.chans
    /\ job' = IF fs[ch].st \in FsLive
              THEN [job EXCEPT !.pc = "observe", !.chan = ch, !.call = attempt[ch].call]
              ELSE NextProbe(ch)
    /\ UNCHANGED <<dbVars, redisVars, fsVars, lc, faults>>

\* ChannelExists: only positive evidence moves an attempt.
JobProbe(ch) ==
    /\ job.pc = "probe"
    /\ ch \in job.chans
    /\ job' = IF fs[ch].st \in FsLive
              THEN [job EXCEPT !.pc = "bind", !.chan = ch, !.call = attempt[ch].call]
              ELSE NextProbe(ch)
    /\ UNCHANGED <<dbVars, redisVars, fsVars, lc, faults>>

JobBind ==
    /\ job.pc = "bind"
    /\ ChannelBind(job.call, job.chan)
    /\ job' = [job EXCEPT !.pc = "observe"]
    /\ UNCHANGED <<dbVars, orgLease, trunkLease, fsVars, lc, faults>>

JobObserve ==
    /\ job.pc = "observe"
    /\ attempt' = Observe(job.chan, job.call)
    /\ job' = NextProbe(job.chan)
    /\ UNCHANGED <<row, marker, outbox, redisVars, fsVars, lc, faults>>

\* Mutant: only calls with an origination attempt are listed.
JobListCleanupDialled ==
    /\ job.pc = "cleanups"
    /\ LET due == {c \in marker : \E ch \in Channels : attempt[ch].call = c}
       IN  job' = [IdleJob EXCEPT !.pc = IF due = {} THEN "idle" ELSE "delete",
                                  !.calls = due]
    /\ UNCHANGED <<dbVars, redisVars, fsVars, lc, faults>>

JobListCleanup ==
    /\ job.pc = "cleanups"
    /\ job' = [IdleJob EXCEPT !.pc = IF marker = {} THEN "idle" ELSE "delete",
                              !.calls = marker]
    /\ UNCHANGED <<dbVars, redisVars, fsVars, lc, faults>>

\* The pass after cleanup item c has been dealt with.
NextCleanup(c) ==
    LET rest == job.calls \ {c}
    IN  [IdleJob EXCEPT !.pc = IF rest = {} THEN "idle" ELSE "delete",
                        !.calls = rest]

JobCleanup(c) ==
    /\ job.pc \in CleanupPc
    /\ c \in job.calls
    /\ job.pc = "delete" \/ c = job.call
    /\ CleanupStep(job.pc, c, job.trunk)
    /\ job' = CASE job.pc = "delete" -> [job EXCEPT !.pc = "relOrg", !.call = c,
                                                   !.trunk = HasCleanupTrunk(c)]
                [] job.pc = "finish" -> NextCleanup(c)
                [] OTHER -> [job EXCEPT !.pc = CleanupNext(@)]
    /\ UNCHANGED <<row, attempt, outbox, fsVars, lc, faults>>

\* A failed call ends the pass; a failed cleanup item is deferred instead.
JobFail ==
    /\ job.pc # "idle"
    /\ \/ job' = IdleJob
       \/ /\ job.pc \in CleanupPc
          /\ \E c \in job.calls : /\ job.pc = "delete" \/ c = job.call
                                 /\ job' = NextCleanup(c)
    /\ Fault
    /\ UNCHANGED <<dbVars, redisVars, fsVars, lc>>

\* The worker restarts: queues, handlers and the pass in memory are lost.
WorkerRestart ==
    /\ evq' = [ch \in Channels |-> << >>]
    /\ lc' = [ch \in Channels |-> IdleLc]
    /\ job' = IdleJob
    /\ Fault
    /\ UNCHANGED <<dbVars, redisVars, fs>>

(***************************************************************************)
(* Groups of actions and the fairness the worker's loops justify.          *)
(***************************************************************************)
FreeSwitch(ch) ==
    \/ FsCreate(ch) \/ FsRefuse(ch) \/ FsRing(ch) \/ FsAnswer(ch)
    \/ FsHold(ch) \/ FsUnhold(ch) \/ FsHangup(ch)

Control(c, ch) == Answer(c, ch) \/ Hangup(c, ch) \/ Hold(c, ch) \/ Resume(c, ch)

Lifecycle(ch) ==
    \/ LcBegin(ch) \/ LcSnapshot(ch) \/ LcRefreshOrg(ch)
    \/ LcRefreshTrunk(ch) \/ LcTransition(ch) \/ LcCleanup(ch)

Reconcile ==
    \/ JobListActive \/ JobRefreshOrg \/ JobListOriginations
    \/ JobBind \/ JobObserve \/ JobListCleanup
    \/ \E c \in Calls : JobRefreshTrunk(c) \/ JobCleanup(c)
    \/ \E ch \in Channels : JobProbe(ch)

Failure ==
    \/ JobFail
    \/ \E ch \in Channels : LoseEvent(ch) \/ LcFail(ch)

(***************************************************************************)
(* What subscribers see of the calls.                                      *)
(***************************************************************************)
Abstract == INSTANCE CallLifecycle WITH
    state <- [c \in Calls |-> row[c].state],
    media <- [c \in Calls |-> row[c].media],
    log <- outbox
=============================================================================
