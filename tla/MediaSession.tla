---------------------------- MODULE MediaSession ----------------------------
(***************************************************************************)
(* The session manager of a media node (media/session/manager.go) and the  *)
(* HTTP handlers that drive it (runtime/media/handler.go).                 *)
(*                                                                         *)
(* A managedSession is finished by whoever comes first: its attachment     *)
(* timer, the end of its audio pump, a DELETE request, a stop command on   *)
(* its control socket, or the drain of the node. Each of them is a thread  *)
(* of its own for every session object; the fields guarded by one mutex    *)
(* change in one step, everything else is a step by itself.                *)
(***************************************************************************)
EXTENDS Naturals, FiniteSets

CONSTANTS
    SessionIds,    \* ids a worker may ask for
    Objects,       \* managedSession values that Start may allocate (bound)
    NoId, NoObject,
    MediaCapacity, \* capacity of the manager
    ToolCalls,     \* tool calls a provider may make
    ControlBuffer, \* length of the control channel and limit of pending calls
    Requests       \* control connections, stop commands and DELETE requests (bound)

ASSUME MediaAssumption ==
    /\ NoId \notin SessionIds /\ NoObject \notin Objects
    /\ MediaCapacity \in Nat \ {0} /\ ControlBuffer \in Nat \ {0}
    /\ Requests \in Nat

VARIABLES
    sessions,   \* Manager.sessions
    object,     \* the managedSession values
    starting,   \* the id whose Start holds m.mu while the provider starts
    thread,     \* where each thread stands in its clean-up
    gone,       \* the request context of a control or DELETE request has ended
    drain,      \* Drain: not begun, waiting for its snapshot, over
    requests    \* requests made so far

mediaVars == <<sessions, object, starting, thread, gone, drain, requests>>

Roles == {"timer", "pump", "control", "delete", "drain"}
ThreadState == {"idle", "pumping", "serving", "expired", "finish", "once", "closing",
                "wait", "complete", "remove"}

Managed == [id: SessionIds \cup {NoId}, timer: BOOLEAN, attached: BOOLEAN,
            finished: BOOLEAN, once: {"new", "running", "done"}, complete: BOOLEAN,
            control: BOOLEAN, told: BOOLEAN, pending: SUBSET ToolCalls,
            buffered: SUBSET ToolCalls, seen: SUBSET ToolCalls]

Unused == [id |-> NoId, timer |-> FALSE, attached |-> FALSE, finished |-> FALSE,
           once |-> "new", complete |-> FALSE, control |-> FALSE, told |-> FALSE,
           pending |-> {}, buffered |-> {}, seen |-> {}]

MediaTypeOK ==
    /\ sessions \in [SessionIds -> Objects \cup {NoObject}]
    /\ object \in [Objects -> Managed]
    /\ starting \in SessionIds \cup {NoId}
    /\ thread \in [Roles \X Objects -> ThreadState]
    /\ gone \in [Roles \X Objects -> BOOLEAN]
    /\ drain \in [state: {"off", "snapshot", "empty", "over", "expired"},
                  left: SUBSET Objects]
    /\ requests \in 0..Requests

MediaInit ==
    /\ sessions = [s \in SessionIds |-> NoObject]
    /\ object = [o \in Objects |-> Unused]
    /\ starting = NoId
    /\ thread = [t \in Roles \X Objects |-> "idle"]
    /\ gone = [t \in Roles \X Objects |-> FALSE]
    /\ drain = [state |-> "off", left |-> {}]
    /\ requests = 0

LiveMedia == {s \in SessionIds : sessions[s] # NoObject}
Draining == drain.state # "off"
Registered(o) == object[o].id # NoId /\ sessions[object[o].id] = o
\* m.mu is free: no Start waits for its provider.
Unlocked == starting = NoId
\* One more request from outside.
ManagerRequest == requests < Requests /\ requests' = requests + 1
GotoThread(r, o, st) == thread' = [thread EXCEPT ![<<r, o>>] = st]

(***************************************************************************)
(* Start                                                                   *)
(***************************************************************************)
\* Start up to the provider: m.mu is taken and kept.
StartSession(s) ==
    /\ Unlocked
    /\ ~Draining
    /\ sessions[s] = NoObject
    /\ Cardinality(LiveMedia) < MediaCapacity
    /\ starting' = s
    /\ UNCHANGED <<sessions, object, thread, gone, drain, requests>>

\* The provider is up: the session is registered and its attachment timer armed.
ProviderStarted(o) ==
    /\ starting # NoId
    /\ object[o] = Unused
    /\ sessions' = [sessions EXCEPT ![starting] = o]
    /\ object' = [object EXCEPT ![o] = [Unused EXCEPT !.id = starting, !.timer = TRUE]]
    /\ starting' = NoId
    /\ UNCHANGED <<thread, gone, drain, requests>>

\* The provider fails or exceeds ProviderStartTimeout.
ProviderFailed ==
    /\ starting # NoId
    /\ starting' = NoId
    /\ UNCHANGED <<sessions, object, thread, gone, drain, requests>>

(***************************************************************************)
(* Events and the control channel                                          *)
(***************************************************************************)
\* publish of a terminal failure: delivered when a control channel is open.
Told(m) == [m EXCEPT !.told = m.told \/ m.control]

\* publish of a tool call succeeds: kept until its result, sent if control is open.
CanPublish(m, t) ==
    /\ t \in m.pending \/ Cardinality(m.pending) < ControlBuffer
    /\ m.control => Cardinality(m.buffered) < ControlBuffer

\* What publish keeps even when it fails on a full channel.
Published(m, t) ==
    [m EXCEPT !.pending = IF t \in @ \/ Cardinality(@) < ControlBuffer THEN @ \cup {t} ELSE @,
              !.buffered = IF m.control /\ CanPublish(m, t) THEN @ \cup {t} ELSE @]

\* A tool call of the provider, which makes each call once. When publish fails the
\* pump ends with ErrControlBackpressure.
ProviderCallsTool(o, t) ==
    /\ thread[<<"pump", o>>] = "pumping"
    /\ ~object[o].finished
    /\ t \notin object[o].pending \cup object[o].seen
    /\ IF CanPublish(object[o], t)
       THEN object' = [object EXCEPT ![o] = Published(@, t)] /\ UNCHANGED thread
       ELSE /\ object' = [object EXCEPT ![o] = Told(Published(@, t))]
            /\ GotoThread("pump", o, "finish")
    /\ UNCHANGED <<sessions, starting, gone, drain, requests>>

\* Mutant: calls that wait for a result are not sent again.
AttachControlFresh(o) ==
    /\ Unlocked /\ Registered(o)
    /\ ManagerRequest
    /\ ~object[o].finished /\ ~object[o].control
    /\ thread[<<"control", o>>] = "idle"
    /\ object' = [object EXCEPT ![o].control = TRUE, ![o].buffered = {}, ![o].seen = {}]
    /\ GotoThread("control", o, "serving")
    /\ UNCHANGED <<sessions, starting, gone, drain>>

\* AttachControl: one at a time; calls still waiting for a result are sent again.
AttachControl(o) ==
    /\ Unlocked /\ Registered(o)
    /\ ManagerRequest
    /\ ~object[o].finished /\ ~object[o].control
    /\ thread[<<"control", o>>] = "idle"
    /\ object' = [object EXCEPT ![o].control = TRUE, ![o].buffered = object[o].pending,
                                ![o].seen = {}]
    /\ GotoThread("control", o, "serving")
    /\ UNCHANGED <<sessions, starting, gone, drain>>

\* The writer of controlSession hands an event to the worker.
ControlWrite(o) ==
    \E t \in object[o].buffered :
       /\ object[o].control
       /\ object' = [object EXCEPT ![o].buffered = @ \ {t}, ![o].seen = @ \cup {t}]
       /\ UNCHANGED <<sessions, starting, thread, gone, drain, requests>>

\* submitToolResult: the provider has the result, the call is no longer pending.
SubmitToolResult(o, t) ==
    /\ thread[<<"control", o>>] = "serving"
    /\ ~object[o].finished
    /\ t \in object[o].seen \cap object[o].pending
    /\ object' = [object EXCEPT ![o].pending = @ \ {t}]
    /\ UNCHANGED <<sessions, starting, thread, gone, drain, requests>>

\* controlSession returns: its channel was closed or its socket was lost. The
\* request context ends with it, also for a stop command that is still running.
ControlReturns(o) ==
    /\ thread[<<"control", o>>] \in {"serving", "finish", "once", "closing", "wait"}
    /\ ~gone[<<"control", o>>]
    /\ object' = [object EXCEPT ![o].control = FALSE, ![o].buffered = {}, ![o].seen = {}]
    /\ IF thread[<<"control", o>>] = "serving"
       THEN GotoThread("control", o, "idle") /\ UNCHANGED gone
       ELSE gone' = [gone EXCEPT ![<<"control", o>>] = TRUE] /\ UNCHANGED thread
    /\ UNCHANGED <<sessions, starting, drain, requests>>

(***************************************************************************)
(* The audio attachment                                                    *)
(***************************************************************************)
\* Attach up to pump: the timer is stopped unless it has fired already.
Attach(o) ==
    /\ Unlocked /\ Registered(o)
    /\ ~object[o].attached /\ ~object[o].finished
    /\ object' = [object EXCEPT ![o].attached = TRUE, ![o].timer = FALSE]
    /\ GotoThread("pump", o, "pumping")
    /\ UNCHANGED <<sessions, starting, gone, drain, requests>>

\* pump returns normally: the session was cancelled or the peer disconnected.
PumpEnds(o) ==
    /\ thread[<<"pump", o>>] = "pumping"
    /\ GotoThread("pump", o, "finish")
    /\ UNCHANGED <<sessions, object, starting, gone, drain, requests>>

\* pump returns a failure (a stalled queue, a timeout, the provider, the transport).
PumpFails(o) ==
    /\ thread[<<"pump", o>>] = "pumping"
    /\ object' = [object EXCEPT ![o] = Told(@)]
    /\ GotoThread("pump", o, "finish")
    /\ UNCHANGED <<sessions, starting, gone, drain, requests>>

(***************************************************************************)
(* Ending a session                                                        *)
(***************************************************************************)
\* finishResources is entered by the first thread only: cancel and closeControl.
Closing(m) == [m EXCEPT !.once = "running", !.control = FALSE, !.buffered = {}, !.seen = {}]

\* The attachment timer fires and publishes the failure before it looks.
TimerFires(o) ==
    /\ object[o].timer
    /\ object' = [object EXCEPT ![o] = [Told(@) EXCEPT !.timer = FALSE]]
    /\ GotoThread("timer", o, "expired")
    /\ UNCHANGED <<sessions, starting, gone, drain, requests>>

\* Mutant: the timer does not look whether audio has arrived.
CanExpireAlways(m) == ~m.finished

\* The guard of finishUnattached.
CanExpire(m) == ~m.finished /\ ~m.attached

\* finishUnattached, and finishResources if it applies.
FinishUnattached(o) ==
    /\ thread[<<"timer", o>>] = "expired"
    /\ IF CanExpire(object[o])
       THEN /\ object' = [object EXCEPT ![o] = Closing([@ EXCEPT !.finished = TRUE])]
            /\ GotoThread("timer", o, "closing")
       ELSE GotoThread("timer", o, "idle") /\ UNCHANGED object
    /\ UNCHANGED <<sessions, starting, gone, drain, requests>>

\* A DELETE request or a stop command: Stop looks the session up.
StopSession(r, o) ==
    /\ Unlocked /\ Registered(o)
    /\ ManagerRequest
    /\ \/ r = "delete" /\ thread[<<r, o>>] = "idle"
       \/ r = "control" /\ thread[<<r, o>>] = "serving"
    /\ GotoThread(r, o, "finish")
    /\ UNCHANGED <<sessions, object, starting, gone, drain>>

\* finish: the session is finished, and finishResources is entered.
FinishMedia(r, o) ==
    /\ thread[<<r, o>>] = "finish"
    /\ LET m == [object[o] EXCEPT !.finished = TRUE, !.timer = FALSE] IN
       IF m.once = "new"
       THEN object' = [object EXCEPT ![o] = Closing(m)] /\ GotoThread(r, o, "closing")
       ELSE object' = [object EXCEPT ![o] = m] /\ GotoThread(r, o, "once")
    /\ UNCHANGED <<sessions, starting, gone, drain, requests>>

\* What a thread does once finishResources has returned.
AfterFinish(r) == CASE r = "timer" -> "remove"
                    [] r = "pump" -> "complete"
                    [] r = "drain" -> "idle"
                    [] OTHER -> "wait"

\* Stream and connection are closed; without audio the session is complete. The
\* local variable attached is the field: it is frozen once finished is set.
ResourcesClosed(r, o) ==
    /\ thread[<<r, o>>] = "closing"
    /\ object' = [object EXCEPT ![o].once = "done",
                                ![o].complete = @ \/ r = "timer" \/ ~object[o].attached]
    /\ GotoThread(r, o, AfterFinish(r))
    /\ UNCHANGED <<sessions, starting, gone, drain, requests>>

\* Every other thread waits in sync.Once until the first one is through.
SkipResources(r, o) ==
    /\ thread[<<r, o>>] = "once"
    /\ object[o].once = "done"
    /\ GotoThread(r, o, AfterFinish(r))
    /\ UNCHANGED <<sessions, object, starting, gone, drain, requests>>

\* markComplete of Attach.
MarkComplete(o) ==
    /\ thread[<<"pump", o>>] = "complete"
    /\ object' = [object EXCEPT ![o].complete = TRUE]
    /\ GotoThread("pump", o, "remove")
    /\ UNCHANGED <<sessions, starting, gone, drain, requests>>

\* The select of Stop: complete, or the end of the request; both may be ready.
StopWaits(r, o) ==
    /\ thread[<<r, o>>] = "wait"
    /\ \/ object[o].complete /\ GotoThread(r, o, "remove")
       \/ gone[<<r, o>>] /\ GotoThread(r, o, "idle")
    /\ gone' = [gone EXCEPT ![<<r, o>>] = FALSE]
    /\ UNCHANGED <<sessions, object, starting, drain, requests>>

\* The client of a DELETE request gives up.
DeleteGone(o) ==
    /\ thread[<<"delete", o>>] \in {"finish", "once", "closing", "wait"}
    /\ ~gone[<<"delete", o>>]
    /\ gone' = [gone EXCEPT ![<<"delete", o>>] = TRUE]
    /\ UNCHANGED <<sessions, object, starting, thread, drain, requests>>

\* remove: only if the map still holds this very session.
WithoutSession(o) ==
    [s \in SessionIds |-> IF sessions[s] = o THEN NoObject ELSE sessions[s]]

RemoveSession(r, o) ==
    /\ thread[<<r, o>>] = "remove"
    /\ Unlocked
    /\ sessions' = WithoutSession(o)
    /\ GotoThread(r, o, "idle")
    /\ UNCHANGED <<object, starting, gone, drain, requests>>

(***************************************************************************)
(* Drain                                                                   *)
(***************************************************************************)
\* Mutant: the snapshot keeps the free places.
DrainSnapshotAll == {sessions[s] : s \in SessionIds}
\* The sessions that Drain finishes and waits for.
DrainSnapshot == {sessions[s] : s \in LiveMedia}

\* Mutant: Drain waits for its sessions but does not finish them.
DrainGoroutinesNone == {}
\* go managed.finish() for each of them.
DrainGoroutines == {<<"drain", o>> : o \in DrainSnapshot}

\* Drain refuses new sessions and finishes those of its snapshot.
NodeDrains ==
    /\ Unlocked
    /\ ~Draining
    /\ drain' = [state |-> "snapshot", left |-> DrainSnapshot]
    /\ thread' = [t \in Roles \X Objects |-> IF t \in DrainGoroutines THEN "finish" ELSE thread[t]]
    /\ UNCHANGED <<sessions, object, starting, gone, requests>>

\* A session of the snapshot is complete and is removed.
DrainRemoves ==
    /\ drain.state = "snapshot" /\ Unlocked
    /\ \/ drain.left = {} /\ drain' = [drain EXCEPT !.state = "empty"] /\ UNCHANGED sessions
       \/ \E o \in drain.left :
             /\ object[o].complete
             /\ sessions' = WithoutSession(o)
             /\ drain' = [drain EXCEPT !.left = @ \ {o}]
    /\ UNCHANGED <<object, starting, thread, gone, requests>>

\* The last loop of Drain ends when the map is empty.
DrainEmpty ==
    /\ drain.state = "empty" /\ Unlocked
    /\ LiveMedia = {}
    /\ drain' = [drain EXCEPT !.state = "over"]
    /\ UNCHANGED <<sessions, object, starting, thread, gone, requests>>

\* DrainTimeout ends the wait.
DrainExpires ==
    /\ drain.state \in {"snapshot", "empty"}
    /\ drain' = [drain EXCEPT !.state = "expired"]
    /\ UNCHANGED <<sessions, object, starting, thread, gone, requests>>

(***************************************************************************)
(* Specification                                                           *)
(***************************************************************************)
\* The clean-up steps of a thread.
CleanUp(r, o) ==
    \/ FinishMedia(r, o) \/ ResourcesClosed(r, o)
    \/ SkipResources(r, o) \/ StopWaits(r, o) \/ RemoveSession(r, o)

MediaNext ==
    \/ \E s \in SessionIds : StartSession(s)
    \/ ProviderFailed
    \/ \E o \in Objects :
          \/ ProviderStarted(o) \/ AttachControl(o) \/ ControlWrite(o) \/ ControlReturns(o)
          \/ Attach(o) \/ PumpEnds(o) \/ PumpFails(o)
          \/ TimerFires(o) \/ FinishUnattached(o) \/ MarkComplete(o) \/ DeleteGone(o)
          \/ \E t \in ToolCalls : ProviderCallsTool(o, t) \/ SubmitToolResult(o, t)
          \/ \E r \in {"control", "delete"} : StopSession(r, o)
          \/ \E r \in Roles : CleanUp(r, o)
    \/ NodeDrains \/ DrainRemoves \/ DrainEmpty \/ DrainExpires

MediaSpec == MediaInit /\ [][MediaNext]_mediaVars

\* What the node does by itself: a provider that was started answers or times out,
\* timers fire, the pump of a cancelled session returns, goroutines run.
ManagerStep ==
    \/ ProviderFailed
    \/ \E o \in Objects :
          \/ ProviderStarted(o) \/ TimerFires(o) \/ FinishUnattached(o) \/ MarkComplete(o)
          \/ object[o].once = "done" /\ PumpEnds(o)
          \/ \E r \in Roles : CleanUp(r, o)
    \/ DrainRemoves \/ DrainEmpty

\* The node keeps running; peers, clients and the timeout of Drain owe nothing.
MediaFairness == WF_mediaVars(ManagerStep)

MediaFairSpec == MediaSpec /\ MediaFairness

(***************************************************************************)
(* Properties                                                              *)
(***************************************************************************)
\* The capacity of a session is given to another one only after everything it
\* held was closed: whichever thread removed it (Manager.remove), the provider
\* stream and the connection are closed and its audio pump has returned.
RemovedIsReleased ==
    \A o \in Objects :
       object[o].id # NoId /\ ~Registered(o) =>
          /\ object[o].complete /\ object[o].once = "done"
          /\ thread[<<"pump", o>>] # "pumping"

\* While audio runs, a worker that holds the control channel has been sent every
\* tool call that still waits for its result, also when it reconnected (AttachControl).
ToolCallsReachControl ==
    \A o \in Objects :
       object[o].control /\ ~object[o].finished /\ thread[<<"pump", o>>] = "pumping" =>
          object[o].pending \subseteq object[o].buffered \cup object[o].seen

\* What the manager promises of capacity and of the control channel.
MediaSound == RemovedIsReleased /\ ToolCallsReachControl

\* Attachment and timeout exclude each other: a session is never finished by its
\* attachment timer while audio is attached.
TimeoutSparesAttached ==
    [][\A o \in Objects :
          object[o].attached /\ ~object[o].finished /\ object'[o].finished =>
             \E r \in Roles \ {"timer"} : thread[<<r, o>>] = "finish"]_mediaVars

\* Finished sessions that are not complete: no order of timer, pump, stop and drain leaves a
\* thread waiting for another one (sync.Once, the complete channel).
UncompletedObjects == {o \in Objects : object[o].finished /\ ~object[o].complete}

\* The node drains and still has sessions, before the timeout of Drain.
DrainWaits == Draining /\ LiveMedia # {} /\ drain.state # "expired"
=============================================================================
