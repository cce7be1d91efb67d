------------------------------ MODULE MediaNodes ------------------------------
(***************************************************************************)
(* The registry of media nodes in Redis (runtime/medianodes/registry.go    *)
(* with the scripts of integrations/redis/media.go), the heartbeat and the *)
(* drain of a node (runtime/media/registry.go), and the workers that place *)
(* and release sessions on the nodes (runtime/agent/placement.go).         *)
(*                                                                         *)
(* A script is one step, every other Redis command is a step of its own.   *)
(* A key of a node that beats does not expire; a node that is down or      *)
(* stalled for longer than a TTL may lose its keys and leases.             *)
(***************************************************************************)
EXTENDS Naturals, Sequences, FiniteSets

CONSTANTS
    MediaNodeIds,  \* nodes, as numbers: Place breaks ties by id
    PlacedIds,     \* voice agent sessions to place
    Placers,       \* worker processes
    NodeCapacity,  \* Capacity of every node
    NodeFaults,    \* drains, stalls, crashes and lost answers (bound)
    PlacerJobs,    \* placements and releases (bound)
    NodeEvents     \* both together (bound)

ASSUME MediaNodesAssumption ==
    /\ MediaNodeIds \subseteq Nat \ {0} /\ IsFiniteSet(MediaNodeIds)
    /\ NodeCapacity \in Nat \ {0}
    /\ NodeFaults \in Nat /\ PlacerJobs \in Nat /\ NodeEvents \in Nat

NoNode == 0

VARIABLES
    nodeKey,     \* runtime:media:node:<n>: absent, or its JSON's draining flag
    drainingKey, \* runtime:media:draining:<n> exists
    leases,      \* members of runtime:media:leases:<n>
    owner,       \* runtime:media:session:<s>
    node,        \* the media runtime process of each node
    placer,      \* what each worker is doing
    sessionNodes,\* Runtime.sessionNodes of each worker
    nodeFaults, placerJobs

redisVars == <<nodeKey, drainingKey, leases, owner>>
mediaNodesVars == <<redisVars, node, placer, sessionNodes, nodeFaults, placerJobs>>

Process == [up: BOOLEAN, stalled: BOOLEAN, draining: BOOLEAN, hosted: SUBSET PlacedIds,
            beat: {"idle", "json", "key"}, beatDraining: BOOLEAN,
            drain: {"no", "json", "key", "drained", "closed"},
            undone: BOOLEAN]  \* a stall or an older heartbeat may undo the drain's keys

Job == [at: {"idle", "place", "create", "stop", "get", "release"},
        s: PlacedIds \cup {NoNode}, n: MediaNodeIds \cup {NoNode},
        snap: Seq(MediaNodeIds)]

MediaNodesTypeOK ==
    /\ nodeKey \in [MediaNodeIds -> {"none", "ready", "draining"}]
    /\ drainingKey \in [MediaNodeIds -> BOOLEAN]
    /\ leases \in [MediaNodeIds -> SUBSET PlacedIds]
    /\ owner \in [PlacedIds -> MediaNodeIds \cup {NoNode}]
    /\ node \in [MediaNodeIds -> Process]
    /\ placer \in [Placers -> Job]
    /\ sessionNodes \in [Placers -> [PlacedIds -> MediaNodeIds \cup {NoNode}]]
    /\ nodeFaults \in 0..NodeFaults /\ placerJobs \in 0..PlacerJobs

NoJob == [at |-> "idle", s |-> NoNode, n |-> NoNode, snap |-> <<>>]

\* startNodeRegistration beats once before it returns: the nodes are registered.
MediaNodesInit ==
    /\ nodeKey = [n \in MediaNodeIds |-> "ready"]
    /\ drainingKey = [n \in MediaNodeIds |-> FALSE]
    /\ leases = [n \in MediaNodeIds |-> {}]
    /\ owner = [s \in PlacedIds |-> NoNode]
    /\ node = [n \in MediaNodeIds |->
                [up |-> TRUE, stalled |-> FALSE, draining |-> FALSE, hosted |-> {},
                 beat |-> "idle", beatDraining |-> FALSE, drain |-> "no", undone |-> FALSE]]
    /\ placer = [w \in Placers |-> NoJob]
    /\ sessionNodes = [w \in Placers |-> [s \in PlacedIds |-> NoNode]]
    /\ nodeFaults = 0 /\ placerJobs = 0

WithinBounds == nodeFaults + placerJobs < NodeEvents
NodeFault == WithinBounds /\ nodeFaults < NodeFaults /\ nodeFaults' = nodeFaults + 1

(***************************************************************************)
(* The scripts                                                             *)
(***************************************************************************)
\* Mutant: capacity is compared with > instead of >=.
AcquireResultLate(n, s) ==
    CASE nodeKey[n] = "none" -> "missing"
      [] nodeKey[n] # "none" /\ drainingKey[n] -> "draining"
      [] nodeKey[n] # "none" /\ ~drainingKey[n] /\ owner[s] \notin {n, NoNode} -> "owned"
      [] OTHER -> IF owner[s] = NoNode /\ Cardinality(leases[n]) > NodeCapacity
                  THEN "capacity" ELSE "ok"

\* What AcquireMediaLease answers for session s on node n.
AcquireResult(n, s) ==
    CASE nodeKey[n] = "none" -> "missing"
      [] nodeKey[n] # "none" /\ drainingKey[n] -> "draining"
      [] nodeKey[n] # "none" /\ ~drainingKey[n] /\ owner[s] \notin {n, NoNode} -> "owned"
      [] OTHER -> IF owner[s] = NoNode /\ Cardinality(leases[n]) >= NodeCapacity
                  THEN "capacity" ELSE "ok"

\* AcquireMediaLease on "ok": the member is added, the owner is set or prolonged.
AcquireMediaLease(n, s) ==
    /\ leases' = [leases EXCEPT ![n] = @ \cup {s}]
    /\ owner' = [owner EXCEPT ![s] = n]

\* ReleaseMediaLease: the member goes, the owner only when it is still this node.
ReleaseMediaLease(n, s) ==
    /\ leases' = [leases EXCEPT ![n] = @ \ {s}]
    /\ owner' = [owner EXCEPT ![s] = IF @ = n THEN NoNode ELSE @]

\* RefreshMediaLease prolongs the lease of s on n: the node beats and hosts s.
Refreshed(n, s) ==
    node[n].up /\ ~node[n].stalled /\ nodeKey[n] # "none" /\ s \in node[n].hosted

(***************************************************************************)
(* The node: heartbeat, drain, faults                                      *)
(***************************************************************************)
\* Nothing else of the node changes.
OnlyNode == UNCHANGED <<leases, owner, placer, sessionNodes, placerJobs>>

\* What a heartbeat that starts now leaves in Redis is there already: a stuttering step.
BeatIsIdle(n) ==
    /\ drainingKey[n] = node[n].draining
    /\ nodeKey[n] = (IF node[n].draining THEN "draining" ELSE "ready")

\* heartbeat reads the draining flag and goes to Heartbeat.
HeartbeatLoad(n) ==
    /\ node[n].up /\ ~node[n].stalled /\ node[n].beat = "idle" /\ ~BeatIsIdle(n)
    /\ node' = [node EXCEPT ![n].beat = "json", ![n].beatDraining = node[n].draining]
    /\ UNCHANGED <<nodeKey, drainingKey, nodeFaults>> /\ OnlyNode

\* Heartbeat, its SetJSON.
HeartbeatNode(n) ==
    /\ node[n].beat = "json" /\ ~node[n].stalled
    /\ nodeKey' = [nodeKey EXCEPT ![n] = IF node[n].beatDraining THEN "draining" ELSE "ready"]
    /\ node' = [node EXCEPT ![n].beat = "key"]
    /\ UNCHANGED <<drainingKey, nodeFaults>> /\ OnlyNode

\* Heartbeat sets or deletes the draining key. The Refresh of every hosted session that
\* follows leaves its lease as it is: see Refreshed.
HeartbeatDraining(n) ==
    /\ node[n].beat = "key" /\ ~node[n].stalled
    /\ drainingKey' = [drainingKey EXCEPT ![n] = node[n].beatDraining]
    /\ node' = [node EXCEPT ![n].beat = "idle", ![n].beatDraining = FALSE,
                           ![n].undone = @ /\ ~node[n].beatDraining]
    /\ UNCHANGED <<nodeKey, nodeFaults>> /\ OnlyNode

\* Shutdown begins: handler.draining and registration.draining are stored. It may find the
\* ticker at any point of a heartbeat that has read draining = false.
BeginDrain(n) ==
    /\ node[n].up /\ node[n].drain = "no" /\ NodeFault
    /\ \E phase \in {"idle", "json", "key"} :
           /\ node[n].beat \in {"idle", phase}
           /\ node' = [node EXCEPT ![n].draining = TRUE, ![n].drain = "json",
                                  ![n].beat = phase,
                                  ![n].undone = phase # "idle" \/ node[n].stalled]
    /\ UNCHANGED <<nodeKey, drainingKey>> /\ OnlyNode

\* The heartbeat of beginDrain, in two steps.
DrainHeartbeatNode(n) ==
    /\ node[n].drain = "json" /\ ~node[n].stalled
    /\ nodeKey' = [nodeKey EXCEPT ![n] = "draining"]
    /\ node' = [node EXCEPT ![n].drain = "key"]
    /\ UNCHANGED <<drainingKey, nodeFaults>> /\ OnlyNode

DrainHeartbeatDraining(n) ==
    /\ node[n].drain = "key" /\ ~node[n].stalled
    /\ drainingKey' = [drainingKey EXCEPT ![n] = TRUE]
    /\ node' = [node EXCEPT ![n].drain = "drained"]
    /\ UNCHANGED <<nodeKey, nodeFaults>> /\ OnlyNode

\* Redis cannot be reached: what is left of a heartbeat is not written, and its error is
\* logged or dropped. The drain goes on without having been published.
HeartbeatLost(n) ==
    /\ node[n].stalled
    /\ \/ /\ node[n].beat # "idle"
          /\ node' = [node EXCEPT ![n].beat = "idle", ![n].beatDraining = FALSE]
       \/ /\ node[n].drain \in {"json", "key"}
          /\ node' = [node EXCEPT ![n].drain = "drained"]
    /\ UNCHANGED <<nodeKey, drainingKey, nodeFaults>> /\ OnlyNode

\* close, once Drain and Shutdown are over: the ticker has stopped, the keys go unless
\* Redis cannot be reached.
RemoveNode(n) ==
    /\ node[n].drain = "drained" /\ node[n].beat = "idle"
    /\ IF node[n].stalled THEN UNCHANGED <<nodeKey, drainingKey>>
       ELSE /\ nodeKey' = [nodeKey EXCEPT ![n] = "none"]
            /\ drainingKey' = [drainingKey EXCEPT ![n] = FALSE]
    /\ node' = [node EXCEPT ![n].up = FALSE, ![n].hosted = {}, ![n].drain = "closed"]
    /\ UNCHANGED nodeFaults /\ OnlyNode

\* A session ends on its node: call over, attachment timeout, provider failure, drain.
HostedEnds(n, s) ==
    /\ s \in node[n].hosted
    /\ node' = [node EXCEPT ![n].hosted = @ \ {s}]
    /\ UNCHANGED <<nodeKey, drainingKey, nodeFaults>> /\ OnlyNode

\* The node process dies, or cannot reach Redis for longer than a TTL.
NodeCrashes(n) ==
    /\ node[n].up /\ NodeFault
    /\ node' = [node EXCEPT ![n] = [@ EXCEPT !.up = FALSE, !.stalled = FALSE, !.hosted = {},
                                            !.beat = "idle", !.beatDraining = FALSE,
                                            !.drain = "closed",
                                            !.undone = FALSE]]
    /\ UNCHANGED <<nodeKey, drainingKey>> /\ OnlyNode

NodeStalls(n) ==
    /\ node[n].up /\ ~node[n].stalled /\ NodeFault
    /\ node' = [node EXCEPT ![n].stalled = TRUE, ![n].undone = node[n].draining]
    /\ UNCHANGED <<nodeKey, drainingKey>> /\ OnlyNode

NodeResumes(n) ==
    /\ node[n].stalled
    /\ node' = [node EXCEPT ![n].stalled = FALSE]
    /\ UNCHANGED <<nodeKey, drainingKey, nodeFaults>> /\ OnlyNode

\* heartbeatTTL runs out for the node key, then for the draining key.
NodeKeyExpires(n) ==
    /\ nodeKey[n] # "none" /\ (~node[n].up \/ node[n].stalled)
    /\ nodeKey' = [nodeKey EXCEPT ![n] = "none"]
    /\ UNCHANGED <<drainingKey, node, nodeFaults>> /\ OnlyNode

DrainingKeyExpires(n) ==
    /\ drainingKey[n] /\ nodeKey[n] = "none" /\ (~node[n].up \/ node[n].stalled)
    /\ drainingKey' = [drainingKey EXCEPT ![n] = FALSE]
    /\ UNCHANGED <<nodeKey, node, nodeFaults>> /\ OnlyNode

\* leaseTTL runs out: member and owner were prolonged together and go together. No
\* worker is still creating the session: its request timeout is shorter.
LeaseExpires(s) ==
    /\ owner[s] # NoNode /\ ~Refreshed(owner[s], s)
    /\ \A w \in Placers : ~(placer[w].at = "create" /\ placer[w].s = s)
    /\ leases' = [leases EXCEPT ![owner[s]] = @ \ {s}]
    /\ owner' = [owner EXCEPT ![s] = NoNode]
    /\ UNCHANGED <<nodeKey, drainingKey, node, placer, sessionNodes, nodeFaults, placerJobs>>

(***************************************************************************)
(* The workers                                                             *)
(***************************************************************************)
OnlyPlacer == UNCHANGED <<nodeKey, drainingKey>>
PlacerJob(w) ==
    /\ placer[w].at = "idle"
    /\ WithinBounds /\ placerJobs < PlacerJobs /\ placerJobs' = placerJobs + 1
Become(w, job) == placer' = [placer EXCEPT ![w] = job]

FreeSlots(n) == NodeCapacity - Cardinality(leases[n])

\* Nodes that are not draining and have room, and the order in which Place tries them: freest
\* first, then by id.
Candidates == {n \in MediaNodeIds : /\ nodeKey[n] = "ready" /\ ~drainingKey[n]
                                    /\ Cardinality(leases[n]) < NodeCapacity}

Before(m, n) == FreeSlots(m) > FreeSlots(n) \/ (FreeSlots(m) = FreeSlots(n) /\ m < n)

PlacementOrder(list) ==
    \A i, j \in DOMAIN list : i < j => Before(list[i], list[j])

\* createMediaSession calls Place, which lists the nodes.
StartPlacement(w, s) ==
    /\ PlacerJob(w)
    /\ \E list \in [1..Cardinality(Candidates) -> Candidates] :
           /\ PlacementOrder(list)
           /\ Become(w, [NoJob EXCEPT !.at = "place", !.s = s, !.snap = list])
    /\ UNCHANGED <<leases, owner, node, sessionNodes, nodeFaults>> /\ OnlyPlacer

\* Place tries the next node of its list.
PlaceOnNext(w) ==
    LET job == placer[w] IN
    /\ job.at = "place" /\ job.snap # <<>>
    /\ IF AcquireResult(Head(job.snap), job.s) = "ok"
       THEN /\ AcquireMediaLease(Head(job.snap), job.s)
            /\ Become(w, [job EXCEPT !.at = "create", !.n = Head(job.snap), !.snap = <<>>])
       ELSE /\ Become(w, [job EXCEPT !.snap = Tail(@)])
            /\ UNCHANGED <<leases, owner>>
    /\ UNCHANGED <<node, sessionNodes, nodeFaults, placerJobs>> /\ OnlyPlacer

\* No node is left: placement fails.
PlacementFails(w) ==
    /\ placer[w].at = "place" /\ placer[w].snap = <<>>
    /\ Become(w, NoJob)
    /\ UNCHANGED <<leases, owner, node, sessionNodes, nodeFaults, placerJobs>> /\ OnlyPlacer

\* The node starts a session: it is up, not draining, has room, and does not run it yet.
Accepts(n, s) ==
    /\ node[n].up /\ ~node[n].draining
    /\ s \notin node[n].hosted /\ Cardinality(node[n].hosted) < NodeCapacity

\* CreateSessionAt succeeds and the node is remembered.
CreateSucceeds(w) ==
    LET job == placer[w] IN
    /\ job.at = "create" /\ Accepts(job.n, job.s)
    /\ node' = [node EXCEPT ![job.n].hosted = @ \cup {job.s}]
    /\ sessionNodes' = [sessionNodes EXCEPT ![w][job.s] = job.n]
    /\ Become(w, NoJob)
    /\ UNCHANGED <<leases, owner, nodeFaults, placerJobs>> /\ OnlyPlacer

\* CreateSessionAt fails: the node refuses, or its answer is lost. The lease is released.
CreateFails(w) ==
    LET job == placer[w] IN
    /\ job.at = "create"
    /\ \/ ~Accepts(job.n, job.s) /\ UNCHANGED <<node, nodeFaults>>
       \/ /\ Accepts(job.n, job.s) /\ NodeFault
          /\ node' = [node EXCEPT ![job.n].hosted = @ \cup {job.s}]
    /\ Become(w, [job EXCEPT !.at = "get", !.n = NoNode])
    /\ UNCHANGED <<leases, owner, sessionNodes, placerJobs>> /\ OnlyPlacer

\* stopMediaSession: mediaNode takes the node from memory, or asks Owner, which also
\* needs the node key.
StartStop(w, s) ==
    /\ PlacerJob(w)
    /\ LET known == sessionNodes[w][s]
           asked == IF owner[s] # NoNode /\ nodeKey[owner[s]] # "none" THEN owner[s]
                    ELSE NoNode
       IN Become(w, [NoJob EXCEPT !.at = "stop", !.s = s,
                                  !.n = IF known # NoNode THEN known ELSE asked])
    /\ UNCHANGED <<leases, owner, node, sessionNodes, nodeFaults>> /\ OnlyPlacer

\* The session is stopped at that node when it is there, and forgotten.
StopAtNode(w) ==
    LET job == placer[w] IN
    /\ job.at = "stop"
    /\ node' = IF job.n # NoNode /\ node[job.n].up
               THEN [node EXCEPT ![job.n].hosted = @ \ {job.s}] ELSE node
    /\ sessionNodes' = [sessionNodes EXCEPT ![w][job.s] = NoNode]
    /\ Become(w, [job EXCEPT !.at = "get", !.n = NoNode])
    /\ UNCHANGED <<leases, owner, nodeFaults, placerJobs>> /\ OnlyPlacer

\* Release reads the owner.
ReleaseGet(w) ==
    LET job == placer[w] IN
    /\ job.at = "get"
    /\ Become(w, IF owner[job.s] = NoNode THEN NoJob
                 ELSE [job EXCEPT !.at = "release", !.n = owner[job.s]])
    /\ UNCHANGED <<leases, owner, node, sessionNodes, nodeFaults, placerJobs>> /\ OnlyPlacer

\* Release removes the lease from the node it has read.
ReleaseLease(w) ==
    /\ placer[w].at = "release"
    /\ ReleaseMediaLease(placer[w].n, placer[w].s)
    /\ Become(w, NoJob)
    /\ UNCHANGED <<node, sessionNodes, nodeFaults, placerJobs>> /\ OnlyPlacer

\* A worker process dies and starts again with nothing in memory.
PlacerCrashes(w) ==
    /\ NodeFault
    /\ placer[w].at # "idle" \/ \E s \in PlacedIds : sessionNodes[w][s] # NoNode
    /\ Become(w, NoJob)
    /\ sessionNodes' = [sessionNodes EXCEPT ![w] = [s \in PlacedIds |-> NoNode]]
    /\ UNCHANGED <<leases, owner, node, placerJobs>> /\ OnlyPlacer

(***************************************************************************)
(* Specification                                                           *)
(***************************************************************************)
PlacerStep(w) ==
    \/ PlaceOnNext(w) \/ PlacementFails(w) \/ CreateSucceeds(w) \/ CreateFails(w)
    \/ StopAtNode(w) \/ ReleaseGet(w) \/ ReleaseLease(w)

NodeStep(n) ==
    \/ HeartbeatLoad(n) \/ HeartbeatNode(n) \/ HeartbeatDraining(n) \/ HeartbeatLost(n)
    \/ DrainHeartbeatNode(n) \/ DrainHeartbeatDraining(n) \/ RemoveNode(n)
    \/ NodeKeyExpires(n) \/ DrainingKeyExpires(n)

NodeEnvironment(n) ==
    \/ BeginDrain(n) \/ NodeCrashes(n) \/ NodeStalls(n) \/ NodeResumes(n)
    \/ \E s \in PlacedIds : HostedEnds(n, s)

PlacerEnvironment(w) ==
    \/ PlacerCrashes(w)
    \/ \E s \in PlacedIds : StartPlacement(w, s) \/ StartStop(w, s)

MediaNodesNext ==
    \/ \E n \in MediaNodeIds : NodeStep(n) \/ NodeEnvironment(n)
    \/ \E w \in Placers : PlacerStep(w) \/ PlacerEnvironment(w)
    \/ \E s \in PlacedIds : LeaseExpires(s)

MediaNodesSpec == MediaNodesInit /\ [][MediaNodesNext]_mediaNodesVars

\* Processes that are up go on, and Redis removes keys whose TTL has run out.
MediaNodesSystem ==
    \/ \E n \in MediaNodeIds : NodeStep(n)
    \/ \E w \in Placers : PlacerStep(w)
    \/ \E s \in PlacedIds : LeaseExpires(s)

MediaNodesFairness == WF_mediaNodesVars(MediaNodesSystem)

(***************************************************************************)
(* Properties                                                              *)
(***************************************************************************)
\* A session is a member of the leases of exactly the node that its owner key names,
\* whatever releases, replays and expiries interleave: no node counts a session that
\* another one owns (AcquireMediaLease, ReleaseMediaLease, Release).
LeaseMatchesOwner ==
    \A n \in MediaNodeIds, s \in PlacedIds : s \in leases[n] <=> owner[s] = n

\* No node is promised to more sessions than it announced room for, although Place reads
\* the counts before it acquires (Place, AcquireMediaLease).
PlacedWithinCapacity == \A n \in MediaNodeIds : Cardinality(leases[n]) <= NodeCapacity

\* The drain of n is published and neither a stall nor a heartbeat that did not know of it
\* has come in between.
DrainSettled(n) == node[n].drain = "drained" /\ ~node[n].undone

\* Once its drain is published for good, no session is placed on the node, even by a worker
\* that listed it before (beginDrain, heartbeat, AcquireMediaLease).
DrainedIsNotChosen ==
    [][\A n \in MediaNodeIds, s \in PlacedIds :
           DrainSettled(n) /\ s \notin leases[n] => s \notin leases'[n]]_mediaNodesVars

\* What a worker may rely on when it places a session.
PlacementSound == [](LeaseMatchesOwner /\ PlacedWithinCapacity) /\ DrainedIsNotChosen

\* Leases of sessions that their node does not run. They are given back in the end, by a release
\* or by the TTL, even when the worker or the node died (leaseTTL, RefreshMediaLease).
AbandonedLeases == {s \in PlacedIds : owner[s] # NoNode /\ s \notin node[owner[s]].hosted}
=============================================================================
