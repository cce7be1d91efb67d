---------------------------- MODULE MediaProofs -----------------------------
(***************************************************************************)
(* Proofs about the media nodes, for any number of nodes, sessions,        *)
(* workers, faults and jobs. Leases and owners agree, no node is promised  *)
(* beyond its capacity, and a published drain is respected (MediaNodes). A *)
(* session is released before its place is given away, and its timer and   *)
(* its audio exclude each other (MediaSession). The engine of a session    *)
(* serves its current response, in order (VoiceEngine).                    *)
(***************************************************************************)
EXTENDS MediaNodes, MediaSession, VoiceEngine, Integers, FiniteSetTheorems, TLAPS

(***************************************************************************)
(* Nodes and leases: the inductive invariant                               *)
(***************************************************************************)
\* Members of the lease sets can be counted.
LeasesAreFinite == \A n \in MediaNodeIds : IsFiniteSet(leases[n])

\* A worker that is doing something does it for a session; one that creates or releases knows
\* the node.
JobIsReal(job) ==
    /\ job.at # "idle" => job.s \in PlacedIds
    /\ job.at \in {"create", "release"} => job.n \in MediaNodeIds

JobsAreReal == \A w \in Placers : JobIsReal(placer[w])

\* A process p that drains, and its draining key: without a stall or an older heartbeat in the
\* way, no heartbeat that denies the drain is under way, and the key is there once it was set.
DrainHolds(p, key) ==
    /\ p.drain \in {"json", "key", "drained"} => p.draining /\ p.up
    /\ p.draining /\ ~p.undone => ~p.stalled /\ (p.beat # "idle" => p.beatDraining)
    /\ p.drain = "drained" /\ ~p.undone => key

DrainsHold == \A n \in MediaNodeIds : DrainHolds(node[n], drainingKey[n])

NodesInv ==
    /\ MediaNodesTypeOK /\ JobsAreReal /\ DrainsHold
    /\ LeasesAreFinite /\ LeaseMatchesOwner /\ PlacedWithinCapacity

(***************************************************************************)
(* Steps of a node                                                         *)
(***************************************************************************)
\* The nodes are registered and nothing is placed.
LEMMA NodesInvInit == MediaNodesInit => NodesInv
<1>. SUFFICES ASSUME MediaNodesInit PROVE NodesInv
  OBVIOUS
<1>1. <<>> \in Seq(MediaNodeIds) /\ 0 \in 0..NodeFaults /\ 0 \in 0..PlacerJobs
  BY MediaNodesAssumption
<1>2. NoJob \in Job
  BY <1>1 DEF NoJob, Job
<1>3. MediaNodesTypeOK
  BY <1>1, <1>2 DEF MediaNodesInit, MediaNodesTypeOK, Process
<1>4. JobsAreReal
  BY DEF MediaNodesInit, JobsAreReal, JobIsReal, NoJob
<1>5. DrainsHold
  BY DEF MediaNodesInit, DrainsHold, DrainHolds
<1>6. \A n \in MediaNodeIds : leases[n] = {}
  BY DEF MediaNodesInit
<1>7. LeasesAreFinite /\ PlacedWithinCapacity
  BY <1>6, FS_EmptySet, MediaNodesAssumption DEF LeasesAreFinite, PlacedWithinCapacity
<1>8. LeaseMatchesOwner
  BY <1>6, MediaNodesAssumption DEF MediaNodesInit, LeaseMatchesOwner, NoNode
<1>. QED BY <1>3, <1>4, <1>5, <1>7, <1>8 DEF NodesInv

\* A step that changes the process of one node and its keys.
LEMMA NodeChange ==
    ASSUME NodesInv, NEW n \in MediaNodeIds, NEW p \in Process,
           node' = [node EXCEPT ![n] = p],
           nodeKey' \in [MediaNodeIds -> {"none", "ready", "draining"}],
           drainingKey' \in [MediaNodeIds -> BOOLEAN],
           \A m \in MediaNodeIds : m # n => drainingKey'[m] = drainingKey[m],
           nodeFaults' \in 0..NodeFaults, OnlyNode,
           DrainHolds(p, drainingKey'[n])
    PROVE  NodesInv'
<1>1. MediaNodesTypeOK'
  BY DEF NodesInv, MediaNodesTypeOK, OnlyNode
<1>2. DrainsHold'
  <2>1. node'[n] = p /\ \A m \in MediaNodeIds : m # n => node'[m] = node[m]
    BY DEF NodesInv, MediaNodesTypeOK
  <2>. QED BY <2>1 DEF NodesInv, DrainsHold
<1>3. JobsAreReal' /\ LeasesAreFinite' /\ LeaseMatchesOwner' /\ PlacedWithinCapacity'
  BY DEF NodesInv, OnlyNode, JobsAreReal, LeasesAreFinite, LeaseMatchesOwner, PlacedWithinCapacity
<1>. QED BY <1>1, <1>2, <1>3 DEF NodesInv

\* Counting a fault stays within the bound.
LEMMA FaultCounted == ASSUME NodesInv, NodeFault PROVE nodeFaults' \in 0..NodeFaults
BY MediaNodesAssumption DEF NodesInv, MediaNodesTypeOK, NodeFault

\* The heartbeat.
LEMMA HeartbeatInv ==
    ASSUME NodesInv, NEW n \in MediaNodeIds,
           HeartbeatLoad(n) \/ HeartbeatNode(n) \/ HeartbeatDraining(n) \/ HeartbeatLost(n)
    PROVE  NodesInv'
<1>1. /\ node \in [MediaNodeIds -> Process] /\ node[n] \in Process
      /\ nodeKey \in [MediaNodeIds -> {"none", "ready", "draining"}]
      /\ drainingKey \in [MediaNodeIds -> BOOLEAN] /\ nodeFaults \in 0..NodeFaults
      /\ DrainHolds(node[n], drainingKey[n])
  BY DEF NodesInv, MediaNodesTypeOK, DrainsHold
<1>2. CASE HeartbeatLoad(n)
  <2>. DEFINE p == [node[n] EXCEPT !.beat = "json", !.beatDraining = node[n].draining]
  <2>1. p \in Process /\ node' = [node EXCEPT ![n] = p]
    BY <1>1, <1>2 DEF HeartbeatLoad, Process
  <2>2. DrainHolds(p, drainingKey[n])
    BY <1>1, <1>2 DEF DrainHolds, Process, HeartbeatLoad
  <2>. HIDE DEF p
  <2>. QED BY <1>1, <1>2, <2>1, <2>2, NodeChange DEF HeartbeatLoad
<1>3. CASE HeartbeatNode(n)
  <2>. DEFINE p == [node[n] EXCEPT !.beat = "key"]
  <2>1. p \in Process /\ node' = [node EXCEPT ![n] = p]
    BY <1>1, <1>3 DEF HeartbeatNode, Process
  <2>2. DrainHolds(p, drainingKey[n])
    BY <1>1, <1>3 DEF DrainHolds, Process, HeartbeatNode
  <2>3. nodeKey' \in [MediaNodeIds -> {"none", "ready", "draining"}]
    BY <1>1, <1>3 DEF HeartbeatNode
  <2>. HIDE DEF p
  <2>. QED BY <1>1, <1>3, <2>1, <2>2, <2>3, NodeChange DEF HeartbeatNode
<1>4. CASE HeartbeatDraining(n)
  <2>. DEFINE p == [node[n] EXCEPT !.beat = "idle", !.beatDraining = FALSE,
                                   !.undone = node[n].undone /\ ~node[n].beatDraining]
  <2>1. p \in Process /\ node' = [node EXCEPT ![n] = p]
    BY <1>1, <1>4 DEF HeartbeatDraining, Process
  <2>2. /\ drainingKey' \in [MediaNodeIds -> BOOLEAN] /\ drainingKey'[n] = node[n].beatDraining
        /\ \A m \in MediaNodeIds : m # n => drainingKey'[m] = drainingKey[m]
    BY <1>1, <1>4 DEF HeartbeatDraining, Process
  <2>3. DrainHolds(p, drainingKey'[n])
    BY <1>1, <1>4, <2>2 DEF DrainHolds, Process, HeartbeatDraining
  <2>. HIDE DEF p
  <2>. QED BY <1>1, <1>4, <2>1, <2>2, <2>3, NodeChange DEF HeartbeatDraining
<1>5. CASE HeartbeatLost(n)
  <2>. DEFINE p == [node[n] EXCEPT !.beat = "idle", !.beatDraining = FALSE]
              q == [node[n] EXCEPT !.drain = "drained"]
  <2>1. UNCHANGED <<nodeKey, drainingKey, nodeFaults>> /\ OnlyNode /\ node[n].stalled
    BY <1>5 DEF HeartbeatLost
  <2>2. p \in Process /\ q \in Process
    BY <1>1 DEF Process
  <2>3. \/ node' = [node EXCEPT ![n] = p]
        \/ node' = [node EXCEPT ![n] = q] /\ node[n].drain \in {"json", "key"}
    BY <1>1, <1>5 DEF HeartbeatLost, Process
  <2>4. /\ DrainHolds(p, drainingKey[n])
        /\ node[n].drain \in {"json", "key"} => DrainHolds(q, drainingKey[n])
    BY <1>1, <2>1 DEF DrainHolds, Process
  <2>. HIDE DEF p, q
  <2>. QED BY <1>1, <2>1, <2>2, <2>3, <2>4, NodeChange
<1>. QED BY <1>2, <1>3, <1>4, <1>5

\* The drain, up to the removal of the node.
LEMMA DrainInv ==
    ASSUME NodesInv, NEW n \in MediaNodeIds,
           \/ BeginDrain(n) \/ DrainHeartbeatNode(n) \/ DrainHeartbeatDraining(n) \/ RemoveNode(n)
    PROVE  NodesInv'
<1>1. /\ node \in [MediaNodeIds -> Process] /\ node[n] \in Process
      /\ nodeKey \in [MediaNodeIds -> {"none", "ready", "draining"}]
      /\ drainingKey \in [MediaNodeIds -> BOOLEAN] /\ nodeFaults \in 0..NodeFaults
      /\ DrainHolds(node[n], drainingKey[n])
  BY DEF NodesInv, MediaNodesTypeOK, DrainsHold
<1>2. CASE BeginDrain(n)
  <2>1. PICK phase \in {"idle", "json", "key"} :
          node' = [node EXCEPT ![n].draining = TRUE, ![n].drain = "json", ![n].beat = phase,
                               ![n].undone = phase # "idle" \/ node[n].stalled]
    BY <1>2 DEF BeginDrain
  <2>. DEFINE p == [node[n] EXCEPT !.draining = TRUE, !.drain = "json", !.beat = phase,
                                   !.undone = phase # "idle" \/ node[n].stalled]
  <2>2. p \in Process /\ node' = [node EXCEPT ![n] = p]
    BY <1>1, <2>1 DEF Process
  <2>3. DrainHolds(p, drainingKey[n])
    BY <1>1, <1>2 DEF DrainHolds, Process, BeginDrain
  <2>. HIDE DEF p
  <2>. QED BY <1>1, <1>2, <2>2, <2>3, NodeChange, FaultCounted DEF BeginDrain
<1>3. CASE DrainHeartbeatNode(n)
  <2>. DEFINE p == [node[n] EXCEPT !.drain = "key"]
  <2>1. p \in Process /\ node' = [node EXCEPT ![n] = p]
    BY <1>1, <1>3 DEF DrainHeartbeatNode, Process
  <2>2. DrainHolds(p, drainingKey[n])
    BY <1>1, <1>3 DEF DrainHolds, Process, DrainHeartbeatNode
  <2>3. nodeKey' \in [MediaNodeIds -> {"none", "ready", "draining"}]
    BY <1>1, <1>3 DEF DrainHeartbeatNode
  <2>. HIDE DEF p
  <2>. QED BY <1>1, <1>3, <2>1, <2>2, <2>3, NodeChange DEF DrainHeartbeatNode
<1>4. CASE DrainHeartbeatDraining(n)
  <2>. DEFINE p == [node[n] EXCEPT !.drain = "drained"]
  <2>1. p \in Process /\ node' = [node EXCEPT ![n] = p]
    BY <1>1, <1>4 DEF DrainHeartbeatDraining, Process
  <2>2. /\ drainingKey' \in [MediaNodeIds -> BOOLEAN] /\ drainingKey'[n]
        /\ \A m \in MediaNodeIds : m # n => drainingKey'[m] = drainingKey[m]
    BY <1>1, <1>4 DEF DrainHeartbeatDraining
  <2>3. DrainHolds(p, drainingKey'[n])
    BY <1>1, <1>4, <2>2 DEF DrainHolds, Process, DrainHeartbeatDraining
  <2>. HIDE DEF p
  <2>. QED BY <1>1, <1>4, <2>1, <2>2, <2>3, NodeChange DEF DrainHeartbeatDraining
<1>5. CASE RemoveNode(n)
  <2>. DEFINE p == [node[n] EXCEPT !.up = FALSE, !.hosted = {}, !.drain = "closed"]
  <2>1. p \in Process /\ node' = [node EXCEPT ![n] = p]
    BY <1>1, <1>5 DEF RemoveNode, Process
  <2>2. /\ drainingKey' \in [MediaNodeIds -> BOOLEAN]
        /\ \A m \in MediaNodeIds : m # n => drainingKey'[m] = drainingKey[m]
        /\ nodeKey' \in [MediaNodeIds -> {"none", "ready", "draining"}]
    BY <1>1, <1>5 DEF RemoveNode
  <2>3. DrainHolds(p, drainingKey'[n])
    BY <1>1, <1>5 DEF DrainHolds, Process, RemoveNode
  <2>. HIDE DEF p
  <2>. QED BY <1>1, <1>5, <2>1, <2>2, <2>3, NodeChange DEF RemoveNode
<1>. QED BY <1>2, <1>3, <1>4, <1>5

\* Sessions that end, crashes, stalls, and keys whose TTL runs out: never the draining key of a
\* node that beats.
LEMMA NodeFaultInv ==
    ASSUME NodesInv, NEW n \in MediaNodeIds,
           \/ NodeCrashes(n) \/ NodeStalls(n) \/ NodeResumes(n) \/ NodeKeyExpires(n)
           \/ DrainingKeyExpires(n) \/ \E s \in PlacedIds : HostedEnds(n, s)
    PROVE  NodesInv'
<1>1. /\ node \in [MediaNodeIds -> Process] /\ node[n] \in Process
      /\ nodeKey \in [MediaNodeIds -> {"none", "ready", "draining"}]
      /\ drainingKey \in [MediaNodeIds -> BOOLEAN] /\ nodeFaults \in 0..NodeFaults
      /\ DrainHolds(node[n], drainingKey[n])
  BY DEF NodesInv, MediaNodesTypeOK, DrainsHold
<1>2. CASE NodeCrashes(n)
  <2>. DEFINE p == [node[n] EXCEPT !.up = FALSE, !.stalled = FALSE, !.hosted = {},
                                   !.beat = "idle", !.beatDraining = FALSE, !.drain = "closed",
                                   !.undone = FALSE]
  <2>1. p \in Process /\ node' = [node EXCEPT ![n] = p]
    BY <1>1, <1>2 DEF NodeCrashes, Process
  <2>2. DrainHolds(p, drainingKey[n])
    BY <1>1 DEF DrainHolds, Process
  <2>. HIDE DEF p
  <2>. QED BY <1>1, <1>2, <2>1, <2>2, NodeChange, FaultCounted DEF NodeCrashes
<1>3. CASE NodeStalls(n)
  <2>. DEFINE p == [node[n] EXCEPT !.stalled = TRUE, !.undone = node[n].draining]
  <2>1. p \in Process /\ node' = [node EXCEPT ![n] = p]
    BY <1>1, <1>3 DEF NodeStalls, Process
  <2>2. DrainHolds(p, drainingKey[n])
    BY <1>1 DEF DrainHolds, Process
  <2>. HIDE DEF p
  <2>. QED BY <1>1, <1>3, <2>1, <2>2, NodeChange, FaultCounted DEF NodeStalls
<1>4. CASE NodeResumes(n)
  <2>. DEFINE p == [node[n] EXCEPT !.stalled = FALSE]
  <2>1. p \in Process /\ node' = [node EXCEPT ![n] = p]
    BY <1>1, <1>4 DEF NodeResumes, Process
  <2>2. DrainHolds(p, drainingKey[n])
    BY <1>1, <1>4 DEF DrainHolds, Process, NodeResumes
  <2>. HIDE DEF p
  <2>. QED BY <1>1, <1>4, <2>1, <2>2, NodeChange DEF NodeResumes
<1>5. CASE NodeKeyExpires(n)
  <2>1. nodeKey' \in [MediaNodeIds -> {"none", "ready", "draining"}]
    BY <1>1, <1>5 DEF NodeKeyExpires
  <2>2. node' = [node EXCEPT ![n] = node[n]]
    BY <1>1, <1>5 DEF NodeKeyExpires
  <2>. QED BY <1>1, <1>5, <2>1, <2>2, NodeChange DEF NodeKeyExpires
<1>6. CASE DrainingKeyExpires(n)
  <2>1. /\ drainingKey' \in [MediaNodeIds -> BOOLEAN]
        /\ \A m \in MediaNodeIds : m # n => drainingKey'[m] = drainingKey[m]
    BY <1>1, <1>6 DEF DrainingKeyExpires
  <2>2. node' = [node EXCEPT ![n] = node[n]]
    BY <1>1, <1>6 DEF DrainingKeyExpires
  <2>3. ~node[n].up \/ node[n].stalled
    BY <1>6 DEF DrainingKeyExpires
  <2>4. DrainHolds(node[n], drainingKey'[n])
    BY <1>1, <2>3 DEF DrainHolds, Process
  <2>. QED BY <1>1, <1>6, <2>1, <2>2, <2>4, NodeChange DEF DrainingKeyExpires
<1>7. ASSUME NEW s \in PlacedIds, HostedEnds(n, s) PROVE NodesInv'
  <2>. DEFINE p == [node[n] EXCEPT !.hosted = @ \ {s}]
  <2>1. p \in Process /\ node' = [node EXCEPT ![n] = p]
    BY <1>1, <1>7 DEF HostedEnds, Process
  <2>2. DrainHolds(p, drainingKey[n])
    BY <1>1 DEF DrainHolds, Process
  <2>. HIDE DEF p
  <2>. QED BY <1>1, <1>7, <2>1, <2>2, NodeChange DEF HostedEnds
<1>. QED BY <1>2, <1>3, <1>4, <1>5, <1>6, <1>7

(***************************************************************************)
(* Steps of a worker                                                       *)
(***************************************************************************)
\* What concerns the lease sets and the owner keys.
LeaseInv ==
    /\ leases \in [MediaNodeIds -> SUBSET PlacedIds]
    /\ owner \in [PlacedIds -> MediaNodeIds \cup {NoNode}]
    /\ LeasesAreFinite /\ LeaseMatchesOwner /\ PlacedWithinCapacity

\* It is part of the invariant.
LEMMA LeasePart == NodesInv => LeaseInv
BY DEF NodesInv, MediaNodesTypeOK, LeaseInv

\* The script that acquires: a session that owns nothing finds room, one that owns the node is
\* a member already.
LEMMA AcquireKeepsLeases ==
    ASSUME LeaseInv, NEW n \in MediaNodeIds, NEW s \in PlacedIds,
           AcquireResult(n, s) = "ok", AcquireMediaLease(n, s)
    PROVE  LeaseInv'
<1>1. /\ leases' = [leases EXCEPT ![n] = leases[n] \cup {s}] /\ owner' = [owner EXCEPT ![s] = n]
      /\ n # NoNode
  BY MediaNodesAssumption DEF AcquireMediaLease, NoNode
<1>2. \/ owner[s] = n
      \/ owner[s] = NoNode /\ ~(Cardinality(leases[n]) >= NodeCapacity)
  BY DEF AcquireResult
<1>3. owner[s] = n <=> s \in leases[n]
  BY DEF LeaseInv, LeaseMatchesOwner
<1>4. IsFiniteSet(leases[n]) /\ Cardinality(leases[n]) \in Nat
  BY FS_CardinalityType DEF LeaseInv, LeasesAreFinite
<1>5. /\ IsFiniteSet(leases[n] \cup {s})
      /\ Cardinality(leases[n] \cup {s}) =
            IF s \in leases[n] THEN Cardinality(leases[n]) ELSE Cardinality(leases[n]) + 1
  BY <1>4, FS_AddElement
<1>6. Cardinality(leases[n] \cup {s}) <= NodeCapacity
  BY <1>2, <1>3, <1>4, <1>5, MediaNodesAssumption DEF LeaseInv, PlacedWithinCapacity
<1>7. /\ leases' \in [MediaNodeIds -> SUBSET PlacedIds]
      /\ owner' \in [PlacedIds -> MediaNodeIds \cup {NoNode}]
  BY <1>1 DEF LeaseInv
<1>8. leases'[n] = leases[n] \cup {s} /\ \A m \in MediaNodeIds : m # n => leases'[m] = leases[m]
  BY <1>1 DEF LeaseInv
<1>9. LeasesAreFinite' /\ PlacedWithinCapacity'
  BY <1>5, <1>6, <1>8 DEF LeaseInv, LeasesAreFinite, PlacedWithinCapacity
<1>10. LeaseMatchesOwner'
  <2>1. owner'[s] = n /\ \A q \in PlacedIds : q # s => owner'[q] = owner[q]
    BY <1>1 DEF LeaseInv
  <2>2. \A m \in MediaNodeIds : m # n => s \notin leases[m]
    BY <1>1, <1>2, MediaNodesAssumption DEF LeaseInv, LeaseMatchesOwner, NoNode
  <2>. QED BY <1>8, <2>1, <2>2 DEF LeaseInv, LeaseMatchesOwner
<1>. QED BY <1>7, <1>9, <1>10 DEF LeaseInv

\* The member of a node goes, and the owner key if it names that node: by the script that
\* releases or by the TTL.
LEMMA ReleaseKeepsLeases ==
    ASSUME LeaseInv, NEW n \in MediaNodeIds, NEW s \in PlacedIds, ReleaseMediaLease(n, s)
    PROVE  LeaseInv'
<1>1. /\ leases' = [leases EXCEPT ![n] = leases[n] \ {s}]
      /\ owner' = [owner EXCEPT ![s] = IF owner[s] = n THEN NoNode ELSE owner[s]]
      /\ NoNode \notin MediaNodeIds
  BY MediaNodesAssumption DEF ReleaseMediaLease, NoNode
<1>2. /\ leases' \in [MediaNodeIds -> SUBSET PlacedIds]
      /\ owner' \in [PlacedIds -> MediaNodeIds \cup {NoNode}]
  BY <1>1 DEF LeaseInv
<1>3. leases'[n] = leases[n] \ {s} /\ \A m \in MediaNodeIds : m # n => leases'[m] = leases[m]
  BY <1>1 DEF LeaseInv
<1>4. IsFiniteSet(leases[n]) /\ Cardinality(leases[n]) \in Nat
  BY FS_CardinalityType DEF LeaseInv, LeasesAreFinite
<1>5. /\ IsFiniteSet(leases[n] \ {s})
      /\ Cardinality(leases[n] \ {s}) =
            IF s \in leases[n] THEN Cardinality(leases[n]) - 1 ELSE Cardinality(leases[n])
  BY <1>4, FS_RemoveElement
<1>6. Cardinality(leases[n] \ {s}) <= NodeCapacity
  BY <1>4, <1>5, MediaNodesAssumption DEF LeaseInv, PlacedWithinCapacity
<1>7. LeasesAreFinite' /\ PlacedWithinCapacity'
  BY <1>3, <1>5, <1>6 DEF LeaseInv, LeasesAreFinite, PlacedWithinCapacity
<1>8. LeaseMatchesOwner'
  BY <1>1, <1>3 DEF LeaseInv, LeaseMatchesOwner
<1>. QED BY <1>2, <1>7, <1>8 DEF LeaseInv

\* Hosting more or fewer sessions does not touch a drain.
OnlyHostedChanges ==
    \/ node' = node
    \/ \E n \in MediaNodeIds, hosted \in SUBSET PlacedIds :
           node' = [node EXCEPT ![n].hosted = hosted]

\* A worker takes up the job or drops it.
LEMMA PlacerChange ==
    ASSUME NodesInv, LeaseInv', NEW w \in Placers, NEW job \in Job, JobIsReal(job), Become(w, job),
           OnlyPlacer, OnlyHostedChanges,
           sessionNodes' \in [Placers -> [PlacedIds -> MediaNodeIds \cup {NoNode}]],
           nodeFaults' \in 0..NodeFaults, placerJobs' \in 0..PlacerJobs
    PROVE  NodesInv'
<1>1. node' \in [MediaNodeIds -> Process] /\ DrainsHold'
  <2>1. CASE node' = node
    BY <2>1 DEF NodesInv, MediaNodesTypeOK, DrainsHold, OnlyPlacer
  <2>2. ASSUME NEW n \in MediaNodeIds, NEW hosted \in SUBSET PlacedIds,
               node' = [node EXCEPT ![n].hosted = hosted]
        PROVE  node' \in [MediaNodeIds -> Process] /\ DrainsHold'
    <3>. DEFINE p == [node[n] EXCEPT !.hosted = hosted]
    <3>1. node \in [MediaNodeIds -> Process] /\ node[n] \in Process /\ drainingKey' = drainingKey
      BY DEF NodesInv, MediaNodesTypeOK, OnlyPlacer
    <3>2. p \in Process /\ node' = [node EXCEPT ![n] = p]
      BY <2>2, <3>1 DEF Process
    <3>3. DrainHolds(p, drainingKey[n])
      BY <3>1 DEF NodesInv, DrainsHold, DrainHolds, Process
    <3>4. node'[n] = p /\ \A m \in MediaNodeIds : m # n => node'[m] = node[m]
      BY <3>1, <3>2
    <3>. HIDE DEF p
    <3>. QED BY <3>1, <3>2, <3>3, <3>4 DEF NodesInv, DrainsHold
  <2>. QED BY <2>1, <2>2 DEF OnlyHostedChanges
<1>2. placer' \in [Placers -> Job] /\ JobsAreReal'
  <2>1. /\ placer' \in [Placers -> Job] /\ placer'[w] = job
        /\ \A v \in Placers : v # w => placer'[v] = placer[v]
    BY DEF NodesInv, MediaNodesTypeOK, Become
  <2>. QED BY <2>1 DEF NodesInv, JobsAreReal
<1>3. MediaNodesTypeOK'
  BY <1>1, <1>2 DEF NodesInv, MediaNodesTypeOK, OnlyPlacer, LeaseInv
<1>. QED BY <1>1, <1>2, <1>3 DEF NodesInv, LeaseInv

\* A worker without a job is fine.
LEMMA NoJobIsReal == NoJob \in Job /\ JobIsReal(NoJob)
<1>1. <<>> \in Seq(MediaNodeIds)
  OBVIOUS
<1>. QED BY <1>1 DEF NoJob, Job, JobIsReal

\* Listing the nodes.
LEMMA StartPlacementInv ==
    ASSUME NodesInv, NEW w \in Placers, NEW s \in PlacedIds, StartPlacement(w, s)
    PROVE  NodesInv'
<1>1. PICK list \in [1..Cardinality(Candidates) -> Candidates] :
        Become(w, [NoJob EXCEPT !.at = "place", !.s = s, !.snap = list])
  BY DEF StartPlacement
<1>2. Candidates \in SUBSET MediaNodeIds /\ IsFiniteSet(MediaNodeIds)
  BY MediaNodesAssumption DEF Candidates
<1>3. Cardinality(Candidates) \in Nat
  BY <1>2, FS_Subset, FS_CardinalityType
<1>4. list \in Seq(MediaNodeIds)
  BY <1>2, <1>3
<1>. DEFINE job == [NoJob EXCEPT !.at = "place", !.s = s, !.snap = list]
<1>5. job \in Job /\ JobIsReal(job)
  BY <1>4 DEF NoJob, Job, JobIsReal
<1>. HIDE DEF job
<1>6. LeaseInv'
  BY LeasePart DEF StartPlacement, LeaseInv, LeasesAreFinite, LeaseMatchesOwner, PlacedWithinCapacity
<1>7. /\ OnlyPlacer /\ OnlyHostedChanges /\ placerJobs' \in 0..PlacerJobs
      /\ nodeFaults' \in 0..NodeFaults
      /\ sessionNodes' \in [Placers -> [PlacedIds -> MediaNodeIds \cup {NoNode}]]
  BY MediaNodesAssumption
     DEF StartPlacement, PlacerJob, OnlyHostedChanges, NodesInv, MediaNodesTypeOK
<1>. QED BY <1>1, <1>5, <1>6, <1>7, PlacerChange DEF job

\* Trying the next node of the list, and giving up.
LEMMA PlaceOnNextInv ==
    ASSUME NodesInv, NEW w \in Placers, PlaceOnNext(w) \/ PlacementFails(w)
    PROVE  NodesInv'
<1>1. placer[w] \in Job /\ JobIsReal(placer[w])
  BY DEF NodesInv, MediaNodesTypeOK, JobsAreReal
<1>2. /\ OnlyPlacer /\ OnlyHostedChanges /\ placerJobs' \in 0..PlacerJobs
      /\ nodeFaults' \in 0..NodeFaults
      /\ sessionNodes' \in [Placers -> [PlacedIds -> MediaNodeIds \cup {NoNode}]]
  BY DEF PlaceOnNext, PlacementFails, OnlyHostedChanges, NodesInv, MediaNodesTypeOK
<1>3. ASSUME leases' = leases, owner' = owner PROVE LeaseInv'
  BY <1>3, LeasePart DEF LeaseInv, LeasesAreFinite, LeaseMatchesOwner, PlacedWithinCapacity
<1>4. CASE PlacementFails(w)
  BY <1>2, <1>3, <1>4, NoJobIsReal, PlacerChange DEF PlacementFails
<1>5. CASE PlaceOnNext(w)
  <2>. DEFINE n == Head(placer[w].snap)
              s == placer[w].s
              took == [placer[w] EXCEPT !.at = "create", !.n = n, !.snap = <<>>]
              next == [placer[w] EXCEPT !.snap = Tail(placer[w].snap)]
  <2>1. placer[w].at = "place" /\ placer[w].snap # <<>> /\ placer[w].snap \in Seq(MediaNodeIds)
    BY <1>1, <1>5 DEF PlaceOnNext, Job
  <2>2. n \in MediaNodeIds /\ s \in PlacedIds /\ Tail(placer[w].snap) \in Seq(MediaNodeIds)
    BY <1>1, <2>1 DEF JobIsReal
  <2>3. <<>> \in Seq(MediaNodeIds)
    OBVIOUS
  <2>4. took \in Job /\ JobIsReal(took)
    BY <1>1, <2>1, <2>2, <2>3 DEF Job, JobIsReal
  <2>5. next \in Job /\ JobIsReal(next)
    BY <1>1, <2>1, <2>2 DEF Job, JobIsReal
  <2>6. CASE AcquireResult(n, s) = "ok"
    <3>1. AcquireMediaLease(n, s) /\ Become(w, took)
      BY <1>5, <2>6 DEF PlaceOnNext
    <3>2. LeaseInv'
      BY <2>2, <2>6, <3>1, LeasePart, AcquireKeepsLeases
    <3>. HIDE DEF took
    <3>. QED BY <1>2, <2>4, <3>1, <3>2, PlacerChange
  <2>7. CASE AcquireResult(n, s) # "ok"
    <3>1. Become(w, next) /\ leases' = leases /\ owner' = owner
      BY <1>5, <2>7 DEF PlaceOnNext
    <3>. HIDE DEF next
    <3>. QED BY <1>2, <1>3, <2>5, <3>1, PlacerChange
  <2>. QED BY <2>6, <2>7
<1>. QED BY <1>4, <1>5

\* The answer of the node to a create request.
LEMMA CreateInv ==
    ASSUME NodesInv, NEW w \in Placers, CreateSucceeds(w) \/ CreateFails(w)
    PROVE  NodesInv'
<1>. DEFINE n == placer[w].n
            s == placer[w].s
            hosted == node[n].hosted \cup {s}
            back == [placer[w] EXCEPT !.at = "get", !.n = NoNode]
<1>1. /\ placer[w] \in Job /\ JobIsReal(placer[w]) /\ placer[w].at = "create"
  BY DEF NodesInv, MediaNodesTypeOK, JobsAreReal, CreateSucceeds, CreateFails
<1>2. n \in MediaNodeIds /\ s \in PlacedIds
  BY <1>1 DEF JobIsReal
<1>3. back \in Job /\ JobIsReal(back)
  BY <1>1, <1>2 DEF Job, JobIsReal
<1>4. node \in [MediaNodeIds -> Process] /\ hosted \in SUBSET PlacedIds
  BY <1>2 DEF NodesInv, MediaNodesTypeOK, Process
<1>5. OnlyHostedChanges
  <2>1. node' = node \/ node' = [node EXCEPT ![n].hosted = hosted]
    BY <1>2, <1>4 DEF CreateSucceeds, CreateFails
  <2>. QED BY <1>2, <1>4, <2>1 DEF OnlyHostedChanges
<1>6. LeaseInv'
  BY LeasePart DEF CreateSucceeds, CreateFails, LeaseInv, LeasesAreFinite, LeaseMatchesOwner,
     PlacedWithinCapacity
<1>7. sessionNodes' \in [Placers -> [PlacedIds -> MediaNodeIds \cup {NoNode}]]
  <2>1. sessionNodes' = sessionNodes \/ sessionNodes' = [sessionNodes EXCEPT ![w][s] = n]
    BY DEF CreateSucceeds, CreateFails
  <2>2. sessionNodes \in [Placers -> [PlacedIds -> MediaNodeIds \cup {NoNode}]]
    BY DEF NodesInv, MediaNodesTypeOK
  <2>. QED BY <1>2, <2>1, <2>2
<1>8. OnlyPlacer /\ placerJobs' \in 0..PlacerJobs /\ nodeFaults' \in 0..NodeFaults
  BY FaultCounted DEF CreateSucceeds, CreateFails, NodesInv, MediaNodesTypeOK
<1>9. Become(w, NoJob) \/ Become(w, back)
  BY DEF CreateSucceeds, CreateFails
<1>. HIDE DEF back, hosted, n, s
<1>. QED BY <1>3, <1>5, <1>6, <1>7, <1>8, <1>9, NoJobIsReal, PlacerChange

\* Stopping a session, up to the call of Release.
LEMMA StopInv ==
    ASSUME NodesInv, NEW w \in Placers,
           StopAtNode(w) \/ \E s \in PlacedIds : StartStop(w, s)
    PROVE  NodesInv'
<1>1. placer[w] \in Job /\ JobIsReal(placer[w])
  BY DEF NodesInv, MediaNodesTypeOK, JobsAreReal
<1>2. LeaseInv'
  BY LeasePart DEF StopAtNode, StartStop, LeaseInv, LeasesAreFinite, LeaseMatchesOwner,
     PlacedWithinCapacity
<1>3. nodeFaults \in 0..NodeFaults /\ placerJobs \in 0..PlacerJobs
  BY DEF NodesInv, MediaNodesTypeOK
<1>4. sessionNodes \in [Placers -> [PlacedIds -> MediaNodeIds \cup {NoNode}]]
  BY DEF NodesInv, MediaNodesTypeOK
<1>5. ASSUME NEW s \in PlacedIds, StartStop(w, s) PROVE NodesInv'
  <2>. DEFINE known == sessionNodes[w][s]
              asked == IF owner[s] # NoNode /\ nodeKey[owner[s]] # "none" THEN owner[s] ELSE NoNode
              job == [NoJob EXCEPT !.at = "stop", !.s = s,
                                   !.n = IF known # NoNode THEN known ELSE asked]
  <2>1. known \in MediaNodeIds \cup {NoNode} /\ asked \in MediaNodeIds \cup {NoNode}
    BY DEF NodesInv, MediaNodesTypeOK
  <2>2. job \in Job /\ JobIsReal(job)
    <3>1. <<>> \in Seq(MediaNodeIds)
      OBVIOUS
    <3>. HIDE DEF known, asked
    <3>. QED BY <2>1, <3>1 DEF Job, NoJob, JobIsReal
  <2>3. Become(w, job) /\ OnlyHostedChanges
    BY <1>5 DEF StartStop, OnlyHostedChanges
  <2>4. placerJobs' \in 0..PlacerJobs
    <3>1. placerJobs < PlacerJobs /\ placerJobs' = placerJobs + 1
      BY <1>5 DEF StartStop, PlacerJob
    <3>. QED BY <1>3, <3>1, MediaNodesAssumption
  <2>5. OnlyPlacer /\ nodeFaults' = nodeFaults /\ sessionNodes' = sessionNodes
    BY <1>5 DEF StartStop
  <2>. HIDE DEF job
  <2>. QED BY <1>2, <1>3, <1>4, <2>2, <2>3, <2>4, <2>5, PlacerChange
<1>6. CASE StopAtNode(w)
  <2>. DEFINE n == placer[w].n
              job == [placer[w] EXCEPT !.at = "get", !.n = NoNode]
              hosted == node[n].hosted \ {placer[w].s}
  <2>1. placer[w].at = "stop" /\ placer[w].s \in PlacedIds
    BY <1>1, <1>6 DEF StopAtNode, JobIsReal
  <2>2. job \in Job /\ JobIsReal(job)
    BY <1>1, <2>1 DEF Job, JobIsReal
  <2>3. OnlyHostedChanges
    <3>1. CASE node' = node
      BY <3>1 DEF OnlyHostedChanges
    <3>2. CASE n # NoNode /\ node' = [node EXCEPT ![n].hosted = hosted]
      <4>1. n \in MediaNodeIds
        BY <1>1, <3>2 DEF Job
      <4>2. hosted \in SUBSET PlacedIds
        BY <4>1 DEF NodesInv, MediaNodesTypeOK, Process
      <4>. QED BY <3>2, <4>1, <4>2 DEF OnlyHostedChanges
    <3>. QED BY <1>6, <3>1, <3>2 DEF StopAtNode
  <2>4. Become(w, job)
    BY <1>6 DEF StopAtNode
  <2>5. OnlyPlacer /\ nodeFaults' = nodeFaults /\ placerJobs' = placerJobs
    BY <1>6 DEF StopAtNode
  <2>6. sessionNodes' \in [Placers -> [PlacedIds -> MediaNodeIds \cup {NoNode}]]
    BY <1>4, <1>6, <2>1 DEF StopAtNode
  <2>. HIDE DEF job, hosted
  <2>. QED BY <1>2, <1>3, <2>2, <2>3, <2>4, <2>5, <2>6, PlacerChange
<1>. QED BY <1>5, <1>6

\* The two calls of Release, and a crash of the worker.
LEMMA ReleaseInv ==
    ASSUME NodesInv, NEW w \in Placers, ReleaseGet(w) \/ ReleaseLease(w) \/ PlacerCrashes(w)
    PROVE  NodesInv'
<1>1. placer[w] \in Job /\ JobIsReal(placer[w])
  BY DEF NodesInv, MediaNodesTypeOK, JobsAreReal
<1>2. OnlyPlacer /\ OnlyHostedChanges /\ placerJobs' \in 0..PlacerJobs
  BY DEF ReleaseGet, ReleaseLease, PlacerCrashes, OnlyHostedChanges, NodesInv, MediaNodesTypeOK
<1>3. nodeFaults' \in 0..NodeFaults
  BY FaultCounted DEF ReleaseGet, ReleaseLease, PlacerCrashes, NodesInv, MediaNodesTypeOK
<1>4. sessionNodes' \in [Placers -> [PlacedIds -> MediaNodeIds \cup {NoNode}]]
  BY DEF ReleaseGet, ReleaseLease, PlacerCrashes, NodesInv, MediaNodesTypeOK
<1>5. ASSUME leases' = leases, owner' = owner PROVE LeaseInv'
  BY <1>5, LeasePart DEF LeaseInv, LeasesAreFinite, LeaseMatchesOwner, PlacedWithinCapacity
<1>6. CASE ReleaseGet(w)
  <2>. DEFINE s == placer[w].s
              job == [placer[w] EXCEPT !.at = "release", !.n = owner[s]]
  <2>1. s \in PlacedIds /\ placer[w].at = "get"
    BY <1>1, <1>6 DEF ReleaseGet, JobIsReal
  <2>2. owner[s] \in MediaNodeIds \cup {NoNode}
    BY <2>1 DEF NodesInv, MediaNodesTypeOK
  <2>3. owner[s] # NoNode => job \in Job /\ JobIsReal(job)
    BY <1>1, <2>1, <2>2 DEF Job, JobIsReal
  <2>4. Become(w, NoJob) \/ (owner[s] # NoNode /\ Become(w, job))
    BY <1>6 DEF ReleaseGet
  <2>5. LeaseInv'
    BY <1>5, <1>6 DEF ReleaseGet
  <2>. HIDE DEF job
  <2>. QED BY <1>2, <1>3, <1>4, <2>3, <2>4, <2>5, NoJobIsReal, PlacerChange
<1>7. CASE ReleaseLease(w)
  <2>1. placer[w].n \in MediaNodeIds /\ placer[w].s \in PlacedIds
    BY <1>1, <1>7 DEF ReleaseLease, JobIsReal
  <2>2. LeaseInv'
    BY <1>7, <2>1, LeasePart, ReleaseKeepsLeases DEF ReleaseLease
  <2>. QED BY <1>2, <1>3, <1>4, <1>7, <2>2, NoJobIsReal, PlacerChange DEF ReleaseLease
<1>8. CASE PlacerCrashes(w)
  BY <1>2, <1>3, <1>4, <1>5, <1>8, NoJobIsReal, PlacerChange DEF PlacerCrashes
<1>. QED BY <1>6, <1>7, <1>8

\* The TTL of a lease runs out: as if it were released.
LEMMA LeaseExpiresInv ==
    ASSUME NodesInv, NEW s \in PlacedIds, LeaseExpires(s)
    PROVE  NodesInv'
<1>1. owner[s] \in MediaNodeIds
  BY DEF LeaseExpires, NodesInv, MediaNodesTypeOK
<1>2. ReleaseMediaLease(owner[s], s)
  BY <1>1 DEF LeaseExpires, ReleaseMediaLease, NodesInv, MediaNodesTypeOK
<1>3. LeaseInv'
  BY <1>1, <1>2, LeasePart, ReleaseKeepsLeases
<1>. QED BY <1>3 DEF LeaseExpires, NodesInv, LeaseInv, MediaNodesTypeOK, JobsAreReal, DrainsHold

(***************************************************************************)
(* Theorems                                                                *)
(***************************************************************************)
\* Every step keeps the invariant.
LEMMA NodesInvStep == NodesInv /\ [MediaNodesNext]_mediaNodesVars => NodesInv'
<1>. SUFFICES ASSUME NodesInv, [MediaNodesNext]_mediaNodesVars PROVE NodesInv'
  OBVIOUS
<1>1. CASE UNCHANGED mediaNodesVars
  BY <1>1 DEF mediaNodesVars, redisVars, NodesInv, MediaNodesTypeOK, JobsAreReal, DrainsHold,
     LeasesAreFinite, LeaseMatchesOwner, PlacedWithinCapacity
<1>2. ASSUME NEW n \in MediaNodeIds, NodeStep(n) \/ NodeEnvironment(n) PROVE NodesInv'
  BY <1>2, HeartbeatInv, DrainInv, NodeFaultInv DEF NodeStep, NodeEnvironment
<1>3. ASSUME NEW w \in Placers, PlacerStep(w) \/ PlacerEnvironment(w) PROVE NodesInv'
  BY <1>3, StartPlacementInv, PlaceOnNextInv, CreateInv, StopInv, ReleaseInv
     DEF PlacerStep, PlacerEnvironment
<1>. QED BY <1>1, <1>2, <1>3, LeaseExpiresInv DEF MediaNodesNext

\* The registry and the processes around it stay well formed, leases and owners in step.
THEOREM NodesInductive == MediaNodesSpec => []NodesInv
BY NodesInvInit, NodesInvStep, PTL DEF MediaNodesSpec

\* What a step may do to the leases of a node whose drain is published: no member is added.
NotChosen(n, s) == DrainSettled(n) /\ s \notin leases[n] => s \notin leases'[n]

\* Only Place adds members, and AcquireMediaLease refuses a node with a draining key.
LEMMA DrainedStep ==
    ASSUME NodesInv, [MediaNodesNext]_mediaNodesVars,
           NEW n \in MediaNodeIds, NEW s \in PlacedIds
    PROVE  NotChosen(n, s)
<1>. USE DEF NotChosen
<1>1. leases \in [MediaNodeIds -> SUBSET PlacedIds]
  BY DEF NodesInv, MediaNodesTypeOK
<1>2. ASSUME leases' = leases PROVE NotChosen(n, s)
  BY <1>2
<1>3. ASSUME NEW w \in Placers, PlaceOnNext(w) PROVE NotChosen(n, s)
  <2>1. CASE leases' = leases
    BY <2>1
  <2>2. CASE /\ AcquireResult(Head(placer[w].snap), placer[w].s) = "ok"
             /\ AcquireMediaLease(Head(placer[w].snap), placer[w].s)
    <3>1. DrainSettled(n) => drainingKey[n]
      BY DEF NodesInv, DrainsHold, DrainHolds, DrainSettled
    <3>2. ~drainingKey[Head(placer[w].snap)]
      BY <2>2 DEF AcquireResult
    <3>. QED BY <1>1, <2>2, <3>1, <3>2 DEF AcquireMediaLease
  <2>. QED BY <1>3, <2>1, <2>2 DEF PlaceOnNext
<1>4. ASSUME NEW w \in Placers, ReleaseLease(w) PROVE NotChosen(n, s)
  BY <1>1, <1>4 DEF ReleaseLease, ReleaseMediaLease
<1>5. ASSUME NEW q \in PlacedIds, LeaseExpires(q) PROVE NotChosen(n, s)
  BY <1>1, <1>5 DEF LeaseExpires
<1>6. ASSUME NEW m \in MediaNodeIds, NodeStep(m) \/ NodeEnvironment(m) PROVE leases' = leases
  BY <1>6 DEF NodeStep, NodeEnvironment, HeartbeatLoad, HeartbeatNode, HeartbeatDraining,
     HeartbeatLost, BeginDrain, DrainHeartbeatNode, DrainHeartbeatDraining, RemoveNode, HostedEnds,
     NodeCrashes, NodeStalls, NodeResumes, NodeKeyExpires, DrainingKeyExpires, OnlyNode
<1>7. ASSUME NEW w \in Placers,
             \/ PlacementFails(w) \/ CreateSucceeds(w) \/ CreateFails(w) \/ StopAtNode(w)
             \/ ReleaseGet(w) \/ PlacerEnvironment(w)
      PROVE  leases' = leases
  BY <1>7 DEF PlacementFails, CreateSucceeds, CreateFails, StopAtNode, ReleaseGet,
     PlacerEnvironment, PlacerCrashes, StartPlacement, StartStop
<1>8. CASE UNCHANGED mediaNodesVars
  BY <1>8 DEF mediaNodesVars, redisVars
<1>. HIDE DEF NotChosen
<1>. QED BY <1>2, <1>3, <1>4, <1>5, <1>6, <1>7, <1>8 DEF MediaNodesNext, PlacerStep

\* Whatever placements, releases, expiries, stalls and crashes interleave, the lease sets and the
\* owner keys agree, no node is promised beyond its capacity, and no session goes to a node whose
\* drain is published (Place, Release, AcquireMediaLease, beginDrain).
THEOREM PlacementIsSound == MediaNodesSpec => PlacementSound
<1>1. NodesInv => LeaseMatchesOwner /\ PlacedWithinCapacity
  BY DEF NodesInv
<1>2. NodesInv /\ [MediaNodesNext]_mediaNodesVars =>
        [\A n \in MediaNodeIds, s \in PlacedIds : NotChosen(n, s)]_mediaNodesVars
  BY DrainedStep
<1>. QED BY <1>1, <1>2, NodesInductive, PTL
         DEF MediaNodesSpec, PlacementSound, DrainedIsNotChosen, NotChosen

(***************************************************************************)
(* Sessions of a media node                                                *)
(***************************************************************************)
At(r, o) == thread[<<r, o>>]

\* The map holds a session under its own id; while Start waits for its provider the id is free;
\* no thread works for an object that was never started.
MapInv ==
    /\ \A s \in SessionIds : sessions[s] # NoObject => object[sessions[s]].id = s
    /\ starting # NoId => sessions[starting] = NoObject
    /\ \A o \in Objects :
          /\ object[o].id = NoId => object[o] = Unused /\ \A r \in Roles : At(r, o) = "idle"
          /\ object[o].id # NoId /\ ~Registered(o) => object[o].complete

\* What a thread has reached and what the fields of its session say: nothing runs for a session
\* that no audio is attached to, finishResources is entered with the flag finished, whoever is
\* past it finds the resources closed, and who removes the session finds it complete.
ThreadInv(o) ==
    /\ ~object[o].attached => At("pump", o) = "idle" /\ object[o].pending = {}
    /\ object[o].finished <=> object[o].once # "new"
    /\ object[o].complete => object[o].once = "done" /\ At("pump", o) # "pumping"
    /\ At("timer", o) \in {"idle", "expired", "closing", "remove"}
    /\ At("timer", o) = "closing" => ~object[o].attached
    /\ \A r \in Roles :
          /\ At(r, o) \in {"once", "closing"} => object[o].finished
          /\ At(r, o) \in {"wait", "complete", "remove"} => object[o].once = "done"
          /\ At(r, o) = "remove" => object[o].complete
          /\ At(r, o) \in {"pumping", "complete"} => r = "pump"

\* A worker at the control channel has been sent what waits for a result.
ControlInv(o) ==
    object[o].control /\ ~object[o].finished /\ At("pump", o) = "pumping" =>
        object[o].pending \subseteq object[o].buffered \cup object[o].seen

MediaInv == MediaTypeOK /\ MapInv /\ \A o \in Objects : ThreadInv(o) /\ ControlInv(o)

\* A node starts without sessions.
LEMMA MediaStart == MediaInit => MediaInv
<1> SUFFICES ASSUME MediaInit PROVE MediaInv
  OBVIOUS
<1>1. MediaTypeOK
  BY MediaAssumption DEF MediaInit, MediaTypeOK, Managed, Unused, ThreadState, MediaAssumption
<1>2. /\ \A o \in Objects : object[o] = Unused /\ \A r \in Roles : At(r, o) = "idle"
      /\ \A s \in SessionIds : sessions[s] = NoObject
  BY DEF MediaInit, At
<1>3. /\ Unused.id = NoId /\ Unused.pending = {} /\ Unused.finished = FALSE /\ Unused.once = "new"
      /\ Unused.complete = FALSE /\ Unused.control = FALSE /\ Unused.attached = FALSE
  BY DEF Unused
<1>4. MapInv
  BY <1>2, <1>3 DEF MapInv, MediaInit
<1>5. \A o \in Objects : ThreadInv(o) /\ ControlInv(o)
  BY <1>2, <1>3 DEF ThreadInv, ControlInv, Roles
<1> QED
  BY <1>1, <1>4, <1>5 DEF MediaInv

\* A step of one thread for a session that was started, which keeps the session where it is.
LEMMA OneSession ==
    ASSUME MediaInv, NEW o \in Objects, UNCHANGED <<sessions, starting>>,
           object' \in [Objects -> Managed], thread' \in [Roles \X Objects -> ThreadState],
           gone' \in [Roles \X Objects -> BOOLEAN], UNCHANGED drain, requests' \in 0..Requests,
           \A p \in Objects \ {o} :
              object'[p] = object[p] /\ \A r \in Roles : At(r, p)' = At(r, p),
           object[o].id # NoId, object'[o].id = object[o].id,
           object[o].complete => object'[o].complete,
           ThreadInv(o)', ControlInv(o)'
    PROVE  MediaInv'
<1>1. MediaTypeOK'
  BY DEF MediaInv, MediaTypeOK
<1>2. \A p \in Objects : object'[p].id = object[p].id
  OBVIOUS
<1>3. \A s \in SessionIds : sessions[s] # NoObject => sessions[s] \in Objects
  BY DEF MediaInv, MediaTypeOK
<1>4. \A p \in Objects : Registered(p)' <=> Registered(p)
  BY <1>2 DEF Registered
<1>5. MapInv'
  <2>1. \A s \in SessionIds : sessions'[s] # NoObject => object'[sessions'[s]].id = s
    BY <1>2, <1>3 DEF MediaInv, MapInv
  <2>2. starting' # NoId => sessions'[starting'] = NoObject
    BY DEF MediaInv, MapInv
  <2>3. ASSUME NEW p \in Objects
        PROVE  /\ object'[p].id = NoId => object'[p] = Unused /\ \A r \in Roles : At(r, p)' = "idle"
               /\ object'[p].id # NoId /\ ~Registered(p)' => object'[p].complete
    BY <1>2, <1>4 DEF MediaInv, MapInv
  <2> QED
    BY <2>1, <2>2, <2>3 DEF MapInv
<1>6. ASSUME NEW p \in Objects \ {o}
      PROVE  ThreadInv(p)' /\ ControlInv(p)'
  <2>1. ThreadInv(p) /\ ControlInv(p) /\ object'[p] = object[p] /\ \A r \in Roles : At(r, p)' = At(r, p)
    BY DEF MediaInv
  <2>2. "pump" \in Roles /\ "timer" \in Roles
    BY DEF Roles
  <2>3. ThreadInv(p)'
    BY <2>1, <2>2 DEF ThreadInv
  <2> QED
    BY <2>1, <2>2, <2>3 DEF ControlInv
<1> QED
  BY <1>1, <1>5, <1>6 DEF MediaInv

\* What a session and its threads are.
LEMMA SessionTypes ==
    ASSUME MediaInv, NEW o \in Objects
    PROVE  /\ object[o] \in Managed /\ thread \in [Roles \X Objects -> ThreadState]
           /\ object \in [Objects -> Managed] /\ gone \in [Roles \X Objects -> BOOLEAN]
           /\ requests \in 0..Requests /\ ThreadInv(o) /\ ControlInv(o)
           /\ \A r \in Roles : At(r, o) # "idle" => object[o].id # NoId
           /\ Registered(o) \/ object[o] # Unused => object[o].id # NoId
BY DEF MediaInv, MediaTypeOK, MapInv, Registered

\* A thread takes a step.
LEMMA ThreadMoves ==
    ASSUME thread \in [Roles \X Objects -> ThreadState], NEW r \in Roles, NEW o \in Objects,
           NEW st \in ThreadState, GotoThread(r, o, st)
    PROVE  /\ thread' \in [Roles \X Objects -> ThreadState]
           /\ At(r, o)' = st
           /\ \A q \in Roles \ {r} : At(q, o)' = At(q, o)
           /\ \A p \in Objects \ {o}, q \in Roles : At(q, p)' = At(q, p)
<1>1. thread' = [thread EXCEPT ![<<r, o>>] = st]
  BY DEF GotoThread
<1>2. \A q \in Roles, p \in Objects :
         /\ <<q, p>> \in Roles \X Objects
         /\ <<q, p>> = <<r, o>> <=> q = r /\ p = o
  OBVIOUS
<1>3. \A t \in Roles \X Objects : thread'[t] = IF t = <<r, o>> THEN st ELSE thread[t]
  BY <1>1
<1> QED
  BY <1>1, <1>2, <1>3 DEF At

\* A session changes and its threads stay where they are.
LEMMA SessionChanges ==
    ASSUME MediaInv, NEW o \in Objects, NEW m \in Managed, object' = [object EXCEPT ![o] = m],
           UNCHANGED <<sessions, starting, thread, drain>>, requests' \in 0..Requests,
           gone' \in [Roles \X Objects -> BOOLEAN], object[o].id # NoId, m.id = object[o].id,
           m.attached = object[o].attached, m.finished = object[o].finished,
           m.once = object[o].once, m.complete = object[o].complete,
           m.pending \subseteq object[o].pending \/ m.attached,
           m.control /\ ~m.finished /\ At("pump", o) = "pumping" =>
               m.pending \subseteq m.buffered \cup m.seen
    PROVE  MediaInv'
<1>1. /\ object' \in [Objects -> Managed] /\ object'[o] = m
      /\ \A p \in Objects \ {o} : object'[p] = object[p]
      /\ \A p \in Objects, r \in Roles : At(r, p)' = At(r, p)
  BY SessionTypes DEF At
<1>2. "pump" \in Roles /\ "timer" \in Roles
  BY DEF Roles
<1>3. ThreadInv(o)'
  <2>1. ThreadInv(o)
    BY SessionTypes
  <2>2. ~m.attached => At("pump", o)' = "idle" /\ m.pending = {}
    BY <1>1, <1>2, <2>1 DEF ThreadInv
  <2> QED
    BY <1>1, <1>2, <2>1, <2>2 DEF ThreadInv
<1>4. ControlInv(o)'
  BY <1>1, <1>2 DEF ControlInv
<1> QED
  BY <1>1, <1>3, <1>4, SessionTypes, OneSession

\* The control channel is written, and a tool result arrives.
LEMMA ControlStep ==
    ASSUME MediaInv, NEW o \in Objects,
           \/ ControlWrite(o)
           \/ \E t \in ToolCalls : SubmitToolResult(o, t)
    PROVE  MediaInv'
<1>1. /\ object[o] \in Managed /\ ControlInv(o) /\ requests \in 0..Requests
      /\ gone \in [Roles \X Objects -> BOOLEAN] /\ object[o].buffered \subseteq ToolCalls
  BY SessionTypes DEF Managed
<1>2. CASE ControlWrite(o)
  <2>1. PICK t \in object[o].buffered :
           /\ object[o].control
           /\ object' = [object EXCEPT ![o].buffered = @ \ {t}, ![o].seen = @ \cup {t}]
           /\ UNCHANGED <<sessions, starting, thread, gone, drain, requests>>
    BY <1>2 DEF ControlWrite
  <2>. DEFINE m == [object[o] EXCEPT !.buffered = @ \ {t}, !.seen = @ \cup {t}]
  <2>2. object' = [object EXCEPT ![o] = m]
    BY <2>1, SessionTypes
  <2>3. /\ m \in Managed /\ m.id = object[o].id /\ m.attached = object[o].attached
        /\ m.finished = object[o].finished /\ m.once = object[o].once
        /\ m.complete = object[o].complete /\ m.pending = object[o].pending
        /\ m.control = object[o].control
        /\ m.buffered \cup m.seen = object[o].buffered \cup object[o].seen
    BY <1>1, <2>1 DEF Managed
  <2>4. object[o].id # NoId
    BY <2>1, SessionTypes DEF Unused
  <2>. HIDE DEF m
  <2>5. m.control /\ ~m.finished /\ At("pump", o) = "pumping" =>
           m.pending \subseteq m.buffered \cup m.seen
    BY <1>1, <2>3 DEF ControlInv
  <2> QED
    BY <1>1, <2>1, <2>2, <2>3, <2>4, <2>5, SessionChanges
<1>3. CASE \E t \in ToolCalls : SubmitToolResult(o, t)
  <2>1. PICK t \in ToolCalls : SubmitToolResult(o, t)
    BY <1>3
  <2>2. /\ At("control", o) = "serving" /\ object' = [object EXCEPT ![o].pending = @ \ {t}]
        /\ UNCHANGED <<sessions, starting, thread, gone, drain, requests>>
    BY <2>1 DEF SubmitToolResult, At
  <2>. DEFINE m == [object[o] EXCEPT !.pending = @ \ {t}]
  <2>3. object' = [object EXCEPT ![o] = m]
    BY <2>2, SessionTypes
  <2>4. /\ m \in Managed /\ m.id = object[o].id /\ m.attached = object[o].attached
        /\ m.finished = object[o].finished /\ m.once = object[o].once
        /\ m.complete = object[o].complete
    BY <1>1 DEF Managed
  <2>5. /\ m.pending = object[o].pending \ {t} /\ m.control = object[o].control
        /\ m.buffered = object[o].buffered /\ m.seen = object[o].seen
    BY <1>1 DEF Managed
  <2>6. object[o].id # NoId
    BY <2>2, SessionTypes DEF Roles
  <2>. HIDE DEF m
  <2>7. m.control /\ ~m.finished /\ At("pump", o) = "pumping" =>
           m.pending \subseteq m.buffered \cup m.seen
    BY <1>1, <2>4, <2>5 DEF ControlInv
  <2>8. m.pending \subseteq object[o].pending /\ requests' \in 0..Requests
    BY <1>1, <2>2, <2>5
  <2> QED
    BY <1>1, <2>2, <2>3, <2>4, <2>6, <2>7, <2>8, SessionChanges
<1> QED
  BY <1>2, <1>3

\* One thread of a session takes a step, and with it the session changes.
LEMMA StepOfThread ==
    ASSUME MediaInv, NEW o \in Objects, NEW m \in Managed, NEW r \in Roles, NEW st \in ThreadState,
           object' = [object EXCEPT ![o] = m], GotoThread(r, o, st),
           UNCHANGED <<sessions, starting, drain>>, requests' \in 0..Requests,
           gone' \in [Roles \X Objects -> BOOLEAN],
           object[o].id # NoId, m.id = object[o].id, object[o].complete => m.complete,
           m.attached = object[o].attached \/ (m.attached /\ ~object[o].finished),
           m.finished <=> m.once # "new",
           m.pending = object[o].pending \/ m.attached,
           m.finished \/ ~object[o].finished, m.once = "done" \/ object[o].once # "done",
           m.complete => m.once = "done" /\ (r = "pump" => st # "pumping")
                         /\ (~object[o].complete => r = "pump" \/ At("pump", o) # "pumping"),
           r = "pump" => m.attached \/ st = "idle",
           r = "timer" => st \in {"idle", "expired", "closing", "remove"}
                          /\ (st = "closing" => ~m.attached),
           st \in {"once", "closing"} => m.finished,
           st \in {"wait", "complete", "remove"} => m.once = "done",
           st = "remove" => m.complete, st \in {"pumping", "complete"} => r = "pump",
           m.control /\ ~m.finished /\ (IF r = "pump" THEN st ELSE At("pump", o)) = "pumping" =>
               m.pending \subseteq m.buffered \cup m.seen
    PROVE  MediaInv'
<1>1. /\ object' \in [Objects -> Managed] /\ object'[o] = m
      /\ \A p \in Objects \ {o} : object'[p] = object[p]
      /\ ThreadInv(o) /\ ControlInv(o)
  BY SessionTypes
<1>2. /\ thread' \in [Roles \X Objects -> ThreadState] /\ At(r, o)' = st
      /\ \A q \in Roles \ {r} : At(q, o)' = At(q, o)
      /\ \A p \in Objects \ {o}, q \in Roles : At(q, p)' = At(q, p)
  BY SessionTypes, ThreadMoves
<1>3. "pump" \in Roles /\ "timer" \in Roles
  BY DEF Roles
<1>4. ThreadInv(o)'
  <2>1. ~m.attached => At("pump", o)' = "idle" /\ m.pending = {}
    BY <1>1, <1>2, <1>3 DEF ThreadInv
  <2>2. m.complete => m.once = "done" /\ At("pump", o)' # "pumping"
    BY <1>1, <1>2, <1>3 DEF ThreadInv
  <2>3. /\ At("timer", o)' \in {"idle", "expired", "closing", "remove"}
        /\ At("timer", o)' = "closing" => ~m.attached
    BY <1>1, <1>2, <1>3 DEF ThreadInv
  <2>4. ASSUME NEW q \in Roles
        PROVE  /\ At(q, o)' \in {"once", "closing"} => m.finished
               /\ At(q, o)' \in {"wait", "complete", "remove"} => m.once = "done"
               /\ At(q, o)' = "remove" => m.complete
               /\ At(q, o)' \in {"pumping", "complete"} => q = "pump"
    <3>1. CASE q = r
      BY <1>2, <3>1
    <3>2. CASE q # r
      BY <1>1, <1>2, <3>2 DEF ThreadInv
    <3> QED
      BY <3>1, <3>2
  <2> QED
    BY <1>1, <2>1, <2>2, <2>3, <2>4 DEF ThreadInv
<1>5. ControlInv(o)'
  <2>1. At("pump", o)' = IF r = "pump" THEN st ELSE At("pump", o)
    BY <1>2, <1>3
  <2> QED
    BY <1>1, <2>1 DEF ControlInv
<1> QED
  BY <1>1, <1>2, <1>4, <1>5, OneSession

\* A thread takes a step that leaves its session as it is.
LEMMA ThreadOnly ==
    ASSUME MediaInv, NEW o \in Objects, NEW r \in Roles, NEW st \in ThreadState,
           GotoThread(r, o, st), UNCHANGED <<sessions, starting, object, drain>>,
           requests' \in 0..Requests, gone' \in [Roles \X Objects -> BOOLEAN],
           object[o].id # NoId, st # "pumping",
           r = "pump" => object[o].attached \/ st = "idle",
           r = "timer" => st \in {"idle", "expired", "remove"},
           st \in {"once", "closing"} => object[o].finished,
           st \in {"wait", "complete", "remove"} => object[o].once = "done",
           st = "remove" => object[o].complete, st = "complete" => r = "pump"
    PROVE  MediaInv'
<1>1. /\ object[o] \in Managed /\ ThreadInv(o) /\ ControlInv(o) /\ object \in [Objects -> Managed]
  BY SessionTypes
<1>2. object' = [object EXCEPT ![o] = object[o]]
  BY <1>1
<1> QED
  BY <1>1, <1>2, StepOfThread DEF ThreadInv, ControlInv

\* Steps of a thread that change nothing but where it stands: the pump returns, Stop begins or is
\* over, sync.Once lets a thread pass.
LEMMA ThreadStep ==
    ASSUME MediaInv, NEW o \in Objects, NEW r \in Roles,
           \/ PumpEnds(o) \/ SkipResources(r, o) \/ StopWaits(r, o)
           \/ r \in {"control", "delete"} /\ StopSession(r, o)
    PROVE  MediaInv'
<1>1. /\ object[o] \in Managed /\ ThreadInv(o) /\ ControlInv(o) /\ object \in [Objects -> Managed]
      /\ requests \in 0..Requests /\ gone \in [Roles \X Objects -> BOOLEAN] /\ Requests \in Nat
      /\ {"pump", "timer", "control", "delete", "drain"} = Roles
      /\ {"idle", "pumping", "finish", "wait", "complete", "remove"} \subseteq ThreadState
  BY SessionTypes, MediaAssumption DEF Roles, ThreadState, MediaAssumption
<1>2. CASE PumpEnds(o)
  <2>1. /\ At("pump", o) = "pumping" /\ GotoThread("pump", o, "finish")
        /\ UNCHANGED <<sessions, object, starting, gone, drain, requests>>
    BY <1>2 DEF PumpEnds, At
  <2>2. object[o].id # NoId /\ object[o].attached
    BY <1>1, <2>1, SessionTypes DEF ThreadInv
  <2> QED
    BY <1>1, <2>1, <2>2, ThreadOnly
<1>3. CASE SkipResources(r, o)
  <2>1. /\ At(r, o) = "once" /\ object[o].once = "done" /\ GotoThread(r, o, AfterFinish(r))
        /\ UNCHANGED <<sessions, object, starting, gone, drain, requests>>
    BY <1>3 DEF SkipResources, At
  <2>2. object[o].id # NoId /\ r # "timer" /\ (r = "pump" => object[o].attached)
    BY <1>1, <2>1, SessionTypes DEF ThreadInv
  <2>3. AfterFinish(r) \in {"complete", "idle", "wait"} /\ (AfterFinish(r) = "complete" => r = "pump")
    BY <2>2 DEF AfterFinish
  <2> QED
    BY <1>1, <2>1, <2>2, <2>3, ThreadOnly
<1>4. CASE StopWaits(r, o)
  <2>1. /\ At(r, o) = "wait" /\ gone' = [gone EXCEPT ![<<r, o>>] = FALSE]
        /\ \/ object[o].complete /\ GotoThread(r, o, "remove")
           \/ GotoThread(r, o, "idle")
        /\ UNCHANGED <<sessions, object, starting, drain, requests>>
    BY <1>4 DEF StopWaits, At
  <2>2. object[o].id # NoId /\ object[o].once = "done" /\ (r = "pump" => object[o].attached)
    BY <1>1, <2>1, SessionTypes DEF ThreadInv
  <2>3. gone' \in [Roles \X Objects -> BOOLEAN]
    BY <1>1, <2>1
  <2>4. CASE object[o].complete /\ GotoThread(r, o, "remove")
    BY <1>1, <2>1, <2>2, <2>3, <2>4, ThreadOnly
  <2>5. CASE GotoThread(r, o, "idle")
    BY <1>1, <2>1, <2>2, <2>3, <2>5, ThreadOnly
  <2> QED
    BY <2>1, <2>4, <2>5
<1>5. CASE r \in {"control", "delete"} /\ StopSession(r, o)
  <2>1. /\ Registered(o) /\ GotoThread(r, o, "finish") /\ requests < Requests /\ requests' = requests + 1
        /\ UNCHANGED <<sessions, object, starting, gone, drain>> /\ r \in {"control", "delete"}
    BY <1>5 DEF StopSession, ManagerRequest
  <2>2. object[o].id # NoId /\ requests' \in 0..Requests
    BY <1>1, <2>1, SessionTypes
  <2> QED
    BY <1>1, <2>1, <2>2, ThreadOnly
<1> QED
  BY <1>2, <1>3, <1>4, <1>5

\* finishResources ends, and markComplete.
LEMMA CompletionStep ==
    ASSUME MediaInv, NEW o \in Objects, NEW r \in Roles, ResourcesClosed(r, o) \/ MarkComplete(o)
    PROVE  MediaInv'
<1>1. /\ object[o] \in Managed /\ ThreadInv(o) /\ ControlInv(o) /\ object \in [Objects -> Managed]
      /\ requests \in 0..Requests /\ gone \in [Roles \X Objects -> BOOLEAN]
      /\ {"pump", "timer", "control", "delete", "drain"} = Roles
      /\ {"idle", "wait", "complete", "remove"} \subseteq ThreadState
  BY SessionTypes DEF Roles, ThreadState
<1>2. CASE ResourcesClosed(r, o)
  <2>. DEFINE m == [object[o] EXCEPT !.once = "done", !.complete = @ \/ r = "timer" \/ ~object[o].attached]
  <2>1. /\ At(r, o) = "closing" /\ object' = [object EXCEPT ![o] = m]
        /\ GotoThread(r, o, AfterFinish(r))
        /\ UNCHANGED <<sessions, starting, gone, drain, requests>>
    BY <1>1, <1>2 DEF ResourcesClosed, At
  <2>2. /\ m \in Managed /\ m.id = object[o].id /\ m.attached = object[o].attached
        /\ m.finished = object[o].finished /\ m.once = "done" /\ m.pending = object[o].pending
        /\ m.complete = (object[o].complete \/ r = "timer" \/ ~object[o].attached)
    BY <1>1 DEF Managed
  <2>. HIDE DEF m
  <2>3. /\ object[o].id # NoId /\ object[o].finished
        /\ (r = "timer" => ~object[o].attached) /\ (r = "pump" => object[o].attached)
        /\ (~object[o].attached => At("pump", o) = "idle")
        /\ (object[o].complete => At("pump", o) # "pumping")
    BY <1>1, <2>1, SessionTypes DEF ThreadInv
  <2>4. /\ AfterFinish(r) \in {"complete", "idle", "wait", "remove"}
        /\ AfterFinish(r) = "complete" => r = "pump"
        /\ AfterFinish(r) = "remove" => r = "timer"
        /\ r = "timer" => AfterFinish(r) = "remove"
    BY DEF AfterFinish
  <2> QED
    BY <1>1, <2>1, <2>2, <2>3, <2>4, StepOfThread
<1>3. CASE MarkComplete(o)
  <2>. DEFINE m == [object[o] EXCEPT !.complete = TRUE]
  <2>1. /\ At("pump", o) = "complete" /\ object' = [object EXCEPT ![o] = m]
        /\ GotoThread("pump", o, "remove")
        /\ UNCHANGED <<sessions, starting, gone, drain, requests>>
    BY <1>1, <1>3 DEF MarkComplete, At
  <2>2. /\ m \in Managed /\ m.id = object[o].id /\ m.attached = object[o].attached
        /\ m.finished = object[o].finished /\ m.once = object[o].once
        /\ m.pending = object[o].pending /\ m.complete = TRUE
    BY <1>1 DEF Managed
  <2>. HIDE DEF m
  <2>3. object[o].id # NoId /\ object[o].once = "done" /\ object[o].attached /\ object[o].finished
    BY <1>1, <2>1, SessionTypes DEF ThreadInv
  <2> QED
    BY <1>1, <2>1, <2>2, <2>3, StepOfThread
<1> QED
  BY <1>2, <1>3

\* A session is finished: by its timer, or by whoever calls finish.
LEMMA FinishStep ==
    ASSUME MediaInv, NEW o \in Objects, NEW r \in Roles, FinishMedia(r, o) \/ FinishUnattached(o)
    PROVE  MediaInv'
<1>1. /\ object[o] \in Managed /\ ThreadInv(o) /\ ControlInv(o) /\ object \in [Objects -> Managed]
      /\ requests \in 0..Requests /\ gone \in [Roles \X Objects -> BOOLEAN]
      /\ {"pump", "timer", "control", "delete", "drain"} = Roles
      /\ {"idle", "once", "closing"} \subseteq ThreadState
  BY SessionTypes DEF Roles, ThreadState
<1>2. \A m \in Managed :
         /\ Closing(m) \in Managed /\ Closing(m).id = m.id /\ Closing(m).attached = m.attached
         /\ Closing(m).finished = m.finished /\ Closing(m).once = "running"
         /\ Closing(m).complete = m.complete /\ Closing(m).pending = m.pending
         /\ Closing(m).control = FALSE
  BY DEF Closing, Managed
<1>3. CASE FinishMedia(r, o)
  <2>. DEFINE m == [object[o] EXCEPT !.finished = TRUE, !.timer = FALSE]
  <2>1. /\ At(r, o) = "finish"
        /\ IF m.once = "new"
           THEN object' = [object EXCEPT ![o] = Closing(m)] /\ GotoThread(r, o, "closing")
           ELSE object' = [object EXCEPT ![o] = m] /\ GotoThread(r, o, "once")
        /\ UNCHANGED <<sessions, starting, gone, drain, requests>>
    BY <1>3 DEF FinishMedia, At
  <2>2. /\ m \in Managed /\ m.id = object[o].id /\ m.attached = object[o].attached
        /\ m.finished = TRUE /\ m.once = object[o].once /\ m.pending = object[o].pending
        /\ m.complete = object[o].complete
    BY <1>1 DEF Managed
  <2>. HIDE DEF m
  <2>3. /\ object[o].id # NoId /\ r # "timer" /\ (r = "pump" => object[o].attached)
        /\ (object[o].complete => object[o].once = "done")
    BY <1>1, <2>1, SessionTypes DEF ThreadInv
  <2>4. CASE m.once = "new"
    <3>. DEFINE x == Closing(m)
    <3>1. /\ x \in Managed /\ x.id = object[o].id /\ x.attached = object[o].attached
          /\ x.finished = TRUE /\ x.once = "running" /\ x.complete = object[o].complete
          /\ x.pending = object[o].pending /\ x.control = FALSE
      BY <1>2, <2>2
    <3>2. object' = [object EXCEPT ![o] = x] /\ GotoThread(r, o, "closing")
      BY <2>1, <2>4
    <3>. HIDE DEF x
    <3>3. object[o].complete = FALSE /\ object[o].once = "new"
      BY <1>1, <2>2, <2>3, <2>4 DEF Managed
    <3> QED
      BY <1>1, <2>1, <2>3, <3>1, <3>2, <3>3, StepOfThread
  <2>5. CASE m.once # "new"
    <3>1. object' = [object EXCEPT ![o] = m] /\ GotoThread(r, o, "once")
      BY <2>1, <2>5
    <3> QED
      BY <1>1, <2>1, <2>2, <2>3, <2>5, <3>1, StepOfThread
  <2> QED
    BY <2>4, <2>5
<1>4. CASE FinishUnattached(o)
  <2>1. /\ At("timer", o) = "expired" /\ UNCHANGED <<sessions, starting, gone, drain, requests>>
        /\ IF ~object[o].finished /\ ~object[o].attached
           THEN /\ object' = [object EXCEPT ![o] = Closing([@ EXCEPT !.finished = TRUE])]
                /\ GotoThread("timer", o, "closing")
           ELSE GotoThread("timer", o, "idle") /\ UNCHANGED object
    BY <1>4 DEF FinishUnattached, CanExpire, At
  <2>2. object[o].id # NoId
    BY <1>1, <2>1, SessionTypes
  <2>3. CASE ~object[o].finished /\ ~object[o].attached
    <3>. DEFINE m == [object[o] EXCEPT !.finished = TRUE]
                x == Closing(m)
    <3>1. /\ m \in Managed /\ m.id = object[o].id /\ m.attached = object[o].attached
          /\ m.finished = TRUE /\ m.pending = object[o].pending /\ m.complete = object[o].complete
      BY <1>1 DEF Managed
    <3>. HIDE DEF m
    <3>2. /\ x \in Managed /\ x.id = object[o].id /\ x.attached = object[o].attached
          /\ x.finished = TRUE /\ x.once = "running" /\ x.complete = object[o].complete
          /\ x.pending = object[o].pending /\ x.control = FALSE
      BY <1>2, <3>1
    <3>3. object' = [object EXCEPT ![o] = x] /\ GotoThread("timer", o, "closing")
      BY <1>1, <2>1, <2>3 DEF m
    <3>. HIDE DEF x
    <3>4. object[o].complete = FALSE /\ object[o].once = "new" /\ ~object[o].attached
      BY <1>1, <2>3 DEF ThreadInv, Managed
    <3> QED
      BY <1>1, <2>1, <2>2, <3>2, <3>3, <3>4, StepOfThread
  <2>4. CASE ~(~object[o].finished /\ ~object[o].attached)
    BY <1>1, <2>1, <2>2, <2>4, ThreadOnly
  <2> QED
    BY <2>3, <2>4
<1> QED
  BY <1>3, <1>4

\* The attachment timer fires, or the pump fails: the worker is told if it listens.
LEMMA FailureStep ==
    ASSUME MediaInv, NEW o \in Objects, TimerFires(o) \/ PumpFails(o)
    PROVE  MediaInv'
<1>1. /\ object[o] \in Managed /\ ThreadInv(o) /\ ControlInv(o) /\ object \in [Objects -> Managed]
      /\ requests \in 0..Requests /\ gone \in [Roles \X Objects -> BOOLEAN]
      /\ {"pump", "timer", "control", "delete", "drain"} = Roles
      /\ {"expired", "finish"} \subseteq ThreadState
  BY SessionTypes DEF Roles, ThreadState
<1>2. \E m \in Managed :
         /\ object' = [object EXCEPT ![o] = m] /\ m.id = object[o].id
         /\ m.attached = object[o].attached /\ m.finished = object[o].finished
         /\ m.once = object[o].once /\ m.complete = object[o].complete
         /\ m.pending = object[o].pending /\ m.control = object[o].control
         /\ m.buffered = object[o].buffered /\ m.seen = object[o].seen
  <2>. DEFINE m == Told(object[o])
              x == [m EXCEPT !.timer = FALSE]
  <2>1. /\ m \in Managed /\ m.id = object[o].id
        /\ m.attached = object[o].attached /\ m.finished = object[o].finished
        /\ m.once = object[o].once /\ m.complete = object[o].complete
        /\ m.pending = object[o].pending /\ m.control = object[o].control
        /\ m.buffered = object[o].buffered /\ m.seen = object[o].seen
    BY <1>1 DEF Told, Managed
  <2>2. object' = [object EXCEPT ![o] = x] \/ object' = [object EXCEPT ![o] = m]
    BY <1>1 DEF TimerFires, PumpFails
  <2>. HIDE DEF m
  <2>3. /\ x \in Managed /\ x.id = m.id /\ x.attached = m.attached /\ x.finished = m.finished
        /\ x.once = m.once /\ x.complete = m.complete /\ x.pending = m.pending
        /\ x.control = m.control /\ x.buffered = m.buffered /\ x.seen = m.seen
    BY <2>1 DEF Managed
  <2>. HIDE DEF x
  <2> QED
    BY <2>1, <2>2, <2>3
<1>3. UNCHANGED <<sessions, starting, gone, drain, requests>>
  BY DEF TimerFires, PumpFails
<1>4. \/ object[o].timer /\ GotoThread("timer", o, "expired")
      \/ At("pump", o) = "pumping" /\ GotoThread("pump", o, "finish")
  BY DEF TimerFires, PumpFails, At
<1>5. /\ object[o].id # NoId
      /\ At("pump", o) = "pumping" => object[o].attached /\ object[o].complete = FALSE
  BY <1>1, <1>4, SessionTypes DEF ThreadInv, Unused, Managed
<1>6. /\ object[o].complete => object[o].once = "done" /\ At("pump", o) # "pumping"
      /\ object[o].finished <=> object[o].once # "new"
      /\ object[o].control /\ ~object[o].finished /\ At("pump", o) = "pumping" =>
            object[o].pending \subseteq object[o].buffered \cup object[o].seen
  BY <1>1 DEF ThreadInv, ControlInv
<1> QED
  BY ZenonT(40), <1>1, <1>2, <1>3, <1>4, <1>5, <1>6, StepOfThread

\* A worker opens the control channel, or loses it.
LEMMA ChannelStep ==
    ASSUME MediaInv, NEW o \in Objects, AttachControl(o) \/ ControlReturns(o)
    PROVE  MediaInv'
<1>1. /\ object[o] \in Managed /\ ThreadInv(o) /\ ControlInv(o) /\ object \in [Objects -> Managed]
      /\ requests \in 0..Requests /\ gone \in [Roles \X Objects -> BOOLEAN] /\ Requests \in Nat
      /\ {"pump", "timer", "control", "delete", "drain"} = Roles
      /\ {"idle", "serving"} \subseteq ThreadState
  BY SessionTypes, MediaAssumption DEF Roles, ThreadState, MediaAssumption
<1>2. CASE AttachControl(o)
  <2>. DEFINE m == [object[o] EXCEPT !.control = TRUE, !.buffered = object[o].pending, !.seen = {}]
  <2>1. /\ object' = [object EXCEPT ![o] = m] /\ GotoThread("control", o, "serving")
        /\ Registered(o) /\ ~object[o].finished /\ requests < Requests /\ requests' = requests + 1
        /\ UNCHANGED <<sessions, starting, gone, drain>>
    BY <1>1, <1>2 DEF AttachControl, ManagerRequest
  <2>2. /\ m \in Managed /\ m.id = object[o].id /\ m.attached = object[o].attached
        /\ m.finished = object[o].finished /\ m.once = object[o].once
        /\ m.complete = object[o].complete /\ m.pending = object[o].pending
        /\ m.buffered = object[o].pending
    BY <1>1 DEF Managed
  <2>. HIDE DEF m
  <2>3. /\ object[o].id # NoId /\ object[o].complete = FALSE /\ requests' \in 0..Requests
        /\ object[o].finished <=> object[o].once # "new"
    BY <1>1, <2>1, SessionTypes DEF ThreadInv, Managed
  <2> QED
    BY <1>1, <2>1, <2>2, <2>3, StepOfThread
<1>3. CASE ControlReturns(o)
  <2>. DEFINE m == [object[o] EXCEPT !.control = FALSE, !.buffered = {}, !.seen = {}]
  <2>1. /\ object' = [object EXCEPT ![o] = m] /\ UNCHANGED <<sessions, starting, drain, requests>>
        /\ At("control", o) # "idle"
        /\ \/ GotoThread("control", o, "idle") /\ UNCHANGED gone
           \/ gone' = [gone EXCEPT ![<<"control", o>>] = TRUE] /\ UNCHANGED thread
    BY <1>1, <1>3 DEF ControlReturns, At
  <2>2. /\ m \in Managed /\ m.id = object[o].id /\ m.attached = object[o].attached
        /\ m.finished = object[o].finished /\ m.once = object[o].once
        /\ m.complete = object[o].complete /\ m.pending = object[o].pending
        /\ m.control = FALSE
    BY <1>1 DEF Managed
  <2>. HIDE DEF m
  <2>3. object[o].id # NoId /\ gone' \in [Roles \X Objects -> BOOLEAN]
    BY <1>1, <2>1, SessionTypes
  <2>4. /\ object[o].complete => object[o].once = "done" /\ At("pump", o) # "pumping"
        /\ object[o].finished <=> object[o].once # "new"
    BY <1>1 DEF ThreadInv
  <2>5. CASE GotoThread("control", o, "idle")
    BY <1>1, <2>1, <2>2, <2>3, <2>4, <2>5, StepOfThread
  <2>6. CASE UNCHANGED thread
    BY <1>1, <2>1, <2>2, <2>3, <2>6, SessionChanges
  <2> QED
    BY <2>1, <2>5, <2>6
<1> QED
  BY <1>2, <1>3

\* Audio is attached.
LEMMA AttachStep == ASSUME MediaInv, NEW o \in Objects, Attach(o) PROVE MediaInv'
<1>1. /\ object[o] \in Managed /\ ThreadInv(o) /\ object \in [Objects -> Managed]
      /\ requests \in 0..Requests /\ gone \in [Roles \X Objects -> BOOLEAN]
      /\ "pump" \in Roles /\ "pumping" \in ThreadState
  BY SessionTypes DEF Roles, ThreadState
<1>. DEFINE m == [object[o] EXCEPT !.attached = TRUE, !.timer = FALSE]
<1>2. /\ object' = [object EXCEPT ![o] = m] /\ GotoThread("pump", o, "pumping") /\ Registered(o)
      /\ ~object[o].attached /\ ~object[o].finished
      /\ UNCHANGED <<sessions, starting, gone, drain, requests>>
  BY <1>1 DEF Attach
<1>3. /\ m \in Managed /\ m.id = object[o].id /\ m.attached = TRUE
      /\ m.finished = object[o].finished /\ m.once = object[o].once
      /\ m.complete = object[o].complete /\ m.pending = object[o].pending
  BY <1>1 DEF Managed
<1>. HIDE DEF m
<1>4. /\ object[o].id # NoId /\ object[o].complete = FALSE /\ object[o].pending = {}
      /\ object[o].finished <=> object[o].once # "new"
  BY <1>1, <1>2, SessionTypes DEF ThreadInv, Managed
<1> QED
  BY <1>1, <1>2, <1>3, <1>4, StepOfThread

\* A tool call of the provider.
LEMMA ToolCallStep ==
    ASSUME MediaInv, NEW o \in Objects, NEW t \in ToolCalls, ProviderCallsTool(o, t)
    PROVE  MediaInv'
<1>1. /\ object[o] \in Managed /\ ThreadInv(o) /\ ControlInv(o) /\ object \in [Objects -> Managed]
      /\ requests \in 0..Requests /\ gone \in [Roles \X Objects -> BOOLEAN]
      /\ "pump" \in Roles /\ "finish" \in ThreadState
  BY SessionTypes DEF Roles, ThreadState
<1>. DEFINE m == Published(object[o], t)
<1>2. /\ m \in Managed /\ m.id = object[o].id /\ m.attached = object[o].attached
      /\ m.finished = object[o].finished /\ m.once = object[o].once
      /\ m.complete = object[o].complete /\ m.control = object[o].control
      /\ m.seen = object[o].seen /\ m.pending \subseteq object[o].pending \cup {t}
      /\ m.control /\ CanPublish(object[o], t) => m.buffered = object[o].buffered \cup {t}
  BY <1>1 DEF Published, Managed
<1>3. /\ At("pump", o) = "pumping" /\ ~object[o].finished
      /\ IF CanPublish(object[o], t)
         THEN object' = [object EXCEPT ![o] = m] /\ UNCHANGED thread
         ELSE object' = [object EXCEPT ![o] = Told(m)] /\ GotoThread("pump", o, "finish")
      /\ UNCHANGED <<sessions, starting, gone, drain, requests>>
  BY <1>1 DEF ProviderCallsTool, At
<1>. HIDE DEF m
<1>4. /\ object[o].id # NoId /\ object[o].attached /\ object[o].complete = FALSE
      /\ object[o].finished <=> object[o].once # "new"
      /\ object[o].control => object[o].pending \subseteq object[o].buffered \cup object[o].seen
  BY <1>1, <1>3, SessionTypes DEF ThreadInv, ControlInv, Managed
<1>5. CASE CanPublish(object[o], t)
  <2>1. m.control => m.pending \subseteq m.buffered \cup m.seen
    BY <1>2, <1>4, <1>5
  <2> QED
    BY <1>1, <1>2, <1>3, <1>4, <1>5, <2>1, SessionChanges
<1>6. CASE ~CanPublish(object[o], t)
  <2>. DEFINE x == Told(m)
  <2>1. /\ x \in Managed /\ x.id = m.id /\ x.attached = m.attached
        /\ x.finished = m.finished /\ x.once = m.once /\ x.complete = m.complete
    BY <1>2 DEF Told, Managed
  <2>2. object' = [object EXCEPT ![o] = x] /\ GotoThread("pump", o, "finish")
    BY <1>3, <1>6
  <2>. HIDE DEF x
  <2> QED
    BY <1>1, <1>2, <1>3, <1>4, <2>1, <2>2, StepOfThread
<1> QED
  BY <1>5, <1>6

\* Threads that go to rest leave what is said of their sessions true.
LEMMA ThreadsRest ==
    ASSUME MediaInv, UNCHANGED object,
           \A p \in Objects, r \in Roles : At(r, p)' \in {At(r, p), "idle"}
    PROVE  \A p \in Objects : ThreadInv(p)' /\ ControlInv(p)'
<1>1. ASSUME NEW p \in Objects
      PROVE  ThreadInv(p)' /\ ControlInv(p)'
  <2>1. /\ ThreadInv(p) /\ ControlInv(p) /\ {"pump", "timer"} \subseteq Roles
        /\ \A r \in Roles : At(r, p)' \in {At(r, p), "idle"}
    BY DEF MediaInv, Roles
  <2>2. ThreadInv(p)'
    BY <2>1 DEF ThreadInv
  <2>3. ControlInv(p)'
    BY <2>1 DEF ControlInv
  <2> QED
    BY <2>2, <2>3
<1> QED
  BY <1>1

\* A session that is complete is removed from the map.
LEMMA WithoutComplete ==
    ASSUME MediaInv, NEW o \in Objects, object[o].complete, sessions' = WithoutSession(o),
           UNCHANGED <<object, starting>>,
           \A p \in Objects, r \in Roles : At(r, p)' \in {At(r, p), "idle"}
    PROVE  sessions' \in [SessionIds -> Objects \cup {NoObject}] /\ MapInv'
<1>1. /\ sessions \in [SessionIds -> Objects \cup {NoObject}] /\ MapInv
      /\ starting \in SessionIds \cup {NoId} /\ NoObject \notin Objects
  BY MediaAssumption DEF MediaInv, MediaTypeOK, MediaAssumption
<1>2. \A s \in SessionIds : sessions'[s] = IF sessions[s] = o THEN NoObject ELSE sessions[s]
  BY DEF WithoutSession
<1>3. sessions' \in [SessionIds -> Objects \cup {NoObject}]
  BY <1>1 DEF WithoutSession
<1>4. ASSUME NEW p \in Objects, object[p].id # NoId, ~Registered(p)'
      PROVE  object[p].complete
  <2>1. CASE p = o
    BY <2>1
  <2>2. CASE p # o /\ Registered(p)
    <3>1. object[p].id \in SessionIds /\ sessions[object[p].id] = p
      BY <1>4, <2>2 DEF Registered, MediaInv, MediaTypeOK, Managed
    <3>2. sessions'[object[p].id] = p
      BY <1>2, <2>2, <3>1
    <3> QED
      BY <1>4, <3>2 DEF Registered
  <2>3. CASE ~Registered(p)
    BY <1>1, <1>4, <2>3 DEF MapInv
  <2> QED
    BY <2>1, <2>2, <2>3
<1>5. MapInv'
  <2>1. \A s \in SessionIds : sessions'[s] # NoObject => object'[sessions'[s]].id = s
    BY <1>1, <1>2 DEF MapInv
  <2>2. starting' # NoId => sessions'[starting'] = NoObject
    BY <1>1, <1>2 DEF MapInv
  <2>3. \A p \in Objects : object'[p].id = NoId =>
           object'[p] = Unused /\ \A r \in Roles : At(r, p)' = "idle"
    BY <1>1 DEF MapInv
  <2> QED
    BY <1>4, <2>1, <2>2, <2>3 DEF MapInv
<1> QED
  BY <1>3, <1>5

\* Manager.remove, and the removal by the drain.
LEMMA RemoveStep ==
    ASSUME MediaInv,
           \/ \E r \in Roles, o \in Objects : RemoveSession(r, o)
           \/ DrainRemoves
    PROVE  MediaInv'
<1>1. CASE \E r \in Roles, o \in Objects : RemoveSession(r, o)
  <2>1. PICK r \in Roles, o \in Objects : RemoveSession(r, o)
    BY <1>1
  <2>2. /\ At(r, o) = "remove" /\ sessions' = WithoutSession(o) /\ GotoThread(r, o, "idle")
        /\ UNCHANGED <<object, starting, gone, drain, requests>>
    BY <2>1 DEF RemoveSession, At
  <2>3. object[o].complete
    BY <2>2, SessionTypes DEF ThreadInv
  <2>4. /\ thread' \in [Roles \X Objects -> ThreadState]
        /\ \A p \in Objects, q \in Roles : At(q, p)' \in {At(q, p), "idle"}
    <3>1. "idle" \in ThreadState
      BY DEF ThreadState
    <3>2. /\ thread' \in [Roles \X Objects -> ThreadState] /\ At(r, o)' = "idle"
          /\ \A q \in Roles \ {r} : At(q, o)' = At(q, o)
          /\ \A p \in Objects \ {o}, q \in Roles : At(q, p)' = At(q, p)
      BY <2>2, <3>1, SessionTypes, ThreadMoves
    <3> QED
      BY <3>2
  <2>5. sessions' \in [SessionIds -> Objects \cup {NoObject}] /\ MapInv'
    BY <2>2, <2>3, <2>4, WithoutComplete
  <2>6. MediaTypeOK'
    BY <2>2, <2>4, <2>5 DEF MediaInv, MediaTypeOK
  <2> QED
    BY <2>2, <2>4, <2>5, <2>6, ThreadsRest DEF MediaInv
<1>2. CASE DrainRemoves
  <2>1. /\ UNCHANGED <<object, starting, thread, gone, requests>>
        /\ \/ drain' = [drain EXCEPT !.state = "empty"] /\ UNCHANGED sessions
           \/ \E o \in drain.left :
                 /\ object[o].complete /\ sessions' = WithoutSession(o)
                 /\ drain' = [drain EXCEPT !.left = @ \ {o}]
    BY <1>2 DEF DrainRemoves
  <2>2. \A p \in Objects, q \in Roles : At(q, p)' \in {At(q, p), "idle"}
    BY <2>1 DEF At
  <2>3. drain.left \subseteq Objects
    BY DEF MediaInv, MediaTypeOK
  <2>4. sessions' \in [SessionIds -> Objects \cup {NoObject}] /\ MapInv'
    <3>1. CASE UNCHANGED sessions
      BY <2>1, <3>1 DEF MediaInv, MediaTypeOK, MapInv, Registered, At
    <3>2. CASE \E o \in drain.left : object[o].complete /\ sessions' = WithoutSession(o)
      BY <2>1, <2>2, <2>3, <3>2, WithoutComplete
    <3> QED
      BY <2>1, <3>1, <3>2
  <2>5. MediaTypeOK'
    BY <2>1, <2>3, <2>4 DEF MediaInv, MediaTypeOK
  <2> QED
    BY <2>1, <2>2, <2>4, <2>5, ThreadsRest DEF MediaInv
<1> QED
  BY <1>1, <1>2

\* Start, up to the provider and after it.
LEMMA StartStep ==
    ASSUME MediaInv,
           \/ \E s \in SessionIds : StartSession(s)
           \/ ProviderFailed
           \/ \E o \in Objects : ProviderStarted(o)
    PROVE  MediaInv'
<1>1. CASE (\E s \in SessionIds : StartSession(s)) \/ ProviderFailed
  <2>1. /\ UNCHANGED <<sessions, object, thread, gone, drain, requests>>
        /\ starting' \in SessionIds \cup {NoId}
        /\ starting' # NoId => sessions[starting'] = NoObject
    BY <1>1 DEF StartSession, ProviderFailed
  <2>2. \A p \in Objects, q \in Roles : At(q, p)' \in {At(q, p), "idle"}
    BY <2>1 DEF At
  <2>3. MediaTypeOK' /\ MapInv'
    BY <2>1 DEF MediaInv, MediaTypeOK, MapInv, Registered, At
  <2> QED
    BY <2>1, <2>2, <2>3, ThreadsRest DEF MediaInv
<1>2. CASE \E o \in Objects : ProviderStarted(o)
  <2>1. PICK o \in Objects : ProviderStarted(o)
    BY <1>2
  <2>. DEFINE m == [Unused EXCEPT !.id = starting, !.timer = TRUE]
  <2>2. /\ starting # NoId /\ object[o] = Unused /\ sessions' = [sessions EXCEPT ![starting] = o]
        /\ object' = [object EXCEPT ![o] = m] /\ starting' = NoId
        /\ UNCHANGED <<thread, gone, drain, requests>>
    BY <2>1 DEF ProviderStarted
  <2>3. /\ m.id = starting /\ m.timer = TRUE /\ m.attached = FALSE /\ m.finished = FALSE
        /\ m.once = "new" /\ m.complete = FALSE /\ m.control = FALSE /\ m.pending = {}
        /\ Unused.id = NoId /\ (starting \in SessionIds => m \in Managed)
    BY DEF Unused, Managed
  <2>. HIDE DEF m
  <2>4. /\ MapInv /\ starting \in SessionIds /\ sessions[starting] = NoObject
        /\ \A r \in Roles : At(r, o) = "idle"
        /\ sessions \in [SessionIds -> Objects \cup {NoObject}] /\ object \in [Objects -> Managed]
        /\ {"pump", "timer"} \subseteq Roles
    BY <2>2, <2>3 DEF MediaInv, MediaTypeOK, MapInv, Roles
  <2>5. /\ object' \in [Objects -> Managed] /\ object'[o] = m
        /\ sessions' \in [SessionIds -> Objects \cup {NoObject}] /\ sessions'[starting] = o
        /\ \A p \in Objects \ {o} : object'[p] = object[p]
        /\ \A s \in SessionIds \ {starting} : sessions'[s] = sessions[s] /\ sessions[s] # o
        /\ \A p \in Objects, r \in Roles : At(r, p)' = At(r, p)
    <3>1. \A s \in SessionIds : sessions[s] # o
      BY <2>2, <2>3, <2>4, MediaAssumption DEF MapInv, MediaAssumption
    <3> QED
      BY <2>2, <2>3, <2>4, <3>1 DEF At
  <2>6. MediaTypeOK'
    BY <2>2, <2>5 DEF MediaInv, MediaTypeOK
  <2>7. ASSUME NEW p \in Objects
        PROVE  /\ object'[p].id = NoId => object'[p] = Unused /\ \A r \in Roles : At(r, p)' = "idle"
               /\ object'[p].id # NoId /\ ~Registered(p)' => object'[p].complete
    <3>1. CASE p = o
      BY <2>2, <2>3, <2>5, <3>1 DEF Registered
    <3>2. CASE p # o
      <4>1. object'[p] = object[p]
        BY <2>5, <3>2
      <4>2. Registered(p) => Registered(p)'
        <5>1. ASSUME Registered(p) PROVE Registered(p)'
          <6>1. object[p].id \in SessionIds /\ sessions[object[p].id] = p /\ object[p].id # NoId
            BY <2>4, <5>1 DEF Registered, Managed
          <6>2. object[p].id # starting
            BY <2>4, <6>1, MediaAssumption DEF MediaAssumption
          <6> QED
            BY <2>5, <4>1, <6>1, <6>2 DEF Registered
        <5> QED
          BY <5>1
      <4> QED
        BY <2>4, <2>5, <4>1, <4>2 DEF MapInv
    <3> QED
      BY <3>1, <3>2
  <2>8. MapInv'
    <3>1. \A s \in SessionIds : sessions'[s] # NoObject => object'[sessions'[s]].id = s
      BY <2>3, <2>4, <2>5 DEF MapInv
    <3> QED
      BY <2>2, <2>7, <3>1 DEF MapInv
  <2>9. ASSUME NEW p \in Objects PROVE ThreadInv(p)' /\ ControlInv(p)'
    <3>1. CASE p = o
      <4>1. /\ object'[p] = m /\ \A r \in Roles : At(r, p)' = "idle"
        BY <2>4, <2>5, <3>1
      <4> QED
        BY <2>3, <2>4, <4>1 DEF ThreadInv, ControlInv
    <3>2. CASE p # o
      <4>1. object'[p] = object[p] /\ ThreadInv(p) /\ ControlInv(p) /\ \A r \in Roles : At(r, p)' = At(r, p)
        BY <2>5, <3>2, SessionTypes
      <4> QED
        BY <2>4, <4>1 DEF ThreadInv, ControlInv
    <3> QED
      BY <3>1, <3>2
  <2> QED
    BY <2>6, <2>8, <2>9 DEF MediaInv
<1> QED
  BY <1>1, <1>2

\* Drain: its snapshot, its end, its timeout; and the client of a DELETE request that gives up.
LEMMA DrainStep ==
    ASSUME MediaInv,
           \/ NodeDrains \/ DrainEmpty \/ DrainExpires
           \/ \E o \in Objects : DeleteGone(o)
    PROVE  MediaInv'
<1>1. CASE DrainEmpty \/ DrainExpires \/ \E o \in Objects : DeleteGone(o)
  <2>1. /\ UNCHANGED <<sessions, object, starting, thread, requests>>
        /\ gone' \in [Roles \X Objects -> BOOLEAN]
        /\ drain' \in {drain, [drain EXCEPT !.state = "over"], [drain EXCEPT !.state = "expired"]}
    BY <1>1 DEF DrainEmpty, DrainExpires, DeleteGone, MediaInv, MediaTypeOK
  <2>2. \A p \in Objects, q \in Roles : At(q, p)' \in {At(q, p), "idle"}
    BY <2>1 DEF At
  <2>3. MediaTypeOK'
    BY <2>1 DEF MediaInv, MediaTypeOK
  <2>4. MapInv'
    BY <2>1 DEF MediaInv, MapInv, Registered, At
  <2> QED
    BY <2>1, <2>2, <2>3, <2>4, ThreadsRest DEF MediaInv
<1>2. CASE NodeDrains
  <2>1. /\ drain' = [state |-> "snapshot", left |-> DrainSnapshot]
        /\ thread' = [t \in Roles \X Objects |-> IF t \in DrainGoroutines THEN "finish" ELSE thread[t]]
        /\ UNCHANGED <<sessions, object, starting, gone, requests>>
    BY <1>2 DEF NodeDrains
  <2>2. \A o \in DrainSnapshot : o \in Objects /\ object[o].id # NoId
    BY MediaAssumption DEF DrainSnapshot, LiveMedia, MediaInv, MediaTypeOK, MapInv, MediaAssumption
  <2>3. /\ thread' \in [Roles \X Objects -> ThreadState]
        /\ \A p \in Objects, q \in Roles :
              At(q, p)' = IF q = "drain" /\ p \in DrainSnapshot THEN "finish" ELSE At(q, p)
    <3>1. "finish" \in ThreadState /\ thread \in [Roles \X Objects -> ThreadState]
      BY DEF ThreadState, MediaInv, MediaTypeOK
    <3>2. \A p \in Objects, q \in Roles :
             <<q, p>> \in DrainGoroutines <=> q = "drain" /\ p \in DrainSnapshot
      BY DEF DrainGoroutines
    <3> QED
      BY <2>1, <3>1, <3>2 DEF At
  <2>4. MediaTypeOK'
    BY <2>1, <2>2, <2>3 DEF MediaInv, MediaTypeOK
  <2>5. MapInv'
    BY <2>1, <2>2, <2>3 DEF MediaInv, MapInv, Registered
  <2>6. ASSUME NEW p \in Objects PROVE ThreadInv(p)' /\ ControlInv(p)'
    <3>1. /\ ThreadInv(p) /\ ControlInv(p) /\ object' = object /\ {"pump", "timer"} \subseteq Roles
          /\ At("pump", p)' = At("pump", p) /\ At("timer", p)' = At("timer", p)
          /\ \A q \in Roles : At(q, p)' \in {At(q, p), "finish"}
      BY <2>1, <2>3 DEF MediaInv, Roles
    <3>2. ThreadInv(p)'
      BY <3>1 DEF ThreadInv
    <3> QED
      BY <3>1, <3>2 DEF ControlInv
  <2> QED
    BY <2>4, <2>5, <2>6 DEF MediaInv
<1> QED
  BY <1>1, <1>2

\* Every step of the manager, of its threads and of its clients keeps the invariant.
LEMMA MediaStep == ASSUME MediaInv, [MediaNext]_mediaVars PROVE MediaInv'
<1>1. CASE (\E s \in SessionIds : StartSession(s)) \/ ProviderFailed \/ \E o \in Objects : ProviderStarted(o)
  BY <1>1, StartStep
<1>2. CASE \E o \in Objects : AttachControl(o) \/ ControlReturns(o)
  BY <1>2, ChannelStep
<1>3. CASE \E o \in Objects : ControlWrite(o) \/ \E t \in ToolCalls : SubmitToolResult(o, t)
  BY <1>3, ControlStep
<1>4. CASE \E o \in Objects : Attach(o)
  BY <1>4, AttachStep
<1>5. CASE \E o \in Objects : TimerFires(o) \/ PumpFails(o)
  BY <1>5, FailureStep
<1>6. CASE \E o \in Objects, t \in ToolCalls : ProviderCallsTool(o, t)
  BY <1>6, ToolCallStep
<1>7. CASE \E o \in Objects, r \in Roles :
              \/ PumpEnds(o) \/ SkipResources(r, o) \/ StopWaits(r, o)
              \/ r \in {"control", "delete"} /\ StopSession(r, o)
  BY <1>7, ThreadStep
<1>8. CASE \E o \in Objects, r \in Roles : FinishMedia(r, o) \/ FinishUnattached(o)
  BY <1>8, FinishStep
<1>9. CASE \E o \in Objects, r \in Roles : ResourcesClosed(r, o) \/ MarkComplete(o)
  BY <1>9, CompletionStep
<1>10. CASE (\E r \in Roles, o \in Objects : RemoveSession(r, o)) \/ DrainRemoves
  BY <1>10, RemoveStep
<1>11. CASE NodeDrains \/ DrainEmpty \/ DrainExpires \/ \E o \in Objects : DeleteGone(o)
  BY <1>11, DrainStep
<1>12. CASE UNCHANGED mediaVars
  <2>1. UNCHANGED <<sessions, object, starting, thread, gone, drain, requests>>
    BY <1>12 DEF mediaVars
  <2>2. \A p \in Objects, q \in Roles : At(q, p)' \in {At(q, p), "idle"}
    BY <2>1 DEF At
  <2>3. MediaTypeOK' /\ MapInv'
    BY <2>1 DEF MediaInv, MediaTypeOK, MapInv, Registered, At
  <2> QED
    BY <2>1, <2>2, <2>3, ThreadsRest DEF MediaInv
<1>13. {"control", "delete", "pump"} \subseteq Roles
  BY DEF Roles
<1> QED
  BY <1>1, <1>2, <1>3, <1>4, <1>5, <1>6, <1>7, <1>8, <1>9, <1>10, <1>11, <1>12, <1>13
    DEF MediaNext, CleanUp

\* What the threads of a session have reached agrees with its fields, whoever finishes it first.
THEOREM MediaInductive == MediaSpec => []MediaInv
BY MediaStart, MediaStep, PTL DEF MediaSpec

\* The capacity of a session is passed on only when everything it held is closed, and a worker at
\* the control channel has been sent every tool call that waits for a result.
THEOREM MediaSessionsAreSound == MediaSpec => []MediaSound
<1>1. MediaInv => MediaSound
  <2>. SUFFICES ASSUME MediaInv PROVE MediaSound
    OBVIOUS
  <2>1. RemovedIsReleased
    BY DEF MediaInv, MapInv, ThreadInv, RemovedIsReleased, At
  <2>2. ToolCallsReachControl
    BY DEF MediaInv, ControlInv, ToolCallsReachControl, At
  <2> QED
    BY <2>1, <2>2 DEF MediaSound
<1> QED
  BY <1>1, MediaInductive, PTL

\* The attachment timer finishes no session that audio is attached to.
THEOREM TimerSparesAttached == MediaSpec => TimeoutSparesAttached
<1>. DEFINE Spared == \A o \in Objects :
               object[o].attached /\ ~object[o].finished /\ object'[o].finished =>
                  \E r \in Roles \ {"timer"} : thread[<<r, o>>] = "finish"
<1>1. ASSUME MediaInv, [MediaNext]_mediaVars PROVE Spared
  <2>. SUFFICES ASSUME NEW o \in Objects, object[o].attached, ~object[o].finished,
                       object'[o].finished
                PROVE  \E r \in Roles \ {"timer"} : At(r, o) = "finish"
    BY DEF At
  <2>1. object \in [Objects -> Managed] /\ At("timer", o) # "finish"
    BY <1>1, SessionTypes DEF ThreadInv
  <2>2. object'[o] # object[o]
    OBVIOUS
  <2>3. CASE \E p \in Objects, r \in Roles : FinishMedia(r, p)
    <3>1. PICK p \in Objects, r \in Roles : FinishMedia(r, p)
      BY <2>3
    <3>2. At(r, p) = "finish" /\ \A q \in Objects \ {p} : object'[q] = object[q]
      BY <2>1, <3>1 DEF FinishMedia, At
    <3> QED
      BY <2>1, <2>2, <3>2
  <2>4. CASE \E p \in Objects : FinishUnattached(p)
    BY <2>1, <2>2, <2>4 DEF FinishUnattached, CanExpire
  <2>5. CASE \E p \in Objects : ProviderStarted(p)
    <3>1. PICK p \in Objects : ProviderStarted(p)
      BY <2>5
    <3>2. p = o /\ object[o] = Unused
      BY <2>1, <2>2, <3>1 DEF ProviderStarted
    <3> QED
      BY <3>2 DEF Unused
  <2>6. CASE \E p \in Objects : AttachControl(p) \/ ControlWrite(p) \/ ControlReturns(p) \/ Attach(p)
                               \/ MarkComplete(p) \/ \E t \in ToolCalls : SubmitToolResult(p, t)
    <3>1. PICK p \in Objects : AttachControl(p) \/ ControlWrite(p) \/ ControlReturns(p) \/ Attach(p)
                               \/ MarkComplete(p) \/ \E t \in ToolCalls : SubmitToolResult(p, t)
      BY <2>6
    <3>2. object[p] \in Managed
      BY <2>1
    <3>3. object'[p].finished = object[p].finished /\ \A q \in Objects \ {p} : object'[q] = object[q]
      <4>1. CASE AttachControl(p) \/ ControlReturns(p) \/ Attach(p)
        BY <2>1, <3>2, <4>1 DEF AttachControl, ControlReturns, Attach, Managed
      <4>2. CASE ControlWrite(p)
        BY <2>1, <3>2, <4>2 DEF ControlWrite, Managed
      <4>3. CASE MarkComplete(p) \/ \E t \in ToolCalls : SubmitToolResult(p, t)
        BY <2>1, <3>2, <4>3 DEF MarkComplete, SubmitToolResult, Managed
      <4> QED
        BY <3>1, <4>1, <4>2, <4>3
    <3> QED
      BY <2>2, <3>3
  <2>7. CASE \E p \in Objects : TimerFires(p) \/ PumpFails(p) \/ (\E r \in Roles : ResourcesClosed(r, p))
                               \/ \E t \in ToolCalls : ProviderCallsTool(p, t)
    <3>1. PICK p \in Objects : TimerFires(p) \/ PumpFails(p) \/ (\E r \in Roles : ResourcesClosed(r, p))
                               \/ \E t \in ToolCalls : ProviderCallsTool(p, t)
      BY <2>7
    <3>2. /\ object[p] \in Managed
          /\ \A m \in Managed : Told(m).finished = m.finished
          /\ \A m \in Managed, t \in ToolCalls :
                Published(m, t) \in Managed /\ Published(m, t).finished = m.finished
      <4>1. object[p] \in Managed /\ \A m \in Managed : Told(m).finished = m.finished
        BY <2>1 DEF Told, Managed
      <4>2. ASSUME NEW m \in Managed, NEW t \in ToolCalls
            PROVE  Published(m, t) \in Managed /\ Published(m, t).finished = m.finished
        <5>1. /\ m.pending \cup {t} \in SUBSET ToolCalls /\ m.pending \in SUBSET ToolCalls
              /\ m.buffered \cup {t} \in SUBSET ToolCalls /\ m.buffered \in SUBSET ToolCalls
          BY DEF Managed
        <5> QED
          BY <5>1 DEF Published, Managed
      <4> QED
        BY <4>1, <4>2
    <3>3. /\ \A m \in Managed : Told(m) \in Managed
          /\ \A m \in Managed : [m EXCEPT !.timer = FALSE].finished = m.finished
      BY DEF Told, Managed
    <3>4. object'[p].finished = object[p].finished /\ \A q \in Objects \ {p} : object'[q] = object[q]
      <4>1. CASE TimerFires(p)
        <5>1. object' = [object EXCEPT ![p] = [Told(object[p]) EXCEPT !.timer = FALSE]]
          BY <2>1, <4>1 DEF TimerFires
        <5>2. [Told(object[p]) EXCEPT !.timer = FALSE].finished = object[p].finished
          BY <3>2, <3>3
        <5> QED
          BY <2>1, <5>1, <5>2
      <4>2. CASE PumpFails(p)
        <5>1. object' = [object EXCEPT ![p] = Told(object[p])] /\ Told(object[p]).finished = object[p].finished
          BY <2>1, <3>2, <4>2 DEF PumpFails
        <5> QED
          BY <2>1, <5>1
      <4>3. CASE \E r \in Roles : ResourcesClosed(r, p)
        BY <2>1, <3>2, <4>3 DEF ResourcesClosed, Managed
      <4>4. CASE \E t \in ToolCalls : ProviderCallsTool(p, t)
        BY <2>1, <3>2, <3>3, <4>4 DEF ProviderCallsTool
      <4> QED
        BY <3>1, <4>1, <4>3, <4>4, <4>2
    <3> QED
      BY <2>2, <3>4
  <2>8. CASE UNCHANGED object
    BY <2>2, <2>8
  <2> QED
    BY <1>1, <2>3, <2>4, <2>5, <2>6, <2>7, <2>8
      DEF MediaNext, CleanUp, mediaVars, StartSession, ProviderFailed, PumpEnds, DeleteGone,
          StopSession, SkipResources, StopWaits, RemoveSession, NodeDrains, DrainRemoves, DrainEmpty,
          DrainExpires
<1>2. MediaInv /\ [MediaNext]_mediaVars => [Spared]_mediaVars
  BY <1>1
<1> QED
  BY <1>2, MediaInductive, PTL DEF MediaSpec, TimeoutSparesAttached

(***************************************************************************)
(* The voice engine                                                        *)
(***************************************************************************)
EngineSafety == EngineInit /\ [][EngineNext]_engineVars

Item == [kind: ItemKinds, of: CallIds \cup {NoCall}]
Response == [at: {"none", "spawn", "llm", "loop", "send", "calls", "error", "stop", "quit", "emit",
                  "ended"},
             open: BOOLEAN, said: BOOLEAN, calls: SUBSET CallIds, todo: SUBSET CallIds, item: Item,
             left: Nat, base: Nat]
Message == [role: {"user", "assistant", "calls", "tool"}, of: Nat, call: CallIds \cup {NoCall}]
Event == [type: {"speech", "started", "stopped", "fatal", "error", "delta", "call"},
          of: Nat \cup CallIds \cup {NoCall}]
Runner == [at: {"select", "cancel", "stopped", "started", "leave", "last", "wait", "gone"}, of: Nat]
Submitter == [at: {"idle", "submit", "started"}, call: CallIds \cup {NoCall}, of: Nat]
Playback == [active: BOOLEAN, suppress: BOOLEAN, queued: Int]

EngineTypes ==
    /\ tools \subseteq CallIds /\ generation \in Nat /\ active \in BOOLEAN /\ streamDone \in BOOLEAN
    /\ conversation \in Seq(Message) /\ awaited \subseteq CallIds
    /\ answer \in [Gens -> Response] /\ runner \in Runner /\ submitter \in Submitter
    /\ eventsCh \in Seq(Event) /\ pump \in {"idle", "interrupt", "stopped", "gone"}
    /\ playback \in Playback /\ heard \in 0..SttEvents
    /\ late \in [Gens -> Nat] /\ announced \in 0..generation

\* The current response can still be canceled, and no other is current.
FenceInv ==
    /\ canceledGens \subseteq 1..generation
    /\ IF active THEN cancelOf = generation /\ generation \in Gens \ canceledGens ELSE cancelOf = 0

\* A response that is current will end by itself; one that let an item through after its end sends
\* no other.
AnswerInv(g) ==
    /\ g > generation => answer[g] = Unstarted /\ late[g] = 0
    /\ answer[g].at = "send" <=> answer[g].item.kind # "none"
    /\ IsCurrent(g) =>
          answer[g].at \notin {"none", "emit"} /\ (streamDone \/ answer[g].at # "ended")
    /\ late[g] = 0 \/ (late[g] = 1 /\ ~IsCurrent(g) /\ answer[g].at # "send")

\* A response that was made but not begun is in the hands of run or of the control goroutine. What
\* the pump hears of is a response that was made.
StartInv ==
    /\ runner.at = "started" =>
          runner.of \in Gens /\ runner.of <= generation /\ answer[runner.of].at = "spawn"
    /\ submitter.at = "started" =>
          submitter.of \in Gens /\ submitter.of <= generation /\ answer[submitter.of].at = "spawn"
    /\ runner.at = "started" /\ submitter.at = "started" => runner.of # submitter.of
    /\ \A k \in 1..Len(eventsCh) : eventsCh[k].type = "started" => eventsCh[k].of \in 1..generation

PlayInv ==
    pump \in {"idle", "stopped"} /\ playback.suppress /\ active => announced # generation

\* Messages name the response that made them; a response that asked for tools has ended.
MessageInv ==
    \A k \in 1..Len(conversation) :
        LET m == conversation[k] IN
        /\ m.role \in {"assistant", "calls"} => m.of \in Gens /\ m.of <= generation
        /\ m.role = "calls" => answer[m.of].at \in {"emit", "ended"}
        /\ m.role = "tool" <=> m.call # NoCall

\* What the current response was made from is what the conversation still ends with, but for results
\* of older calls.
BaseInv ==
    active =>
        /\ answer[generation].base <= Len(conversation)
        /\ \A j \in (answer[generation].base + 1)..Len(conversation) : conversation[j].role = "tool"

\* A result that is awaited has been asked for and has not come.
AwaitInv ==
    /\ \A c \in awaited :
          /\ \E k \in 1..Len(conversation) : /\ conversation[k].role = "calls"
                                             /\ c \in answer[conversation[k].of].calls
          /\ \A k \in 1..Len(conversation) : conversation[k].call # c
    /\ \A g, h \in Gens : g # h => answer[g].calls \cap answer[h].calls = {}

\* Generations are counted: each event of the transcriber makes two at most, each tool result and
\* the end of run one.
Speeches(ch) == {k \in 1..Len(ch) : ch[k].type = "speech"}
Answered == {c \in CallIds : \E k \in 1..Len(conversation) : conversation[k].call = c}
Owed == (IF runner.at = "cancel" THEN 1 ELSE 0) + (IF pump = "interrupt" THEN 1 ELSE 0)
GenerationInv ==
    generation + Owed + Cardinality(Speeches(eventsCh))
        <= 2 * heard + Cardinality(Answered)
               + (IF runner.at \in {"last", "wait", "gone"} THEN 1 ELSE 0)

EngineInv ==
    /\ EngineTypes /\ FenceInv /\ (\A g \in Gens : AnswerInv(g)) /\ StartInv /\ PlayInv
    /\ MessageInv /\ BaseInv /\ AwaitInv /\ ConversationSound /\ GenerationInv

\* What the assumption says.
LEMMA EngineConstants ==
    /\ NoCall \notin CallIds /\ IsFiniteSet(CallIds) /\ Cardinality(CallIds) \in Nat
    /\ SttEvents \in Nat /\ GenItems \in Nat /\ GenItems - 1 \in Nat
    /\ Gens = 1..(2 * SttEvents + Cardinality(CallIds) + 1) /\ Gens \subseteq Nat \ {0}
<1>1. NoCall \notin CallIds /\ IsFiniteSet(CallIds) /\ SttEvents \in Nat /\ GenItems \in Nat \ {0}
  BY EngineAssumption DEF EngineAssumption
<1>2. Cardinality(CallIds) \in Nat
  BY <1>1, FS_CardinalityType
<1> QED
  BY <1>1, <1>2 DEF Gens

\* A response before it is made.
LEMMA UnstartedFields ==
    /\ Unstarted \in Response /\ Unstarted.at = "none" /\ Unstarted.calls = {} /\ Unstarted.todo = {}
    /\ Unstarted.item.kind = "none" /\ NoItem \in Item /\ NoItem.kind = "none"
    /\ Unstarted.item = NoItem
<1>1. NoItem \in Item /\ NoItem.kind = "none"
  BY DEF NoItem, Item, ItemKinds
<1> QED
  BY <1>1 DEF Unstarted, Response

\* Nothing was said at the start.
LEMMA EngineStart == EngineInit => EngineInv
<1> SUFFICES ASSUME EngineInit PROVE EngineInv
  OBVIOUS
<1>1. /\ generation = 0 /\ active = FALSE /\ cancelOf = 0 /\ canceledGens = {} /\ conversation = <<>>
      /\ awaited = {} /\ answer = [g \in Gens |-> Unstarted] /\ runner = [at |-> "select", of |-> 0]
      /\ submitter = [at |-> "idle", call |-> NoCall, of |-> 0] /\ eventsCh = <<>> /\ pump = "idle"
      /\ heard = 0 /\ announced = 0 /\ late = [g \in Gens |-> 0] /\ streamDone = FALSE
      /\ playback = [active |-> FALSE, suppress |-> FALSE, queued |-> 0]
      /\ tools \subseteq CallIds
  BY DEF EngineInit
<1>2. EngineTypes
  <2>1. runner \in Runner /\ submitter \in Submitter /\ playback \in Playback
    BY <1>1 DEF Runner, Submitter, Playback
  <2>2. conversation \in Seq(Message) /\ eventsCh \in Seq(Event)
    BY <1>1
  <2>3. answer \in [Gens -> Response] /\ late \in [Gens -> Nat]
    BY <1>1, UnstartedFields
  <2>4. 0 \in 0..SttEvents /\ 0 \in Nat /\ 0 \in 0..0 /\ FALSE \in BOOLEAN
    BY EngineConstants
  <2>5. /\ generation \in Nat /\ active \in BOOLEAN /\ streamDone \in BOOLEAN /\ awaited \subseteq CallIds
        /\ pump \in {"idle", "interrupt", "stopped", "gone"} /\ heard \in 0..SttEvents
        /\ announced \in 0..generation
    BY <1>1, <2>4
  <2> QED
    BY <1>1, <2>1, <2>2, <2>3, <2>5 DEF EngineTypes
<1>3. FenceInv /\ PlayInv /\ BaseInv
  BY <1>1 DEF FenceInv, PlayInv, BaseInv
<1>4. \A g \in Gens : AnswerInv(g)
  BY <1>1, UnstartedFields DEF AnswerInv, IsCurrent
<1>5. Len(conversation) = 0 /\ Len(eventsCh) = 0
  BY <1>1
<1>6. StartInv /\ MessageInv /\ ConversationSound
  BY <1>1, <1>5 DEF StartInv, MessageInv, ConversationSound
<1>7. AwaitInv
  BY <1>1, UnstartedFields DEF AwaitInv
<1>8. GenerationInv
  <2>1. Speeches(eventsCh) = {} /\ Answered = {}
    BY <1>5 DEF Speeches, Answered
  <2>2. Cardinality(Speeches(eventsCh)) = 0 /\ Cardinality(Answered) = 0
    BY <2>1, FS_EmptySet
  <2>3. Owed = 0 /\ runner.at \notin {"last", "wait", "gone"}
    BY <1>1 DEF Owed
  <2> QED
    BY <1>1, <2>2, <2>3 DEF GenerationInv
<1> QED
  BY <1>2, <1>3, <1>4, <1>6, <1>7, <1>8 DEF EngineInv

(***************************************************************************)
(* What steps keep                                                         *)
(***************************************************************************)
\* Calls are only added to a response, and one that has ended stays so: the conversation is as it was.
LEMMA TalkKept ==
    ASSUME EngineInv, UNCHANGED <<conversation, awaited>>,
           generation' \in Nat, generation <= generation', active' => active /\ generation' = generation,
           answer' \in [Gens -> Response],
           \A h \in Gens :
              /\ answer'[h].base = answer[h].base /\ answer[h].calls \subseteq answer'[h].calls
              /\ answer[h].at \in {"emit", "ended"} => answer'[h].at \in {"emit", "ended"},
           \A g, h \in Gens : g # h => answer'[g].calls \cap answer'[h].calls = {}
    PROVE  MessageInv' /\ BaseInv' /\ AwaitInv' /\ ConversationSound' /\ Answered' = Answered
<1>1. conversation \in Seq(Message) /\ generation \in Nat
  BY DEF EngineInv, EngineTypes
<1>2. \A k \in 1..Len(conversation) :
         LET m == conversation[k] IN
         /\ m.role \in {"assistant", "calls"} => m.of \in Gens /\ m.of <= generation
         /\ m.role = "calls" => answer[m.of].at \in {"emit", "ended"}
         /\ m.role = "tool" <=> m.call # NoCall
  BY DEF EngineInv, MessageInv
<1>3. MessageInv'
  <2>1. ASSUME NEW k \in 1..Len(conversation)
        PROVE  LET m == conversation[k] IN
               /\ m.role \in {"assistant", "calls"} => m.of \in Gens /\ m.of <= generation'
               /\ m.role = "calls" => answer'[m.of].at \in {"emit", "ended"}
               /\ m.role = "tool" <=> m.call # NoCall
    <3>. DEFINE m == conversation[k]
    <3>1. /\ m.role \in {"assistant", "calls"} => m.of \in Gens /\ m.of <= generation
          /\ m.role = "calls" => answer[m.of].at \in {"emit", "ended"}
          /\ m.role = "tool" <=> m.call # NoCall
      BY <1>2
    <3>2. m.of \in Gens /\ m.of <= generation => m.of <= generation'
      BY <1>1, EngineConstants
    <3>3. m.of \in Gens /\ answer[m.of].at \in {"emit", "ended"} => answer'[m.of].at \in {"emit", "ended"}
      OBVIOUS
    <3> QED
      BY <3>1, <3>2, <3>3
  <2> QED
    BY <2>1 DEF MessageInv
<1>4. BaseInv'
  <2>. SUFFICES ASSUME active'
                PROVE  /\ answer'[generation].base <= Len(conversation)
                       /\ \A j \in (answer'[generation].base + 1)..Len(conversation) :
                             conversation[j].role = "tool"
    BY DEF BaseInv
  <2>1. active /\ generation \in Gens /\ answer'[generation].base = answer[generation].base
    BY DEF EngineInv, FenceInv
  <2> QED
    BY <2>1 DEF EngineInv, BaseInv
<1>5. AwaitInv'
  <2>1. ASSUME NEW c \in awaited
        PROVE  /\ \E k \in 1..Len(conversation) : /\ conversation[k].role = "calls"
                                                  /\ c \in answer'[conversation[k].of].calls
               /\ \A k \in 1..Len(conversation) : conversation[k].call # c
    <3>1. PICK k \in 1..Len(conversation) : conversation[k].role = "calls"
                                            /\ c \in answer[conversation[k].of].calls
      BY DEF EngineInv, AwaitInv
    <3>2. conversation[k].of \in Gens
      BY <1>2, <3>1
    <3>3. \A l \in 1..Len(conversation) : conversation[l].call # c
      BY DEF EngineInv, AwaitInv
    <3> QED
      BY <3>1, <3>2, <3>3
  <2> QED
    BY <2>1 DEF AwaitInv
<1>6. ConversationSound'
  <2>1. ASSUME NEW k \in 1..Len(conversation)
        PROVE  LET m == conversation[k] IN
               /\ m.role \in {"assistant", "calls"} =>
                      \A j \in (answer'[m.of].base + 1)..(k - 1) : conversation[j].role = "tool"
               /\ m.role = "tool" =>
                      /\ \E j \in 1..(k - 1) : /\ conversation[j].role = "calls"
                                               /\ m.call \in answer'[conversation[j].of].calls
                      /\ \A j \in 1..(k - 1) : conversation[j].call # m.call
    <3>1. LET m == conversation[k] IN
          /\ m.role \in {"assistant", "calls"} =>
                 \A j \in (answer[m.of].base + 1)..(k - 1) : conversation[j].role = "tool"
          /\ m.role = "tool" =>
                 /\ \E j \in 1..(k - 1) : /\ conversation[j].role = "calls"
                                          /\ m.call \in answer[conversation[j].of].calls
                 /\ \A j \in 1..(k - 1) : conversation[j].call # m.call
      BY DEF EngineInv, ConversationSound
    <3>2. conversation[k].role \in {"assistant", "calls"}
             => answer'[conversation[k].of].base = answer[conversation[k].of].base
      BY <1>2
    <3>3. \A j \in 1..(k - 1) : j \in 1..Len(conversation)
      BY <1>1
    <3>4. \A j \in 1..Len(conversation) :
             conversation[j].role = "calls"
                => answer[conversation[j].of].calls \subseteq answer'[conversation[j].of].calls
      BY <1>2
    <3> QED
      BY <3>1, <3>2, <3>3, <3>4
  <2> QED
    BY <2>1 DEF ConversationSound
<1> QED
  BY <1>3, <1>4, <1>5, <1>6 DEF Answered

\* Events and results are finitely many.
LEMMA CountTypes ==
    ASSUME EngineInv
    PROVE  /\ IsFiniteSet(Speeches(eventsCh)) /\ Cardinality(Speeches(eventsCh)) \in Nat
           /\ IsFiniteSet(Answered) /\ Cardinality(Answered) \in Nat
           /\ Cardinality(Answered) <= Cardinality(CallIds)
           /\ generation \in Nat /\ heard \in Nat /\ Owed \in 0..2
<1>1. IsFiniteSet(1..Len(eventsCh))
  <2>1. Len(eventsCh) \in Nat
    BY DEF EngineInv, EngineTypes
  <2> QED
    BY <2>1, FS_Interval
<1>2. IsFiniteSet(Speeches(eventsCh))
  BY <1>1, FS_Subset DEF Speeches
<1>3. IsFiniteSet(Answered) /\ Cardinality(Answered) <= Cardinality(CallIds)
  <2>1. Answered \subseteq CallIds
    BY DEF Answered
  <2> QED
    BY <2>1, FS_Subset, EngineConstants
<1>4. generation \in Nat /\ heard \in Nat /\ Owed \in 0..2
  BY EngineConstants DEF EngineInv, EngineTypes, Owed
<1> QED
  BY <1>2, <1>3, <1>4, FS_CardinalityType

\* Events that stay in the channel, and others that are neither a start nor speech.
Follows(old, ch) ==
    /\ ch \in Seq(Event)
    /\ \A k \in 1..Len(ch) : \/ k \in 1..Len(old) /\ ch[k] = old[k]
                             \/ ch[k].type \notin {"started", "speech"}

LEMMA FewerSpeeches ==
    ASSUME EngineInv, Follows(eventsCh, eventsCh')
    PROVE  /\ Cardinality(Speeches(eventsCh')) <= Cardinality(Speeches(eventsCh))
           /\ Cardinality(Speeches(eventsCh')) \in Nat
<1>1. Speeches(eventsCh') \subseteq Speeches(eventsCh)
  BY DEF Follows, Speeches
<1> QED
  BY <1>1, CountTypes, FS_Subset, FS_CardinalityType

\* No new generation is owed and none is counted away.
LEMMA CountKept ==
    ASSUME EngineInv, UNCHANGED <<generation, heard>>, Answered' = Answered,
           Cardinality(Speeches(eventsCh')) \in Nat,
           Cardinality(Speeches(eventsCh')) + Owed' <= Cardinality(Speeches(eventsCh)) + Owed,
           Owed' \in 0..2,
           runner.at \in {"last", "wait", "gone"} => runner'.at \in {"last", "wait", "gone"}
    PROVE  GenerationInv'
<1>1. Cardinality(Speeches(eventsCh)')
         = Cardinality(Speeches(eventsCh'))
  BY DEF Speeches
<1>2. generation + Owed + Cardinality(Speeches(eventsCh))
        <= 2 * heard + Cardinality(Answered)
               + (IF runner.at \in {"last", "wait", "gone"} THEN 1 ELSE 0)
  BY DEF EngineInv, GenerationInv
<1>3. /\ Cardinality(Speeches(eventsCh)) \in Nat /\ Cardinality(Answered) \in Nat
      /\ generation \in Nat /\ heard \in Nat /\ Owed \in 0..2
  BY CountTypes
<1>4. \A n, o, s, h, a, oo, ss, b, bb \in Int :
         n + o + s <= h + a + b /\ ss + oo <= s + o /\ b <= bb => n + oo + ss <= h + a + bb
  OBVIOUS
<1>5. (IF runner.at \in {"last", "wait", "gone"} THEN 1 ELSE 0)
         <= (IF runner'.at \in {"last", "wait", "gone"} THEN 1 ELSE 0)
  OBVIOUS
<1>6. generation + Owed' + Cardinality(Speeches(eventsCh'))
        <= 2 * heard + Cardinality(Answered)
               + (IF runner'.at \in {"last", "wait", "gone"} THEN 1 ELSE 0)
  <2>. DEFINE b == IF runner.at \in {"last", "wait", "gone"} THEN 1 ELSE 0
              bb == IF runner'.at \in {"last", "wait", "gone"} THEN 1 ELSE 0
  <2>1. b \in Int /\ bb \in Int /\ b <= bb /\ 2 * heard \in Int
    BY <1>3, <1>5
  <2>2. generation + Owed + Cardinality(Speeches(eventsCh)) <= 2 * heard + Cardinality(Answered) + b
    BY <1>2
  <2>. HIDE DEF b, bb
  <2>3. generation + Owed' + Cardinality(Speeches(eventsCh')) <= 2 * heard + Cardinality(Answered) + bb
    BY <1>3, <1>4, <2>1, <2>2
  <2> QED
    BY <2>3 DEF bb
<1> QED
  BY <1>1, <1>6 DEF GenerationInv

\* A response in progress takes a step that does not end it for the stream.
AnswerStep(g, new) ==
    /\ answer' = [answer EXCEPT ![g] = new] /\ new \in Response
    /\ answer[g].at \notin {"none", "spawn", "ended"} /\ new.at \notin {"none", "spawn", "emit"}
    /\ answer[g].at = "emit" => new.at = "ended"
    /\ new.at = "ended" => ~IsCurrent(g) \/ streamDone
    /\ new.at = "send" <=> new.item.kind # "none"
    /\ new.base = answer[g].base /\ answer[g].calls \subseteq new.calls
    /\ \A h \in Gens \ {g} : answer[h].calls \cap new.calls = {}

\* An item that is let through after the end of its response, after which nothing else is sent.
LateStep(g, new) ==
    \/ UNCHANGED late /\ (new.at = "send" => answer[g].at = "send" \/ IsCurrent(g))
    \/ /\ late' = [late EXCEPT ![g] = @ + 1]
       /\ answer[g].at = "send" /\ ~IsCurrent(g) /\ new.at # "send"

LEMMA AnswerMoves ==
    ASSUME EngineInv, NEW g \in Gens, NEW new, AnswerStep(g, new), LateStep(g, new),
           UNCHANGED <<tools, fenceVars, talkVars, submitter, runner, streamDone, heard, announced>>,
           Follows(eventsCh, eventsCh'), pump' \in {pump, "gone"}, playback' \in Playback,
           playback'.suppress = playback.suppress
    PROVE  EngineInv'
<1>1. /\ answer \in [Gens -> Response] /\ late \in [Gens -> Nat] /\ generation \in Nat
      /\ pump \in {"idle", "interrupt", "stopped", "gone"}
      /\ UNCHANGED <<generation, active, cancelOf, canceledGens, conversation, awaited>>
  BY DEF EngineInv, EngineTypes, fenceVars, talkVars
<1>2. /\ answer' \in [Gens -> Response] /\ answer'[g] = new
      /\ \A h \in Gens \ {g} : answer'[h] = answer[h]
  BY <1>1 DEF AnswerStep
<1>3. AnswerInv(g)
  BY DEF EngineInv
<1>4. g <= generation
  BY <1>1, <1>3, UnstartedFields, EngineConstants DEF AnswerInv, AnswerStep
<1>5. late' \in [Gens -> Nat] /\ \A h \in Gens \ {g} : late'[h] = late[h]
  BY <1>1 DEF LateStep
<1>6. EngineTypes'
  BY <1>1, <1>2, <1>5 DEF EngineInv, EngineTypes, Follows
<1>7. FenceInv' /\ PlayInv'
  BY <1>1 DEF EngineInv, FenceInv, PlayInv
<1>8. ASSUME NEW h \in Gens PROVE AnswerInv(h)'
  <2>1. CASE h = g
    <3>1. /\ new.at = "send" <=> new.item.kind # "none"
          /\ IsCurrent(g) => new.at \notin {"none", "emit"} /\ (streamDone \/ new.at # "ended")
      BY DEF AnswerStep
    <3>2. late'[g] = 0 \/ (late'[g] = 1 /\ ~IsCurrent(g) /\ new.at # "send")
      <4>1. CASE UNCHANGED late
        BY <1>3, <4>1 DEF AnswerInv, LateStep
      <4>2. CASE ~UNCHANGED late
        BY <1>1, <1>3, <4>2 DEF AnswerInv, LateStep
      <4> QED
        BY <4>1, <4>2
    <3>3. IsCurrent(g)' <=> IsCurrent(g)
      BY <1>1 DEF IsCurrent
    <3>4. ~(g > generation)
      BY <1>1, <1>4, EngineConstants
    <3> QED
      BY <1>1, <1>2, <2>1, <3>1, <3>2, <3>3, <3>4 DEF AnswerInv
  <2>2. CASE h # g
    BY <1>1, <1>2, <1>5, <2>2 DEF EngineInv, AnswerInv, IsCurrent
  <2> QED
    BY <2>1, <2>2
<1>9. StartInv'
  <2>1. StartInv
    BY DEF EngineInv
  <2>2. \A h \in Gens : answer[h].at = "spawn" => answer'[h].at = "spawn"
    BY <1>2 DEF AnswerStep
  <2>3. \A k \in 1..Len(eventsCh') : eventsCh'[k].type = "started" => eventsCh'[k].of \in 1..generation
    BY <2>1 DEF StartInv, Follows
  <2> QED
    BY <1>1, <2>1, <2>2, <2>3 DEF StartInv
<1>10. MessageInv' /\ BaseInv' /\ AwaitInv' /\ ConversationSound' /\ Answered' = Answered
  <2>1. \A h \in Gens :
           /\ answer'[h].base = answer[h].base /\ answer[h].calls \subseteq answer'[h].calls
           /\ answer[h].at \in {"emit", "ended"} => answer'[h].at \in {"emit", "ended"}
    BY <1>2 DEF AnswerStep
  <2>2. ASSUME NEW x \in Gens, NEW y \in Gens, x # y PROVE answer'[x].calls \cap answer'[y].calls = {}
    BY <1>2, <2>2 DEF AnswerStep, EngineInv, AwaitInv
  <2> QED
    BY <1>1, <1>2, <2>1, <2>2, TalkKept
<1>11. GenerationInv'
  <2>1. Owed' <= Owed /\ Owed' \in 0..2 /\ Owed \in 0..2
    BY DEF Owed
  <2>2. Cardinality(Speeches(eventsCh')) <= Cardinality(Speeches(eventsCh))
        /\ Cardinality(Speeches(eventsCh')) \in Nat /\ Cardinality(Speeches(eventsCh)) \in Nat
    BY FewerSpeeches, CountTypes
  <2>3. Cardinality(Speeches(eventsCh')) + Owed' <= Cardinality(Speeches(eventsCh)) + Owed
    BY <2>1, <2>2
  <2> QED
    BY <1>1, <1>10, <2>1, <2>2, <2>3, CountKept
<1> QED
  BY <1>6, <1>7, <1>8, <1>9, <1>10, <1>11 DEF EngineInv

\* What stays in the channel, and what is added to it.
LEMMA EventsStay == ASSUME EngineInv PROVE Follows(eventsCh, eventsCh) /\ eventsCh \in Seq(Event)
BY DEF Follows, EngineInv, EngineTypes

LEMMA EventAdded ==
    ASSUME EngineInv, NEW e \in Event, eventsCh' = Append(eventsCh, e), e.type \notin {"started", "speech"}
    PROVE  Follows(eventsCh, eventsCh')
<1>1. eventsCh \in Seq(Event)
  BY EventsStay
<1>2. /\ eventsCh' \in Seq(Event) /\ Len(eventsCh) \in Nat
      /\ \A k \in 1..Len(eventsCh') :
            \/ k \in 1..Len(eventsCh) /\ eventsCh'[k] = eventsCh[k]
            \/ eventsCh'[k] = e
  BY <1>1
<1> QED
  BY <1>2 DEF Follows

\* emit
LEMMA Emitting ==
    ASSUME EngineInv, NEW type \in {"stopped", "fatal", "error"}, EmitEvent(type, 0)
    PROVE  Follows(eventsCh, eventsCh')
<1>1. CASE eventsCh' = Append(eventsCh, [type |-> type, of |-> 0])
  <2>. DEFINE e == [type |-> type, of |-> 0]
  <2>1. e \in Event /\ e.type \notin {"started", "speech"}
    BY DEF Event
  <2> QED
    BY <1>1, <2>1, EventAdded
<1>2. CASE UNCHANGED eventsCh
  BY <1>2, EventsStay
<1> QED
  BY <1>1, <1>2 DEF EmitEvent

\* Where the goroutine of a response goes when only its place changes.
LEMMA Going ==
    ASSUME EngineInv, NEW g \in Gens, NEW at \in {"llm", "loop", "calls", "error", "stop", "quit", "ended"},
           Goes(g, at), answer[g].at \notin {"none", "spawn", "ended"},
           at # "ended" => answer[g].at \notin {"send", "emit"},
           at = "ended" => ~IsCurrent(g) \/ streamDone
    PROVE  \E new \in Response : AnswerStep(g, new) /\ new.at # "send"
<1>. DEFINE old == answer[g]
            new == IF at # "ended" THEN [old EXCEPT !.at = at]
                   ELSE [Unstarted EXCEPT !.at = "ended", !.calls = old.calls, !.base = old.base]
<1>1. old \in Response /\ answer' = [answer EXCEPT ![g] = new]
  BY DEF EngineInv, EngineTypes, Goes
<1>2. (old.at = "send" <=> old.item.kind # "none") /\ \A h \in Gens \ {g} : answer[h].calls \cap old.calls = {}
  BY DEF EngineInv, AnswerInv, AwaitInv
<1>3. /\ new \in Response /\ new.at = at /\ new.base = old.base /\ new.calls = old.calls
      /\ new.item.kind = "none"
  <2>1. CASE at # "ended"
    BY <1>1, <1>2, <2>1 DEF Response, Item, ItemKinds
  <2>2. CASE at = "ended"
    BY <1>1, <2>2, UnstartedFields DEF Response
  <2> QED
    BY <2>1, <2>2
<1>. HIDE DEF new
<1> QED
  BY <1>1, <1>2, <1>3 DEF AnswerStep

\* ProvidersStart, errors, cancellation, the end of the voice and of an error: only the place changes.
LEMMA PlaceSteps ==
    ASSUME EngineInv, NEW g \in Gens,
           \/ ProvidersStart(g) \/ ProviderErrs(g) \/ FailEmits(g) \/ GenCanceled(g) \/ VoiceDone(g)
           \/ GenEmitsStopped(g)
    PROVE  EngineInv'
<1>1. AnswerInv(g) /\ FenceInv /\ playback \in Playback
  BY DEF EngineInv, EngineTypes
<1>2. IsCurrent(g) /\ CtxOver(g) => streamDone
  BY <1>1 DEF IsCurrent, CtxOver, FenceInv
<1>3. /\ UNCHANGED <<tools, fenceVars, talkVars, submitter, runner, streamDone, heard, announced>>
      /\ UNCHANGED <<pump, playback, late>>
  BY DEF ProvidersStart, ProviderErrs, FailEmits, GenCanceled, VoiceDone, GenEmitsStopped, GenFrame,
         outerVars
<1>4. Follows(eventsCh, eventsCh')
  <2>1. \/ UNCHANGED eventsCh \/ EmitEvent("error", 0) \/ EmitEvent("stopped", 0)
    BY DEF ProvidersStart, ProviderErrs, FailEmits, GenCanceled, VoiceDone, GenEmitsStopped, GenFrame
  <2> QED
    BY <2>1, Emitting, EventsStay
<1>5. \E at \in {"llm", "loop", "calls", "error", "stop", "quit", "ended"} :
         /\ Goes(g, at) /\ answer[g].at \notin {"none", "spawn", "ended"}
         /\ at # "ended" => answer[g].at \notin {"send", "emit"}
         /\ at = "ended" => ~IsCurrent(g) \/ streamDone
  <2>1. CASE ProvidersStart(g)
    BY <2>1 DEF ProvidersStart, GenAt
  <2>2. CASE ProviderErrs(g)
    BY <1>2, <2>2 DEF ProviderErrs
  <2>3. CASE FailEmits(g)
    BY <2>3 DEF FailEmits, GenAt
  <2>4. CASE GenCanceled(g)
    BY <1>2, <2>4 DEF GenCanceled
  <2>5. CASE VoiceDone(g)
    BY <2>5 DEF VoiceDone, GenAt
  <2>6. CASE GenEmitsStopped(g)
    BY <1>1, <2>6 DEF GenEmitsStopped, GenAt, AnswerInv
  <2> QED
    BY <2>1, <2>2, <2>3, <2>4, <2>5, <2>6
<1>6. PICK new \in Response : AnswerStep(g, new) /\ new.at # "send"
  BY <1>5, Going
<1>7. LateStep(g, new) /\ pump' \in {pump, "gone"} /\ playback' \in Playback
      /\ playback'.suppress = playback.suppress
  BY <1>1, <1>3, <1>6 DEF LateStep
<1> QED
  BY <1>3, <1>4, <1>6, <1>7, AnswerMoves

\* After a send the goroutine goes on with its calls or with the stream of the model.
LEMMA AfterSending ==
    ASSUME EngineInv, NEW g \in Gens, AfterSend(g), answer[g].at = "send"
    PROVE  \E new \in Response : AnswerStep(g, new) /\ new.at # "send"
<1>. DEFINE at == IF answer[g].item.kind = "call" THEN "calls" ELSE "loop"
            new == [answer[g] EXCEPT !.item = NoItem, !.at = at]
<1>1. answer \in [Gens -> Response]
  BY DEF EngineInv, EngineTypes
<1>2. answer' = [answer EXCEPT ![g] = new]
  BY <1>1 DEF AfterSend
<1>3. /\ new \in Response /\ new.at = at /\ new.base = answer[g].base /\ new.calls = answer[g].calls
      /\ new.item.kind = "none" /\ at \in {"calls", "loop"}
  BY <1>1, UnstartedFields DEF Response
<1>4. \A h \in Gens \ {g} : answer[h].calls \cap answer[g].calls = {}
  BY DEF EngineInv, AwaitInv
<1>. HIDE DEF new, at
<1> QED
  BY <1>2, <1>3, <1>4 DEF AnswerStep

\* What generate collects and checks before it sends.
LEMMA LoopSteps ==
    ASSUME EngineInv, NEW g \in Gens,
           \/ \E kind \in {"delta", "audio"} : Produces(g, kind)
           \/ \E c \in tools : CollectsCall(g, c) \/ PublishesCall(g, c)
           \/ ModelDone(g)
    PROVE  EngineInv'
<1>1. /\ answer \in [Gens -> Response] /\ playback \in Playback /\ tools \subseteq CallIds
      /\ (answer[g].at = "send" <=> answer[g].item.kind # "none")
      /\ \A h \in Gens \ {g} : answer[h].calls \cap answer[g].calls = {}
  BY DEF EngineInv, EngineTypes, AnswerInv, AwaitInv
<1>2. /\ UNCHANGED <<tools, fenceVars, talkVars, submitter, runner, streamDone, heard, announced>>
      /\ UNCHANGED <<pump, playback, late, eventsCh>>
  BY DEF Produces, CollectsCall, PublishesCall, ModelDone, GenFrame, outerVars
<1>3. /\ answer[g] \in Response /\ answer[g].left \in Nat /\ answer[g].calls \subseteq CallIds
      /\ answer[g].todo \subseteq CallIds /\ answer[g].item \in Item
  BY <1>1 DEF Response
<1>4. \E new \in Response : AnswerStep(g, new) /\ (new.at = "send" => IsCurrent(g))
  <2>1. ASSUME NEW kind \in {"delta", "audio"}, Produces(g, kind)
        PROVE  \E new \in Response : AnswerStep(g, new) /\ (new.at = "send" => IsCurrent(g))
    <3>. DEFINE at == IF IsCurrent(g) THEN "send" ELSE "loop"
                item == IF IsCurrent(g) THEN [kind |-> kind, of |-> NoCall] ELSE NoItem
                new == [answer[g] EXCEPT !.left = @ - 1, !.said = TRUE, !.at = at, !.item = item]
    <3>1. answer[g].at = "loop" /\ answer[g].left - 1 \in Nat
      BY <1>3, <2>1 DEF Produces, GenAt
    <3>2. answer' = [answer EXCEPT ![g] = new]
      BY <1>1, <2>1 DEF Produces
    <3>3. /\ item \in Item /\ (at = "send" <=> item.kind # "none") /\ at \in {"send", "loop"}
          /\ at = "send" => IsCurrent(g)
      BY UnstartedFields DEF Item, ItemKinds
    <3>. HIDE DEF at, item
    <3>4. /\ new \in Response /\ new.at = at /\ new.base = answer[g].base /\ new.calls = answer[g].calls
          /\ new.item = item
      BY <1>3, <3>1, <3>3 DEF Response
    <3>. HIDE DEF new
    <3> QED
      BY <1>1, <3>1, <3>2, <3>3, <3>4 DEF AnswerStep
  <2>2. ASSUME NEW c \in tools, CollectsCall(g, c)
        PROVE  \E new \in Response : AnswerStep(g, new) /\ (new.at = "send" => IsCurrent(g))
    <3>. DEFINE new == [answer[g] EXCEPT !.calls = @ \cup {c}, !.todo = @ \cup {c}]
    <3>1. answer[g].at = "loop" /\ \A h \in Gens : c \notin answer[h].calls
      BY <2>2 DEF CollectsCall, GenAt
    <3>2. answer' = [answer EXCEPT ![g] = new]
      BY <1>1, <2>2 DEF CollectsCall
    <3>3. /\ new \in Response /\ new.at = answer[g].at /\ new.base = answer[g].base
          /\ new.calls = answer[g].calls \cup {c} /\ new.item = answer[g].item
      BY <1>1, <1>3 DEF Response
    <3>. HIDE DEF new
    <3>4. \A h \in Gens \ {g} : answer[h].calls \cap new.calls = {}
      BY <1>1, <3>1, <3>3
    <3> QED
      BY <1>1, <3>1, <3>2, <3>3, <3>4 DEF AnswerStep
  <2>3. ASSUME NEW c \in tools, PublishesCall(g, c)
        PROVE  \E new \in Response : AnswerStep(g, new) /\ (new.at = "send" => IsCurrent(g))
    <3>. DEFINE at == IF IsCurrent(g) THEN "send" ELSE "calls"
                item == IF IsCurrent(g) THEN [kind |-> "call", of |-> c] ELSE NoItem
                new == [answer[g] EXCEPT !.todo = @ \ {c}, !.at = at, !.item = item]
    <3>1. answer[g].at = "calls"
      BY <2>3 DEF PublishesCall, GenAt
    <3>2. answer' = [answer EXCEPT ![g] = new]
      BY <1>1, <2>3 DEF PublishesCall
    <3>3. /\ item \in Item /\ (at = "send" <=> item.kind # "none") /\ at \in {"send", "calls"}
          /\ at = "send" => IsCurrent(g)
      BY <1>1, UnstartedFields DEF Item, ItemKinds
    <3>. HIDE DEF at, item
    <3>4. /\ new \in Response /\ new.at = at /\ new.base = answer[g].base /\ new.calls = answer[g].calls
          /\ new.item = item
      BY <1>3, <3>1, <3>3 DEF Response
    <3>. HIDE DEF new
    <3> QED
      BY <1>1, <3>1, <3>2, <3>3, <3>4 DEF AnswerStep
  <2>4. ASSUME ModelDone(g)
        PROVE  \E new \in Response : AnswerStep(g, new) /\ (new.at = "send" => IsCurrent(g))
    <3>1. answer[g].at = "loop" /\ \E at \in {"calls", "loop", "quit"} :
             answer' = [answer EXCEPT ![g].open = FALSE, ![g].at = at]
      BY <2>4 DEF ModelDone, GenAt
    <3>2. PICK at \in {"calls", "loop", "quit"} : answer' = [answer EXCEPT ![g].open = FALSE, ![g].at = at]
      BY <3>1
    <3>. DEFINE new == [answer[g] EXCEPT !.open = FALSE, !.at = at]
    <3>3. answer' = [answer EXCEPT ![g] = new]
      BY <1>1, <3>2
    <3>4. /\ new \in Response /\ new.at = at /\ new.base = answer[g].base /\ new.calls = answer[g].calls
          /\ new.item = answer[g].item
      BY <1>3 DEF Response
    <3>. HIDE DEF new
    <3> QED
      BY <1>1, <3>1, <3>3, <3>4 DEF AnswerStep
  <2> QED
    BY <2>1, <2>2, <2>3, <2>4
<1>5. PICK new \in Response : AnswerStep(g, new) /\ (new.at = "send" => IsCurrent(g))
  BY <1>4
<1>6. /\ LateStep(g, new) /\ pump' \in {pump, "gone"} /\ playback' \in Playback
      /\ playback'.suppress = playback.suppress /\ Follows(eventsCh, eventsCh')
  BY <1>1, <1>2, <1>5, EventsStay DEF LateStep
<1> QED
  BY <1>2, <1>5, <1>6, AnswerMoves

\* The sends of generate: to the events channel, to the output queue, or given up.
LEMMA SendSteps ==
    ASSUME EngineInv, NEW g \in Gens, SendsEvent(g) \/ SendsFrame(g) \/ SendCanceled(g)
    PROVE  EngineInv'
<1>1. /\ answer \in [Gens -> Response] /\ playback \in Playback /\ AnswerInv(g) /\ FenceInv
      /\ late \in [Gens -> Nat]
  BY DEF EngineInv, EngineTypes
<1>2. /\ UNCHANGED <<tools, fenceVars, talkVars, submitter, runner, streamDone, heard, announced>>
      /\ answer[g].at = "send"
  BY <1>1 DEF SendsEvent, SendsFrame, SendCanceled, GenAt, GenFrame, outerVars, AnswerInv
<1>3. \E new \in Response : AnswerStep(g, new) /\ new.at # "send"
  <2>1. CASE AfterSend(g)
    BY <1>2, <2>1, AfterSending
  <2>2. CASE SendCanceled(g) /\ Goes(g, "ended")
    <3>1. ~IsCurrent(g) \/ streamDone
      BY <1>1, <2>2 DEF SendCanceled, CtxOver, IsCurrent, FenceInv
    <3> QED
      BY <1>2, <2>2, <3>1, Going
  <2> QED
    BY <2>1, <2>2 DEF SendsEvent, SendsFrame, SendCanceled
<1>4. PICK new \in Response : AnswerStep(g, new) /\ new.at # "send"
  BY <1>3
<1>5. LateStep(g, new)
  BY <1>2, <1>4 DEF SendsEvent, SendsFrame, SendCanceled, Counted, GenFrame, LateStep
<1>6. Follows(eventsCh, eventsCh')
  <2>1. CASE SendsEvent(g)
    <3>. DEFINE e == [type |-> answer[g].item.kind, of |-> answer[g].item.of]
    <3>1. e \in Event /\ e.type \notin {"started", "speech"} /\ eventsCh' = Append(eventsCh, e)
      <4>1. answer[g].item.of \in CallIds \cup {NoCall} /\ answer[g].item.kind \in {"delta", "call"}
        BY <1>1, <2>1 DEF SendsEvent, Response, Item
      <4> QED
        BY <2>1, <4>1 DEF SendsEvent, Event
    <3> QED
      BY <3>1, EventAdded
  <2>2. CASE UNCHANGED eventsCh
    BY <2>2, EventsStay
  <2> QED
    BY <2>1, <2>2 DEF SendsFrame, SendCanceled, GenFrame
<1>7. /\ pump' \in {pump, "gone"} /\ playback' \in Playback
      /\ playback'.suppress = playback.suppress
  <2>1. CASE UNCHANGED playback
    BY <1>1, <2>1 DEF SendsEvent, SendsFrame, SendCanceled, GenFrame
  <2>2. CASE SendsFrame(g) /\ playback' = Pushed(playback) /\ UNCHANGED pump
    BY <1>1, <2>2 DEF Pushed, Playback
  <2> QED
    BY <2>1, <2>2 DEF SendsEvent, SendsFrame, SendCanceled, GenFrame
<1> QED
  BY <1>2, <1>4, <1>5, <1>6, <1>7, AnswerMoves

(***************************************************************************)
(* Generations and events are counted                                      *)
(***************************************************************************)
\* What a step adds to both sides of the count.
LEMMA CountMoves ==
    ASSUME EngineInv, generation' \in Nat, heard' \in Nat, Owed' \in 0..2,
           Cardinality(Speeches(eventsCh')) \in Nat, Cardinality(Answered') \in Nat,
           NEW x \in 0..2, NEW y \in 0..1, NEW z \in 0..1,
           generation' + Owed' + Cardinality(Speeches(eventsCh'))
               <= generation + Owed + Cardinality(Speeches(eventsCh)) + x + y + z,
           2 * heard + x <= 2 * heard', Cardinality(Answered) + y <= Cardinality(Answered'),
           runner.at \in {"last", "wait", "gone"} => runner'.at \in {"last", "wait", "gone"} /\ z = 0,
           z = 1 => runner'.at \in {"last", "wait", "gone"}
    PROVE  GenerationInv'
<1>. DEFINE b == IF runner.at \in {"last", "wait", "gone"} THEN 1 ELSE 0
            bb == IF runner'.at \in {"last", "wait", "gone"} THEN 1 ELSE 0
<1>1. Cardinality(Speeches(eventsCh)') = Cardinality(Speeches(eventsCh')) /\ Cardinality(Answered)' = Cardinality(Answered')
  BY DEF Speeches
<1>2. generation + Owed + Cardinality(Speeches(eventsCh)) <= 2 * heard + Cardinality(Answered) + b
  BY DEF EngineInv, GenerationInv
<1>3. /\ Cardinality(Speeches(eventsCh)) \in Nat /\ Cardinality(Answered) \in Nat
      /\ generation \in Nat /\ heard \in Nat /\ Owed \in 0..2
  BY CountTypes
<1>4. b \in Int /\ bb \in Int /\ b + z <= bb
  OBVIOUS
<1>. HIDE DEF b, bb
<1>6. generation' + Owed' + Cardinality(Speeches(eventsCh')) <= 2 * heard' + Cardinality(Answered') + bb
  <2>1. /\ generation + Owed + Cardinality(Speeches(eventsCh)) \in Int
        /\ generation' + Owed' + Cardinality(Speeches(eventsCh')) \in Int
        /\ 2 * heard \in Int /\ 2 * heard' \in Int
    BY <1>3
  <2>2. \A n, h, a, hh, aa, nn \in Int :
           n <= 2 * h + a + b /\ nn <= n + x + y + z /\ 2 * h + x <= 2 * hh /\ a + y <= aa
               => nn <= 2 * hh + aa + bb
    BY <1>4
  <2>. DEFINE n == generation + Owed + Cardinality(Speeches(eventsCh))
              nn == generation' + Owed' + Cardinality(Speeches(eventsCh'))
              a == Cardinality(Answered)
              aa == Cardinality(Answered')
  <2>3. n \in Int /\ nn \in Int /\ a \in Int /\ aa \in Int /\ heard \in Int /\ heard' \in Int
    BY <1>3, <2>1
  <2>4. n <= 2 * heard + a + b /\ nn <= n + x + y + z /\ 2 * heard + x <= 2 * heard' /\ a + y <= aa
    BY <1>2, <1>3
  <2>. HIDE DEF n, nn, a, aa
  <2>5. nn <= 2 * heard' + aa + bb
    BY <2>2, <2>3, <2>4
  <2> QED
    BY <2>5 DEF nn, aa
<1> QED
  BY <1>1, <1>6 DEF GenerationInv, bb

\* emit, whatever the event.
LEMMA AnyEmit ==
    ASSUME EngineInv, NEW type \in {"speech", "started", "stopped", "fatal", "error"}, NEW of \in Nat,
           EmitEvent(type, of), type = "started" => of \in 1..generation
    PROVE  /\ eventsCh' \in Seq(Event)
           /\ \A k \in 1..Len(eventsCh') : eventsCh'[k].type = "started" => eventsCh'[k].of \in 1..generation
           /\ Cardinality(Speeches(eventsCh')) \in Nat
           /\ Cardinality(Speeches(eventsCh')) <= Cardinality(Speeches(eventsCh)) + 1
           /\ type # "speech" => Cardinality(Speeches(eventsCh')) <= Cardinality(Speeches(eventsCh))
<1>1. /\ eventsCh \in Seq(Event)
      /\ \A k \in 1..Len(eventsCh) : eventsCh[k].type = "started" => eventsCh[k].of \in 1..generation
  BY DEF EngineInv, EngineTypes, StartInv
<1>2. IsFiniteSet(Speeches(eventsCh)) /\ Cardinality(Speeches(eventsCh)) \in Nat
  BY CountTypes
<1>3. CASE eventsCh' = Append(eventsCh, [type |-> type, of |-> of])
  <2>. DEFINE e == [type |-> type, of |-> of]
  <2>1. e \in Event /\ e.type = type /\ e.of = of /\ eventsCh' = Append(eventsCh, e)
    BY <1>3 DEF Event
  <2>. HIDE DEF e
  <2>2. /\ eventsCh' \in Seq(Event) /\ Len(eventsCh) \in Nat /\ Len(eventsCh') = Len(eventsCh) + 1
        /\ \A k \in 1..Len(eventsCh) : eventsCh'[k] = eventsCh[k]
        /\ eventsCh'[Len(eventsCh) + 1] = e
    BY <1>1, <2>1
  <2>3. \A k \in 1..Len(eventsCh') : k \in 1..Len(eventsCh) \/ k = Len(eventsCh) + 1
    BY <2>2
  <2>4. \A k \in 1..Len(eventsCh') : eventsCh'[k].type = "started" => eventsCh'[k].of \in 1..generation
    BY <1>1, <2>1, <2>2, <2>3
  <2>5. Speeches(eventsCh') \subseteq Speeches(eventsCh) \cup {Len(eventsCh) + 1}
    BY <2>2, <2>3 DEF Speeches
  <2>6. type # "speech" => Speeches(eventsCh') \subseteq Speeches(eventsCh)
    BY <2>1, <2>2, <2>3 DEF Speeches
  <2>7. /\ IsFiniteSet(Speeches(eventsCh) \cup {Len(eventsCh) + 1})
        /\ Cardinality(Speeches(eventsCh) \cup {Len(eventsCh) + 1}) \in Nat
        /\ Cardinality(Speeches(eventsCh) \cup {Len(eventsCh) + 1}) <= Cardinality(Speeches(eventsCh)) + 1
    <3>. DEFINE S == Speeches(eventsCh)
                l == Len(eventsCh) + 1
    <3>. HIDE DEF S, l
    <3>1. IsFiniteSet(S) /\ Cardinality(S) \in Nat
      BY <1>2 DEF S
    <3>2. /\ IsFiniteSet(S \cup {l})
          /\ Cardinality(S \cup {l}) = IF l \in S THEN Cardinality(S) ELSE Cardinality(S) + 1
      BY <3>1, FS_AddElement
    <3>3. Cardinality(S \cup {l}) \in Nat /\ Cardinality(S \cup {l}) <= Cardinality(S) + 1
      BY <3>1, <3>2
    <3> QED
      BY <3>2, <3>3 DEF S, l
  <2>8. /\ IsFiniteSet(Speeches(eventsCh'))
        /\ Cardinality(Speeches(eventsCh')) <= Cardinality(Speeches(eventsCh) \cup {Len(eventsCh) + 1})
    BY <2>5, <2>7, FS_Subset
  <2>9. type # "speech" => Cardinality(Speeches(eventsCh')) <= Cardinality(Speeches(eventsCh))
    BY <1>2, <2>6, FS_Subset
  <2>10. Cardinality(Speeches(eventsCh')) \in Nat
    BY <2>8, FS_CardinalityType
  <2> QED
    BY <1>2, <2>2, <2>4, <2>7, <2>8, <2>9, <2>10
<1>4. CASE UNCHANGED eventsCh
  BY <1>1, <1>2, <1>4
<1> QED
  BY <1>3, <1>4 DEF EmitEvent

\* The pump takes the first event.
LEMMA EventTaken ==
    ASSUME EngineInv, eventsCh # <<>>, eventsCh' = Tail(eventsCh)
    PROVE  /\ Head(eventsCh) \in Event
           /\ Head(eventsCh).type = "started" => Head(eventsCh).of \in 1..generation
           /\ eventsCh' \in Seq(Event)
           /\ \A k \in 1..Len(eventsCh') : eventsCh'[k].type = "started" => eventsCh'[k].of \in 1..generation
           /\ Cardinality(Speeches(eventsCh')) \in Nat
           /\ Cardinality(Speeches(eventsCh')) + (IF Head(eventsCh).type = "speech" THEN 1 ELSE 0)
                  <= Cardinality(Speeches(eventsCh))
<1>1. /\ eventsCh \in Seq(Event)
      /\ \A k \in 1..Len(eventsCh) : eventsCh[k].type = "started" => eventsCh[k].of \in 1..generation
  BY DEF EngineInv, EngineTypes, StartInv
<1>2. /\ eventsCh' \in Seq(Event) /\ Len(eventsCh) \in Nat \ {0} /\ Len(eventsCh') = Len(eventsCh) - 1
      /\ Head(eventsCh) = eventsCh[1] /\ Head(eventsCh) \in Event
      /\ \A k \in 1..Len(eventsCh') : k + 1 \in 1..Len(eventsCh) /\ eventsCh'[k] = eventsCh[k + 1]
  BY <1>1
<1>3. /\ 1 \in 1..Len(eventsCh)
      /\ \A k \in 1..Len(eventsCh') : eventsCh'[k].type = "started" => eventsCh'[k].of \in 1..generation
  BY <1>1, <1>2
<1>. DEFINE S == Speeches(eventsCh)
            T == Speeches(eventsCh')
            f == [k \in T |-> k + 1]
<1>4. IsFiniteSet(S) /\ Cardinality(S) \in Nat
  BY CountTypes
<1>5. f \in Injection(T, S \ {1})
  <2>1. \A k \in T : k \in Nat /\ k + 1 \in S \ {1}
    BY <1>2 DEF Speeches
  <2> QED
    BY <2>1 DEF Injection, IsInjective
<1>6. /\ IsFiniteSet(S \ {1})
      /\ Cardinality(S \ {1}) = IF 1 \in S THEN Cardinality(S) - 1 ELSE Cardinality(S)
  BY <1>4, FS_RemoveElement
<1>7. IsFiniteSet(T) /\ Cardinality(T) <= Cardinality(S \ {1})
  <2>. HIDE DEF f, T, S
  <2> QED
    BY <1>5, <1>6, FS_Injection
<1>8. Cardinality(T) \in Nat
  BY <1>7, FS_CardinalityType
<1>9. Head(eventsCh).type = "speech" => 1 \in S
  BY <1>2, <1>3 DEF Speeches
<1>10. Cardinality(T) + (IF Head(eventsCh).type = "speech" THEN 1 ELSE 0) <= Cardinality(S)
  <2>. HIDE DEF f, T, S
  <2> QED
    BY <1>4, <1>6, <1>7, <1>8, <1>9
<1> QED
  BY <1>1, <1>2, <1>3, <1>8, <1>10

(***************************************************************************)
(* Steps that leave the responses alone                                    *)
(***************************************************************************)
LEMMA QuietStep ==
    ASSUME EngineInv, UNCHANGED <<tools, talkVars, answer, late>>, streamDone' \in BOOLEAN,
           streamDone => streamDone', UNCHANGED fenceVars \/ CancelResponse
    PROVE  /\ FenceInv' /\ (\A g \in Gens : AnswerInv(g)') /\ MessageInv' /\ BaseInv' /\ AwaitInv'
           /\ ConversationSound' /\ Answered' = Answered
           /\ tools' \subseteq CallIds /\ generation' \in Nat /\ active' \in BOOLEAN
           /\ conversation' \in Seq(Message) /\ awaited' \subseteq CallIds
           /\ answer' \in [Gens -> Response] /\ late' \in [Gens -> Nat]
           /\ generation <= generation'
           /\ active' => active /\ generation' = generation
<1>1. /\ tools \subseteq CallIds /\ generation \in Nat /\ active \in BOOLEAN
      /\ conversation \in Seq(Message) /\ awaited \subseteq CallIds /\ FenceInv
      /\ answer \in [Gens -> Response] /\ late \in [Gens -> Nat] /\ \A g \in Gens : AnswerInv(g)
  BY DEF EngineInv, EngineTypes
<1>2. UNCHANGED <<tools, conversation, awaited, answer, late>>
  BY DEF talkVars
<1>3. \/ UNCHANGED <<generation, active, cancelOf, canceledGens>>
      \/ /\ generation' = generation + 1 /\ active' = FALSE /\ cancelOf' = 0
         /\ canceledGens' = IF cancelOf = 0 THEN canceledGens ELSE canceledGens \cup {cancelOf}
  BY DEF fenceVars, CancelResponse
<1>4. generation' \in Nat /\ active' \in BOOLEAN /\ generation <= generation' /\ (active' => active /\ generation' = generation)
  <2>1. CASE UNCHANGED <<generation, active, cancelOf, canceledGens>>
    BY <1>1, <2>1
  <2>2. CASE generation' = generation + 1 /\ active' = FALSE
    <3>1. generation + 1 \in Nat /\ generation <= generation + 1 /\ FALSE \in BOOLEAN
      BY <1>1
    <3> QED
      BY <2>2, <3>1
  <2> QED
    BY <1>3, <2>1, <2>2
<1>5. FenceInv'
  <2>1. cancelOf # 0 => cancelOf = generation /\ generation \in 1..generation
    BY <1>1, EngineConstants DEF FenceInv
  <2>2. canceledGens \subseteq 1..generation /\ 1..generation \subseteq 1..(generation + 1)
    BY <1>1 DEF FenceInv
  <2>3. CASE UNCHANGED <<generation, active, cancelOf, canceledGens>>
    BY <1>1, <2>3 DEF FenceInv
  <2>4. CASE /\ generation' = generation + 1 /\ active' = FALSE /\ cancelOf' = 0
             /\ canceledGens' = IF cancelOf = 0 THEN canceledGens ELSE canceledGens \cup {cancelOf}
    BY <2>1, <2>2, <2>4 DEF FenceInv
  <2> QED
    BY <1>3, <2>3, <2>4
<1>6. ASSUME NEW g \in Gens PROVE AnswerInv(g)'
  <2>1. g > generation' => g > generation
    BY <1>1, <1>4, EngineConstants
  <2>2. IsCurrent(g)' => IsCurrent(g)
    BY <1>4 DEF IsCurrent
  <2>3. AnswerInv(g)
    BY <1>1
  <2> QED
    BY <1>2, <2>1, <2>2, <2>3 DEF AnswerInv
<1>7. \A g, h \in Gens : g # h => answer'[g].calls \cap answer'[h].calls = {}
  BY <1>2 DEF EngineInv, AwaitInv
<1>8. MessageInv' /\ BaseInv' /\ AwaitInv' /\ ConversationSound' /\ Answered' = Answered
  BY <1>1, <1>2, <1>4, <1>7, TalkKept
<1> QED
  BY <1>1, <1>2, <1>4, <1>5, <1>6, <1>8

LEMMA QuietMoves ==
    ASSUME EngineInv, UNCHANGED <<tools, talkVars, answer, late>>, streamDone' \in BOOLEAN,
           streamDone => streamDone', UNCHANGED fenceVars \/ CancelResponse,
           runner' \in Runner, runner' = runner \/ runner'.at # "started",
           submitter' \in Submitter, submitter' = submitter \/ submitter'.at # "started",
           eventsCh' \in Seq(Event),
           \A k \in 1..Len(eventsCh') : eventsCh'[k].type = "started" => eventsCh'[k].of \in 1..generation,
           pump' \in {"idle", "interrupt", "stopped", "gone"}, playback' \in Playback,
           heard' \in 0..SttEvents, announced' \in 0..generation,
           PlayInv', GenerationInv'
    PROVE  EngineInv'
<1>1. /\ FenceInv' /\ (\A g \in Gens : AnswerInv(g)') /\ MessageInv' /\ BaseInv' /\ AwaitInv'
      /\ ConversationSound'
      /\ tools' \subseteq CallIds /\ generation' \in Nat /\ active' \in BOOLEAN
      /\ conversation' \in Seq(Message) /\ awaited' \subseteq CallIds
      /\ answer' \in [Gens -> Response] /\ late' \in [Gens -> Nat]
      /\ generation <= generation'
  BY QuietStep
<1>2. generation \in Nat /\ StartInv
  BY DEF EngineInv, EngineTypes
<1>3. announced' \in 0..generation' /\ 1..generation \subseteq 1..generation'
      /\ \A g \in Gens : g <= generation => g <= generation'
  BY <1>1, <1>2, EngineConstants
<1>4. EngineTypes'
  BY <1>1, <1>3 DEF EngineTypes
<1>5. StartInv'
  <2>1. UNCHANGED answer
    OBVIOUS
  <2>2. runner'.at = "started" => runner'.of \in Gens /\ runner'.of <= generation' /\ answer'[runner'.of].at = "spawn"
    BY <1>2, <1>3, <2>1 DEF StartInv
  <2>3. submitter'.at = "started" =>
            submitter'.of \in Gens /\ submitter'.of <= generation' /\ answer'[submitter'.of].at = "spawn"
    BY <1>2, <1>3, <2>1 DEF StartInv
  <2>4. runner'.at = "started" /\ submitter'.at = "started" => runner'.of # submitter'.of
    BY <1>2 DEF StartInv
  <2>5. \A k \in 1..Len(eventsCh') : eventsCh'[k].type = "started" => eventsCh'[k].of \in 1..generation'
    BY <1>3
  <2> QED
    BY <2>2, <2>3, <2>4, <2>5 DEF StartInv
<1> QED
  BY <1>1, <1>4, <1>5 DEF EngineInv

\* The steps of run that start no response.
LEMMA RunnerSteps ==
    ASSUME EngineInv,
           \/ SpeechStarts \/ RunCancels \/ RunEmitsStopped \/ TranscriberFails \/ TranscriberEnds
           \/ RunReturns
    PROVE  EngineInv'
<1>1. /\ generation \in Nat /\ active \in BOOLEAN /\ streamDone \in BOOLEAN /\ runner \in Runner
      /\ submitter \in Submitter /\ eventsCh \in Seq(Event)
      /\ pump \in {"idle", "interrupt", "stopped", "gone"} /\ playback \in Playback
      /\ heard \in 0..SttEvents /\ announced \in 0..generation /\ PlayInv
      /\ \A k \in 1..Len(eventsCh) : eventsCh[k].type = "started" => eventsCh[k].of \in 1..generation
  BY DEF EngineInv, EngineTypes, StartInv
<1>2. /\ UNCHANGED <<tools, talkVars, answer, late, streamDone, submitter, pump, playback, announced>>
      /\ UNCHANGED fenceVars \/ CancelResponse
  BY DEF SpeechStarts, RunCancels, RunEmitsStopped, TranscriberFails, TranscriberEnds, RunReturns, outerVars
<1>3. \/ eventsCh' = eventsCh
      \/ EmitEvent("speech", 0) \/ EmitEvent("stopped", 0) \/ EmitEvent("fatal", 0)
  BY DEF SpeechStarts, RunCancels, RunEmitsStopped, TranscriberFails, TranscriberEnds, RunReturns
<1>4. /\ eventsCh' \in Seq(Event) /\ Cardinality(Speeches(eventsCh')) \in Nat
      /\ \A k \in 1..Len(eventsCh') : eventsCh'[k].type = "started" => eventsCh'[k].of \in 1..generation
  <2>1. CASE eventsCh' = eventsCh
    BY <1>1, <2>1, CountTypes
  <2> QED
    BY <1>3, <2>1, AnyEmit
<1>5. runner' \in Runner /\ runner'.at # "started"
  <2>1. CASE \E at \in {"cancel", "leave", "gone"} : runner' = [at |-> at, of |-> 0]
    BY <2>1 DEF Runner
  <2>2. CASE \E at \in {"stopped", "select", "last", "wait"} : runner' = [runner EXCEPT !.at = at]
    BY <1>1, <2>2 DEF Runner
  <2> QED
    BY <2>1, <2>2 DEF SpeechStarts, RunCancels, RunEmitsStopped, TranscriberFails, TranscriberEnds, RunReturns
<1>6. heard' \in 0..SttEvents
  <2>1. CASE SpeechStarts
    BY <1>1, <2>1, EngineConstants DEF SpeechStarts, Hears
  <2>2. CASE ~SpeechStarts
    BY <1>1, <2>2 DEF RunCancels, RunEmitsStopped, TranscriberFails, TranscriberEnds, RunReturns, outerVars
  <2> QED
    BY <2>1, <2>2
<1>7. Answered' = Answered /\ generation' \in Nat /\ (active' => active /\ generation' = generation)
  BY <1>1, <1>2, QuietStep
<1>8. PlayInv'
  BY <1>1, <1>2, <1>7 DEF PlayInv
<1>9. GenerationInv'
  <2>1. /\ Cardinality(Answered') \in Nat /\ Cardinality(Answered) <= Cardinality(Answered')
        /\ Cardinality(Speeches(eventsCh)) \in Nat /\ Owed \in 0..2 /\ heard' \in Nat /\ heard \in Nat
    BY <1>6, <1>7, CountTypes, EngineConstants
  <2>2. Owed' \in 0..2
    BY DEF Owed
  <2>3. CASE SpeechStarts
    <3>1. Owed' = Owed + 1 /\ heard' = heard + 1 /\ generation' = generation /\ runner.at = "select"
      BY <1>2, <2>3 DEF SpeechStarts, Hears, Owed, fenceVars
    <3>2. Cardinality(Speeches(eventsCh')) <= Cardinality(Speeches(eventsCh)) + 1
      BY <2>3, AnyEmit DEF SpeechStarts
    <3>3. /\ generation' + Owed' + Cardinality(Speeches(eventsCh'))
               <= generation + Owed + Cardinality(Speeches(eventsCh)) + 2 + 0 + 0
          /\ 2 * heard + 2 <= 2 * heard'
      BY <1>1, <1>4, <2>1, <3>1, <3>2
    <3> QED
      BY <1>4, <1>7, <2>1, <2>2, <3>1, <3>3, CountMoves
  <2>4. CASE RunCancels
    <3>. DEFINE z == IF runner.at = "leave" THEN 1 ELSE 0
    <3>1. /\ generation' = generation + 1 /\ eventsCh' = eventsCh /\ heard' = heard
          /\ runner.at \in {"cancel", "leave"}
          /\ runner.at = "leave" => runner'.at \in {"last", "wait"}
          /\ runner.at = "cancel" => runner'.at # "cancel"
      BY <1>1, <2>4 DEF RunCancels, CancelResponse, outerVars, Runner
    <3>2. Owed' + 1 <= Owed + z
      BY <1>2, <1>5, <2>4, <3>1 DEF RunCancels, Owed
    <3>3. z \in 0..1 /\ (z = 1 => runner'.at \in {"last", "wait", "gone"})
      BY <3>1
    <3>. HIDE DEF z
    <3>4. /\ generation' + Owed' + Cardinality(Speeches(eventsCh'))
               <= generation + Owed + Cardinality(Speeches(eventsCh)) + 0 + 0 + z
          /\ 2 * heard + 0 <= 2 * heard' /\ Cardinality(Answered) + 0 <= Cardinality(Answered')
      <4>1. \A g, o, oo, s, zz \in Int : oo + 1 <= o + zz => (g + 1) + oo + s <= g + o + s + 0 + 0 + zz
        OBVIOUS
      <4>2. generation \in Int /\ Owed \in Int /\ Owed' \in Int /\ Cardinality(Speeches(eventsCh)) \in Int /\ z \in Int
        BY <1>1, <2>1, <2>2, <3>3
      <4>3. Cardinality(Answered) \in Nat
        BY CountTypes
      <4>4. Speeches(eventsCh') = Speeches(eventsCh)
        BY <3>1
      <4>. DEFINE s == Cardinality(Speeches(eventsCh))
      <4>5. (generation + 1) + Owed' + s <= generation + Owed + s + 0 + 0 + z
        <5>1. s \in Int
          BY <2>1
        <5>. HIDE DEF s
        <5> QED
          BY <3>2, <4>1, <4>2, <5>1
      <4>6. generation' + Owed' + Cardinality(Speeches(eventsCh'))
               <= generation + Owed + Cardinality(Speeches(eventsCh)) + 0 + 0 + z
        BY <3>1, <4>4, <4>5
      <4> QED
        BY <1>7, <2>1, <3>1, <4>3, <4>6
    <3>5. 0 \in 0..2 /\ 0 \in 0..1 /\ runner.at \notin {"last", "wait", "gone"}
      BY <3>1
    <3> QED
      BY <1>4, <1>7, <2>1, <2>2, <3>3, <3>4, <3>5, CountMoves
  <2>5. CASE RunEmitsStopped \/ TranscriberFails \/ TranscriberEnds \/ RunReturns
    <3>1. Cardinality(Speeches(eventsCh')) <= Cardinality(Speeches(eventsCh))
      <4>1. CASE eventsCh' = eventsCh
        BY <2>1, <4>1
      <4>2. CASE EmitEvent("stopped", 0) \/ EmitEvent("fatal", 0)
        BY <4>2, AnyEmit
      <4> QED
        BY <2>5, <4>1, <4>2 DEF RunEmitsStopped, TranscriberFails, TranscriberEnds, RunReturns
    <3>2. /\ UNCHANGED <<generation, heard>>
          /\ runner.at \in {"last", "wait", "gone"} => runner'.at \in {"last", "wait", "gone"}
      BY <1>1, <2>5 DEF RunEmitsStopped, TranscriberFails, TranscriberEnds, RunReturns, fenceVars, outerVars, Runner
    <3>3. Owed' <= Owed
      BY <1>1, <1>2, <2>5 DEF RunEmitsStopped, TranscriberFails, TranscriberEnds, RunReturns, Owed, Runner
    <3>4. Cardinality(Speeches(eventsCh')) + Owed' <= Cardinality(Speeches(eventsCh)) + Owed
      BY <1>4, <2>1, <2>2, <3>1, <3>3
    <3> QED
      BY <1>4, <1>7, <2>2, <3>2, <3>4, CountKept
  <2> QED
    BY <2>3, <2>4, <2>5
<1> QED
  BY <1>1, <1>2, <1>4, <1>5, <1>6, <1>8, <1>9, QuietMoves

\* The pump, the end of the session, and a result on its way.
LEMMA PumpSteps ==
    ASSUME EngineInv,
           \/ PumpHandles \/ PumpInterrupts \/ PumpEmitsStopped \/ PlaysFrame \/ PumpLeaves
           \/ CloseEngine \/ (\E c \in tools : ResultArrives(c))
    PROVE  EngineInv'
<1>1. /\ generation \in Nat /\ active \in BOOLEAN /\ streamDone \in BOOLEAN /\ runner \in Runner
      /\ submitter \in Submitter /\ eventsCh \in Seq(Event) /\ tools \subseteq CallIds
      /\ pump \in {"idle", "interrupt", "stopped", "gone"} /\ playback \in Playback
      /\ heard \in 0..SttEvents /\ announced \in 0..generation /\ PlayInv
      /\ \A k \in 1..Len(eventsCh) : eventsCh[k].type = "started" => eventsCh[k].of \in 1..generation
  BY DEF EngineInv, EngineTypes, StartInv
<1>2. /\ UNCHANGED <<tools, talkVars, answer, late, runner, heard>>
      /\ UNCHANGED fenceVars \/ CancelResponse
      /\ streamDone' \in BOOLEAN /\ (streamDone => streamDone')
  BY <1>1 DEF PumpHandles, PumpInterrupts, PumpEmitsStopped, PlaysFrame, PumpLeaves, CloseEngine, ResultArrives,
         PumpFrame, outerVars
<1>3. \/ eventsCh' = eventsCh
      \/ eventsCh # <<>> /\ eventsCh' = Tail(eventsCh)
      \/ EmitEvent("stopped", 0)
  BY DEF PumpHandles, PumpInterrupts, PumpEmitsStopped, PlaysFrame, PumpLeaves, CloseEngine, ResultArrives
<1>4. /\ eventsCh' \in Seq(Event) /\ Cardinality(Speeches(eventsCh')) \in Nat
      /\ \A k \in 1..Len(eventsCh') : eventsCh'[k].type = "started" => eventsCh'[k].of \in 1..generation
  <2>1. CASE eventsCh' = eventsCh
    BY <1>1, <2>1, CountTypes
  <2> QED
    BY <1>3, <2>1, AnyEmit, EventTaken
<1>5. pump' \in {"idle", "interrupt", "stopped", "gone"}
  BY <1>1 DEF PumpHandles, PumpInterrupts, PumpEmitsStopped, PlaysFrame, PumpLeaves, CloseEngine, ResultArrives
<1>6. playback' \in Playback
  <2>1. CASE UNCHANGED playback
    BY <1>1, <2>1
  <2>2. CASE PumpHandles
    <3>1. playback' = Played(playback, Head(eventsCh))
      BY <2>2 DEF PumpHandles
    <3>2. \/ playback' = [playback EXCEPT !.suppress = FALSE, !.active = TRUE]
          \/ playback' = [playback EXCEPT !.active = FALSE]
          \/ playback' = [[playback EXCEPT !.queued = 0] EXCEPT !.active = FALSE, !.suppress = TRUE]
          \/ playback' = playback
      BY <3>1, Zenon DEF Played, Cleared
    <3>3. 0 \in Int
      OBVIOUS
    <3> QED
      BY <1>1, <3>2, <3>3 DEF Playback
  <2>3. CASE PlaysFrame
    <3>. DEFINE a == playback.active \/ ~playback.suppress
    <3>1. playback' = [[playback EXCEPT !.queued = @ - 1] EXCEPT !.active = a]
      BY <1>1, <2>3 DEF PlaysFrame, Popped, Playback
    <3>2. a \in BOOLEAN /\ playback.queued - 1 \in Int
      BY <1>1 DEF Playback
    <3>. HIDE DEF a
    <3> QED
      BY <1>1, <3>1, <3>2 DEF Playback
  <2> QED
    BY <2>1, <2>2, <2>3 DEF PumpHandles, PumpInterrupts, PumpEmitsStopped, PlaysFrame, PumpLeaves, CloseEngine,
                            ResultArrives
<1>7. announced' \in 0..generation
  <2>1. CASE PumpHandles
    <3>1. Head(eventsCh).type = "started" => Head(eventsCh).of \in 0..generation
      BY <1>1, <2>1, EventTaken DEF PumpHandles
    <3> QED
      BY <1>1, <2>1, <3>1 DEF PumpHandles
  <2>2. CASE ~PumpHandles
    BY <1>1, <2>2 DEF PumpInterrupts, PumpEmitsStopped, PlaysFrame, PumpLeaves, CloseEngine, ResultArrives
  <2> QED
    BY <2>1, <2>2
<1>8. submitter' \in Submitter /\ (submitter' = submitter \/ submitter'.at # "started")
  <2>1. ASSUME NEW c \in tools, ResultArrives(c) PROVE submitter' \in Submitter /\ submitter'.at # "started"
    BY <1>1, <2>1 DEF ResultArrives, Submitter
  <2>2. CASE UNCHANGED submitter
    BY <1>1, <2>2
  <2> QED
    BY <2>1, <2>2 DEF PumpHandles, PumpInterrupts, PumpEmitsStopped, PlaysFrame, PumpLeaves, CloseEngine, PumpFrame
<1>9. Answered' = Answered /\ generation' \in Nat /\ (active' => active /\ generation' = generation)
  BY <1>1, <1>2, QuietStep
<1>10. PlayInv'
  <2>. SUFFICES ASSUME pump' \in {"idle", "stopped"}, playback'.suppress, active'
                PROVE  announced' # generation'
    BY DEF PlayInv
  <2>1. active /\ generation' = generation
    BY <1>9
  <2>2. CASE PumpHandles
    <3>1. playback' = Played(playback, Head(eventsCh)) /\ pump = "idle"
      BY <2>2 DEF PumpHandles
    <3>2. Head(eventsCh).type # "started"
      BY <1>1, <3>1 DEF Played, Playback
    <3>3. ~(Head(eventsCh).type = "speech" /\ playback.active)
      BY <2>2 DEF PumpHandles
    <3>4. playback.suppress
      BY <1>1, <3>1, <3>2, <3>3 DEF Played, Playback
    <3>5. announced' = announced
      BY <2>2, <3>2 DEF PumpHandles
    <3> QED
      BY <1>1, <2>1, <3>1, <3>4, <3>5 DEF PlayInv
  <2>3. CASE PlaysFrame
    <3>1. playback'.suppress = playback.suppress /\ UNCHANGED <<announced, pump>>
      BY <1>1, <2>3 DEF PlaysFrame, Popped, Playback
    <3> QED
      BY <1>1, <2>1, <3>1 DEF PlayInv
  <2>4. CASE PumpInterrupts
    BY <1>9, <2>4 DEF PumpInterrupts, CancelResponse
  <2>5. CASE \/ PumpEmitsStopped \/ PumpLeaves \/ CloseEngine \/ (\E c \in tools : ResultArrives(c))
    <3>1. UNCHANGED <<playback, announced>> /\ pump \in {"idle", "stopped"}
      BY <1>1, <2>5 DEF PumpEmitsStopped, PumpLeaves, CloseEngine, ResultArrives
    <3> QED
      BY <1>1, <2>1, <3>1 DEF PlayInv
  <2> QED
    BY <2>2, <2>3, <2>4, <2>5
<1>11. GenerationInv'
  <2>1. /\ Cardinality(Answered') \in Nat /\ Cardinality(Answered) <= Cardinality(Answered')
        /\ Cardinality(Speeches(eventsCh)) \in Nat /\ Owed \in 0..2 /\ heard' = heard /\ heard \in Nat
    BY <1>2, <1>9, CountTypes
  <2>2. Owed' \in 0..2 /\ runner' = runner
    BY <1>2 DEF Owed
  <2>3. CASE PumpInterrupts
    <3>1. generation' = generation + 1 /\ eventsCh' = eventsCh /\ Owed = Owed' + 1
      BY <2>2, <2>3 DEF PumpInterrupts, CancelResponse, Owed
    <3>2. /\ generation' + Owed' + Cardinality(Speeches(eventsCh'))
               <= generation + Owed + Cardinality(Speeches(eventsCh)) + 0 + 0 + 0
          /\ 2 * heard + 0 <= 2 * heard' /\ Cardinality(Answered) + 0 <= Cardinality(Answered')
          /\ 0 \in 0..2 /\ 0 \in 0..1
      BY <1>1, <1>9, <2>1, <2>2, <3>1, CountTypes
    <3> QED
      BY <1>4, <1>9, <2>1, <2>2, <3>2, CountMoves
  <2>4. CASE PumpHandles
    <3>. DEFINE s == IF Head(eventsCh).type = "speech" THEN 1 ELSE 0
    <3>1. Cardinality(Speeches(eventsCh')) + s <= Cardinality(Speeches(eventsCh))
      BY <2>4, EventTaken DEF PumpHandles
    <3>2. Owed' <= Owed + s /\ s \in 0..1
      BY <2>2, <2>4 DEF PumpHandles, Owed
    <3>3. UNCHANGED <<generation, heard>>
      BY <1>2, <2>4 DEF PumpHandles, fenceVars
    <3>. HIDE DEF s
    <3>4. Cardinality(Speeches(eventsCh')) + Owed' <= Cardinality(Speeches(eventsCh)) + Owed
      BY <1>4, <2>1, <2>2, <3>1, <3>2
    <3> QED
      BY <1>4, <1>9, <2>2, <3>3, <3>4, CountKept
  <2>5. CASE \/ PumpEmitsStopped \/ PlaysFrame \/ PumpLeaves \/ CloseEngine \/ (\E c \in tools : ResultArrives(c))
    <3>1. Cardinality(Speeches(eventsCh')) <= Cardinality(Speeches(eventsCh))
      <4>1. CASE eventsCh' = eventsCh
        BY <2>1, <4>1
      <4>2. CASE EmitEvent("stopped", 0)
        BY <4>2, AnyEmit
      <4> QED
        BY <2>5, <4>1, <4>2 DEF PumpEmitsStopped, PlaysFrame, PumpLeaves, CloseEngine, ResultArrives
    <3>2. UNCHANGED <<generation, heard>> /\ Owed' <= Owed
      BY <2>1, <2>2, <2>5 DEF PumpEmitsStopped, PlaysFrame, PumpLeaves, CloseEngine, ResultArrives, fenceVars, Owed
    <3>3. Cardinality(Speeches(eventsCh')) + Owed' <= Cardinality(Speeches(eventsCh)) + Owed
      BY <1>4, <2>1, <2>2, <3>1, <3>2
    <3> QED
      BY <1>4, <1>9, <2>2, <3>2, <3>3, CountKept
  <2> QED
    BY <2>3, <2>4, <2>5
<1> QED
  BY <1>1, <1>2, <1>4, <1>5, <1>6, <1>7, <1>8, <1>10, <1>11, QuietMoves

(***************************************************************************)
(* The conversation grows                                                  *)
(***************************************************************************)
\* A message is added: an answer after what it was made from, or the result of a call that waits.
LEMMA MessageAdded ==
    ASSUME EngineInv, NEW m \in Message, conversation' = Append(conversation, m),
           generation' \in Nat, generation <= generation', answer' \in [Gens -> Response],
           \A h \in Gens :
              /\ answer'[h].calls = answer[h].calls
              /\ h <= generation =>
                    /\ answer'[h].base = answer[h].base
                    /\ answer[h].at \in {"emit", "ended"} => answer'[h].at \in {"emit", "ended"},
           m.role \in {"assistant", "calls"} =>
              /\ m.of \in Gens /\ m.of <= generation
              /\ \A j \in (answer'[m.of].base + 1)..Len(conversation) : conversation[j].role = "tool",
           m.role = "calls" => answer'[m.of].at \in {"emit", "ended"},
           m.role = "tool" <=> m.call # NoCall,
           m.role = "tool" => m.call \in awaited,
           awaited' \subseteq CallIds,
           \A c \in awaited' :
              /\ c # m.call
              /\ \/ c \in awaited
                 \/ /\ m.role = "calls" /\ c \in answer[m.of].calls
                    /\ \A k \in 1..Len(conversation) : conversation[k].call # c
    PROVE  /\ conversation' \in Seq(Message) /\ Len(conversation') = Len(conversation) + 1
           /\ conversation'[Len(conversation) + 1] = m
           /\ \A k \in 1..Len(conversation) : conversation'[k] = conversation[k]
           /\ MessageInv' /\ AwaitInv' /\ ConversationSound'
           /\ Answered' = IF m.call \in CallIds THEN Answered \cup {m.call} ELSE Answered
<1>1. conversation \in Seq(Message) /\ generation \in Nat /\ MessageInv /\ AwaitInv /\ ConversationSound
  BY DEF EngineInv, EngineTypes
<1>. DEFINE l == Len(conversation) + 1
<1>2. /\ conversation' \in Seq(Message) /\ Len(conversation) \in Nat /\ Len(conversation') = l
      /\ conversation'[l] = m /\ \A k \in 1..Len(conversation) : conversation'[k] = conversation[k]
  BY <1>1
<1>3. /\ \A k \in 1..Len(conversation') : k \in 1..Len(conversation) \/ k = l
      /\ \A k \in 1..Len(conversation) : k \in 1..Len(conversation')
      /\ l \in 1..Len(conversation')
      /\ \A k \in 1..Len(conversation), j \in Int : j <= k - 1 => j <= Len(conversation)
  BY <1>2
<1>4. \A k \in 1..Len(conversation) :
         /\ conversation[k].role \in {"assistant", "calls"}
               => conversation[k].of \in Gens /\ conversation[k].of <= generation
         /\ conversation[k].role = "calls" => answer[conversation[k].of].at \in {"emit", "ended"}
         /\ conversation[k].role = "tool" <=> conversation[k].call # NoCall
  BY <1>1, Zenon DEF MessageInv
<1>5. \A k \in 1..Len(conversation) :
         /\ conversation[k].role \in {"assistant", "calls"} =>
               answer'[conversation[k].of].base = answer[conversation[k].of].base
         /\ conversation[k].role = "calls" => answer'[conversation[k].of].calls = answer[conversation[k].of].calls
  BY <1>4
<1>6. MessageInv'
  <2>1. ASSUME NEW k \in 1..Len(conversation')
        PROVE  LET n == conversation'[k] IN
               /\ n.role \in {"assistant", "calls"} => n.of \in Gens /\ n.of <= generation'
               /\ n.role = "calls" => answer'[n.of].at \in {"emit", "ended"}
               /\ n.role = "tool" <=> n.call # NoCall
    <3>1. CASE k = l
      <4>1. conversation'[k] = m
        BY <1>2, <3>1
      <4>2. m.role \in {"assistant", "calls"} => m.of <= generation'
        BY <1>1, EngineConstants
      <4> QED
        BY <4>1, <4>2
    <3>2. CASE k \in 1..Len(conversation)
      <4>1. conversation'[k] = conversation[k]
        BY <1>2, <3>2
      <4>2. conversation[k].role \in {"assistant", "calls"} => conversation[k].of <= generation'
        BY <1>1, <1>4, <3>2, EngineConstants
      <4>3. conversation[k].role = "calls" => answer'[conversation[k].of].at \in {"emit", "ended"}
        BY <1>4, <3>2
      <4> QED
        BY <1>4, <3>2, <4>1, <4>2, <4>3
    <3> QED
      BY <1>3, <3>1, <3>2
  <2> QED
    BY <2>1 DEF MessageInv
<1>7. AwaitInv'
  <2>1. ASSUME NEW c \in awaited'
        PROVE  /\ \E k \in 1..Len(conversation') : /\ conversation'[k].role = "calls"
                                                   /\ c \in answer'[conversation'[k].of].calls
               /\ \A k \in 1..Len(conversation') : conversation'[k].call # c
    <3>1. c # m.call /\ \A k \in 1..Len(conversation) : conversation[k].call # c
      BY <1>1 DEF AwaitInv
    <3>2. \A k \in 1..Len(conversation') : conversation'[k].call # c
      BY <1>2, <1>3, <3>1
    <3>3. \E k \in 1..Len(conversation') : /\ conversation'[k].role = "calls"
                                           /\ c \in answer'[conversation'[k].of].calls
      <4>1. CASE c \in awaited
        <5>1. PICK k \in 1..Len(conversation) : conversation[k].role = "calls"
                                                /\ c \in answer[conversation[k].of].calls
          BY <1>1, <4>1 DEF AwaitInv
        <5>2. /\ k \in 1..Len(conversation') /\ conversation'[k].role = "calls"
              /\ c \in answer'[conversation'[k].of].calls
          BY <1>2, <1>3, <1>5, <5>1
        <5> QED
          BY <5>2
      <4>2. CASE m.role = "calls" /\ c \in answer[m.of].calls
        <5>1. m.of \in Gens
          BY <4>2
        <5> QED
          BY <1>2, <1>3, <4>2, <5>1
      <4> QED
        BY <4>1, <4>2
    <3> QED
      BY <3>2, <3>3
  <2>2. \A g, h \in Gens : g # h => answer'[g].calls \cap answer'[h].calls = {}
    BY <1>1 DEF AwaitInv
  <2> QED
    BY <2>1, <2>2 DEF AwaitInv
<1>8. ConversationSound'
  <2>1. ASSUME NEW k \in 1..Len(conversation')
        PROVE  LET n == conversation'[k] IN
               /\ n.role \in {"assistant", "calls"} =>
                      \A j \in (answer'[n.of].base + 1)..(k - 1) : conversation'[j].role = "tool"
               /\ n.role = "tool" =>
                      /\ \E j \in 1..(k - 1) : /\ conversation'[j].role = "calls"
                                               /\ n.call \in answer'[conversation'[j].of].calls
                      /\ \A j \in 1..(k - 1) : conversation'[j].call # n.call
    <3>1. CASE k = l
      <4>1. conversation'[k] = m /\ k - 1 = Len(conversation)
        BY <1>2, <3>1
      <4>2. ASSUME m.role \in {"assistant", "calls"},
                   NEW j \in (answer'[m.of].base + 1)..Len(conversation)
            PROVE  conversation'[j].role = "tool"
        <5>1. answer'[m.of].base \in Nat
          BY <4>2 DEF Response
        <5>2. j \in 1..Len(conversation)
          BY <1>2, <4>2, <5>1
        <5> QED
          BY <1>2, <4>2, <5>2
      <4>3. ASSUME m.role = "tool"
            PROVE  /\ \E j \in 1..Len(conversation) : /\ conversation'[j].role = "calls"
                                                      /\ m.call \in answer'[conversation'[j].of].calls
                   /\ \A j \in 1..Len(conversation) : conversation'[j].call # m.call
        <5>1. m.call \in awaited
          BY <4>3
        <5>2. PICK j \in 1..Len(conversation) : conversation[j].role = "calls"
                                                /\ m.call \in answer[conversation[j].of].calls
          BY <1>1, <5>1 DEF AwaitInv
        <5>3. \A i \in 1..Len(conversation) : conversation[i].call # m.call
          BY <1>1, <5>1 DEF AwaitInv
        <5> QED
          BY <1>2, <1>5, <5>2, <5>3
      <4> QED
        BY <4>1, <4>2, <4>3
    <3>2. CASE k \in 1..Len(conversation)
      <4>1. conversation'[k] = conversation[k] /\ \A j \in 1..(k - 1) : j \in 1..Len(conversation)
        BY <1>2, <3>2
      <4>2. /\ conversation[k].role \in {"assistant", "calls"} =>
                   \A j \in (answer[conversation[k].of].base + 1)..(k - 1) : conversation[j].role = "tool"
            /\ conversation[k].role = "tool" =>
                   /\ \E j \in 1..(k - 1) : /\ conversation[j].role = "calls"
                                            /\ conversation[k].call \in answer[conversation[j].of].calls
                   /\ \A j \in 1..(k - 1) : conversation[j].call # conversation[k].call
        BY <1>1, <3>2 DEF ConversationSound
      <4>3. ASSUME conversation[k].role \in {"assistant", "calls"},
                   NEW j \in (answer[conversation[k].of].base + 1)..(k - 1)
            PROVE  conversation'[j].role = "tool"
        <5>1. answer[conversation[k].of].base \in Nat
          BY <1>4, <3>2, <4>3 DEF EngineInv, EngineTypes, Response
        <5>2. j \in 1..(k - 1)
          BY <3>2, <4>3, <5>1
        <5> QED
          BY <1>2, <4>1, <4>2, <4>3, <5>2
      <4>4. ASSUME conversation[k].role = "tool"
            PROVE  /\ \E j \in 1..(k - 1) : /\ conversation'[j].role = "calls"
                                            /\ conversation[k].call \in answer'[conversation'[j].of].calls
                   /\ \A j \in 1..(k - 1) : conversation'[j].call # conversation[k].call
        <5>1. PICK j \in 1..(k - 1) : /\ conversation[j].role = "calls"
                                      /\ conversation[k].call \in answer[conversation[j].of].calls
          BY <4>2, <4>4
        <5>2. conversation'[j] = conversation[j] /\ answer'[conversation[j].of].calls = answer[conversation[j].of].calls
          BY <1>2, <1>5, <4>1, <5>1
        <5>3. \A i \in 1..(k - 1) : conversation'[i].call # conversation[k].call
          BY <1>2, <4>1, <4>2, <4>4
        <5> QED
          BY <5>1, <5>2, <5>3
      <4>5. conversation[k].role \in {"assistant", "calls"} =>
               answer'[conversation[k].of].base = answer[conversation[k].of].base
        BY <1>5, <3>2
      <4> QED
        BY <4>1, <4>3, <4>4, <4>5
    <3> QED
      BY <1>3, <3>1, <3>2
  <2> QED
    BY <2>1 DEF ConversationSound
<1>9. Answered' = IF m.call \in CallIds THEN Answered \cup {m.call} ELSE Answered
  BY <1>2, <1>3 DEF Answered
<1> QED
  BY <1>2, <1>6, <1>7, <1>8, <1>9

\* A response that is current ends: its place is taken and it has still to say so.
LEMMA CurrentEnds ==
    ASSUME EngineInv, NEW g \in Gens, IsCurrent(g), answer[g].at \in {"calls", "stop", "quit"}, Goes(g, "emit"),
           active' = FALSE, cancelOf' = 0,
           UNCHANGED <<generation, canceledGens, tools, streamDone, heard, runner, submitter, eventsCh, pump,
                       playback, late, announced>>,
           conversation' \in Seq(Message), awaited' \subseteq CallIds,
           answer' \in [Gens -> Response] /\ answer'[g].at = "emit"
              => MessageInv' /\ AwaitInv' /\ ConversationSound' /\ Answered' = Answered
    PROVE  EngineInv'
<1>1. /\ answer \in [Gens -> Response] /\ generation \in Nat /\ FenceInv /\ StartInv /\ AnswerInv(g)
      /\ eventsCh \in Seq(Event)
  BY DEF EngineInv, EngineTypes
<1>. DEFINE new == [answer[g] EXCEPT !.at = "emit"]
<1>2. answer' = [answer EXCEPT ![g] = new]
  BY DEF Goes
<1>3. new \in Response /\ new.at = "emit" /\ new.item = answer[g].item
  BY <1>1 DEF Response
<1>. HIDE DEF new
<1>4. answer' \in [Gens -> Response] /\ answer'[g] = new /\ \A h \in Gens \ {g} : answer'[h] = answer[h]
  BY <1>1, <1>2, <1>3
<1>5. EngineTypes'
  BY <1>4 DEF EngineInv, EngineTypes
<1>6. FenceInv' /\ PlayInv' /\ BaseInv'
  BY <1>1 DEF FenceInv, PlayInv, BaseInv
<1>7. ASSUME NEW h \in Gens PROVE AnswerInv(h)'
  <2>1. ~IsCurrent(h)'
    BY DEF IsCurrent
  <2>2. CASE h = g
    <3>1. ~(g > generation)
      BY <1>1, EngineConstants DEF IsCurrent
    <3>2. answer[g].item.kind = "none" /\ late[g] = 0
      BY <1>1 DEF AnswerInv
    <3> QED
      BY <1>3, <1>4, <2>1, <2>2, <3>1, <3>2 DEF AnswerInv
  <2>3. CASE h # g
    <3>1. AnswerInv(h)
      BY DEF EngineInv
    <3> QED
      BY <1>4, <2>1, <2>3, <3>1 DEF AnswerInv
  <2> QED
    BY <2>2, <2>3
<1>8. StartInv'
  <2>1. \A h \in Gens : answer[h].at = "spawn" => answer'[h].at = "spawn"
    BY <1>4
  <2> QED
    BY <1>1, <2>1 DEF StartInv
<1>9. MessageInv' /\ AwaitInv' /\ ConversationSound' /\ Answered' = Answered
  BY <1>3, <1>4
<1>10. GenerationInv'
  <2>1. Owed' = Owed /\ Owed' \in 0..2
    BY DEF Owed
  <2>2. Cardinality(Speeches(eventsCh')) = Cardinality(Speeches(eventsCh)) /\ Cardinality(Speeches(eventsCh)) \in Nat
    BY CountTypes
  <2> QED
    BY <1>9, <2>1, <2>2, CountKept
<1> QED
  BY <1>5, <1>6, <1>7, <1>8, <1>9, <1>10 DEF EngineInv

\* awaitToolResults and stopResponse.
LEMMA EndSteps ==
    ASSUME EngineInv, NEW g \in Gens, AwaitToolResults(g) \/ StopResponse(g)
    PROVE  EngineInv'
<1>1. /\ answer \in [Gens -> Response] /\ generation \in Nat /\ FenceInv /\ BaseInv /\ MessageInv
      /\ ConversationSound /\ AwaitInv /\ conversation \in Seq(Message) /\ awaited \subseteq CallIds
      /\ playback \in Playback
  BY DEF EngineInv, EngineTypes
<1>2. answer[g].at \in {"calls", "stop", "quit"}
  BY DEF AwaitToolResults, StopResponse, GenAt
<1>3. UNCHANGED <<generation, canceledGens, tools, streamDone, heard, runner, submitter, eventsCh, pump,
                  playback, late, announced>>
  BY DEF AwaitToolResults, StopResponse, Ends, outerVars
<1>4. CASE ~IsCurrent(g)
  <2>1. Goes(g, "ended") /\ UNCHANGED <<fenceVars, talkVars>>
    BY <1>4 DEF AwaitToolResults, StopResponse, Ends, fenceVars
  <2>2. PICK new \in Response : AnswerStep(g, new) /\ new.at # "send"
    BY <1>2, <1>4, <2>1, Going
  <2>3. LateStep(g, new) /\ Follows(eventsCh, eventsCh')
    BY <1>3, <2>2, EventsStay DEF LateStep
  <2> QED
    BY <1>1, <1>3, <2>1, <2>2, <2>3, AnswerMoves
<1>5. CASE IsCurrent(g)
  <2>1. g = generation /\ active
    BY <1>5 DEF IsCurrent
  <2>2. active' = FALSE /\ cancelOf' = 0 /\ Goes(g, "emit")
    BY <1>5 DEF AwaitToolResults, StopResponse, Ends
  <2>3. answer' = [answer EXCEPT ![g] = [answer[g] EXCEPT !.at = "emit"]]
    BY <2>2 DEF Goes
  <2>4. \A h \in Gens :
           /\ answer'[h].calls = answer[h].calls /\ answer'[h].base = answer[h].base
           /\ answer[h].at \in {"emit", "ended"} => answer'[h].at \in {"emit", "ended"}
    <3>1. /\ [answer[g] EXCEPT !.at = "emit"].calls = answer[g].calls
          /\ [answer[g] EXCEPT !.at = "emit"].base = answer[g].base
          /\ [answer[g] EXCEPT !.at = "emit"].at = "emit"
      BY <1>1 DEF Response
    <3> QED
      BY <1>1, <2>3, <3>1
  <2>5. \A j \in (answer[g].base + 1)..Len(conversation) : conversation[j].role = "tool"
    BY <1>1, <2>1 DEF BaseInv
  <2>6. ASSUME NEW role \in {"assistant", "calls"},
               conversation' = conversation \o <<[role |-> role, of |-> g, call |-> NoCall]>>,
               awaited' = awaited \cup (IF role = "calls" THEN answer[g].calls ELSE {}),
               role = "calls" => answer[g].at = "calls"
        PROVE  EngineInv'
    <3>. DEFINE m == [role |-> role, of |-> g, call |-> NoCall]
    <3>1. m \in Message /\ m.role = role /\ m.of = g /\ m.call = NoCall
      BY EngineConstants DEF Message
    <3>2. conversation' = Append(conversation, m)
      BY <1>1, <2>6, <3>1
    <3>. HIDE DEF m
    <3>3. awaited' \subseteq CallIds
      BY <1>1, <2>6 DEF Response
    <3>4. ASSUME NEW c \in awaited'
          PROVE  /\ c # m.call
                 /\ \/ c \in awaited
                    \/ /\ m.role = "calls" /\ c \in answer[m.of].calls
                       /\ \A k \in 1..Len(conversation) : conversation[k].call # c
      <4>1. c # NoCall
        BY <3>3, EngineConstants
      <4>2. CASE c \in awaited
        BY <3>1, <4>1, <4>2
      <4>3. CASE c \notin awaited
        <5>1. role = "calls" /\ c \in answer[g].calls /\ answer[g].at = "calls"
          BY <2>6, <4>3
        <5>2. ASSUME NEW k \in 1..Len(conversation), conversation[k].call = c PROVE FALSE
          <6>1. conversation[k].role = "tool"
            BY <1>1, <4>1, <5>2 DEF MessageInv
          <6>2. PICK j \in 1..(k - 1) : conversation[j].role = "calls" /\ c \in answer[conversation[j].of].calls
            BY <1>1, <5>2, <6>1 DEF ConversationSound
          <6>3. j \in 1..Len(conversation)
            BY <1>1, <5>2, <6>2
          <6>4. conversation[j].of \in Gens /\ answer[conversation[j].of].at \in {"emit", "ended"}
            BY <1>1, <6>2, <6>3 DEF MessageInv
          <6>5. conversation[j].of # g
            BY <5>1, <6>4
          <6> QED
            BY <1>1, <5>1, <6>2, <6>4, <6>5 DEF AwaitInv
        <5> QED
          BY <3>1, <4>1, <5>1, <5>2
      <4> QED
        BY <4>2, <4>3
    <3>5. ASSUME answer' \in [Gens -> Response], answer'[g].at = "emit"
          PROVE  MessageInv' /\ AwaitInv' /\ ConversationSound' /\ Answered' = Answered
                 /\ conversation' \in Seq(Message)
      <4>1. m.role \in {"assistant", "calls"} =>
              /\ m.of \in Gens /\ m.of <= generation
              /\ \A j \in (answer'[m.of].base + 1)..Len(conversation) : conversation[j].role = "tool"
        BY <1>1, <2>1, <2>4, <2>5, <3>1
      <4>2. /\ m.role = "calls" => answer'[m.of].at \in {"emit", "ended"}
            /\ m.role = "tool" <=> m.call # NoCall
            /\ m.role = "tool" => m.call \in awaited
            /\ m.call \notin CallIds
        BY <3>1, <3>5, EngineConstants
      <4>3. generation' \in Nat /\ generation <= generation'
        BY <1>1, <1>3
      <4> QED
        BY <2>4, <3>1, <3>2, <3>3, <3>4, <3>5, <4>1, <4>2, <4>3, MessageAdded
    <3>6. conversation' \in Seq(Message)
      BY <1>1, <3>1, <3>2
    <3> QED
      BY <1>2, <1>3, <1>5, <2>2, <3>3, <3>5, <3>6, CurrentEnds
  <2>7. ASSUME UNCHANGED <<conversation, awaited>> PROVE EngineInv'
    <3>1. ASSUME answer' \in [Gens -> Response]
          PROVE  MessageInv' /\ AwaitInv' /\ ConversationSound' /\ Answered' = Answered
      <4>1. \A x, y \in Gens : x # y => answer'[x].calls \cap answer'[y].calls = {}
        BY <1>1, <2>4 DEF AwaitInv
      <4> QED
        BY <1>1, <1>3, <2>2, <2>4, <2>7, <3>1, <4>1, TalkKept
    <3> QED
      BY <1>1, <1>2, <1>3, <1>5, <2>2, <2>7, <3>1, CurrentEnds
  <2>8. CASE AwaitToolResults(g)
    <3>1. /\ conversation' = conversation \o <<[role |-> "calls", of |-> g, call |-> NoCall]>>
          /\ awaited' = awaited \cup answer[g].calls /\ answer[g].at = "calls"
      BY <1>5, <2>8 DEF AwaitToolResults, Ends, GenAt
    <3> QED
      BY <2>6, <3>1
  <2>9. CASE GenAt(g, "stop") /\ Ends(g, <<[role |-> "assistant", of |-> g, call |-> NoCall]>>, {})
    <3>1. /\ conversation' = conversation \o <<[role |-> "assistant", of |-> g, call |-> NoCall]>>
          /\ awaited' = awaited \cup {}
      BY <1>5, <2>9 DEF Ends
    <3> QED
      BY <2>6, <3>1
  <2>10. CASE GenAt(g, "quit") /\ Ends(g, <<>>, {})
    <3>1. conversation' = conversation \o <<>> /\ awaited' = awaited \cup {}
      BY <1>5, <2>10 DEF Ends
    <3>2. conversation \o <<>> = conversation /\ awaited \cup {} = awaited
      BY <1>1
    <3> QED
      BY <2>7, <3>1, <3>2
  <2> QED
    BY <2>8, <2>9, <2>10 DEF StopResponse
<1> QED
  BY <1>4, <1>5

(***************************************************************************)
(* A new response                                                          *)
(***************************************************************************)
\* The new response is the current one, and the one before it is not.
LEMMA NewAnswer ==
    ASSUME EngineInv, NEW m \in Message, m.role \in {"user", "tool"}, m.role = "tool" <=> m.call # NoCall,
           m.role = "tool" => m.call \in awaited, NewResponse(Append(conversation, m)), generation + 1 \in Gens,
           \/ canceledGens' = canceledGens
           \/ canceledGens' = IF cancelOf = 0 THEN canceledGens ELSE canceledGens \cup {cancelOf},
           awaited' \subseteq awaited \ {m.call},
           UNCHANGED <<tools, streamDone, late, pump, playback, announced, eventsCh>>,
           runner' \in Runner, submitter' \in Submitter, heard' \in 0..SttEvents,
           \/ runner' = runner /\ submitter'.at = "started" /\ submitter'.of = generation + 1
           \/ submitter' = submitter /\ runner'.at = "started" /\ runner'.of = generation + 1,
           Answered' = (IF m.call \in CallIds THEN Answered \cup {m.call} ELSE Answered) => GenerationInv'
    PROVE  EngineInv'
<1>. DEFINE n == generation + 1
<1>1. /\ answer \in [Gens -> Response] /\ generation \in Nat /\ FenceInv /\ StartInv /\ PlayInv
      /\ conversation \in Seq(Message) /\ awaited \subseteq CallIds /\ announced \in 0..generation
      /\ tools \subseteq CallIds /\ streamDone \in BOOLEAN /\ late \in [Gens -> Nat]
      /\ eventsCh \in Seq(Event)
      /\ pump \in {"idle", "interrupt", "stopped", "gone"} /\ playback \in Playback
  BY DEF EngineInv, EngineTypes
<1>2. n \in Gens /\ n \in Nat /\ n > generation /\ generation < n
  BY <1>1
<1>3. /\ generation' = n /\ active' = TRUE /\ cancelOf' = n /\ conversation' = Append(conversation, m)
  BY DEF NewResponse
<1>4. answer[n] = Unstarted /\ late[n] = 0
  BY <1>2 DEF EngineInv, AnswerInv
<1>5. Len(conversation) \in Nat /\ Len(conversation') = Len(conversation) + 1
  BY <1>1, <1>3
<1>. DEFINE left == IF tools = {} THEN GenItems ELSE GenItems - 1
            new == [Unstarted EXCEPT !.at = "spawn", !.base = Len(conversation'), !.left = left]
<1>6. left \in Nat
  BY EngineConstants
<1>7. answer' = [answer EXCEPT ![n] = new]
  <2>1. answer' = [answer EXCEPT ![n].at = "spawn", ![n].base = Len(conversation'), ![n].left = left]
    BY <1>3 DEF NewResponse
  <2>. HIDE DEF left
  <2> QED
    BY <1>1, <1>2, <1>4, <2>1
<1>8. new \in Response /\ new.at = "spawn" /\ new.item.kind = "none" /\ new.calls = {} /\ new.base = Len(conversation')
  <2>. HIDE DEF left
  <2>1. Len(conversation') \in Nat /\ "spawn" \in {"none", "spawn"}
    BY <1>5
  <2>2. Unstarted \in Response /\ Unstarted.item.kind = "none" /\ Unstarted.calls = {}
    BY UnstartedFields
  <2>3. new \in Response
    BY <1>6, <2>1, <2>2 DEF Response
  <2>4. new.at = "spawn" /\ new.item = Unstarted.item /\ new.calls = Unstarted.calls /\ new.base = Len(conversation')
    BY <2>2 DEF Response
  <2> QED
    BY <2>2, <2>3, <2>4
<1>. HIDE DEF new, left, n
<1>9. answer' \in [Gens -> Response] /\ answer'[n] = new /\ \A h \in Gens \ {n} : answer'[h] = answer[h]
  BY <1>1, <1>2, <1>7, <1>8
<1>10. /\ conversation' \in Seq(Message) /\ MessageInv' /\ AwaitInv' /\ ConversationSound'
       /\ Answered' = IF m.call \in CallIds THEN Answered \cup {m.call} ELSE Answered
  <2>1. \A h \in Gens :
           /\ answer'[h].calls = answer[h].calls
           /\ h <= generation =>
                 /\ answer'[h].base = answer[h].base
                 /\ answer[h].at \in {"emit", "ended"} => answer'[h].at \in {"emit", "ended"}
    <3>1. \A h \in Gens : h <= generation => h # n
      BY <1>1, <1>2, EngineConstants
    <3>2. answer'[n].calls = answer[n].calls
      BY <1>4, <1>8, <1>9, UnstartedFields
    <3> QED
      BY <1>9, <3>1, <3>2
  <2>2. generation' \in Nat /\ generation <= generation' /\ awaited' \subseteq CallIds
    BY <1>1, <1>2, <1>3
  <2>3. \A c \in awaited' : c # m.call /\ c \in awaited
    OBVIOUS
  <2>4. m.role \notin {"assistant", "calls"} /\ m.role # "calls"
    OBVIOUS
  <2> QED
    BY <1>3, <1>9, <2>1, <2>2, <2>3, <2>4, MessageAdded
<1>11. EngineTypes'
  <2>1. announced' \in 0..generation'
    BY <1>1, <1>2, <1>3
  <2>2. generation' \in Nat /\ active' \in BOOLEAN /\ awaited' \subseteq CallIds
    BY <1>1, <1>2, <1>3
  <2> QED
    BY <1>1, <1>9, <1>10, <2>1, <2>2 DEF EngineTypes
<1>12. FenceInv'
  <2>1. cancelOf # 0 => cancelOf \in 1..generation
    BY <1>1, EngineConstants DEF FenceInv
  <2>2. canceledGens' \subseteq 1..generation
    BY <1>1, <2>1 DEF FenceInv
  <2>3. 1..generation \subseteq 1..n /\ n \notin 1..generation
    BY <1>1, <1>2
  <2> QED
    BY <1>2, <1>3, <2>2, <2>3 DEF FenceInv
<1>13. ASSUME NEW h \in Gens PROVE AnswerInv(h)'
  <2>1. CASE h = n
    <3>1. ~(h > generation')
      BY <1>2, <1>3, <2>1
    <3> QED
      BY <1>4, <1>8, <1>9, <2>1, <3>1 DEF AnswerInv
  <2>2. CASE h # n
    <3>1. ~IsCurrent(h)' /\ (h > generation' => h > generation)
      BY <1>1, <1>2, <1>3, <2>2, EngineConstants DEF IsCurrent
    <3>2. AnswerInv(h)
      BY DEF EngineInv
    <3> QED
      BY <1>9, <2>2, <3>1, <3>2 DEF AnswerInv
  <2> QED
    BY <2>1, <2>2
<1>14. StartInv'
  <2>1. \A h \in Gens : h <= generation => h <= generation' /\ h # n /\ answer'[h] = answer[h]
    BY <1>1, <1>2, <1>3, <1>9, EngineConstants
  <2>2. answer'[n].at = "spawn" /\ n <= generation' /\ n \in Gens
    BY <1>2, <1>3, <1>8, <1>9
  <2>3. 1..generation \subseteq 1..generation'
    BY <1>1, <1>2, <1>3
  <2>4. \A k \in 1..Len(eventsCh') : eventsCh'[k].type = "started" => eventsCh'[k].of \in 1..generation'
    BY <1>1, <2>3 DEF StartInv
  <2>5. CASE runner' = runner /\ submitter'.at = "started" /\ submitter'.of = n
    BY <1>1, <2>1, <2>2, <2>4, <2>5 DEF StartInv
  <2>6. CASE submitter' = submitter /\ runner'.at = "started" /\ runner'.of = n
    BY <1>1, <2>1, <2>2, <2>4, <2>6 DEF StartInv
  <2> QED
    BY <2>5, <2>6 DEF n
<1>15. PlayInv'
  <2>1. announced' # generation'
    BY <1>1, <1>2, <1>3
  <2> QED
    BY <2>1 DEF PlayInv
<1>16. BaseInv'
  <2>1. answer'[generation'].base = Len(conversation')
    BY <1>3, <1>8, <1>9
  <2>2. Len(conversation') \in Nat
    BY <1>5
  <2> QED
    BY <2>1, <2>2 DEF BaseInv
<1>17. GenerationInv'
  BY <1>10
<1> QED
  BY <1>10, <1>11, <1>12, <1>13, <1>14, <1>15, <1>16, <1>17 DEF EngineInv

\* What the count says about the next generation.
LEMMA RoomForOne ==
    ASSUME EngineInv,
           \/ runner.at = "select" /\ heard < SttEvents
           \/ Cardinality(Answered) < Cardinality(CallIds)
    PROVE  generation + 1 \in Gens
<1>. DEFINE b == IF runner.at \in {"last", "wait", "gone"} THEN 1 ELSE 0
            s == Cardinality(Speeches(eventsCh))
            a == Cardinality(Answered)
<1>1. /\ generation \in Nat /\ heard \in 0..SttEvents /\ SttEvents \in Nat /\ Owed \in 0..2 /\ s \in Nat
      /\ a \in Nat /\ a <= Cardinality(CallIds) /\ Cardinality(CallIds) \in Nat /\ b \in 0..1
  BY CountTypes, EngineConstants DEF EngineInv, EngineTypes
<1>2. generation + Owed + s <= 2 * heard + a + b
  BY DEF EngineInv, GenerationInv
<1>3. \/ b = 0 /\ heard < SttEvents
      \/ a < Cardinality(CallIds)
  OBVIOUS
<1>. HIDE DEF b, s, a
<1>4. generation + 1 <= 2 * SttEvents + Cardinality(CallIds) + 1
  BY <1>1, <1>2, <1>3
<1> QED
  BY <1>1, <1>4, EngineConstants

\* An utterance is answered.
LEMMA UtteranceStep == ASSUME EngineInv, Utterance PROVE EngineInv'
<1>. DEFINE m == [role |-> "user", of |-> 0, call |-> NoCall]
<1>1. m \in Message /\ m.role = "user" /\ m.call = NoCall
  BY DEF Message
<1>2. NewResponse(Append(conversation, m))
  BY DEF Utterance
<1>. HIDE DEF m
<1>3. /\ runner.at = "select" /\ heard < SttEvents /\ heard' = heard + 1 /\ generation' = generation + 1
      /\ runner' = [at |-> "started", of |-> generation + 1]
      /\ canceledGens' = IF cancelOf = 0 THEN canceledGens ELSE canceledGens \cup {cancelOf}
      /\ UNCHANGED <<tools, streamDone, awaited, late, pump, playback, announced, eventsCh, submitter>>
  BY DEF Utterance, Hears, NewResponse
<1>4. generation \in Nat /\ heard \in 0..SttEvents /\ awaited \subseteq CallIds /\ submitter \in Submitter
  BY DEF EngineInv, EngineTypes
<1>5. generation + 1 \in Gens
  BY <1>3, RoomForOne
<1>6. heard' \in 0..SttEvents /\ heard' \in Nat /\ generation' \in Nat /\ generation + 1 \in Nat
  BY <1>3, <1>4, EngineConstants
<1>7. runner' \in Runner /\ runner'.at = "started" /\ runner'.of = generation + 1
  BY <1>3, <1>6 DEF Runner
<1>8. awaited' \subseteq awaited \ {m.call}
  BY <1>1, <1>3, <1>4, EngineConstants
<1>9. ASSUME Answered' = Answered PROVE GenerationInv'
  <2>1. Owed' = Owed /\ Owed \in 0..2 /\ Owed' \in 0..2
    BY <1>3 DEF Owed
  <2>2. /\ Cardinality(Speeches(eventsCh')) = Cardinality(Speeches(eventsCh))
        /\ Cardinality(Speeches(eventsCh')) \in Nat /\ Cardinality(Answered') \in Nat
        /\ Cardinality(Answered) + 0 <= Cardinality(Answered')
    BY <1>3, <1>9, CountTypes
  <2>3. /\ generation' + Owed' + Cardinality(Speeches(eventsCh'))
             <= generation + Owed + Cardinality(Speeches(eventsCh)) + 2 + 0 + 0
        /\ 2 * heard + 2 <= 2 * heard'
    BY <1>3, <1>4, <2>1, <2>2
  <2>4. 2 \in 0..2 /\ 0 \in 0..1
    OBVIOUS
  <2> QED
    BY <1>3, <1>6, <2>1, <2>2, <2>3, <2>4, CountMoves
<1> QED
  BY <1>1, <1>2, <1>3, <1>4, <1>5, <1>6, <1>7, <1>8, <1>9, NewAnswer, EngineConstants

\* The goroutine of a new response begins, and its start is announced.
LEMMA ResponseBegins ==
    ASSUME EngineInv, NEW g \in Gens, g <= generation, answer[g].at = "spawn", Goes(g, "llm"),
           EmitEvent("started", g),
           UNCHANGED <<tools, fenceVars, talkVars, streamDone, heard, pump, playback, late, announced>>,
           runner' \in Runner, submitter' \in Submitter,
           \/ runner' = runner /\ submitter'.at # "started" /\ (runner.at = "started" => runner.of # g)
           \/ /\ submitter' = submitter /\ runner'.at = "select" /\ runner.at = "started"
              /\ (submitter.at = "started" => submitter.of # g)
    PROVE  EngineInv'
<1>1. /\ answer \in [Gens -> Response] /\ generation \in Nat /\ FenceInv /\ StartInv /\ PlayInv
      /\ eventsCh \in Seq(Event) /\ AnswerInv(g)
      /\ UNCHANGED <<generation, active, cancelOf, canceledGens, conversation, awaited>>
  BY DEF EngineInv, EngineTypes, fenceVars, talkVars
<1>. DEFINE new == [answer[g] EXCEPT !.at = "llm"]
<1>2. answer' = [answer EXCEPT ![g] = new]
  BY DEF Goes
<1>3. /\ new \in Response /\ new.at = "llm" /\ new.item = answer[g].item /\ new.calls = answer[g].calls
      /\ new.base = answer[g].base
  BY <1>1 DEF Response
<1>. HIDE DEF new
<1>4. answer' \in [Gens -> Response] /\ answer'[g] = new /\ \A h \in Gens \ {g} : answer'[h] = answer[h]
  BY <1>1, <1>2, <1>3
<1>5. g \in Nat /\ g \in 1..generation
  BY <1>1, EngineConstants
<1>6. /\ eventsCh' \in Seq(Event)
      /\ \A k \in 1..Len(eventsCh') : eventsCh'[k].type = "started" => eventsCh'[k].of \in 1..generation
      /\ Cardinality(Speeches(eventsCh')) \in Nat
      /\ Cardinality(Speeches(eventsCh')) <= Cardinality(Speeches(eventsCh))
  BY <1>5, AnyEmit
<1>7. EngineTypes'
  BY <1>1, <1>4, <1>6 DEF EngineInv, EngineTypes
<1>8. FenceInv' /\ PlayInv'
  BY <1>1 DEF FenceInv, PlayInv
<1>9. ASSUME NEW h \in Gens PROVE AnswerInv(h)'
  <2>1. AnswerInv(h)
    BY DEF EngineInv
  <2>2. IsCurrent(h)' <=> IsCurrent(h)
    BY <1>1 DEF IsCurrent
  <2>3. CASE h = g
    <3>1. ~(h > generation)
      BY <1>1, <1>5, <2>3
    <3> QED
      BY <1>1, <1>3, <1>4, <2>1, <2>2, <2>3, <3>1 DEF AnswerInv
  <2>4. CASE h # g
    BY <1>1, <1>4, <2>1, <2>2, <2>4 DEF AnswerInv
  <2> QED
    BY <2>3, <2>4
<1>10. StartInv'
  BY <1>1, <1>4, <1>6 DEF StartInv
<1>11. MessageInv' /\ BaseInv' /\ AwaitInv' /\ ConversationSound' /\ Answered' = Answered
  <2>1. \A h \in Gens :
           /\ answer'[h].base = answer[h].base /\ answer[h].calls = answer'[h].calls
           /\ answer[h].at \in {"emit", "ended"} => answer'[h].at \in {"emit", "ended"}
    BY <1>3, <1>4
  <2>2. \A x, y \in Gens : x # y => answer'[x].calls \cap answer'[y].calls = {}
    BY <2>1 DEF EngineInv, AwaitInv
  <2> QED
    BY <1>1, <1>4, <2>1, <2>2, TalkKept
<1>12. GenerationInv'
  <2>1. Owed' <= Owed /\ Owed' \in 0..2 /\ Owed \in 0..2
    BY DEF Owed
  <2>2. Cardinality(Speeches(eventsCh)) \in Nat
    BY CountTypes
  <2>3. Cardinality(Speeches(eventsCh')) + Owed' <= Cardinality(Speeches(eventsCh)) + Owed
    BY <1>6, <2>1, <2>2
  <2> QED
    BY <1>1, <1>6, <1>11, <2>1, <2>3, CountKept
<1> QED
  BY <1>7, <1>8, <1>9, <1>10, <1>11, <1>12 DEF EngineInv

LEMMA BeginSteps == ASSUME EngineInv, RunEmitsStarted \/ SubmitEmitsStarted PROVE EngineInv'
<1>1. runner \in Runner /\ submitter \in Submitter /\ StartInv
  BY DEF EngineInv, EngineTypes
<1>2. CASE RunEmitsStarted
  <2>1. /\ runner.at = "started" /\ EmitEvent("started", runner.of) /\ Goes(runner.of, "llm")
        /\ runner' = [at |-> "select", of |-> 0] /\ submitter' = submitter
        /\ UNCHANGED <<tools, fenceVars, talkVars, streamDone, heard, pump, playback, late, announced>>
    BY <1>2 DEF RunEmitsStarted, outerVars
  <2>2. /\ runner.of \in Gens /\ runner.of <= generation /\ answer[runner.of].at = "spawn"
        /\ submitter.at = "started" => submitter.of # runner.of
    BY <1>1, <2>1 DEF StartInv
  <2>3. runner' \in Runner /\ runner'.at = "select"
    BY <2>1 DEF Runner
  <2> QED
    BY <1>1, <2>1, <2>2, <2>3, ResponseBegins
<1>3. CASE SubmitEmitsStarted
  <2>1. /\ submitter.at = "started" /\ EmitEvent("started", submitter.of) /\ Goes(submitter.of, "llm")
        /\ submitter' = [at |-> "idle", call |-> NoCall, of |-> 0] /\ runner' = runner
        /\ UNCHANGED <<tools, fenceVars, talkVars, streamDone, heard, pump, playback, late, announced>>
    BY <1>3 DEF SubmitEmitsStarted, outerVars
  <2>2. /\ submitter.of \in Gens /\ submitter.of <= generation /\ answer[submitter.of].at = "spawn"
        /\ runner.at = "started" => runner.of # submitter.of
    BY <1>1, <2>1 DEF StartInv
  <2>3. submitter' \in Submitter /\ submitter'.at # "started"
    BY <2>1 DEF Submitter
  <2> QED
    BY <1>1, <2>1, <2>2, <2>3, ResponseBegins
<1> QED
  BY <1>2, <1>3

\* A tool result: refused, one of several, or the last one, which starts a response.
LEMMA SubmitStepKeeps == ASSUME EngineInv, SubmitResult PROVE EngineInv'
<1>. DEFINE c == submitter.call
            m == [role |-> "tool", of |-> 0, call |-> c]
            idle == [at |-> "idle", call |-> NoCall, of |-> 0]
<1>1. /\ answer \in [Gens -> Response] /\ generation \in Nat /\ heard \in 0..SttEvents /\ runner \in Runner
      /\ submitter \in Submitter /\ awaited \subseteq CallIds /\ conversation \in Seq(Message) /\ AwaitInv
      /\ eventsCh \in Seq(Event) /\ playback \in Playback /\ announced \in 0..generation
      /\ pump \in {"idle", "interrupt", "stopped", "gone"} /\ streamDone \in BOOLEAN
      /\ late \in [Gens -> Nat]
  BY DEF EngineInv, EngineTypes
<1>2. /\ UNCHANGED <<canceledGens, tools, streamDone, heard, runner, eventsCh, pump, playback, late, announced>>
      /\ submitter.at = "submit" /\ awaited' = awaited \ {c}
  BY DEF SubmitResult, outerVars
<1>3. m \in Message /\ m.role = "tool" /\ m.call = c /\ idle \in Submitter /\ idle.at = "idle"
  BY <1>1 DEF Message, Submitter
<1>4. c \in awaited => c \in CallIds /\ c # NoCall /\ c \notin Answered
  BY <1>1, EngineConstants DEF AwaitInv, Answered
<1>5. c \in awaited =>
        /\ Cardinality(Answered \cup {c}) = Cardinality(Answered) + 1
        /\ Cardinality(Answered) < Cardinality(CallIds)
  <2>. SUFFICES ASSUME c \in awaited
                PROVE  /\ Cardinality(Answered \cup {c}) = Cardinality(Answered) + 1
                       /\ Cardinality(Answered) < Cardinality(CallIds)
    OBVIOUS
  <2>1. c \in CallIds /\ c \notin Answered /\ Answered \subseteq CallIds
    BY <1>4 DEF Answered
  <2>. DEFINE S == Answered
  <2>2. IsFiniteSet(S) /\ Cardinality(S) \in Nat
    BY CountTypes
  <2>. HIDE DEF S, c
  <2>3. Cardinality(S \cup {c}) = Cardinality(S) + 1 /\ IsFiniteSet(S \cup {c})
    BY <2>1, <2>2, FS_AddElement DEF S
  <2>4. S \cup {c} \subseteq CallIds
    BY <2>1 DEF S
  <2>5. Cardinality(S \cup {c}) <= Cardinality(CallIds)
    BY <2>4, EngineConstants, FS_Subset
  <2>6. Cardinality(S) < Cardinality(CallIds)
    BY <2>2, <2>3, <2>5, EngineConstants
  <2> QED
    BY <2>3, <2>6 DEF S
<1>6. Owed' = Owed /\ Owed \in 0..2 /\ Owed' \in 0..2
  BY <1>2 DEF Owed
<1>7. /\ Cardinality(Speeches(eventsCh')) = Cardinality(Speeches(eventsCh))
      /\ Cardinality(Speeches(eventsCh')) \in Nat /\ Cardinality(Answered) \in Nat
  BY <1>2, CountTypes
<1>8. ASSUME c \in awaited, generation' \in generation..(generation + 1), Answered' = Answered \cup {c}
      PROVE  GenerationInv'
  <2>1. /\ Cardinality(Answered') \in Nat /\ Cardinality(Answered) + 1 <= Cardinality(Answered')
        /\ generation' \in Nat /\ generation' <= generation + 1
    BY <1>1, <1>5, <1>7, <1>8
  <2>2. /\ generation' + Owed' + Cardinality(Speeches(eventsCh'))
             <= generation + Owed + Cardinality(Speeches(eventsCh)) + 0 + 1 + 0
        /\ 2 * heard + 0 <= 2 * heard' /\ heard' \in Nat
    <3>1. heard \in Nat
      BY CountTypes
    <3>. DEFINE s == Cardinality(Speeches(eventsCh))
    <3>2. s \in Nat
      BY <1>7
    <3>. HIDE DEF s
    <3>3. generation' + Owed + s <= generation + Owed + s + 0 + 1 + 0
      <4>1. \A n, nn, o, l \in Int : nn <= n + 1 => nn + o + l <= n + o + l + 0 + 1 + 0
        OBVIOUS
      <4>2. generation \in Int /\ generation' \in Int /\ Owed \in Int /\ s \in Int
        BY <1>1, <1>6, <2>1, <3>2
      <4> QED
        BY <2>1, <4>1, <4>2
    <3> QED
      BY <1>2, <1>6, <1>7, <3>1, <3>3 DEF s
  <2>3. 0 \in 0..2 /\ 0 \in 0..1 /\ 1 \in 0..1
    OBVIOUS
  <2> QED
    BY <1>2, <1>6, <1>7, <2>1, <2>2, <2>3, CountMoves
<1>9. CASE c \notin awaited
  <2>1. /\ UNCHANGED <<generation, active, cancelOf, conversation, answer>> /\ submitter' = idle
        /\ awaited' = awaited
    BY <1>2, <1>9 DEF SubmitResult
  <2>2. UNCHANGED <<talkVars, fenceVars>>
    BY <1>2, <2>1 DEF talkVars, fenceVars
  <2>3. /\ PlayInv' /\ GenerationInv'
        /\ \A k \in 1..Len(eventsCh') : eventsCh'[k].type = "started" => eventsCh'[k].of \in 1..generation
    <3>1. Answered' = Answered
      BY <2>1 DEF Answered
    <3>2. GenerationInv'
      BY <1>2, <1>6, <1>7, <2>1, <3>1, CountKept
    <3> QED
      BY <1>2, <2>1, <3>2 DEF EngineInv, PlayInv, StartInv
  <2> QED
    BY <1>1, <1>2, <1>3, <2>1, <2>2, <2>3, QuietMoves
<1>10. CASE c \in awaited /\ awaited # {c}
  <2>1. /\ UNCHANGED <<generation, active, cancelOf, answer>> /\ submitter' = idle
        /\ conversation' = Append(conversation, m)
    BY <1>2, <1>10 DEF SubmitResult
  <2>2. /\ conversation' \in Seq(Message) /\ Len(conversation') = Len(conversation) + 1
        /\ conversation'[Len(conversation) + 1] = m
        /\ \A k \in 1..Len(conversation) : conversation'[k] = conversation[k]
        /\ MessageInv' /\ AwaitInv' /\ ConversationSound' /\ Answered' = Answered \cup {c}
    <3>1. /\ m.role \notin {"assistant", "calls"} /\ m.role # "calls" /\ (m.role = "tool" <=> m.call # NoCall)
          /\ (m.role = "tool" => m.call \in awaited)
          /\ \A d \in awaited' : d # m.call /\ d \in awaited
      BY <1>2, <1>3, <1>4, <1>10
    <3>2. /\ awaited' \subseteq CallIds /\ generation' \in Nat /\ generation <= generation'
          /\ answer' \in [Gens -> Response]
      BY <1>1, <1>2, <2>1
    <3>3. m.call \in CallIds /\ m.call = c
      BY <1>3, <1>4, <1>10
    <3>. HIDE DEF m, c
    <3>4. \A h \in Gens :
             /\ answer'[h].calls = answer[h].calls
             /\ h <= generation =>
                   /\ answer'[h].base = answer[h].base
                   /\ answer[h].at \in {"emit", "ended"} => answer'[h].at \in {"emit", "ended"}
      BY <2>1
    <3>5. m \in Message
      BY <1>3
    <3>6. /\ conversation' \in Seq(Message) /\ Len(conversation') = Len(conversation) + 1
          /\ conversation'[Len(conversation) + 1] = m
          /\ \A k \in 1..Len(conversation) : conversation'[k] = conversation[k]
          /\ MessageInv' /\ AwaitInv' /\ ConversationSound'
          /\ Answered' = IF m.call \in CallIds THEN Answered \cup {m.call} ELSE Answered
      BY <2>1, <3>1, <3>2, <3>4, <3>5, MessageAdded
    <3> QED
      BY <3>3, <3>6
  <2>3. GenerationInv'
    <3>1. generation' \in generation..(generation + 1)
      BY <1>1, <2>1
    <3> QED
      BY <1>8, <1>10, <2>2, <3>1
  <2>4. EngineTypes'
    <3>1. awaited' \subseteq CallIds /\ submitter' \in Submitter
      BY <1>1, <1>2, <1>3, <2>1
    <3> QED
      BY <1>2, <2>1, <2>2, <3>1 DEF EngineInv, EngineTypes
  <2>5. FenceInv' /\ PlayInv' /\ \A g \in Gens : AnswerInv(g)'
    BY <1>2, <2>1 DEF EngineInv, FenceInv, PlayInv, AnswerInv, IsCurrent
  <2>6. StartInv'
    BY <1>2, <1>3, <2>1 DEF EngineInv, StartInv
  <2>7. BaseInv'
    <3>. SUFFICES ASSUME active
                  PROVE  /\ answer[generation].base <= Len(conversation')
                         /\ \A j \in (answer[generation].base + 1)..Len(conversation') : conversation'[j].role = "tool"
      BY <2>1 DEF BaseInv
    <3>1. /\ answer[generation].base <= Len(conversation)
          /\ \A j \in (answer[generation].base + 1)..Len(conversation) : conversation[j].role = "tool"
      BY DEF EngineInv, BaseInv
    <3>2. generation \in Gens /\ answer[generation].base \in Nat
      BY <1>1 DEF EngineInv, FenceInv, Response
    <3>3. Len(conversation) \in Nat
      BY <1>1
    <3>4. answer[generation].base <= Len(conversation')
      BY <2>2, <3>1, <3>2, <3>3
    <3>5. ASSUME NEW j \in (answer[generation].base + 1)..Len(conversation') PROVE conversation'[j].role = "tool"
      <4>1. CASE j = Len(conversation) + 1
        BY <1>3, <2>2, <4>1
      <4>2. CASE j # Len(conversation) + 1
        <5>1. j \in 1..Len(conversation) /\ j \in (answer[generation].base + 1)..Len(conversation)
          BY <2>2, <3>2, <3>3, <4>2
        <5> QED
          BY <2>2, <3>1, <5>1
      <4> QED
        BY <4>1, <4>2
    <3> QED
      BY <3>4, <3>5
  <2> QED
    BY <2>2, <2>3, <2>4, <2>5, <2>6, <2>7 DEF EngineInv
<1>11. CASE c \in awaited /\ awaited = {c}
  <2>1. NewResponse(Append(conversation, m)) /\ submitter' = [at |-> "started", call |-> c, of |-> generation + 1]
    BY <1>11 DEF SubmitResult
  <2>2. generation + 1 \in Gens /\ generation' = generation + 1
    BY <1>5, <1>11, <2>1, RoomForOne DEF NewResponse
  <2>3. submitter' \in Submitter /\ submitter'.at = "started" /\ submitter'.of = generation + 1
    BY <1>1, <2>1 DEF Submitter
  <2>4. m.call \in CallIds /\ m.call # NoCall /\ m.call \in awaited /\ m.call = c /\ m.role = "tool" /\ m \in Message
    BY <1>3, <1>4, <1>11
  <2>5. awaited' \subseteq awaited \ {m.call}
    BY <1>2, <2>4
  <2>6. Answered' = (IF m.call \in CallIds THEN Answered \cup {m.call} ELSE Answered) => GenerationInv'
    <3>1. generation' \in generation..(generation + 1)
      BY <1>1, <2>2
    <3> QED
      BY <1>8, <1>11, <2>4, <3>1
  <2>. HIDE DEF m, c
  <2> QED
    BY <1>1, <1>2, <2>1, <2>2, <2>3, <2>4, <2>5, <2>6, NewAnswer
<1> QED
  BY <1>9, <1>10, <1>11

(***************************************************************************)
(* The theorems                                                            *)
(***************************************************************************)
LEMMA EngineStep == ASSUME EngineInv, [EngineNext]_engineVars PROVE EngineInv'
<1>1. CASE UNCHANGED engineVars
  BY SMTT(30), <1>1 DEF engineVars, EngineInv, EngineTypes, FenceInv, AnswerInv, StartInv, PlayInv, MessageInv, BaseInv,
     AwaitInv, ConversationSound, GenerationInv, IsCurrent, Answered, Owed, Speeches
<1>2. CASE SpeechStarts \/ TranscriberFails \/ TranscriberEnds \/ RunCancels \/ RunEmitsStopped \/ RunReturns
  BY <1>2, RunnerSteps
<1>3. CASE Utterance
  BY <1>3, UtteranceStep
<1>4. CASE RunEmitsStarted \/ SubmitEmitsStarted
  BY <1>4, BeginSteps
<1>5. ASSUME NEW g \in Gens, GenStep(g) \/ ProviderStep(g) PROVE EngineInv'
  <2>1. CASE FailEmits(g) \/ GenCanceled(g) \/ GenEmitsStopped(g) \/ ProvidersStart(g) \/ ProviderErrs(g) \/ VoiceDone(g)
    BY <2>1, PlaceSteps
  <2>2. CASE SendsEvent(g) \/ SendsFrame(g) \/ SendCanceled(g)
    BY <2>2, SendSteps
  <2>3. CASE AwaitToolResults(g) \/ StopResponse(g)
    BY <2>3, EndSteps
  <2>4. CASE \/ ModelDone(g) \/ (\E kind \in {"delta", "audio"} : Produces(g, kind))
             \/ (\E c \in tools : CollectsCall(g, c) \/ PublishesCall(g, c))
    BY <2>4, LoopSteps
  <2> QED
    BY <1>5, <2>1, <2>2, <2>3, <2>4 DEF GenStep, ProviderStep
<1>6. CASE SubmitResult
  BY <1>6, SubmitStepKeeps
<1>7. CASE \/ PumpStep \/ PlaysFrame \/ CloseEngine \/ (\E c \in tools : ResultArrives(c))
  BY <1>7, PumpSteps DEF PumpStep
<1> QED
  BY <1>1, <1>2, <1>3, <1>4, <1>5, <1>6, <1>7 DEF EngineNext, RunStep, SubmitStep

\* For any number of transcriber events, tool calls and failures: the current response has a goroutine
\* that will end it and a context that can still be canceled, its base is what the conversation ends
\* with, and generations stay within what events and results account for.
THEOREM EngineInductive == EngineSafety => []EngineInv
<1> QED
  BY EngineStart, EngineStep, PTL DEF EngineSafety

\* No order of speech, interruptions, tool results and failures leaves an active response without its
\* goroutine, lets more than one item through after its end, silences a response that has begun, or puts
\* an answer or a result in the wrong place of the conversation.
THEOREM EngineIsSound == EngineSafety => []EngineSound
<1>1. ASSUME EngineInv PROVE EngineSound
  <2>1. ActiveIsServed
    <3>. SUFFICES ASSUME active, runner.at # "gone"
                  PROVE  /\ cancelOf = generation /\ generation \notin canceledGens
                         /\ answer[generation].at \notin {"none"} \cup (IF streamDone THEN {} ELSE {"ended"})
      BY DEF ActiveIsServed
    <3>1. cancelOf = generation /\ generation \in Gens \ canceledGens
      BY <1>1 DEF EngineInv, FenceInv
    <3>2. AnswerInv(generation)
      BY <1>1, <3>1 DEF EngineInv
    <3> QED
      BY <3>1, <3>2 DEF AnswerInv, IsCurrent
  <2>2. StaleIsBounded
    BY <1>1 DEF EngineInv, AnswerInv, StaleIsBounded
  <2>3. ActiveIsAudible
    BY <1>1 DEF EngineInv, PlayInv, ActiveIsAudible
  <2> QED
    BY <1>1, <2>1, <2>2, <2>3 DEF EngineInv, EngineSound
<1> QED
  BY <1>1, EngineInductive, PTL

(***************************************************************************)
(* The engine: types                                                       *)
(***************************************************************************)
\* A call that is published is one the model made; none waits that the response did not collect.
CallsAreReal(resp) == (resp.item.kind = "call" => resp.item.of \in CallIds) /\ resp.todo \subseteq resp.calls
EventIsReal(e) == e.type = "call" => e.of \in CallIds

\* What the invariant leaves of the types: calls on their way, queues within their bounds, and that
\* the channels are closed by the end of run and by nothing else.
EngineRest ==
    /\ \A g \in Gens : CallsAreReal(answer[g])
    /\ unanswered \subseteq CallIds /\ \A k \in 1..Len(eventsCh) : EventIsReal(eventsCh[k])
    /\ Len(eventsCh) <= EventRoom
    /\ playback.queued \in 0..OutputRoom
    /\ shut <=> runner.at = "gone"
    /\ engineFaults \in 0..EngineFaults

\* A response moves: its call stays real.
LEMMA ResponseMoves ==
    ASSUME EngineInv, EngineRest, NEW g \in Gens,
           \/ \E at : Goes(g, at)
           \/ AfterSend(g)
           \/ \E kind \in {"delta", "audio"} : Produces(g, kind)
           \/ \E c \in tools : CollectsCall(g, c) \/ PublishesCall(g, c)
           \/ ModelDone(g)
    PROVE  \A h \in Gens : CallsAreReal(answer'[h])
<1>1. answer \in [Gens -> Response] /\ tools \subseteq CallIds /\ \A h \in Gens : CallsAreReal(answer[h])
  BY DEF EngineInv, EngineTypes, EngineRest
<1>2. Unstarted.item.kind = "none" /\ Unstarted.todo = {} /\ NoItem.kind = "none"
  BY UnstartedFields
<1>3. ASSUME NEW new, answer' = [answer EXCEPT ![g] = new], CallsAreReal(new)
      PROVE  \A h \in Gens : CallsAreReal(answer'[h])
  BY <1>1, <1>3
<1>4. ASSUME NEW at, Goes(g, at) PROVE \A h \in Gens : CallsAreReal(answer'[h])
  <2>1. CallsAreReal([answer[g] EXCEPT !.at = at])
    BY <1>1 DEF CallsAreReal, Response
  <2>2. CallsAreReal([Unstarted EXCEPT !.at = "ended", !.calls = answer[g].calls, !.base = answer[g].base])
    BY <1>2 DEF CallsAreReal, Unstarted, NoItem
  <2> QED
    BY <1>3, <1>4, <2>1, <2>2 DEF Goes
<1>5. CASE AfterSend(g)
  BY <1>1, <1>2, <1>5 DEF AfterSend, CallsAreReal, Response
<1>6. ASSUME NEW kind \in {"delta", "audio"}, Produces(g, kind)
      PROVE  \A h \in Gens : CallsAreReal(answer'[h])
  BY <1>1, <1>2, <1>6 DEF Produces, CallsAreReal, Response
<1>7. ASSUME NEW c \in tools, CollectsCall(g, c) PROVE \A h \in Gens : CallsAreReal(answer'[h])
  <2>. DEFINE new == [answer[g] EXCEPT !.calls = @ \cup {c}, !.todo = @ \cup {c}]
  <2>1. new.item = answer[g].item /\ new.todo = answer[g].todo \cup {c} /\ new.calls = answer[g].calls \cup {c}
    BY <1>1 DEF Response
  <2>2. answer' = [answer EXCEPT ![g] = new]
    BY <1>7 DEF CollectsCall
  <2>. HIDE DEF new
  <2>3. CallsAreReal(new)
    BY <1>1, <2>1 DEF CallsAreReal
  <2> QED
    BY <1>3, <2>2, <2>3
<1>8. ASSUME NEW c \in tools, PublishesCall(g, c) PROVE \A h \in Gens : CallsAreReal(answer'[h])
  <2>. DEFINE new == [answer[g] EXCEPT !.todo = @ \ {c}, !.at = IF IsCurrent(g) THEN "send" ELSE "calls",
                                       !.item = IF IsCurrent(g) THEN [kind |-> "call", of |-> c] ELSE NoItem]
  <2>1. /\ new.item = NoItem \/ new.item = [kind |-> "call", of |-> c]
        /\ new.todo = answer[g].todo \ {c} /\ new.calls = answer[g].calls
    BY <1>1 DEF Response
  <2>2. answer' = [answer EXCEPT ![g] = new]
    BY <1>8 DEF PublishesCall
  <2>. HIDE DEF new
  <2>3. CallsAreReal(new)
    BY <1>1, <1>2, <2>1 DEF CallsAreReal
  <2> QED
    BY <1>3, <2>2, <2>3
<1>9. CASE ModelDone(g)
  BY <1>1, <1>9 DEF ModelDone, CallsAreReal, Response
<1> QED
  BY <1>4, <1>5, <1>6, <1>7, <1>8, <1>9

\* An event is added where there is room.
LEMMA EventFits ==
    ASSUME EngineInv, EngineRest, NEW e \in Event, EventIsReal(e), Len(eventsCh) < EventRoom,
           eventsCh' = Append(eventsCh, e)
    PROVE  Len(eventsCh') <= EventRoom /\ \A k \in 1..Len(eventsCh') : EventIsReal(eventsCh'[k])
<1>1. eventsCh \in Seq(Event) /\ EventRoom \in Nat /\ \A k \in 1..Len(eventsCh) : EventIsReal(eventsCh[k])
  BY EngineAssumption DEF EngineAssumption, EngineInv, EngineTypes, EngineRest
<1> QED
  BY <1>1

LEMMA EmitFits ==
    ASSUME EngineInv, EngineRest, NEW type \in {"speech", "started", "stopped", "fatal", "error"},
           NEW of \in Nat, EmitEvent(type, of)
    PROVE  Len(eventsCh') <= EventRoom /\ \A k \in 1..Len(eventsCh') : EventIsReal(eventsCh'[k])
<1>1. [type |-> type, of |-> of] \in Event /\ EventIsReal([type |-> type, of |-> of])
  BY DEF Event, EventIsReal
<1>2. CASE UNCHANGED eventsCh
  BY <1>2 DEF EngineRest
<1> QED
  BY <1>1, <1>2, EventFits DEF EmitEvent

\* The goroutine of a response.
LEMMA ResponseRest ==
    ASSUME EngineInv, EngineRest, NEW g \in Gens, GenStep(g) \/ ProviderStep(g)
    PROVE  EngineRest'
<1>1. /\ \A h \in Gens : CallsAreReal(answer[h])
      /\ unanswered \subseteq CallIds /\ \A k \in 1..Len(eventsCh) : EventIsReal(eventsCh[k])
      /\ Len(eventsCh) <= EventRoom /\ playback.queued \in 0..OutputRoom
      /\ (shut <=> runner.at = "gone") /\ engineFaults \in 0..EngineFaults
      /\ EngineFaults \in Nat /\ OutputRoom \in Nat /\ playback \in Playback
      /\ answer \in [Gens -> Response] /\ tools \subseteq CallIds
  BY EngineAssumption DEF EngineAssumption, EngineInv, EngineTypes, EngineRest
<1>2. UNCHANGED <<unanswered, shut, runner>>
  BY DEF GenStep, ProviderStep, FailEmits, GenCanceled, SendsEvent, SendsFrame, SendCanceled, Ends,
     AwaitToolResults, StopResponse, GenEmitsStopped, PublishesCall, ProvidersStart, ProviderErrs,
     ModelDone, VoiceDone, Produces, CollectsCall, GenFrame, outerVars
<1>3. \/ UNCHANGED answer
      \/ \E at : Goes(g, at)
      \/ AfterSend(g)
      \/ \E kind \in {"delta", "audio"} : Produces(g, kind)
      \/ \E c \in tools : CollectsCall(g, c) \/ PublishesCall(g, c)
      \/ ModelDone(g)
  BY DEF GenStep, ProviderStep, FailEmits, GenCanceled, SendsEvent, SendsFrame, SendCanceled, Ends,
     AwaitToolResults, StopResponse, GenEmitsStopped, ProvidersStart, ProviderErrs, VoiceDone
<1>4. \A h \in Gens : CallsAreReal(answer'[h])
  BY <1>1, <1>3, ResponseMoves
<1>5. engineFaults' \in 0..EngineFaults
  <2>1. UNCHANGED engineFaults \/ EngineFault
    BY DEF GenStep, ProviderStep, FailEmits, GenCanceled, SendsEvent, SendsFrame, SendCanceled, Ends,
       AwaitToolResults, StopResponse, GenEmitsStopped, PublishesCall, ProvidersStart, ProviderErrs,
       ModelDone, VoiceDone, Produces, CollectsCall, GenFrame, outerVars
  <2> QED
    BY <1>1, <2>1 DEF EngineFault
<1>6. Len(eventsCh') <= EventRoom /\ \A k \in 1..Len(eventsCh') : EventIsReal(eventsCh'[k])
  <2>1. CASE UNCHANGED eventsCh
    BY <1>1, <2>1
  <2>2. CASE SendsEvent(g)
    <3>. DEFINE e == [type |-> answer[g].item.kind, of |-> answer[g].item.of]
    <3>1. e \in Event /\ EventIsReal(e)
      BY <1>1, <2>2 DEF SendsEvent, Event, EventIsReal, CallsAreReal, Response, Item
    <3> QED
      BY <2>2, <3>1, EventFits DEF SendsEvent
  <2>3. CASE EmitEvent("error", 0) \/ EmitEvent("stopped", 0)
    BY <2>3, EmitFits
  <2>4. SendsEvent(g) \/ EmitEvent("error", 0) \/ EmitEvent("stopped", 0) \/ UNCHANGED eventsCh
    BY DEF GenStep, ProviderStep, FailEmits, GenCanceled, SendsFrame, SendCanceled, Ends,
       AwaitToolResults, StopResponse, GenEmitsStopped, PublishesCall, ProvidersStart, ProviderErrs,
       ModelDone, VoiceDone, Produces, CollectsCall, GenFrame
  <2> QED
    BY <2>1, <2>2, <2>3, <2>4
<1>7. playback'.queued \in 0..OutputRoom
  <2>1. UNCHANGED playback \/ (HasRoom(playback) /\ playback' = Pushed(playback))
    BY DEF GenStep, ProviderStep, FailEmits, GenCanceled, SendsEvent, SendsFrame, SendCanceled, Ends,
       AwaitToolResults, StopResponse, GenEmitsStopped, PublishesCall, ProvidersStart, ProviderErrs,
       ModelDone, VoiceDone, Produces, CollectsCall, GenFrame
  <2> QED
    BY <1>1, <2>1 DEF HasRoom, Pushed, Playback
<1> QED
  BY <1>1, <1>2, <1>4, <1>5, <1>6, <1>7 DEF EngineRest

\* run, tool results, the pump and Close.
LEMMA OthersRest ==
    ASSUME EngineInv, EngineRest,
           \/ SpeechStarts \/ Utterance \/ TranscriberFails \/ TranscriberEnds \/ RunStep
           \/ \E c \in tools : ResultArrives(c)
           \/ SubmitStep \/ PumpStep \/ PlaysFrame \/ CloseEngine
    PROVE  EngineRest'
<1>1. /\ \A h \in Gens : CallsAreReal(answer[h])
      /\ unanswered \subseteq CallIds /\ \A k \in 1..Len(eventsCh) : EventIsReal(eventsCh[k])
      /\ Len(eventsCh) <= EventRoom /\ playback.queued \in 0..OutputRoom
      /\ (shut <=> runner.at = "gone") /\ engineFaults \in 0..EngineFaults
      /\ EngineFaults \in Nat /\ OutputRoom \in Nat /\ EventRoom \in Nat /\ playback \in Playback
      /\ answer \in [Gens -> Response] /\ tools \subseteq CallIds /\ eventsCh \in Seq(Event)
      /\ runner \in Runner
  BY EngineAssumption DEF EngineAssumption, EngineInv, EngineTypes, EngineRest
<1>2. \A h \in Gens : CallsAreReal(answer'[h])
  <2>1. ASSUME NEW messages, NewResponse(messages) PROVE \A h \in Gens : CallsAreReal(answer'[h])
    BY <1>1, <2>1 DEF NewResponse, CallsAreReal, Response
  <2>2. ASSUME NEW g, Goes(g, "llm") PROVE \A h \in Gens : CallsAreReal(answer'[h])
    <3>1. CASE g \in Gens
      BY <2>2, <3>1, ResponseMoves
    <3>2. CASE g \notin Gens
      BY <1>1, <2>2, <3>2 DEF Goes
    <3> QED
      BY <3>1, <3>2
  <2>3. \/ UNCHANGED answer \/ (\E messages : NewResponse(messages)) \/ \E g : Goes(g, "llm")
    BY DEF SpeechStarts, Utterance, TranscriberFails, TranscriberEnds, RunStep, RunCancels, RunEmitsStopped,
       RunEmitsStarted, RunReturns, ResultArrives, SubmitStep, SubmitResult, SubmitEmitsStarted, PumpStep,
       PumpHandles, PumpInterrupts, PumpEmitsStopped, PumpLeaves, PlaysFrame, CloseEngine, PumpFrame
  <2> QED
    BY <1>1, <2>1, <2>2, <2>3
<1>3. Len(eventsCh') <= EventRoom /\ \A k \in 1..Len(eventsCh') : EventIsReal(eventsCh'[k])
  <2>1. CASE UNCHANGED eventsCh
    BY <1>1, <2>1
  <2>2. CASE eventsCh # <<>> /\ eventsCh' = Tail(eventsCh)
    BY <1>1, <2>2
  <2>3. ASSUME NEW type \in {"speech", "started", "stopped", "fatal", "error"}, NEW of \in Nat,
               EmitEvent(type, of)
        PROVE  Len(eventsCh') <= EventRoom /\ \A k \in 1..Len(eventsCh') : EventIsReal(eventsCh'[k])
    BY <2>3, EmitFits
  <2>4. CASE RunEmitsStarted \/ SubmitEmitsStarted
    <3>1. runner.of \in Nat /\ submitter.of \in Nat
      BY DEF EngineInv, EngineTypes, Runner, Submitter
    <3> QED
      BY <2>3, <2>4, <3>1 DEF RunEmitsStarted, SubmitEmitsStarted
  <2>5. CASE SpeechStarts \/ TranscriberFails \/ RunEmitsStopped \/ PumpEmitsStopped
    BY <2>3, <2>5 DEF SpeechStarts, TranscriberFails, RunEmitsStopped, PumpEmitsStopped
  <2> QED
    BY <2>1, <2>2, <2>4, <2>5
       DEF Utterance, TranscriberEnds, RunStep, RunCancels, RunReturns, ResultArrives, SubmitStep,
           SubmitResult, PumpStep, PumpHandles, PumpInterrupts, PumpLeaves, PlaysFrame, CloseEngine
<1>4. unanswered' \subseteq CallIds
  <2>1. CASE PumpHandles
    <3>1. EventIsReal(Head(eventsCh))
      BY <1>1, <2>1 DEF PumpHandles
    <3> QED
      BY <1>1, <2>1, <3>1 DEF PumpHandles, EventIsReal
  <2>2. unanswered' \subseteq unanswered \/ PumpHandles
    BY DEF SpeechStarts, Utterance, TranscriberFails, TranscriberEnds, RunStep, RunCancels, RunEmitsStopped,
       RunEmitsStarted, RunReturns, ResultArrives, SubmitStep, SubmitResult, SubmitEmitsStarted, PumpStep,
       PumpInterrupts, PumpEmitsStopped, PumpLeaves, PlaysFrame, CloseEngine, PumpFrame
  <2> QED
    BY <1>1, <2>1, <2>2
<1>5. playback'.queued \in 0..OutputRoom
  <2>1. CASE PumpHandles
    BY <1>1, <2>1 DEF PumpHandles, Played, Cleared, Playback
  <2>2. CASE PlaysFrame
    BY <1>1, <2>2 DEF PlaysFrame, Popped, Playback
  <2>3. UNCHANGED playback \/ PumpHandles \/ PlaysFrame
    BY DEF SpeechStarts, Utterance, TranscriberFails, TranscriberEnds, RunStep, RunCancels, RunEmitsStopped,
       RunEmitsStarted, RunReturns, ResultArrives, SubmitStep, SubmitResult, SubmitEmitsStarted, PumpStep,
       PumpInterrupts, PumpEmitsStopped, PumpLeaves, CloseEngine, PumpFrame
  <2> QED
    BY <1>1, <2>1, <2>2, <2>3
<1>6. shut' <=> runner'.at = "gone"
  <2>1. CASE RunReturns
    BY <2>1 DEF RunReturns
  <2>2. CASE UNCHANGED <<shut, runner>>
    BY <1>1, <2>2
  <2>3. CASE UNCHANGED shut /\ runner.at # "gone" /\ runner'.at # "gone"
    BY <1>1, <2>3
  <2>4. ASSUME SpeechStarts \/ Utterance \/ TranscriberFails \/ TranscriberEnds \/ RunCancels
               \/ RunEmitsStopped \/ RunEmitsStarted
        PROVE  UNCHANGED shut /\ runner.at # "gone" /\ runner'.at # "gone"
    BY <1>1, <2>4 DEF SpeechStarts, Utterance, TranscriberFails, TranscriberEnds, RunCancels, RunEmitsStopped,
       RunEmitsStarted, Hears, outerVars, Runner
  <2> QED
    BY <2>1, <2>2, <2>3, <2>4
       DEF RunStep, ResultArrives, SubmitStep, SubmitResult, SubmitEmitsStarted, PumpStep, PumpHandles,
           PumpInterrupts, PumpEmitsStopped, PumpLeaves, PlaysFrame, CloseEngine, PumpFrame, outerVars
<1>7. engineFaults' \in 0..EngineFaults
  <2>1. UNCHANGED engineFaults \/ EngineFault
    BY DEF SpeechStarts, Utterance, TranscriberFails, TranscriberEnds, RunStep, RunCancels, RunEmitsStopped,
       RunEmitsStarted, RunReturns, ResultArrives, SubmitStep, SubmitResult, SubmitEmitsStarted, PumpStep,
       PumpHandles, PumpInterrupts, PumpEmitsStopped, PumpLeaves, PlaysFrame, CloseEngine, PumpFrame, outerVars
  <2> QED
    BY <1>1, <2>1 DEF EngineFault
<1> QED
  BY <1>2, <1>3, <1>4, <1>5, <1>6, <1>7 DEF EngineRest

\* Generations, responses, channels and playback keep their types.
THEOREM EngineTypeCorrect == EngineSafety => []EngineTypeOK
<1>1. EngineInit => EngineRest
  BY EngineAssumption, UnstartedFields
     DEF EngineAssumption, EngineInit, EngineRest, CallsAreReal, EventIsReal
<1>2. EngineInv /\ EngineRest /\ [EngineNext]_engineVars => EngineRest'
  <2>1. CASE UNCHANGED engineVars
    BY <2>1 DEF engineVars, EngineRest
  <2> QED
    BY <2>1, ResponseRest, OthersRest DEF EngineNext
<1>3. ASSUME EngineInv, EngineRest PROVE EngineTypeOK
  <2>1. EngineTypes /\ FenceInv /\ (\A g \in Gens : AnswerInv(g)) /\ GenerationInv
    BY <1>3 DEF EngineInv
  <2>2. generation \in Gens \cup {0}
    <3>1. 2 * heard <= 2 * SttEvents
      BY <2>1, EngineConstants DEF EngineTypes
    <3>2. generation <= 2 * SttEvents + Cardinality(CallIds) + 1
      BY <1>3, <2>1, <3>1, CountTypes, EngineConstants DEF GenerationInv
    <3> QED
      BY <2>1, <3>2, EngineConstants DEF EngineTypes
  <2>3. canceledGens \subseteq Gens /\ (active <=> cancelOf # 0) /\ cancelOf \in Gens \cup {0}
    <3>1. 1..generation \subseteq Gens
      BY <2>2, EngineConstants
    <3> QED
      BY <2>1, <3>1, EngineConstants DEF FenceInv
  <2>4. ASSUME NEW g \in Gens
        PROVE  /\ answer[g].at \in {"none", "spawn", "llm", "loop", "send", "calls", "error",
                                    "stop", "quit", "emit", "ended"}
               /\ answer[g].item.kind \in ItemKinds /\ answer[g].todo \subseteq answer[g].calls
               /\ answer[g].at = "send" <=> answer[g].item.kind # "none"
               /\ g > generation => answer[g].at = "none"
    <3>1. answer[g] \in Response
      BY <2>1 DEF EngineTypes
    <3> QED
      BY <1>3, <2>1, <3>1, UnstartedFields DEF Response, Item, AnswerInv, EngineRest, CallsAreReal
  <2>5. runner \in Runner /\ submitter \in Submitter /\ active \in BOOLEAN
    BY <2>1 DEF EngineTypes
  <2> QED
    BY <1>3, <2>1, <2>2, <2>3, <2>4, <2>5 DEF EngineTypeOK, EngineTypes, EngineRest, Runner, Submitter
<1> QED
  BY <1>1, <1>2, <1>3, EngineInductive, EngineStep, PTL DEF EngineSafety

\* Nodes, leases and jobs keep their types.
THEOREM NodesTypeCorrect == MediaNodesSpec => []MediaNodesTypeOK
<1>1. NodesInv => MediaNodesTypeOK
  BY DEF NodesInv
<1> QED
  BY <1>1, NodesInductive, PTL

\* Managed sessions and their goroutines keep their types.
THEOREM MediaTypeCorrect == MediaSpec => []MediaTypeOK
<1>1. MediaInv => MediaTypeOK
  BY DEF MediaInv
<1> QED
  BY <1>1, MediaInductive, PTL
=============================================================================
