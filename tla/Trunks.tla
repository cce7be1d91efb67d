------------------------------- MODULE Trunks -------------------------------
(***************************************************************************)
(* Trunk administration of one organisation (telephony/trunks), the SIP    *)
(* health checks of the trunks' endpoints, the phone numbers that arrive   *)
(* on them (telephony/numbers) and the route decisions taken from these    *)
(* rows (telephony/routing).                                               *)
(*                                                                         *)
(* The rows are trunk, credential, sourceIp, endpoint and number.  A       *)
(* creation is a transaction of three steps, because it waits for the      *)
(* organisation's row lock; Delete and the endpoint operations are a read  *)
(* and a later statement; every other operation is one statement.  Clock   *)
(* comparisons are the two flags checked (last_checked_at is younger than  *)
(* the interval) and cooling (cooldown_until is in the future), cleared by *)
(* the passage of time.                                                    *)
(***************************************************************************)
EXTENDS Naturals, FiniteSets

CONSTANTS
    TrunkIds, EndpointIds, Addresses, PhoneRows, PhoneNumbers, \* row ids, hosts, E.164 numbers
    Administrators,       \* concurrent API requests
    HealthWorkers,        \* worker processes that run the health check job
    NoTrunk,              \* a NULL trunk id
    Provisioned,          \* the trunks the organisation starts with
    PlanTrunks,           \* max_trunks of the plan
    FailureThreshold,     \* HealthCheckConfig.FailureThreshold
    TrunkOps, TrunkFaults \* bounds: administrative operations; carrier or worker failures

ASSUME TrunksAssumption ==
    /\ NoTrunk \notin TrunkIds
    /\ Provisioned \subseteq TrunkIds /\ IsFiniteSet(Provisioned)
    /\ Cardinality(Provisioned) <= PlanTrunks
    /\ PlanTrunks \in Nat \ {0} /\ FailureThreshold \in Nat \ {0}
    /\ TrunkOps \in Nat /\ TrunkFaults \in Nat

VARIABLES
    trunk,       \* TrunkIds -> row of trunks, or Absent
    sipCredential,  \* rows of trunk_digest_credentials: <<trunk, direction>>
    sourceIp,    \* trunks with a row in trunk_source_ips
    sipEndpoint,    \* EndpointIds -> row of trunk_endpoints, or Absent
    number,      \* PhoneRows -> row of phone_numbers, or Absent
    request,     \* Administrators -> the request in progress
    orgLock,     \* the request that holds the organisation's row, or {}
    check,       \* HealthWorkers -> the batch still to be probed
    answers,     \* addresses whose carrier answers OPTIONS
    disables,    \* history: trunk -> <<transitions to disabled by Delete, events>>
    ops, trunkFaults

trunksVars == <<trunk, sipCredential, sourceIp, sipEndpoint, number, request, orgLock, check,
                answers, disables, ops, trunkFaults>>

Absent == [status |-> "absent"]
Directions == {"inbound", "outbound", "bidirectional"}

TrunkRow == [status : {"active", "disabled"}, direction : Directions, inboundEnabled : BOOLEAN,
             outbound : {"none", "digest"}, inbound : {"ip", "digest"}]
SipEndpointRow == [status : {"enabled", "disabled"}, trunk : TrunkIds, address : Addresses,
                health : {"unknown", "healthy", "unhealthy"}, failures : Nat,
                checked : BOOLEAN, cooling : BOOLEAN]
NumberRow == [status : {"active", "released"}, number : PhoneNumbers,
              trunk : TrunkIds \cup {NoTrunk}, voice : BOOLEAN]
TrunkRequest == [at : {"idle", "locking", "inserting", "disabling"},
                 trunk : TrunkIds \cup {NoTrunk}]
NoTrunkRequest == [at |-> "idle", trunk |-> NoTrunk]

\* CreateTrunk: the columns a request leaves out have these values.
DefaultTrunk == [status |-> "active", direction |-> "bidirectional", inboundEnabled |-> FALSE,
                 outbound |-> "none", inbound |-> "ip"]

\* The creations that are tried, as normalizeCreate lets them through: a credential goes with the
\* method "digest" and with no other. Update reaches the other rows.
CreateRequests == {row \in TrunkRow : row.status = "active" /\ row.direction = "bidirectional"}

Trunk(t) == trunk[t] # Absent
Endpoint(e) == sipEndpoint[e] # Absent
Number(n) == number[n] # Absent

TrunksInit ==
    /\ trunk = [t \in TrunkIds |-> IF t \in Provisioned THEN DefaultTrunk ELSE Absent]
    /\ sipCredential = {} /\ sourceIp = {}
    /\ sipEndpoint = [e \in EndpointIds |-> Absent]
    /\ number = [n \in PhoneRows |-> Absent]
    /\ request = [q \in Administrators |-> NoTrunkRequest] /\ orgLock = {}
    /\ check = [w \in HealthWorkers |-> {}]
    /\ answers = Addresses
    /\ disables = [t \in TrunkIds |-> <<0, 0>>]
    /\ ops = 0 /\ trunkFaults = 0

Operation == ops < TrunkOps /\ ops' = ops + 1
TrunkFault == trunkFaults < TrunkFaults /\ trunkFaults' = trunkFaults + 1

AdminOnly == UNCHANGED <<check, answers, trunkFaults>>
RowsOnly == UNCHANGED <<request, orgLock, disables>> /\ AdminOnly

-----------------------------------------------------------------------------
(* Trunks: Create, Update, Delete                                          *)

\* Create opens its transaction, reads the plan's limit and asks for the organisation's row.
BeginCreate(q, t) ==
    /\ Operation
    /\ request[q] = NoTrunkRequest /\ ~Trunk(t)
    /\ \A other \in Administrators : request[other].trunk # t
    /\ request' = [request EXCEPT ![q] = [at |-> "locking", trunk |-> t]]
    /\ UNCHANGED <<trunk, sipCredential, sourceIp, sipEndpoint, number, orgLock, disables>>
    /\ AdminOnly

TrunkCount == Cardinality({t \in TrunkIds : Trunk(t)})

\* Mutant: the organisation's row is not locked.
MayLockAlways(q) == TRUE
MayLock(q) == orgLock = {}

\* LockAndCheckTrunkCapacity: take the row lock, then count; a full organisation is refused and
\* the rollback gives the lock back.
LockAndCheckCapacity(q) ==
    /\ request[q].at = "locking" /\ MayLock(q)
    /\ IF TrunkCount >= PlanTrunks
       THEN request' = [request EXCEPT ![q] = NoTrunkRequest] /\ UNCHANGED orgLock
       ELSE request' = [request EXCEPT ![q].at = "inserting"] /\ orgLock' = orgLock \cup {q}
    /\ UNCHANGED <<trunk, sipCredential, sourceIp, sipEndpoint, number, disables, ops>>
    /\ AdminOnly

\* The credentials that go with the methods of a row.
CredentialsOf(t, row) ==
    (IF row.outbound = "digest" THEN {<<t, "outbound">>} ELSE {})
        \cup (IF row.inbound = "digest" THEN {<<t, "inbound">>} ELSE {})

\* CreateTrunk, InsertDigest for each digest direction, the outbox event and the commit, or a
\* failure of one of them and the rollback of all.
CommitCreate(q) ==
    LET t == request[q].trunk
    IN  /\ request[q].at = "inserting"
        /\ \/ \E row \in CreateRequests :
                /\ trunk' = [trunk EXCEPT ![t] = row]
                /\ sipCredential' = sipCredential \cup CredentialsOf(t, row)
                /\ UNCHANGED trunkFaults
           \/ TrunkFault /\ UNCHANGED <<trunk, sipCredential>>
        /\ request' = [request EXCEPT ![q] = NoTrunkRequest] /\ orgLock' = orgLock \ {q}
        /\ UNCHANGED <<sourceIp, sipEndpoint, number, check, answers, disables, ops>>

\* normalizeUpdate: the fields a request gives; one that gives none of them, and none of the
\* columns left out here, is refused.
UpdateRequests ==
    [status : {"active", "disabled"}] \cup [direction : Directions]
        \cup [inboundEnabled : BOOLEAN]
        \cup [status : {"active", "disabled"}, direction : Directions, inboundEnabled : BOOLEAN]

\* UpdateTrunk replaces the columns the request gives and keeps the others.
UpdatedTrunk(row, req) == [c \in DOMAIN row |-> IF c \in DOMAIN req THEN req[c] ELSE row[c]]

UpdateTrunk(t) ==
    /\ Operation /\ Trunk(t)
    /\ \E req \in UpdateRequests : trunk' = [trunk EXCEPT ![t] = UpdatedTrunk(@, req)]
    /\ UNCHANGED <<sipCredential, sourceIp, sipEndpoint, number>> /\ RowsOnly

\* Delete reads the row and goes on when it is not yet disabled.
ReadForDelete(q, t) ==
    /\ Operation
    /\ request[q] = NoTrunkRequest /\ Trunk(t) /\ trunk[t].status # "disabled"
    /\ request' = [request EXCEPT ![q] = [at |-> "disabling", trunk |-> t]]
    /\ UNCHANGED <<trunk, sipCredential, sourceIp, sipEndpoint, number, orgLock, disables>>
    /\ AdminOnly

StillActive(t) == trunk[t].status = "active"

\* mutateTrunk(EventTrunkDisabled, Disable): the row and its event, or neither.
DisableTrunk(q) ==
    LET t == request[q].trunk
    IN  /\ request[q].at = "disabling"
        /\ IF StillActive(t)
           THEN /\ trunk' = [trunk EXCEPT ![t].status = "disabled"]
                /\ disables' = [disables EXCEPT ![t] =
                      <<@[1] + (IF trunk[t].status = "active" THEN 1 ELSE 0), @[2] + 1>>]
           ELSE UNCHANGED <<trunk, disables>>
        /\ request' = [request EXCEPT ![q] = NoTrunkRequest]
        /\ UNCHANGED <<sipCredential, sourceIp, sipEndpoint, number, orgLock, ops>> /\ AdminOnly

-----------------------------------------------------------------------------
(* Authentication and source addresses                                     *)

SetOutboundAuth(t) ==
    /\ Operation /\ Trunk(t)
    /\ trunk' = [trunk EXCEPT ![t].outbound = "digest"]
    /\ sipCredential' = sipCredential \cup {<<t, "outbound">>}
    /\ UNCHANGED <<sourceIp, sipEndpoint, number>> /\ RowsOnly

ClearedCredentials(t, d) == sipCredential \ {<<t, d>>}

ClearOutboundAuth(t) ==
    /\ Operation /\ Trunk(t)
    /\ trunk' = [trunk EXCEPT ![t].outbound = "none"]
    /\ sipCredential' = ClearedCredentials(t, "outbound")
    /\ UNCHANGED <<sourceIp, sipEndpoint, number>> /\ RowsOnly

SetInboundAuth(t) ==
    /\ Operation /\ Trunk(t)
    /\ trunk' = [trunk EXCEPT ![t].inbound = "digest"]
    /\ sipCredential' = sipCredential \cup {<<t, "inbound">>}
    /\ UNCHANGED <<sourceIp, sipEndpoint, number>> /\ RowsOnly

\* ClearInboundAuth, and SetInboundAuth with the method "ip".
SetInboundIP(t) ==
    /\ Operation /\ Trunk(t)
    /\ trunk' = [trunk EXCEPT ![t].inbound = "ip"]
    /\ sipCredential' = ClearedCredentials(t, "inbound")
    /\ UNCHANGED <<sourceIp, sipEndpoint, number>> /\ RowsOnly

CreateSourceIP(t) ==
    /\ Operation /\ Trunk(t) /\ t \notin sourceIp
    /\ sourceIp' = sourceIp \cup {t}
    /\ UNCHANGED <<trunk, sipCredential, sipEndpoint, number>> /\ RowsOnly

DeleteSourceIP(t) ==
    /\ Operation /\ t \in sourceIp
    /\ sourceIp' = sourceIp \ {t}
    /\ UNCHANGED <<trunk, sipCredential, sipEndpoint, number>> /\ RowsOnly

-----------------------------------------------------------------------------
(* Endpoints                                                               *)

\* uq_trunk_endpoints_target
FreeAddress(t, a, e) ==
    \A other \in EndpointIds \ {e} :
        Endpoint(other) => <<sipEndpoint[other].trunk, sipEndpoint[other].address>> # <<t, a>>

FreshHealth == [health |-> "unknown", failures |-> 0, checked |-> FALSE, cooling |-> FALSE]

CreateEndpoint(e, t, a) ==
    /\ Operation /\ ~Endpoint(e) /\ Trunk(t) /\ FreeAddress(t, a, e)
    /\ sipEndpoint' = [sipEndpoint EXCEPT ![e] =
          [status |-> "enabled", trunk |-> t, address |-> a, health |-> "unknown",
           failures |-> 0, checked |-> FALSE, cooling |-> FALSE]]
    /\ UNCHANGED <<trunk, sipCredential, sourceIp, number>> /\ RowsOnly

\* UpdateEndpoint with a host, a port or a transport: the health of the old address is dropped.
Readdress(e, a) ==
    /\ Operation /\ Endpoint(e) /\ FreeAddress(sipEndpoint[e].trunk, a, e)
    /\ sipEndpoint' = [sipEndpoint EXCEPT ![e] =
          [@ EXCEPT !.address = a, !.health = FreshHealth.health,
                    !.failures = FreshHealth.failures, !.checked = FreshHealth.checked,
                    !.cooling = FreshHealth.cooling]]
    /\ UNCHANGED <<trunk, sipCredential, sourceIp, number>> /\ RowsOnly

\* UpdateEndpoint with enabled alone: the health is kept.
EnableEndpoint(e) ==
    /\ Operation /\ Endpoint(e)
    /\ \E s \in {"enabled", "disabled"} : sipEndpoint' = [sipEndpoint EXCEPT ![e].status = s]
    /\ UNCHANGED <<trunk, sipCredential, sourceIp, number>> /\ RowsOnly

DeleteEndpoint(e) ==
    /\ Operation /\ Endpoint(e)
    /\ sipEndpoint' = [sipEndpoint EXCEPT ![e] = Absent]
    /\ UNCHANGED <<trunk, sipCredential, sourceIp, number>> /\ RowsOnly

-----------------------------------------------------------------------------
(* Health checks                                                           *)

HealthOnly == UNCHANGED <<trunk, sipCredential, sourceIp, number, request, orgLock, disables, ops>>

\* An enabled endpoint of an active trunk whose last check and cooldown are over.
Due(e) ==
    /\ Endpoint(e) /\ sipEndpoint[e].status = "enabled"
    /\ trunk[sipEndpoint[e].trunk].status = "active"
    /\ ~sipEndpoint[e].cooling /\ ~sipEndpoint[e].checked

\* ListTrunkEndpointsForHealthCheck claims the due endpoints by writing last_checked_at; the
\* worker keeps the rows it was given, with the address they had.
ClaimDue(w) ==
    LET due == {e \in EndpointIds : Due(e)}
    IN  /\ check[w] = {} /\ due # {}
        /\ check' = [check EXCEPT ![w] = {<<e, sipEndpoint[e].address>> : e \in due}]
        /\ sipEndpoint' = [e \in EndpointIds |->
              IF e \in due THEN [sipEndpoint[e] EXCEPT !.checked = TRUE] ELSE sipEndpoint[e]]
        /\ HealthOnly /\ UNCHANGED <<answers, trunkFaults>>

\* MarkTrunkEndpointHealthy
Healthy(row) ==
    [row EXCEPT !.health = "healthy", !.failures = 0, !.checked = TRUE, !.cooling = FALSE]

OutOfReach(row) == row.failures + 1 >= FailureThreshold

\* MarkTrunkEndpointProbeFailed
ProbeFailed(row) ==
    [row EXCEPT !.failures = @ + 1, !.checked = TRUE,
                !.health = IF OutOfReach(row) THEN "unhealthy" ELSE @,
                !.cooling = OutOfReach(row)]

\* The number of failures is kept below a bound that is past the threshold.
Capped(row) == [row EXCEPT !.failures = IF @ > FailureThreshold THEN FailureThreshold ELSE @]

\* Check: the next probe of the batch and its mark.  A row deleted meanwhile makes the mark fail,
\* and the error ends the pass with the rest of the batch unprobed.
ProbeNext(w, p) ==
    LET e == p[1]
    IN  /\ p \in check[w]
        /\ IF Endpoint(e)
           THEN /\ sipEndpoint' = [sipEndpoint EXCEPT ![e] =
                      IF p[2] \in answers THEN Healthy(@) ELSE Capped(ProbeFailed(@))]
                /\ check' = [check EXCEPT ![w] = @ \ {p}]
           ELSE /\ check' = [check EXCEPT ![w] = {}]
                /\ UNCHANGED sipEndpoint
        /\ HealthOnly /\ UNCHANGED <<answers, trunkFaults>>

\* The worker dies, or the database refuses a mark, in the middle of a pass.
HealthPassFails(w) ==
    /\ TrunkFault /\ check[w] # {}
    /\ check' = [check EXCEPT ![w] = {}]
    /\ HealthOnly /\ UNCHANGED <<sipEndpoint, answers>>

\* The interval of the check, and the cooldown, pass.
IntervalPasses(e) ==
    /\ Endpoint(e) /\ sipEndpoint[e].checked
    /\ sipEndpoint' = [sipEndpoint EXCEPT ![e].checked = FALSE]
    /\ HealthOnly /\ UNCHANGED <<check, answers, trunkFaults>>

CooldownPasses(e) ==
    /\ Endpoint(e) /\ sipEndpoint[e].cooling
    /\ sipEndpoint' = [sipEndpoint EXCEPT ![e].cooling = FALSE]
    /\ HealthOnly /\ UNCHANGED <<check, answers, trunkFaults>>

\* A carrier stops answering, or comes back.
CarrierFails(a) ==
    /\ TrunkFault /\ a \in answers /\ answers' = answers \ {a}
    /\ HealthOnly /\ UNCHANGED <<sipEndpoint, check>>

CarrierReturns(a) ==
    /\ a \in Addresses \ answers /\ answers' = answers \cup {a}
    /\ HealthOnly /\ UNCHANGED <<sipEndpoint, check, trunkFaults>>

-----------------------------------------------------------------------------
(* Phone numbers                                                           *)

TakesInbound(t) ==
    Trunk(t) /\ trunk[t].status = "active" /\ trunk[t].direction \in {"inbound", "bidirectional"}

FreeNumber(m) == \A n \in PhoneRows : Number(n) /\ number[n].number = m
                                          => number[n].status = "released"

\* CreateBYOCPhoneNumber: with no trunk, or with one that takes inbound calls.
CreateNumber(n, m) ==
    /\ Operation /\ ~Number(n) /\ FreeNumber(m)
    /\ \E t \in {u \in TrunkIds : TakesInbound(u)} \cup {NoTrunk} :
          number' = [number EXCEPT ![n] =
              [status |-> "active", number |-> m, trunk |-> t, voice |-> TRUE]]
    /\ UNCHANGED <<trunk, sipCredential, sourceIp, sipEndpoint>> /\ RowsOnly

UpdateNumber(n) ==
    /\ Operation /\ Number(n) /\ number[n].status = "active"
    /\ \E v \in BOOLEAN : number' = [number EXCEPT ![n].voice = v]
    /\ UNCHANGED <<trunk, sipCredential, sourceIp, sipEndpoint>> /\ RowsOnly

SetNumberTrunk(n, t) ==
    /\ Operation /\ Number(n) /\ number[n].status = "active" /\ TakesInbound(t)
    /\ number' = [number EXCEPT ![n].trunk = t]
    /\ UNCHANGED <<trunk, sipCredential, sourceIp, sipEndpoint>> /\ RowsOnly

ReleaseNumber(n) ==
    /\ Operation /\ Number(n) /\ number[n].status = "active"
    /\ number' = [number EXCEPT ![n] =
          [@ EXCEPT !.status = "released", !.trunk = NoTrunk, !.voice = FALSE]]
    /\ UNCHANGED <<trunk, sipCredential, sourceIp, sipEndpoint>> /\ RowsOnly

-----------------------------------------------------------------------------
(* Decisions taken from the rows                                           *)

\* ListActiveOutboundTrunkEndpoints.
OutboundEndpoints(t) ==
    {e \in EndpointIds :
        /\ Endpoint(e) /\ sipEndpoint[e].trunk = t /\ sipEndpoint[e].status = "enabled"
        /\ trunk[t].status = "active" /\ trunk[t].direction \in {"outbound", "bidirectional"}}

\* ResolveBYOCOutbound: the endpoints a call to trunk t may use.
OutboundRoutes(t) == {e \in OutboundEndpoints(t) : sipEndpoint[e].health # "unhealthy"}

\* GetInboundCallContext: number row n leads to trunk t.
LeadsTo(n, t) ==
    /\ Number(n) /\ number[n].trunk = t /\ number[n].status = "active" /\ number[n].voice
    /\ Trunk(t) /\ trunk[t].status = "active" /\ trunk[t].inboundEnabled

\* GetInboundContext: the trunks a call to number m may arrive on.
InboundTrunks(m) ==
    {t \in TrunkIds : \E n \in PhoneRows : LeadsTo(n, t) /\ number[n].number = m}

\* Validate: what it reports as errors.
ValidationErrors(t) ==
    LET out == {e \in EndpointIds : Endpoint(e) /\ sipEndpoint[e].trunk = t
                                               /\ sipEndpoint[e].status = "enabled"}
    IN  (IF trunk[t].outbound = "digest" /\ <<t, "outbound">> \notin sipCredential
         THEN {"outbound credentials"} ELSE {})
        \cup (IF trunk[t].inboundEnabled /\ trunk[t].inbound = "digest"
                    /\ <<t, "inbound">> \notin sipCredential
              THEN {"inbound credentials"} ELSE {})
        \cup (IF trunk[t].inboundEnabled /\ trunk[t].inbound = "ip" /\ t \notin sourceIp
              THEN {"source addresses"} ELSE {})
        \cup (IF trunk[t].direction # "inbound" /\ out = {} THEN {"no endpoint"} ELSE {})
        \cup (IF trunk[t].direction # "inbound" /\ out # {}
                    /\ \A e \in out : sipEndpoint[e].health = "unhealthy"
              THEN {"no healthy endpoint"} ELSE {})

-----------------------------------------------------------------------------
TrunksNext ==
    \/ \E q \in Administrators, t \in TrunkIds : BeginCreate(q, t) \/ ReadForDelete(q, t)
    \/ \E q \in Administrators : LockAndCheckCapacity(q) \/ CommitCreate(q) \/ DisableTrunk(q)
    \/ \E t \in TrunkIds :
          \/ UpdateTrunk(t) \/ SetOutboundAuth(t) \/ ClearOutboundAuth(t)
          \/ SetInboundAuth(t) \/ SetInboundIP(t) \/ CreateSourceIP(t) \/ DeleteSourceIP(t)
    \/ \E e \in EndpointIds, t \in TrunkIds, a \in Addresses : CreateEndpoint(e, t, a)
    \/ \E e \in EndpointIds, a \in Addresses : Readdress(e, a)
    \/ \E e \in EndpointIds :
          EnableEndpoint(e) \/ DeleteEndpoint(e) \/ IntervalPasses(e) \/ CooldownPasses(e)
    \/ \E w \in HealthWorkers : ClaimDue(w) \/ HealthPassFails(w)
    \/ \E w \in HealthWorkers, p \in EndpointIds \X Addresses : ProbeNext(w, p)
    \/ \E a \in Addresses : CarrierFails(a) \/ CarrierReturns(a)
    \/ \E n \in PhoneRows, m \in PhoneNumbers : CreateNumber(n, m)
    \/ \E n \in PhoneRows : UpdateNumber(n) \/ ReleaseNumber(n)
    \/ \E n \in PhoneRows, t \in TrunkIds : SetNumberTrunk(n, t)

TrunksSpec ==
    /\ TrunksInit /\ [][TrunksNext]_trunksVars
    /\ \A w \in HealthWorkers :
          /\ WF_trunksVars(ClaimDue(w))
          /\ \A p \in EndpointIds \X Addresses : WF_trunksVars(ProbeNext(w, p))
    /\ \A e \in EndpointIds : WF_trunksVars(IntervalPasses(e)) /\ WF_trunksVars(CooldownPasses(e))

-----------------------------------------------------------------------------
(* Properties                                                              *)

\* The rows, requests and batches keep their types.
TrunksTypeOK ==
    /\ trunk \in [TrunkIds -> TrunkRow \cup {Absent}]
    /\ sipCredential \subseteq TrunkIds \X {"inbound", "outbound"} /\ sourceIp \subseteq TrunkIds
    /\ \A e \in EndpointIds : Endpoint(e) => sipEndpoint[e] \in SipEndpointRow
    /\ \A n \in PhoneRows : Number(n) => number[n] \in NumberRow
    /\ request \in [Administrators -> TrunkRequest] /\ orgLock \subseteq Administrators
    /\ check \in [HealthWorkers -> SUBSET (EndpointIds \X Addresses)]
    /\ answers \subseteq Addresses

\* Concurrent creations never take an organisation past the trunks of its plan: the count is
\* taken under the organisation's row lock, in the transaction of the insert.
CapacityRespected == TrunkCount <= PlanTrunks

\* The SIP router authenticates with a credential row exactly when the trunk's method is digest,
\* whatever order of Create, Set and Clear calls led there.
CredentialsMatch ==
    \A t \in TrunkIds :
        {d \in {"inbound", "outbound"} : <<t, d>> \in sipCredential} =
            (IF ~Trunk(t) THEN {} ELSE
                (IF trunk[t].outbound = "digest" THEN {"outbound"} ELSE {})
                \cup (IF trunk[t].inbound = "digest" THEN {"inbound"} ELSE {}))

\* Two concurrent deletions announce a trunk's end once: every disabled event goes with a row
\* that really went from active to disabled.
DisableAnnouncedOnce == \A t \in TrunkIds : disables[t][1] = disables[t][2]

\* An endpoint is left out of routing only after FailureThreshold failures in a row, and one that
\* is cooling down is left out.
UnhealthyIsGrounded ==
    \A e \in EndpointIds : Endpoint(e) =>
        /\ sipEndpoint[e].health = "unhealthy" => sipEndpoint[e].failures >= FailureThreshold
        /\ sipEndpoint[e].cooling => sipEndpoint[e].health = "unhealthy"

\* A called number leads to one trunk at most, although released rows keep the number.
NumberHasOneTrunk == \A m \in PhoneNumbers : Cardinality(InboundTrunks(m)) <= 1

\* A trunk that validation accepts has a route as soon as it is active and takes outbound calls.
ValidIsRoutable ==
    \A t \in TrunkIds :
        (Trunk(t) /\ trunk[t].status = "active" /\ trunk[t].direction # "inbound"
            /\ ValidationErrors(t) = {}) => OutboundRoutes(t) # {}

\* What the platform run checks of the trunks.
TrunksSound ==
    /\ CapacityRespected /\ CredentialsMatch /\ DisableAnnouncedOnce
    /\ UnhealthyIsGrounded /\ NumberHasOneTrunk /\ ValidIsRoutable

\* Endpoints that are held for unhealthy although they could be used and their carrier answers: a
\* crash in the middle of a pass, a stale probe of the former address or a cooldown only delay
\* their recovery.
UnrecoveredEndpoints ==
    {e \in EndpointIds :
        /\ Endpoint(e) /\ sipEndpoint[e].health = "unhealthy" /\ sipEndpoint[e].status = "enabled"
        /\ trunk[sipEndpoint[e].trunk].status = "active" /\ sipEndpoint[e].address \in answers}
=============================================================================
