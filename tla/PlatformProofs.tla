--------------------------- MODULE PlatformProofs ---------------------------
(***************************************************************************)
(* Proofs about what an organisation administers, for any number of rows,  *)
(* processes, requests and faults: sign-in and the events of the identity  *)
(* provider (Identity), request keys (Idempotency), trunks, endpoints and  *)
(* phone numbers (Trunks), payments (Billing), members, invitations and    *)
(* their mail (Tenancy). The last two parts are the types of the           *)
(* components and what holds of them together, as MCPlatform runs them.    *)
(***************************************************************************)
EXTENDS MCPlatform, FiniteSetTheorems, WellFoundedInduction, TLAPS

(***************************************************************************)
(* Sign-in                                                                 *)
(***************************************************************************)
IdentitySafety == IdentityInit /\ [][IdentityNext]_identityVars

\* The values of the requests in flight.
EventReq == [ev: IdentityEvents \cup {0}, seen: SUBSET IdentityEvents, user: BOOLEAN,
             live: SUBSET Logins]
Callback == [at: {"idle", "exchange", "upsert", "create"}, login: Logins \cup {"none"},
             tombstone: BOOLEAN]
Resolver == [at: {"idle", "stale", "refreshing", "rotated"}, session: Logins \cup {"none"},
             token: 0..MaxRotations]

SignInTypes ==
    /\ IdentityTypeOK
    /\ eventReq \in [EventRequests -> EventReq] /\ callback \in [Callbacks -> Callback]
    /\ resolver \in [Resolvers -> Resolver]
    /\ eventApplied \in [IdentityEvents -> Nat] /\ created \in [Logins -> Nat]
    /\ reused \subseteq Logins /\ lost \subseteq Logins

\* An event changes the user with the transaction that records it.
AppliedIsRecorded ==
    \A e \in IdentityEvents : eventApplied[e] <= 1 /\ (e \notin recorded => eventApplied[e] = 0)

\* An attempt is open, or with one callback, or spent; its session comes with its spending.
AttemptInv ==
    /\ \A l \in Logins : /\ created[l] <= 1 /\ (created[l] = 0 <=> session[l].status = "none")
                         /\ login[l] # "gone" => created[l] = 0
    /\ \A c \in Callbacks : callback[c].at # "idle" =>
          /\ callback[c].login \in Logins /\ login[callback[c].login] = "gone"
          /\ created[callback[c].login] = 0
    /\ \A c, d \in Callbacks :
          callback[c].at # "idle" /\ callback[d].at # "idle"
             /\ callback[c].login = callback[d].login => c = d

\* A refresh holds the row lock of its session, which stays live and keeps its token meanwhile.
Holds(r, s) == resolver[r].session = s /\ resolver[r].at \in {"refreshing", "rotated"}
LockInv ==
    /\ \A d \in EventRequests : \A s \in eventReq[d].live : session[s].status # "none"
    /\ \A r \in Resolvers : resolver[r].at # "idle" =>
          /\ resolver[r].session \in Logins /\ session[resolver[r].session].status # "none"
    /\ \A r, q \in Resolvers, s \in Logins : Holds(r, s) /\ Holds(q, s) => r = q
    /\ \A r \in Resolvers, s \in Logins : Holds(r, s) => session[s].status = "live"
    /\ \A r \in Resolvers : resolver[r].at = "refreshing"
          => resolver[r].token = session[resolver[r].session].token

\* The provider is ahead of the row only between a rotation and its commit.
TokenInv ==
    \A s \in Logins \ lost : session[s].status = "live" =>
        \/ session[s].token = granted[s]
        \/ \E r \in Resolvers : resolver[r].session = s /\ resolver[r].at = "rotated"

SignInInv ==
    SignInTypes /\ AppliedIsRecorded /\ AttemptInv /\ LockInv /\ TokenInv /\ RefreshedOnce

\* No event is numbered zero.
LEMMA EventsArePositive == 0 \notin IdentityEvents
BY IdentityAssumption DEF IdentityAssumption

\* Nobody has signed in yet.
LEMMA SignInInit == IdentityInit => SignInInv
<1> SUFFICES ASSUME IdentityInit PROVE SignInInv
  OBVIOUS
<1>1. SignInTypes
  <2>1. NoEvent \in EventReq /\ NoCallback \in Callback /\ NotResolving \in Resolver
    BY IdentityAssumption DEF IdentityAssumption, NoEvent, EventReq, NoCallback, Callback, NotResolving, Resolver
  <2> QED
    BY <2>1, IdentityAssumption
       DEF IdentityAssumption, IdentityInit, SignInTypes, IdentityTypeOK
<1>2. AppliedIsRecorded /\ RefreshedOnce /\ AttemptInv
  BY DEF IdentityInit, AppliedIsRecorded, RefreshedOnce, AttemptInv, NoCallback, NoBrowserSession
<1>3. LockInv
  BY DEF IdentityInit, LockInv, Holds, NoEvent, NotResolving
<1>4. TokenInv
  BY DEF IdentityInit, TokenInv, NoBrowserSession
<1> QED
  BY <1>1, <1>2, <1>3, <1>4 DEF SignInInv

\* A login begins, or its attempt expires.
LEMMA AttemptStep ==
    ASSUME SignInInv, NEW l \in Logins, Login(l) \/ LoginExpires(l) PROVE SignInInv'
<1>1. /\ login' \in [Logins -> {"new", "open", "gone"}]
      /\ \A k \in Logins : login'[k] # "gone" => login[k] # "gone"
      /\ \A k \in Logins : login[k] = "gone" => login'[k] = "gone"
      /\ UNCHANGED <<account, profile, recorded, eventReq, callback, session, granted, resolver,
                     eventApplied, created, reused, lost>>
  BY DEF SignInInv, SignInTypes, IdentityTypeOK, Login, LoginExpires, RefreshStill, EventsStill
<1>2. SignInTypes' /\ AppliedIsRecorded' /\ RefreshedOnce'
  BY <1>1 DEF SignInInv, SignInTypes, IdentityTypeOK, AppliedIsRecorded, RefreshedOnce
<1>3. AttemptInv'
  BY <1>1 DEF SignInInv, SignInTypes, IdentityTypeOK, Callback, AttemptInv
<1>4. LockInv' /\ TokenInv'
  BY <1>1 DEF SignInInv, LockInv, Holds, TokenInv
<1> QED
  BY <1>2, <1>3, <1>4 DEF SignInInv

\* What a callback does before it creates a session: it takes an open attempt, goes on with the
\* one it has, or ends.
LEMMA CallbackStep ==
    ASSUME SignInInv, NEW c \in Callbacks,
           \/ \E l \in Logins : ConsumeLogin(c, l)
           \/ ExchangeCode(c) \/ CallbackFails(c) \/ UpsertIdentityUser(c)
    PROVE  SignInInv'
<1> DEFINE Taken(l) == /\ login[l] = "open" /\ login' = [login EXCEPT ![l] = "gone"]
                       /\ callback'[c].login = l
           Shape == /\ callback'[c] \in Callback
                    /\ callback' = [callback EXCEPT ![c] = callback'[c]]
                    /\ account' \in {"absent", "active", "disabled"}
                    /\ profile' \in IdentityEvents \cup {0}
                    /\ \/ callback'[c].at = "idle" /\ login' = login
                       \/ /\ callback[c].at # "idle" /\ callback'[c].login = callback[c].login
                          /\ login' = login
                       \/ \E l \in Logins : Taken(l)
<1>0. callback \in [Callbacks -> Callback] /\ callback[c] \in Callback /\ NoCallback \in Callback
  BY DEF SignInInv, SignInTypes, NoCallback, Callback
<1>1. UNCHANGED <<recorded, eventReq, session, granted, resolver, eventApplied, created, reused,
                  lost>>
  BY DEF ConsumeLogin, ExchangeCode, CallbackFails, UpsertIdentityUser, RefreshStill, EventsStill
<1>2. Shape
  <2> USE DEF SignInInv, SignInTypes, IdentityTypeOK
  <2>1. ASSUME NEW l \in Logins, ConsumeLogin(c, l) PROVE Shape
    <3>1. [NoCallback EXCEPT !.at = "exchange", !.login = l] \in Callback
      BY DEF NoCallback, Callback
    <3>2. /\ callback'[c] = [NoCallback EXCEPT !.at = "exchange", !.login = l]
          /\ callback' = [callback EXCEPT ![c] = callback'[c]]
      BY <1>0, <2>1 DEF ConsumeLogin
    <3>3. Taken(l)
      BY <2>1, <3>2 DEF ConsumeLogin, Consumed, NoCallback
    <3> QED
      BY <2>1, <3>1, <3>2, <3>3 DEF ConsumeLogin
  <2>2. CASE ExchangeCode(c)
    BY <1>0, <2>2 DEF ExchangeCode, Callback
  <2>3. CASE CallbackFails(c)
    BY <1>0, <2>3 DEF CallbackFails, EndCallback, NoCallback
  <2>4. CASE UpsertIdentityUser(c)
    <3>1. CASE callback[c].tombstone \/ account = "disabled"
      <4>1. callback' = [callback EXCEPT ![c] = NoCallback] /\ UNCHANGED <<account, profile, login>>
        BY <2>4, <3>1 DEF UpsertIdentityUser, EndCallback
      <4> QED
        BY <1>0, <4>1 DEF NoCallback
    <3>2. CASE ~(callback[c].tombstone \/ account = "disabled")
      <4> DEFINE next == [callback[c] EXCEPT !.at = "create", !.tombstone = FALSE]
      <4>1. /\ callback[c].at = "upsert" /\ account' = "active" /\ profile' = 0 /\ login' = login
            /\ callback' = [callback EXCEPT ![c] = next]
        BY <2>4, <3>2 DEF UpsertIdentityUser
      <4>2. next \in Callback /\ next.login = callback[c].login
        BY <1>0 DEF Callback
      <4>3. callback'[c] = next
        BY <1>0, <4>1
      <4> QED
        BY <4>1, <4>2, <4>3
    <3> QED
      BY <3>1, <3>2
  <2> QED
    BY <2>1, <2>2, <2>3, <2>4
<1>3. /\ callback' \in [Callbacks -> Callback] /\ login' \in [Logins -> {"new", "open", "gone"}]
      /\ \A d \in Callbacks \ {c} : callback'[d] = callback[d]
  BY <1>0, <1>2 DEF SignInInv, SignInTypes, IdentityTypeOK
<1>4. SignInTypes' /\ AppliedIsRecorded' /\ RefreshedOnce'
  BY <1>1, <1>2, <1>3 DEF SignInInv, SignInTypes, IdentityTypeOK, AppliedIsRecorded, RefreshedOnce
<1>5. AttemptInv'
  <2>1. CASE login' = login
    BY <1>1, <1>2, <1>3, <2>1 DEF SignInInv, SignInTypes, IdentityTypeOK, Callback, AttemptInv
  <2>2. ASSUME NEW l \in Logins, Taken(l) PROVE AttemptInv'
    BY SMTT(30), <1>1, <1>2, <1>3, <2>2 DEF SignInInv, SignInTypes, IdentityTypeOK, Callback, AttemptInv
  <2> QED
    BY <1>2, <2>1, <2>2
<1>6. LockInv' /\ TokenInv'
  BY <1>1 DEF SignInInv, LockInv, Holds, TokenInv
<1> QED
  BY <1>4, <1>5, <1>6 DEF SignInInv

\* The session of a spent attempt: it had none, so no event and no refresh knows it yet.
LEMMA CreateSessionStep ==
    ASSUME SignInInv, NEW c \in Callbacks, CreateSession(c) PROVE SignInInv'
<1> DEFINE l == callback[c].login
<1>1. /\ callback[c].at # "idle" /\ l \in Logins /\ login[l] = "gone" /\ created[l] = 0
      /\ session[l].status = "none" /\ granted[l] \in 0..MaxRotations
  BY DEF SignInInv, SignInTypes, IdentityTypeOK, AttemptInv, CreateSession
<1>2. /\ callback' = [callback EXCEPT ![c] = NoCallback]
      /\ UNCHANGED <<account, profile, recorded, eventReq, login, granted, resolver,
                     eventApplied, reused, lost>>
  BY DEF CreateSession, EndCallback, RefreshStill, EventsStill
<1>3. \/ UNCHANGED <<session, created>>
      \/ /\ session' = [session EXCEPT ![l] =
               [status |-> "live", token |-> granted[l], fresh |-> TRUE]]
         /\ created' = [created EXCEPT ![l] = @ + 1]
  BY DEF CreateSession
<1>4. SignInTypes'
  <2>1. NoCallback \in Callback
    BY DEF NoCallback, Callback
  <2>2. [status |-> "live", token |-> granted[l], fresh |-> TRUE] \in Session
    BY <1>1 DEF Session
  <2>3. session' \in [Logins -> Session \cup {NoBrowserSession}]
    BY <1>1, <1>3, <2>2 DEF SignInInv, SignInTypes, IdentityTypeOK
  <2> QED
    BY <1>1, <1>2, <1>3, <2>1, <2>3 DEF SignInInv, SignInTypes, IdentityTypeOK
<1>5. AppliedIsRecorded' /\ RefreshedOnce'
  BY <1>2 DEF SignInInv, AppliedIsRecorded, RefreshedOnce
<1>6. AttemptInv'
  BY <1>1, <1>2, <1>3
     DEF SignInInv, SignInTypes, IdentityTypeOK, Callback, AttemptInv, NoCallback
<1>7. LockInv'
  <2>1. /\ \A s \in Logins : session[s].status # "none" => session'[s] = session[s]
        /\ eventReq \in [EventRequests -> EventReq]
        /\ \A d \in EventRequests : eventReq[d].live \subseteq Logins
    BY <1>1, <1>3 DEF SignInInv, SignInTypes, IdentityTypeOK, EventReq
  <2> QED
    BY <1>2, <2>1 DEF SignInInv, LockInv, Holds
<1>8. TokenInv'
  BY <1>1, <1>2, <1>3 DEF SignInInv, SignInTypes, IdentityTypeOK, TokenInv
<1> QED
  BY <1>4, <1>5, <1>6, <1>7, <1>8 DEF SignInInv

\* Sessions that no refresh holds are revoked: by an event, a logout or an administrator.
LEMMA Revocation ==
    ASSUME SignInInv, NEW D \in SUBSET Logins,
           \A s \in D : session[s].status # "none" /\ ~Locked(s),
           session' = [s \in Logins |-> IF s \in D THEN [session[s] EXCEPT !.status = "revoked"]
                                        ELSE session[s]],
           \A d \in EventRequests : eventReq'[d].live \subseteq eventReq[d].live,
           UNCHANGED <<login, callback, granted, resolver, created, reused, lost>>
    PROVE  /\ session' \in [Logins -> Session \cup {NoBrowserSession}]
           /\ AttemptInv' /\ LockInv' /\ TokenInv'
<1> USE DEF SignInInv, SignInTypes, IdentityTypeOK
<1>1. \A s \in D : session[s] \in Session /\ session'[s] = [session[s] EXCEPT !.status = "revoked"]
  BY DEF NoBrowserSession
<1>2. \A s \in D : /\ session'[s] \in Session /\ session'[s].status = "revoked"
                   /\ session'[s].token = session[s].token
  BY ZenonT(40), <1>1 DEF Session
<1>3. \A s \in Logins \ D : session'[s] = session[s]
  OBVIOUS
<1>4. session' \in [Logins -> Session \cup {NoBrowserSession}]
  BY <1>2, <1>3
<1>5. AttemptInv'
  BY <1>2, <1>3 DEF AttemptInv, Callback
<1>6. LockInv'
  <2>1. \A r \in Resolvers, s \in Logins : Holds(r, s) => session'[s] = session[s]
    BY <1>3 DEF Holds, Locked
  <2>2. \A s \in Logins : /\ session[s].status # "none" => session'[s].status # "none"
                          /\ session'[s].token = session[s].token
    BY <1>2, <1>3
  <2>3. eventReq \in [EventRequests -> EventReq]
    OBVIOUS
  <2>4. \A d \in EventRequests : eventReq'[d].live \subseteq Logins
    BY <2>3 DEF EventReq
  <2>5. \A d \in EventRequests : \A s \in eventReq'[d].live : session'[s].status # "none"
    BY <2>2, <2>4 DEF LockInv
  <2>6. \A r \in Resolvers : resolver'[r].at # "idle" =>
          /\ resolver'[r].session \in Logins /\ session'[resolver'[r].session].status # "none"
    BY <2>2 DEF LockInv
  <2>7. \A r, q \in Resolvers, s \in Logins : Holds(r, s)' /\ Holds(q, s)' => r = q
    BY DEF LockInv, Holds
  <2>8. \A r \in Resolvers, s \in Logins : Holds(r, s)' => session'[s].status = "live"
    <3>1. \A r \in Resolvers, s \in Logins : Holds(r, s)' => Holds(r, s)
      BY DEF Holds
    <3> QED
      BY <2>1, <3>1 DEF LockInv
  <2>9. \A r \in Resolvers : resolver'[r].at = "refreshing"
          => resolver'[r].token = session'[resolver'[r].session].token
    BY <2>2 DEF LockInv
  <2> QED
    BY <2>5, <2>6, <2>7, <2>8, <2>9 DEF LockInv
<1>7. TokenInv'
  BY <1>2, <1>3 DEF TokenInv
<1> QED
  BY <1>4, <1>5, <1>6, <1>7

\* A delivery takes its snapshot.
LEMMA ReceiveStep ==
    ASSUME SignInInv, NEW d \in EventRequests, ReceiveEvent(d) PROVE SignInInv'
<1>1. UNCHANGED <<account, profile, recorded, session, eventApplied, login, callback, created,
                  granted, resolver, reused, lost>>
  BY DEF ReceiveEvent, SignInStill, RefreshStill
<1>2. PICK e \in IdentityEvents : eventReq' = [eventReq EXCEPT ![d] =
          [ev |-> e, seen |-> recorded, user |-> account # "absent", live |-> LiveSessions]]
  BY DEF ReceiveEvent
<1>3. LiveSessions \subseteq Logins /\ \A s \in LiveSessions : session[s].status = "live"
  BY DEF LiveSessions
<1>4. [ev |-> e, seen |-> recorded, user |-> account # "absent", live |-> LiveSessions] \in EventReq
  BY <1>3 DEF SignInInv, SignInTypes, IdentityTypeOK, EventReq
<1>5. SignInTypes' /\ AppliedIsRecorded' /\ RefreshedOnce'
  BY <1>1, <1>2, <1>4
     DEF SignInInv, SignInTypes, IdentityTypeOK, AppliedIsRecorded, RefreshedOnce
<1>6. AttemptInv' /\ TokenInv'
  BY <1>1 DEF SignInInv, AttemptInv, TokenInv
<1>7. LockInv'
  BY <1>1, <1>2, <1>3 DEF SignInInv, SignInTypes, LockInv, Holds
<1> QED
  BY <1>5, <1>6, <1>7 DEF SignInInv

\* The statement of a delivery writes, or finds its event recorded, stale or without a user.
LEMMA ApplyStep ==
    ASSUME SignInInv, NEW d \in EventRequests, ApplyKindeIdentityEvent(d) PROVE SignInInv'
<1> DEFINE e == eventReq[d].ev
           disable == e \in DisableEvents
           changes == /\ ~Replayed(e) /\ CurrentEvent(d) /\ eventReq[d].user
                      /\ (disable \/ account = "active")
           D == IF changes /\ disable THEN eventReq[d].live ELSE {}
<1>1. /\ e # 0 /\ (changes /\ disable => \A s \in eventReq[d].live : ~Locked(s))
      /\ recorded' = recorded \cup {e} /\ eventReq' = [eventReq EXCEPT ![d] = NoEvent]
      /\ UNCHANGED <<login, callback, created, granted, resolver, reused, lost>>
  BY DEF ApplyKindeIdentityEvent, SignInStill, RefreshStill
<1>2. /\ eventReq[d] \in EventReq /\ e \in IdentityEvents /\ eventReq[d].live \subseteq Logins
      /\ NoEvent \in EventReq
  BY <1>1 DEF SignInInv, SignInTypes, EventReq, NoEvent
<1>3. eventReq' \in [EventRequests -> EventReq]
  BY <1>1, <1>2 DEF SignInInv, SignInTypes
<1>4. \A q \in EventRequests : eventReq'[q].live \subseteq eventReq[q].live
  BY <1>1 DEF SignInInv, SignInTypes, NoEvent
<1>5. CASE changes
  <2>1. /\ eventApplied' = [eventApplied EXCEPT ![e] = @ + 1]
        /\ account' = IF disable THEN "disabled" ELSE account
        /\ profile' = IF disable THEN profile ELSE e
        /\ session' = [s \in Logins |->
                IF disable /\ s \in eventReq[d].live
                THEN [session[s] EXCEPT !.status = "revoked"] ELSE session[s]]
    BY <1>5 DEF ApplyKindeIdentityEvent
  <2>2. session' = [s \in Logins |-> IF s \in D THEN [session[s] EXCEPT !.status = "revoked"]
                                     ELSE session[s]]
    BY <1>5, <2>1
  <2>3. D \in SUBSET Logins /\ \A s \in D : session[s].status # "none" /\ ~Locked(s)
    BY <1>1, <1>2 DEF SignInInv, LockInv
  <2>4. /\ session' \in [Logins -> Session \cup {NoBrowserSession}]
        /\ AttemptInv' /\ LockInv' /\ TokenInv'
    BY <1>1, <1>4, <2>2, <2>3, Revocation
  <2>5. SignInTypes'
    BY <1>1, <1>2, <1>3, <2>1, <2>4 DEF SignInInv, SignInTypes, IdentityTypeOK
  <2>6. AppliedIsRecorded' /\ RefreshedOnce'
    BY <1>1, <1>2, <1>5, <2>1
       DEF SignInInv, SignInTypes, AppliedIsRecorded, RefreshedOnce, Replayed
  <2> QED
    BY <2>4, <2>5, <2>6 DEF SignInInv
<1>6. CASE ~changes
  <2>1. UNCHANGED <<eventApplied, account, profile, session>>
    BY <1>6 DEF ApplyKindeIdentityEvent
  <2>2. SignInTypes' /\ AppliedIsRecorded' /\ RefreshedOnce'
    BY <1>1, <1>2, <1>3, <2>1
       DEF SignInInv, SignInTypes, IdentityTypeOK, AppliedIsRecorded, RefreshedOnce
  <2>3. AttemptInv' /\ TokenInv'
    BY <1>1, <2>1 DEF SignInInv, AttemptInv, TokenInv
  <2>4. LockInv'
    BY <1>1, <1>4, <2>1 DEF SignInInv, LockInv, Holds
  <2> QED
    BY <2>2, <2>3, <2>4 DEF SignInInv
<1> QED
  BY <1>5, <1>6

\* The account is disabled; sessions stay.
LEMMA DisableStep == ASSUME SignInInv, DisableAccount PROVE SignInInv'
<1>1. /\ account' = "disabled"
      /\ UNCHANGED <<profile, recorded, eventReq, session, eventApplied, login, callback, created,
                     granted, resolver, reused, lost>>
  BY DEF DisableAccount, SignInStill, RefreshStill, EventsStill
<1> QED
  BY <1>1 DEF SignInInv, SignInTypes, IdentityTypeOK, AppliedIsRecorded, AttemptInv, LockInv, Holds,
              TokenInv, RefreshedOnce

\* A logout, and the revocation of one session or of all.
LEMMA RevokeStep ==
    ASSUME SignInInv, RevokeAll \/ \E s \in Logins : RevokeSession(s) PROVE SignInInv'
<1>1. UNCHANGED <<account, profile, recorded, eventReq, eventApplied, login, callback, created,
                  granted, resolver, reused, lost>>
  BY DEF RevokeAll, RevokeSession, SessionOnly, SignInStill, EventsStill
<1>2. PICK D \in SUBSET Logins :
          /\ \A s \in D : session[s].status # "none" /\ ~Locked(s)
          /\ session' = [s \in Logins |-> IF s \in D THEN [session[s] EXCEPT !.status = "revoked"]
                                          ELSE session[s]]
  <2>1. CASE RevokeAll
    BY <2>1 DEF RevokeAll, LiveSessions
  <2>2. ASSUME NEW s \in Logins, RevokeSession(s)
        PROVE  /\ session[s].status # "none" /\ ~Locked(s)
               /\ session' = [k \in Logins |-> IF k \in {s}
                        THEN [session[k] EXCEPT !.status = "revoked"] ELSE session[k]]
    BY <2>2 DEF RevokeSession, SignInInv, SignInTypes, IdentityTypeOK
  <2>3. ASSUME NEW s \in Logins, RevokeSession(s)
        PROVE  \E D \in SUBSET Logins :
                  /\ \A k \in D : session[k].status # "none" /\ ~Locked(k)
                  /\ session' = [k \in Logins |-> IF k \in D
                        THEN [session[k] EXCEPT !.status = "revoked"] ELSE session[k]]
    <3>1. {s} \in SUBSET Logins
      OBVIOUS
    <3> QED
      BY <2>2, <2>3, <3>1
  <2> QED
    BY <2>1, <2>3
<1>3. /\ session' \in [Logins -> Session \cup {NoBrowserSession}]
      /\ AttemptInv' /\ LockInv' /\ TokenInv'
  BY <1>1, <1>2, Revocation
<1>4. SignInTypes' /\ AppliedIsRecorded' /\ RefreshedOnce'
  BY <1>1, <1>3 DEF SignInInv, SignInTypes, IdentityTypeOK, AppliedIsRecorded, RefreshedOnce
<1> QED
  BY <1>3, <1>4 DEF SignInInv

\* What a step of a refresh leaves alone.
LEMMA SessionFrame ==
    ASSUME SignInInv, SessionOnly,
           session' \in [Logins -> Session \cup {NoBrowserSession}],
           granted' \in [Logins -> 0..MaxRotations], resolver' \in [Resolvers -> Resolver],
           reused' \subseteq Logins, lost' \subseteq Logins,
           \A s \in Logins : session'[s].status = session[s].status
    PROVE  SignInTypes' /\ AppliedIsRecorded' /\ AttemptInv'
<1>1. UNCHANGED <<account, profile, recorded, eventReq, eventApplied, login, callback, created>>
  BY DEF SessionOnly, SignInStill, EventsStill
<1>2. SignInTypes' /\ AppliedIsRecorded'
  BY <1>1 DEF SignInInv, SignInTypes, IdentityTypeOK, AppliedIsRecorded
<1>3. AttemptInv'
  BY <1>1 DEF SignInInv, SignInTypes, Callback, AttemptInv
<1> QED
  BY <1>2, <1>3

\* A request finds a session whose tokens are about to end.
LEMMA ResolveStep ==
    ASSUME SignInInv, NEW r \in Resolvers, NEW s \in Logins, ResolveSession(r, s)
    PROVE  SignInInv'
<1> DEFINE next == [at |-> "stale", session |-> s, token |-> session[s].token]
<1>1. /\ session[s].status = "live" /\ resolver' = [resolver EXCEPT ![r] = next]
      /\ UNCHANGED <<session, granted, reused, lost>> /\ SessionOnly
  BY DEF ResolveSession, Usable
<1>2. next \in Resolver
  BY <1>1 DEF SignInInv, SignInTypes, IdentityTypeOK, Session, NoBrowserSession, Resolver
<1>3. resolver' \in [Resolvers -> Resolver] /\ resolver'[r] = next
  BY <1>1, <1>2 DEF SignInInv, SignInTypes
<1>4. SignInTypes' /\ AppliedIsRecorded' /\ AttemptInv'
  BY <1>1, <1>3, SessionFrame DEF SignInInv, SignInTypes, IdentityTypeOK
<1>5. resolver[r] = NotResolving /\ \A q \in Resolvers \ {r} : resolver'[q] = resolver[q]
  BY <1>1 DEF ResolveSession, SignInInv, SignInTypes
<1>6. eventReq' = eventReq
  BY <1>1 DEF SessionOnly, EventsStill
<1>7. LockInv' /\ TokenInv' /\ RefreshedOnce'
  BY <1>1, <1>3, <1>5, <1>6
     DEF SignInInv, LockInv, Holds, TokenInv, RefreshedOnce, NotResolving
<1> QED
  BY <1>4, <1>7 DEF SignInInv

\* The row is locked and read again, or the refresh is not due any more.
LEMMA LockStep == ASSUME SignInInv, NEW r \in Resolvers, LockSession(r) PROVE SignInInv'
<1> DEFINE s == resolver[r].session
           next == [resolver[r] EXCEPT !.at = "refreshing", !.token = session[s].token]
<1>1. /\ resolver[r].at = "stale" /\ ~Locked(s)
      /\ UNCHANGED <<session, granted, reused, lost>> /\ SessionOnly /\ s \in Logins
      /\ resolver[r] \in Resolver
  BY DEF LockSession, SignInInv, SignInTypes, LockInv
<1>2. \/ /\ session[s].status = "live" /\ resolver' = [resolver EXCEPT ![r] = next]
         /\ next \in Resolver /\ next.at = "refreshing" /\ next.session = s
         /\ next.token = session[s].token
      \/ resolver' = [resolver EXCEPT ![r] = NotResolving]
  <2>1. CASE Usable(s) /\ RotationDue(s)
    <3>1. session[s].status = "live" /\ session[s].token \in 0..MaxRotations
      BY <1>1, <2>1 DEF Usable, SignInInv, SignInTypes, IdentityTypeOK, Session, NoBrowserSession
    <3>2. /\ next \in Resolver /\ next.at = "refreshing" /\ next.session = s
          /\ next.token = session[s].token
      BY <1>1, <3>1 DEF Resolver
    <3>3. resolver' = [resolver EXCEPT ![r] = next]
      BY <2>1 DEF LockSession, LockedTokens, SignInInv, SignInTypes
    <3> QED
      BY <3>1, <3>2, <3>3
  <2>2. CASE ~(Usable(s) /\ RotationDue(s))
    BY <2>2 DEF LockSession, Stop
  <2> QED
    BY <2>1, <2>2
<1>3. NotResolving \in Resolver
  BY IdentityAssumption DEF IdentityAssumption, NotResolving, Resolver
<1>4. resolver' \in [Resolvers -> Resolver] /\ \A q \in Resolvers \ {r} : resolver'[q] = resolver[q]
  BY <1>2, <1>3 DEF SignInInv, SignInTypes
<1> HIDE DEF next
<1>5. \/ /\ session[s].status = "live" /\ resolver'[r].at = "refreshing"
         /\ resolver'[r].session = s /\ resolver'[r].token = session[s].token
      \/ resolver'[r] = NotResolving
  BY <1>2 DEF SignInInv, SignInTypes
<1>6. SignInTypes' /\ AppliedIsRecorded' /\ AttemptInv'
  BY <1>1, <1>4, SessionFrame DEF SignInInv, SignInTypes, IdentityTypeOK
<1>7. eventReq' = eventReq
  BY <1>1 DEF SessionOnly, EventsStill
<1>8. LockInv'
  <2>1. \A q \in Resolvers : ~Holds(q, s)
    BY <1>1 DEF Locked, Holds
  <2> QED
    BY <1>1, <1>4, <1>5, <1>7, <2>1 DEF SignInInv, LockInv, Holds, NotResolving
<1>9. TokenInv' /\ RefreshedOnce'
  BY <1>1, <1>4, <1>5 DEF SignInInv, TokenInv, RefreshedOnce
<1> QED
  BY <1>6, <1>8, <1>9 DEF SignInInv

\* The request gives its lock back, whatever it leaves in the row.
LEMMA StopFrame ==
    ASSUME SignInInv, NEW r \in Resolvers, Stop(r), eventReq' = eventReq,
           \A s \in Logins : session'[s].status = session[s].status,
           \A s \in Logins : session'[s].token # session[s].token => Holds(r, s)
    PROVE  /\ resolver' \in [Resolvers -> Resolver] /\ resolver'[r] = NotResolving
           /\ \A q \in Resolvers \ {r} : resolver'[q] = resolver[q]
           /\ LockInv'
<1>1. NotResolving \in Resolver
  BY IdentityAssumption DEF IdentityAssumption, NotResolving, Resolver
<1>2. /\ resolver' \in [Resolvers -> Resolver] /\ resolver'[r] = NotResolving
      /\ \A q \in Resolvers \ {r} : resolver'[q] = resolver[q]
  BY <1>1 DEF Stop, SignInInv, SignInTypes
<1>3. eventReq \in [EventRequests -> EventReq] /\ LockInv
  BY DEF SignInInv, SignInTypes
<1>4. \A d \in EventRequests : eventReq[d].live \subseteq Logins
  BY <1>3 DEF EventReq
<1>5. \A d \in EventRequests : \A s \in eventReq'[d].live : session'[s].status # "none"
  BY <1>3, <1>4 DEF LockInv
<1>6. \A q \in Resolvers : resolver'[q].at # "idle" =>
        /\ resolver'[q].session \in Logins /\ session'[resolver'[q].session].status # "none"
  BY <1>2, <1>3 DEF LockInv, NotResolving
<1>7. \A q, p \in Resolvers, s \in Logins : Holds(q, s)' /\ Holds(p, s)' => q = p
  BY <1>2, <1>3 DEF LockInv, Holds, NotResolving
<1>8. \A q \in Resolvers, s \in Logins : Holds(q, s)' => session'[s].status = "live"
  BY <1>2, <1>3 DEF LockInv, Holds, NotResolving
<1>9. \A q \in Resolvers : resolver'[q].at = "refreshing"
        => resolver'[q].token = session'[resolver'[q].session].token
  <2> SUFFICES ASSUME NEW q \in Resolvers, resolver'[q].at = "refreshing"
               PROVE  resolver'[q].token = session'[resolver'[q].session].token
    OBVIOUS
  <2>1. q # r /\ resolver'[q] = resolver[q] /\ resolver[q].session \in Logins
    BY <1>2, <1>3 DEF LockInv, NotResolving
  <2>2. ~Holds(r, resolver[q].session)
    BY <1>3, <2>1 DEF LockInv, Holds
  <2> QED
    BY <1>3, <2>1, <2>2 DEF LockInv
<1> QED
  BY <1>2, <1>5, <1>6, <1>7, <1>8, <1>9 DEF LockInv

\* The provider rotates the token, or refuses one that was spent before.
LEMMA ProviderStep == ASSUME SignInInv, NEW r \in Resolvers, ProviderRefresh(r) PROVE SignInInv'
<1> DEFINE s == resolver[r].session
<1>1. /\ resolver[r].at = "refreshing" /\ s \in Logins /\ session[s].status = "live"
      /\ UNCHANGED <<session, lost>> /\ SessionOnly /\ resolver[r] \in Resolver
      /\ resolver[r].token = session[s].token /\ Holds(r, s)
  BY DEF ProviderRefresh, SignInInv, SignInTypes, LockInv, Holds
<1>2. eventReq' = eventReq
  BY <1>1 DEF SessionOnly, EventsStill
<1>3. \A q \in Resolvers : resolver[q].session = s /\ resolver[q].at = "rotated" => FALSE
  BY <1>1 DEF SignInInv, LockInv, Holds
<1>4. CASE resolver[r].token = granted[s]
  <2>1. /\ granted[s] < MaxRotations /\ granted' = [granted EXCEPT ![s] = @ + 1]
        /\ resolver' = [resolver EXCEPT ![r].at = "rotated"] /\ reused' = reused
    BY <1>4 DEF ProviderRefresh
  <2>2. granted' \in [Logins -> 0..MaxRotations] /\ \A k \in Logins \ {s} : granted'[k] = granted[k]
    BY <1>1, <2>1, IdentityAssumption DEF IdentityAssumption, SignInInv, SignInTypes, IdentityTypeOK
  <2>3. /\ resolver'[r].at = "rotated" /\ resolver'[r].session = s /\ resolver'[r] \in Resolver
        /\ \A q \in Resolvers \ {r} : resolver'[q] = resolver[q]
        /\ resolver' \in [Resolvers -> Resolver]
    BY <1>1, <2>1 DEF SignInInv, SignInTypes, Resolver
  <2>4. SignInTypes' /\ AppliedIsRecorded' /\ AttemptInv'
    BY <1>1, <2>1, <2>2, <2>3, SessionFrame DEF SignInInv, SignInTypes, IdentityTypeOK
  <2>5. LockInv'
    BY <1>1, <1>2, <2>3 DEF SignInInv, LockInv, Holds
  <2>6. TokenInv'
    <3> SUFFICES ASSUME NEW k \in Logins \ lost, session[k].status = "live"
                 PROVE  \/ session[k].token = granted'[k]
                        \/ \E q \in Resolvers :
                              resolver'[q].session = k /\ resolver'[q].at = "rotated"
      BY <1>1 DEF TokenInv
    <3>1. CASE k = s
      BY <2>3, <3>1
    <3>2. CASE k # s
      BY <1>1, <2>2, <2>3, <3>2 DEF SignInInv, TokenInv
    <3> QED
      BY <3>1, <3>2
  <2> QED
    BY <1>1, <2>1, <2>4, <2>5, <2>6 DEF SignInInv, RefreshedOnce
<1>5. CASE resolver[r].token # granted[s]
  <2>1. Stop(r) /\ granted' = granted /\ reused' = reused \cup {s}
    BY <1>5 DEF ProviderRefresh
  <2>2. s \in lost
    BY <1>1, <1>3, <1>5 DEF SignInInv, TokenInv
  <2>3. /\ resolver' \in [Resolvers -> Resolver] /\ resolver'[r] = NotResolving
        /\ \A q \in Resolvers \ {r} : resolver'[q] = resolver[q]
        /\ LockInv'
    BY <1>1, <1>2, <2>1, StopFrame
  <2>4. SignInTypes' /\ AppliedIsRecorded' /\ AttemptInv'
    BY <1>1, <2>1, <2>3, SessionFrame DEF SignInInv, SignInTypes, IdentityTypeOK
  <2>5. TokenInv' /\ RefreshedOnce'
    BY <1>1, <2>1, <2>2, <2>3 DEF SignInInv, TokenInv, RefreshedOnce
  <2> QED
    BY <2>3, <2>4, <2>5 DEF SignInInv
<1> QED
  BY <1>4, <1>5

\* The provider's answer is stored.
LEMMA StoreStep == ASSUME SignInInv, NEW r \in Resolvers, StoreTokens(r) PROVE SignInInv'
<1> DEFINE s == resolver[r].session
<1>1. /\ resolver[r].at = "rotated" /\ Stop(r) /\ s \in Logins /\ session[s].status = "live"
      /\ session' = [session EXCEPT ![s] = StoredTokens(s)]
      /\ UNCHANGED <<granted, reused, lost>> /\ SessionOnly /\ Holds(r, s)
  BY DEF StoreTokens, SignInInv, LockInv, Holds
<1>2. /\ session[s] \in Session /\ granted[s] \in 0..MaxRotations /\ eventReq' = eventReq
      /\ session \in [Logins -> Session \cup {NoBrowserSession}]
  BY <1>1 DEF SessionOnly, EventsStill, SignInInv, SignInTypes, IdentityTypeOK, NoBrowserSession
<1>3. /\ StoredTokens(s) \in Session /\ StoredTokens(s).status = "live"
      /\ StoredTokens(s).token = granted[s]
  BY <1>1, <1>2 DEF StoredTokens, Session
<1>4. /\ session' \in [Logins -> Session \cup {NoBrowserSession}]
      /\ session'[s] = StoredTokens(s) /\ \A k \in Logins \ {s} : session'[k] = session[k]
  BY <1>1, <1>2, <1>3
<1>5. \A k \in Logins : session'[k].status = session[k].status
  BY <1>1, <1>3, <1>4
<1>6. /\ resolver' \in [Resolvers -> Resolver] /\ resolver'[r] = NotResolving
      /\ \A q \in Resolvers \ {r} : resolver'[q] = resolver[q]
      /\ LockInv'
  BY <1>1, <1>2, <1>4, <1>5, StopFrame
<1>7. SignInTypes' /\ AppliedIsRecorded' /\ AttemptInv'
  BY <1>1, <1>4, <1>5, <1>6, SessionFrame DEF SignInInv, SignInTypes, IdentityTypeOK
<1>8. TokenInv' /\ RefreshedOnce'
  BY <1>1, <1>3, <1>4, <1>6 DEF SignInInv, TokenInv, RefreshedOnce
<1> QED
  BY <1>6, <1>7, <1>8 DEF SignInInv

\* The refresh ends with an error; after the rotation the new token is lost.
LEMMA RefreshFailsStep == ASSUME SignInInv, NEW r \in Resolvers, RefreshFails(r) PROVE SignInInv'
<1> DEFINE s == resolver[r].session
<1>1. /\ resolver[r].at \in {"refreshing", "rotated"} /\ Stop(r) /\ s \in Logins
      /\ UNCHANGED <<session, granted, reused>> /\ SessionOnly
      /\ lost' = IF resolver[r].at = "rotated" THEN lost \cup {s} ELSE lost
  BY DEF RefreshFails, SignInInv, LockInv
<1>2. eventReq' = eventReq
  BY <1>1 DEF SessionOnly, EventsStill
<1>3. /\ resolver' \in [Resolvers -> Resolver] /\ resolver'[r] = NotResolving
      /\ \A q \in Resolvers \ {r} : resolver'[q] = resolver[q]
      /\ LockInv'
  BY <1>1, <1>2, StopFrame
<1>4. SignInTypes' /\ AppliedIsRecorded' /\ AttemptInv'
  BY <1>1, <1>3, SessionFrame DEF SignInInv, SignInTypes, IdentityTypeOK
<1>5. TokenInv' /\ RefreshedOnce'
  BY <1>1, <1>3 DEF SignInInv, TokenInv, RefreshedOnce
<1> QED
  BY <1>3, <1>4, <1>5 DEF SignInInv

\* The tokens come close to their end.
LEMMA ExpireStep == ASSUME SignInInv, NEW s \in Logins, TokensExpire(s) PROVE SignInInv'
<1>1. /\ session[s].status = "live" /\ session' = [session EXCEPT ![s].fresh = FALSE]
      /\ UNCHANGED <<granted, reused, lost, resolver>> /\ SessionOnly
  BY DEF TokensExpire
<1>2. /\ session[s] \in Session /\ session \in [Logins -> Session \cup {NoBrowserSession}]
      /\ eventReq' = eventReq
  BY <1>1 DEF SessionOnly, EventsStill, SignInInv, SignInTypes, IdentityTypeOK, NoBrowserSession
<1>3. /\ session' \in [Logins -> Session \cup {NoBrowserSession}]
      /\ \A k \in Logins : /\ session'[k].status = session[k].status
                           /\ session'[k].token = session[k].token
  BY <1>1, <1>2 DEF Session
<1>4. SignInTypes' /\ AppliedIsRecorded' /\ AttemptInv'
  BY <1>1, <1>3, SessionFrame DEF SignInInv, SignInTypes, IdentityTypeOK
<1>5. LockInv'
  <2>1. eventReq \in [EventRequests -> EventReq]
    BY DEF SignInInv, SignInTypes
  <2>2. \A d \in EventRequests : eventReq[d].live \subseteq Logins
    BY <2>1 DEF EventReq
  <2> QED
    BY <1>1, <1>2, <1>3, <2>2 DEF SignInInv, LockInv, Holds
<1>6. TokenInv' /\ RefreshedOnce'
  BY <1>1, <1>3 DEF SignInInv, TokenInv, RefreshedOnce
<1> QED
  BY <1>4, <1>5, <1>6 DEF SignInInv

\* The inductive invariant of sign-in, for any number of events, attempts and requests.
THEOREM SignInInductive == IdentitySafety => []SignInInv
<1>1. SignInInv /\ [IdentityNext]_identityVars => SignInInv'
  <2> SUFFICES ASSUME SignInInv, [IdentityNext]_identityVars PROVE SignInInv'
    OBVIOUS
  <2>1. CASE UNCHANGED identityVars
    BY <2>1 DEF identityVars, SignInInv, SignInTypes, IdentityTypeOK, AppliedIsRecorded, AttemptInv,
                LockInv, Holds, TokenInv, RefreshedOnce
  <2>2. CASE IdentityNext
    BY <2>2, ReceiveStep, ApplyStep, DisableStep, AttemptStep, CallbackStep, CreateSessionStep,
       ResolveStep, LockStep, ProviderStep, StoreStep, RefreshFailsStep, ExpireStep, RevokeStep
       DEF IdentityNext
  <2> QED
    BY <2>1, <2>2
<1> QED
  BY <1>1, SignInInit, PTL DEF IdentitySafety

\* An event of the identity provider changes the user once, a login attempt makes one session, a
\* refresh token is presented again only when its answer was lost, and the stored token of a
\* session nobody refreshes is the one the provider expects (ApplyKindeIdentityEvent,
\* ConsumeOIDCLoginAttempt, LockIdentitySession), whatever is delivered, repeated or lost.
THEOREM SignInIsSound == IdentitySafety => []IdentitySound
<1>1. SignInInv => IdentitySound
  <2> SUFFICES ASSUME SignInInv PROVE IdentitySound
    OBVIOUS
  <2>1. EventAppliedOnce /\ LoginOnce /\ RefreshedOnce
    BY DEF SignInInv, AppliedIsRecorded, AttemptInv, EventAppliedOnce, LoginOnce
  <2>2. StoredTokenWorks
    BY DEF SignInInv, TokenInv, StoredTokenWorks, LiveSessions, Locked
  <2> QED
    BY <2>1, <2>2 DEF IdentitySound
<1> QED
  BY <1>1, SignInInductive, PTL

(***************************************************************************)
(* Request keys: the inductive invariant                                   *)
(***************************************************************************)
\* The row's body is what its owner asked for, and what its response answers.
LeaseHasItsBody ==
    /\ record.lease # NoRequest => record.body = bodyOf[record.lease]
    /\ record.response # NoRequest => record.body = bodyOf[record.response]

\* A row that lost its lock without completing counts a lapse for each execution.
UnlockedHasLapsed ==
    /\ executions \in Nat /\ lapses \in Nat
    /\ record.status = "processing" /\ ~record.locked => executions <= lapses

IdemInv == IdemTypeOK /\ LeaseHasItsBody /\ UnlockedHasLapsed /\ IdempotencySound

\* A row, as IdemTypeOK describes it.
IdemRow == [status: {"none", "processing", "completed"}, body: Bodies \cup {NoRequest},
        lease: IdemRequests \cup {NoRequest}, locked: BOOLEAN, expired: BOOLEAN,
        response: IdemRequests \cup {NoRequest}]

(***************************************************************************)
(* Request keys: the steps                                                 *)
(***************************************************************************)
\* No row, no request, no answer.
LEMMA IdemInvInit == IdemInit => IdemInv
BY IdemAssumption DEF IdemInit, IdemInv, IdemTypeOK, LeaseHasItsBody, UnlockedHasLapsed,
   IdempotencySound, ReplayIsTheEffect, RunsAreLeased, NoRecord, Served

\* The upsert: a new life of the row, a takeover, or nothing.
LEMMA ClaimInv == ASSUME IdemInv, NEW r \in IdemRequests, Claim(r) PROVE IdemInv'
<1>. DEFINE claimed == [NoRecord EXCEPT !.status = "processing", !.body = bodyOf[r],
                                        !.lease = r, !.locked = TRUE]
<1>1. IdemTypeOK /\ LeaseHasItsBody /\ UnlockedHasLapsed /\ ReplayIsTheEffect /\ RunsAreLeased
  BY DEF IdemInv, IdempotencySound
<1>2. /\ claimed \in IdemRow /\ claimed.status = "processing" /\ claimed.locked /\ claimed.lease = r
      /\ claimed.body = bodyOf[r] /\ claimed.response = NoRequest
  BY <1>1, IdemAssumption DEF NoRecord, IdemRow, IdemTypeOK
<1>3. bodyOf' = bodyOf /\ answerOf' = answerOf /\ idemFaults' = idemFaults
  BY DEF Claim
<1>4. /\ served' \in [IdemRequests -> Served]
      /\ \A q \in IdemRequests : served[q] = "answered" <=> served'[q] = "answered"
  BY <1>1 DEF Claim, At, IdemTypeOK, Served
<1>5. ReplayIsTheEffect'
  BY <1>1, <1>3 DEF ReplayIsTheEffect
<1>. HIDE DEF claimed
<1>6. CASE record.status = "none" \/ TakesOver(r)
  <2>1. record' = claimed
    BY <1>6 DEF Claim, claimed
  <2>2. IdemTypeOK'
    BY <1>1, <1>2, <1>3, <1>4, <2>1 DEF IdemTypeOK, IdemRow
  <2>3. LeaseHasItsBody'
    BY <1>2, <1>3, <2>1 DEF LeaseHasItsBody
  <2>4. UnlockedHasLapsed' /\ RunsAreLeased'
    BY <1>1, <1>2, <1>6, <2>1 DEF UnlockedHasLapsed, RunsAreLeased, Claim, TakesOver
  <2>. QED BY <1>5, <2>2, <2>3, <2>4 DEF IdemInv, IdempotencySound
<1>7. CASE ~(record.status = "none" \/ TakesOver(r))
  <2>1. record' = record /\ lapses' = lapses /\ executions' = executions
    BY <1>7 DEF Claim
  <2>2. IdemTypeOK'
    BY <1>1, <1>3, <1>4, <2>1 DEF IdemTypeOK
  <2>. QED BY <1>1, <1>3, <1>5, <2>1, <2>2
           DEF IdemInv, IdempotencySound, LeaseHasItsBody, UnlockedHasLapsed, RunsAreLeased
<1>. QED BY <1>6, <1>7

\* A replay answers from a completed row of the same body.
LEMMA LookupInv == ASSUME IdemInv, NEW r \in IdemRequests, Lookup(r) PROVE IdemInv'
<1>1. IdemTypeOK /\ LeaseHasItsBody /\ UnlockedHasLapsed /\ ReplayIsTheEffect /\ RunsAreLeased
  BY DEF IdemInv, IdempotencySound
<1>2. UNCHANGED <<bodyOf, record, lapses, executions, idemFaults>>
  BY DEF Lookup
<1>3. \/ /\ answerOf' = answerOf
         /\ \E at \in {"unavailable", "conflict", "in_progress"} : At(r, at)
      \/ /\ record.status = "completed" /\ SameRequest(r) /\ At(r, "answered")
         /\ answerOf' = [answerOf EXCEPT ![r] = record.response]
  BY <1>1 DEF Lookup, IdemTypeOK
<1>4. served[r] = "lookup"
  BY DEF Lookup
<1>5. IdemTypeOK'
  <2>1. served' \in [IdemRequests -> Served] /\ answerOf' \in [IdemRequests -> IdemRequests \cup {NoRequest}]
    BY <1>1, <1>3 DEF At, IdemTypeOK, Served
  <2>2. \A q \in IdemRequests : answerOf'[q] # NoRequest <=> served'[q] = "answered"
    BY <1>1, <1>3, <1>4 DEF At, IdemTypeOK
  <2>. QED BY <1>1, <1>2, <2>1, <2>2 DEF IdemTypeOK
<1>6. ReplayIsTheEffect'
  BY <1>1, <1>2, <1>3 DEF IdemTypeOK, ReplayIsTheEffect, LeaseHasItsBody, SameRequest
<1>. QED BY <1>1, <1>2, <1>5, <1>6
         DEF IdemInv, IdempotencySound, LeaseHasItsBody, UnlockedHasLapsed, RunsAreLeased

\* Only a request with its own lease stores its response; each writes its own.
LEMMA CompleteInv ==
    ASSUME IdemInv, NEW r \in IdemRequests, NEW cancelled \in BOOLEAN, Complete(r, cancelled)
    PROVE  IdemInv'
<1>. DEFINE done == [record EXCEPT !.status = "completed", !.response = r, !.locked = FALSE]
<1>1. IdemTypeOK /\ LeaseHasItsBody /\ UnlockedHasLapsed /\ ReplayIsTheEffect /\ RunsAreLeased
  BY DEF IdemInv, IdempotencySound
<1>2. done \in IdemRow /\ done.status = "completed" /\ done.response = r /\ done.lease = record.lease
      /\ done.body = record.body
  BY <1>1 DEF IdemTypeOK, IdemRow
<1>3. UNCHANGED <<bodyOf, lapses, executions>> /\ idemFaults' \in 0..IdemFaults
  BY <1>1, IdemAssumption DEF Complete, IdemFault, IdemTypeOK
<1>4. /\ served' \in [IdemRequests -> Served]
      /\ answerOf' \in [IdemRequests -> IdemRequests \cup {NoRequest}]
      /\ \A q \in IdemRequests : answerOf'[q] # NoRequest <=> served'[q] = "answered"
  BY <1>1, IdemAssumption DEF Complete, At, IdemTypeOK, Served
<1>5. ReplayIsTheEffect'
  BY <1>1, <1>3 DEF Complete, IdemTypeOK, ReplayIsTheEffect
<1>6. (OwnLease(r) /\ record' = done) \/ record' = record
  BY DEF Complete
<1>. HIDE DEF done
<1>7. CASE OwnLease(r) /\ record' = done
  <2>1. IdemTypeOK'
    BY <1>1, <1>2, <1>3, <1>4, <1>7, IdemAssumption DEF IdemTypeOK, IdemRow
  <2>2. LeaseHasItsBody'
    BY <1>1, <1>2, <1>3, <1>7 DEF LeaseHasItsBody, OwnLease
  <2>3. UnlockedHasLapsed' /\ RunsAreLeased'
    BY <1>1, <1>2, <1>3, <1>7 DEF UnlockedHasLapsed, RunsAreLeased, OwnLease
  <2>. QED BY <1>5, <2>1, <2>2, <2>3 DEF IdemInv, IdempotencySound
<1>8. CASE record' = record
  <2>1. IdemTypeOK'
    BY <1>1, <1>3, <1>4, <1>8 DEF IdemTypeOK
  <2>. QED BY <1>1, <1>3, <1>5, <1>8, <2>1
           DEF IdemInv, IdempotencySound, LeaseHasItsBody, UnlockedHasLapsed, RunsAreLeased
<1>. QED BY <1>6, <1>7, <1>8

\* A step that only moves a request on and answers nothing.
LEMMA MovedOnInv ==
    ASSUME IdemInv, NEW r \in IdemRequests, Handle(r) \/ RequestDies(r)
    PROVE  IdemInv'
<1>1. IdemTypeOK'
  BY IdemAssumption DEF IdemInv, IdemTypeOK, Served, Handle, RequestDies, At, IdemFault
<1>. QED BY <1>1 DEF IdemInv, IdempotencySound, LeaseHasItsBody, UnlockedHasLapsed, RunsAreLeased,
            ReplayIsTheEffect, Handle, RequestDies

\* Time and the cleanup: each lock that runs out is counted.
LEMMA TimeInv ==
    ASSUME IdemInv, LockLapses \/ RecordExpires \/ DeleteExpired
    PROVE  IdemInv'
<1>1. IdemTypeOK /\ LeaseHasItsBody /\ UnlockedHasLapsed /\ ReplayIsTheEffect /\ RunsAreLeased
  BY DEF IdemInv, IdempotencySound
<1>2. UNCHANGED <<bodyOf, served, answerOf, executions>>
  BY DEF LockLapses, RecordExpires, DeleteExpired
<1>3. idemFaults' \in 0..IdemFaults
  BY <1>1, IdemAssumption DEF LockLapses, RecordExpires, DeleteExpired, IdemFault, IdemTypeOK
<1>4. CASE LockLapses
  <2>1. /\ record' \in IdemRow /\ record'.status = record.status /\ record'.body = record.body
        /\ record'.lease = record.lease /\ record'.response = record.response
    BY <1>1, <1>4 DEF LockLapses, IdemTypeOK, IdemRow
  <2>2. lapses' = lapses + 1 /\ record.status = "processing"
    BY <1>4 DEF LockLapses
  <2>3. IdemTypeOK'
    BY <1>1, <1>2, <1>3, <2>1 DEF IdemTypeOK, IdemRow
  <2>4. LeaseHasItsBody' /\ ReplayIsTheEffect'
    BY <1>1, <1>2, <2>1 DEF LeaseHasItsBody, ReplayIsTheEffect
  <2>5. UnlockedHasLapsed' /\ RunsAreLeased'
    BY <1>1, <1>2, <2>1, <2>2 DEF UnlockedHasLapsed, RunsAreLeased
  <2>. QED BY <2>3, <2>4, <2>5 DEF IdemInv, IdempotencySound
<1>5. CASE RecordExpires
  <2>1. /\ record' \in IdemRow /\ record'.status = record.status /\ record'.body = record.body
        /\ record'.lease = record.lease /\ record'.response = record.response
        /\ record'.locked = record.locked
    BY <1>1, <1>5 DEF RecordExpires, IdemTypeOK, IdemRow
  <2>2. IdemTypeOK'
    BY <1>1, <1>2, <1>3, <2>1 DEF IdemTypeOK, IdemRow
  <2>. QED BY <1>1, <1>2, <1>5, <2>1, <2>2
           DEF IdemInv, IdempotencySound, LeaseHasItsBody, UnlockedHasLapsed, RunsAreLeased,
               ReplayIsTheEffect, RecordExpires
<1>6. CASE DeleteExpired
  <2>1. /\ record' \in IdemRow /\ record'.status = "none" /\ record'.lease = NoRequest
        /\ record'.response = NoRequest
    BY <1>6 DEF DeleteExpired, NoRecord, IdemRow
  <2>2. IdemTypeOK'
    BY <1>1, <1>2, <1>3, <2>1 DEF IdemTypeOK, IdemRow
  <2>. QED BY <1>1, <1>2, <1>6, <2>1, <2>2
           DEF IdemInv, IdempotencySound, LeaseHasItsBody, UnlockedHasLapsed, RunsAreLeased,
               ReplayIsTheEffect, DeleteExpired
<1>. QED BY <1>4, <1>5, <1>6

(***************************************************************************)
(* Theorems                                                                *)
(***************************************************************************)
\* The invariant is established and kept by every step.
THEOREM IdempotencyInductive == IdemSpec => []IdemInv
<1>1. IdemInv /\ [IdemNext]_idemVars => IdemInv'
  <2>. SUFFICES ASSUME IdemInv, [IdemNext]_idemVars PROVE IdemInv'
    OBVIOUS
  <2>1. CASE UNCHANGED idemVars
    BY <2>1 DEF idemVars, IdemInv, IdemTypeOK, IdempotencySound, LeaseHasItsBody, UnlockedHasLapsed,
       RunsAreLeased, ReplayIsTheEffect
  <2>2. CASE IdemNext
    BY <2>2, ClaimInv, LookupInv, CompleteInv, MovedOnInv, TimeInv DEF IdemNext
  <2>. QED BY <2>1, <2>2
<1>. QED BY <1>1, IdemInvInit, PTL DEF IdemSpec

\* A client never gets the response of another request's body, and the handler runs again under
\* a key only after a lock that ran out, however claims, replays, crashes and the cleanup
\* interleave (Service.Claim, Service.Complete).
THEOREM IdempotencyIsSound == IdemSpec => []IdempotencySound
<1>1. IdemInv => IdempotencySound
  BY DEF IdemInv
<1>. QED BY <1>1, IdempotencyInductive, PTL

(***************************************************************************)
(* Trunks, endpoints and numbers                                           *)
(***************************************************************************)
\* The administration of the trunks, without its fairness.
TrunksSafety == TrunksInit /\ [][TrunksNext]_trunksVars

\* A row of the tables, or none; endpoints count their failures.
TrunksTypes ==
    /\ trunk \in [TrunkIds -> TrunkRow \cup {Absent}]
    /\ sipEndpoint \in [EndpointIds -> SipEndpointRow \cup {Absent}]
    /\ number \in [PhoneRows -> NumberRow \cup {Absent}]
    /\ request \in [Administrators -> TrunkRequest]
    /\ disables \in [TrunkIds -> Nat \X Nat]

\* A creation names a trunk that does not exist, and that no other creation names.
Creating(q) == request[q].at \in {"locking", "inserting"}
CreationInv ==
    /\ \A q \in Administrators : Creating(q) => request[q].trunk \in TrunkIds /\ ~Trunk(request[q].trunk)
    /\ \A p, q \in Administrators :
          Creating(p) /\ Creating(q) /\ request[p].trunk = request[q].trunk => p = q
    /\ \A q \in Administrators : request[q].at = "disabling" => request[q].trunk \in TrunkIds

\* One creation at a time is past the count, and the count still has room for it.
TrunkRows == {t \in TrunkIds : Trunk(t)}
CapacityInv ==
    /\ \A q \in Administrators : request[q].at = "inserting" <=> q \in orgLock
    /\ orgLock \subseteq Administrators
    /\ \A p, q \in orgLock : p = q
    /\ IsFiniteSet(TrunkRows) /\ TrunkCount <= PlanTrunks
    /\ orgLock # {} => TrunkCount < PlanTrunks

\* Two active rows never have the same number.
NumberInv ==
    \A n, m \in PhoneRows :
        /\ Number(n) /\ Number(m) /\ number[n].status = "active" /\ number[m].status = "active"
        /\ number[n].number = number[m].number
        => n = m

TrunkInv ==
    /\ TrunksTypes /\ CreationInv /\ CapacityInv /\ NumberInv
    /\ CredentialsMatch /\ DisableAnnouncedOnce /\ UnhealthyIsGrounded

\* The rows are told from the missing row by their status.
LEMMA RowFacts ==
    /\ \A row \in TrunkRow : row # Absent /\ row.status \in {"active", "disabled"}
    /\ \A row \in SipEndpointRow : row # Absent
    /\ \A row \in NumberRow : row # Absent
    /\ DefaultTrunk \in TrunkRow
<1>1. Absent.status = "absent"
  BY DEF Absent
<1>2. \A row \in TrunkRow : row.status \in {"active", "disabled"}
  BY DEF TrunkRow
<1>3. \A row \in SipEndpointRow : row.status \in {"enabled", "disabled"}
  BY DEF SipEndpointRow
<1>4. \A row \in NumberRow : row.status \in {"active", "released"}
  BY DEF NumberRow
<1>5. DefaultTrunk \in TrunkRow
  BY DEF DefaultTrunk, TrunkRow, Directions
<1> QED
  BY <1>1, <1>2, <1>3, <1>4, <1>5

\* An update keeps the row a row, and its methods.
LEMMA UpdatedRow ==
    ASSUME NEW row \in TrunkRow, NEW req \in UpdateRequests
    PROVE  /\ UpdatedTrunk(row, req) \in TrunkRow
           /\ UpdatedTrunk(row, req).outbound = row.outbound
           /\ UpdatedTrunk(row, req).inbound = row.inbound
<1>1. DOMAIN row = {"status", "direction", "inboundEnabled", "outbound", "inbound"}
  BY DEF TrunkRow
<1>2. /\ DOMAIN req \subseteq {"status", "direction", "inboundEnabled"}
      /\ ("status" \in DOMAIN req => req.status \in {"active", "disabled"})
      /\ ("direction" \in DOMAIN req => req.direction \in Directions)
      /\ ("inboundEnabled" \in DOMAIN req => req.inboundEnabled \in BOOLEAN)
  BY DEF UpdateRequests
<1> DEFINE new == [c \in DOMAIN row |-> IF c \in DOMAIN req THEN req[c] ELSE row[c]]
<1>3. /\ new["outbound"] = row["outbound"] /\ new["inbound"] = row["inbound"]
      /\ new["status"] \in {"active", "disabled"} /\ new["direction"] \in Directions
      /\ new["inboundEnabled"] \in BOOLEAN
  BY <1>1, <1>2 DEF TrunkRow
<1>4. new = [status |-> new["status"], direction |-> new["direction"],
             inboundEnabled |-> new["inboundEnabled"], outbound |-> new["outbound"],
             inbound |-> new["inbound"]]
  BY <1>1
<1>5. new \in TrunkRow
  BY <1>3, <1>4 DEF TrunkRow
<1> QED
  BY <1>3, <1>5 DEF UpdatedTrunk

\* The organisation's provisioned trunks.
LEMMA TrunksStart == TrunksInit => TrunkInv
<1> SUFFICES ASSUME TrunksInit PROVE TrunkInv
  OBVIOUS
<1> USE TrunksAssumption DEF TrunksAssumption
<1>1. trunk \in [TrunkIds -> TrunkRow \cup {Absent}]
  BY RowFacts DEF TrunksInit
<1>2. request \in [Administrators -> TrunkRequest] /\ \A q \in Administrators : request[q].at = "idle"
  BY DEF TrunksInit, TrunkRequest, NoTrunkRequest
<1>3. TrunksTypes
  <2>1. disables \in [TrunkIds -> Nat \X Nat]
    BY DEF TrunksInit
  <2>2. /\ sipEndpoint \in [EndpointIds -> SipEndpointRow \cup {Absent}]
        /\ number \in [PhoneRows -> NumberRow \cup {Absent}]
    BY DEF TrunksInit
  <2> QED
    BY <1>1, <1>2, <2>1, <2>2 DEF TrunksTypes
<1>4. CreationInv
  BY <1>2 DEF CreationInv, Creating
<1>5. CapacityInv
  <2>1. TrunkRows = Provisioned
    BY RowFacts DEF TrunksInit, TrunkRows, Trunk
  <2>2. TrunkCount = Cardinality(Provisioned)
    BY <2>1 DEF TrunkCount, TrunkRows
  <2>3. orgLock = {}
    BY DEF TrunksInit
  <2> QED
    BY <1>2, <2>1, <2>2, <2>3 DEF CapacityInv
<1>6. NumberInv /\ UnhealthyIsGrounded
  BY DEF TrunksInit, NumberInv, Number, UnhealthyIsGrounded, Endpoint
<1>7. CredentialsMatch
  <2>1. \A t \in TrunkIds : Trunk(t) => trunk[t].outbound = "none" /\ trunk[t].inbound = "ip"
    BY DEF TrunksInit, Trunk, DefaultTrunk
  <2>2. sipCredential = {}
    BY DEF TrunksInit
  <2> QED
    BY <2>1, <2>2 DEF CredentialsMatch
<1>8. DisableAnnouncedOnce
  BY DEF TrunksInit, DisableAnnouncedOnce
<1> QED
  BY <1>3, <1>4, <1>5, <1>6, <1>7, <1>8 DEF TrunkInv

\* Only endpoints, numbers and what the probes know change.
LEMMA RowsFrame ==
    ASSUME TrunkInv, UNCHANGED <<trunk, sipCredential, request, orgLock, disables>>,
           sipEndpoint' \in [EndpointIds -> SipEndpointRow \cup {Absent}],
           number' \in [PhoneRows -> NumberRow \cup {Absent}],
           NumberInv', UnhealthyIsGrounded'
    PROVE  TrunkInv'
<1>1. TrunksTypes'
  BY DEF TrunkInv, TrunksTypes
<1>2. CreationInv' /\ CapacityInv' /\ CredentialsMatch' /\ DisableAnnouncedOnce'
  BY DEF TrunkInv, CreationInv, Creating, CapacityInv, TrunkRows, TrunkCount, Trunk, CredentialsMatch,
         DisableAnnouncedOnce
<1> QED
  BY <1>1, <1>2 DEF TrunkInv

(***************************************************************************)
(* Creations                                                               *)
(***************************************************************************)
\* A request begins.
LEMMA BeginStep ==
    ASSUME TrunkInv, NEW q \in Administrators, NEW t \in TrunkIds, BeginCreate(q, t) \/ ReadForDelete(q, t)
    PROVE  TrunkInv'
<1>1. /\ request[q] = NoTrunkRequest
      /\ \/ /\ request' = [request EXCEPT ![q] = [at |-> "locking", trunk |-> t]]
            /\ ~Trunk(t) /\ \A other \in Administrators : request[other].trunk # t
         \/ request' = [request EXCEPT ![q] = [at |-> "disabling", trunk |-> t]]
      /\ UNCHANGED <<trunk, sipCredential, sipEndpoint, number, orgLock, disables>>
  BY DEF BeginCreate, ReadForDelete
<1>2. PICK new \in TrunkRequest :
         /\ request' = [request EXCEPT ![q] = new] /\ new.trunk = t
         /\ \/ new.at = "locking" /\ ~Trunk(t) /\ \A other \in Administrators : request[other].trunk # t
            \/ new.at = "disabling"
  <2>1. \A at \in {"locking", "disabling"} : [at |-> at, trunk |-> t] \in TrunkRequest
    BY DEF TrunkRequest
  <2> QED
    BY <1>1, <2>1
<1>3. /\ request' \in [Administrators -> TrunkRequest] /\ request'[q] = new
      /\ \A p \in Administrators \ {q} : request'[p] = request[p]
  BY <1>2 DEF TrunkInv, TrunksTypes
<1>4. TrunksTypes'
  BY <1>1, <1>3 DEF TrunkInv, TrunksTypes
<1>5. CreationInv'
  <2>1. \A p \in Administrators \ {q} : Creating(p)' <=> Creating(p)
    BY <1>3 DEF Creating
  <2>2. Creating(q)' => new.at = "locking"
    BY <1>2, <1>3 DEF Creating
  <2>3. \A p \in Administrators : Creating(p)' => request'[p].trunk \in TrunkIds /\ trunk'[request'[p].trunk] = Absent
    BY <1>1, <1>2, <1>3, <2>1, <2>2 DEF TrunkInv, CreationInv, Trunk
  <2>4. \A o, p \in Administrators :
          Creating(o)' /\ Creating(p)' /\ request'[o].trunk = request'[p].trunk => o = p
    BY <1>2, <1>3, <2>1, <2>2 DEF TrunkInv, CreationInv
  <2>5. \A p \in Administrators : request'[p].at = "disabling" => request'[p].trunk \in TrunkIds
    BY <1>2, <1>3 DEF TrunkInv, CreationInv
  <2> QED
    BY <2>3, <2>4, <2>5 DEF CreationInv, Trunk
<1>6. CapacityInv'
  <2>1. request[q].at # "inserting"
    BY <1>1 DEF NoTrunkRequest
  <2>2. \A p \in Administrators : request'[p].at = "inserting" <=> p \in orgLock
    BY <1>2, <1>3, <2>1 DEF TrunkInv, CapacityInv
  <2> QED
    BY <1>1, <2>2 DEF TrunkInv, CapacityInv, TrunkRows, TrunkCount, Trunk
<1>7. NumberInv' /\ CredentialsMatch' /\ DisableAnnouncedOnce' /\ UnhealthyIsGrounded'
  BY <1>1 DEF TrunkInv, NumberInv, Number, CredentialsMatch, Trunk, DisableAnnouncedOnce,
              UnhealthyIsGrounded, Endpoint
<1> QED
  BY <1>4, <1>5, <1>6, <1>7 DEF TrunkInv

\* A creation has the organisation's row to itself when it counts.
LEMMA OrgLockStep == ASSUME TrunkInv, NEW q \in Administrators, LockAndCheckCapacity(q) PROVE TrunkInv'
<1>1. /\ request[q].at = "locking" /\ orgLock = {}
      /\ \/ /\ request' = [request EXCEPT ![q] = NoTrunkRequest] /\ orgLock' = orgLock
         \/ /\ request' = [request EXCEPT ![q].at = "inserting"] /\ orgLock' = {q}
            /\ ~(TrunkCount >= PlanTrunks)
      /\ UNCHANGED <<trunk, sipCredential, sipEndpoint, number, disables>>
  BY DEF LockAndCheckCapacity, MayLock
<1>2. PICK new \in TrunkRequest :
         /\ request' = [request EXCEPT ![q] = new]
         /\ \/ new.at = "idle" /\ orgLock' = {}
            \/ /\ new.at = "inserting" /\ new.trunk = request[q].trunk /\ orgLock' = {q}
               /\ ~(TrunkCount >= PlanTrunks)
  <2>1. request[q] \in TrunkRequest
    BY DEF TrunkInv, TrunksTypes
  <2>2. NoTrunkRequest \in TrunkRequest /\ NoTrunkRequest.at = "idle"
    BY DEF NoTrunkRequest, TrunkRequest
  <2>3. /\ [request[q] EXCEPT !.at = "inserting"] \in TrunkRequest
        /\ [request[q] EXCEPT !.at = "inserting"].at = "inserting"
        /\ [request[q] EXCEPT !.at = "inserting"].trunk = request[q].trunk
    BY <2>1 DEF TrunkRequest
  <2> QED
    BY <1>1, <2>2, <2>3
<1>3. /\ request' \in [Administrators -> TrunkRequest] /\ request'[q] = new
      /\ \A p \in Administrators \ {q} : request'[p] = request[p]
  BY <1>2 DEF TrunkInv, TrunksTypes
<1>4. TrunksTypes'
  BY <1>1, <1>3 DEF TrunkInv, TrunksTypes
<1>5. CreationInv'
  <2>1. \A p \in Administrators : Creating(p)' => Creating(p) /\ request'[p].trunk = request[p].trunk
    BY <1>1, <1>2, <1>3 DEF Creating
  <2>2. \A p \in Administrators : request'[p].at = "disabling" => request'[p] = request[p]
    BY <1>2, <1>3
  <2> QED
    BY <1>1, <2>1, <2>2 DEF TrunkInv, CreationInv, Trunk
<1>6. CapacityInv'
  <2>1. \A p \in Administrators : request'[p].at = "inserting" <=> p \in orgLock'
    BY <1>1, <1>2, <1>3 DEF TrunkInv, CapacityInv
  <2>2. TrunkRows' = TrunkRows /\ TrunkCount' = TrunkCount
    BY <1>1 DEF TrunkRows, TrunkCount, Trunk
  <2>3. IsFiniteSet(TrunkRows) /\ TrunkCount = Cardinality(TrunkRows) /\ TrunkCount <= PlanTrunks
    BY DEF TrunkInv, CapacityInv, TrunkRows, TrunkCount
  <2>4. TrunkCount \in Nat
    BY <2>3, FS_CardinalityType
  <2>5. orgLock' # {} => TrunkCount < PlanTrunks
    BY <1>2, <2>4, TrunksAssumption DEF TrunksAssumption
  <2> QED
    BY <1>1, <1>2, <2>1, <2>2, <2>3, <2>5 DEF CapacityInv
<1>7. NumberInv' /\ CredentialsMatch' /\ DisableAnnouncedOnce' /\ UnhealthyIsGrounded'
  BY <1>1 DEF TrunkInv, NumberInv, Number, CredentialsMatch, Trunk, DisableAnnouncedOnce,
              UnhealthyIsGrounded, Endpoint
<1> QED
  BY <1>4, <1>5, <1>6, <1>7 DEF TrunkInv

\* The digest credentials of a row.
MatchedRow(t) ==
    {d \in {"inbound", "outbound"} : <<t, d>> \in sipCredential} =
        (IF ~Trunk(t) THEN {} ELSE
            (IF trunk[t].outbound = "digest" THEN {"outbound"} ELSE {})
            \cup (IF trunk[t].inbound = "digest" THEN {"inbound"} ELSE {}))

\* A creation inserts its row, for which the count left room, and the row's credentials; or nothing.
LEMMA CommitStep == ASSUME TrunkInv, NEW q \in Administrators, CommitCreate(q) PROVE TrunkInv'
<1> DEFINE t == request[q].trunk
<1>1. /\ request[q].at = "inserting"
      /\ \/ \E row \in TrunkRow :
               /\ trunk' = [trunk EXCEPT ![t] = row]
               /\ sipCredential' = sipCredential \cup CredentialsOf(t, row)
         \/ UNCHANGED <<trunk, sipCredential>>
      /\ request' = [request EXCEPT ![q] = NoTrunkRequest] /\ orgLock' = orgLock \ {q}
      /\ UNCHANGED <<sipEndpoint, number, disables>>
  BY DEF CommitCreate, CreateRequests
<1>2. NoTrunkRequest \in TrunkRequest /\ NoTrunkRequest.at = "idle"
  BY DEF NoTrunkRequest, TrunkRequest
<1>3. /\ request' \in [Administrators -> TrunkRequest] /\ request'[q].at = "idle"
      /\ \A p \in Administrators \ {q} : request'[p] = request[p]
  BY <1>1, <1>2 DEF TrunkInv, TrunksTypes
<1>4. Creating(q) /\ t \in TrunkIds /\ ~Trunk(t) /\ q \in orgLock
  BY <1>1 DEF Creating, TrunkInv, CreationInv, CapacityInv
<1>5. /\ trunk' \in [TrunkIds -> TrunkRow \cup {Absent}]
      /\ \A u \in TrunkIds \ {t} : trunk'[u] = trunk[u]
  BY <1>1 DEF TrunkInv, TrunksTypes
<1>6. TrunksTypes'
  BY <1>1, <1>3, <1>5 DEF TrunkInv, TrunksTypes
<1>7. CreationInv'
  <2>1. \A p \in Administrators : Creating(p)' => Creating(p) /\ p # q /\ request'[p] = request[p]
    BY <1>3 DEF Creating
  <2>2. \A p \in Administrators : Creating(p)' => request[p].trunk \in TrunkIds \ {t} /\ ~Trunk(request[p].trunk)
    BY <1>4, <2>1 DEF TrunkInv, CreationInv
  <2>3. \A p \in Administrators : request'[p].at = "disabling" => request'[p] = request[p]
    BY <1>3
  <2> QED
    BY <1>5, <2>1, <2>2, <2>3 DEF TrunkInv, CreationInv, Trunk
<1>8. CapacityInv'
  <2>1. orgLock' = {}
    BY <1>1, <1>4 DEF TrunkInv, CapacityInv
  <2>2. \A p \in Administrators : request'[p].at # "inserting"
    BY <1>3, <1>4 DEF TrunkInv, CapacityInv
  <2>3. /\ IsFiniteSet(TrunkRows) /\ TrunkCount = Cardinality(TrunkRows) /\ TrunkCount < PlanTrunks
        /\ t \notin TrunkRows
    BY <1>4 DEF TrunkInv, CapacityInv, TrunkRows, TrunkCount
  <2>4. TrunkRows' = TrunkRows \/ TrunkRows' = TrunkRows \cup {t}
    BY <1>4, <1>5 DEF TrunkRows, Trunk
  <2>5. Cardinality(TrunkRows) \in Nat /\ IsFiniteSet(TrunkRows \cup {t})
        /\ Cardinality(TrunkRows \cup {t}) = Cardinality(TrunkRows) + 1
    BY <2>3, FS_CardinalityType, FS_AddElement
  <2>6. IsFiniteSet(TrunkRows)' /\ Cardinality(TrunkRows)' <= PlanTrunks
    BY <2>3, <2>4, <2>5, TrunksAssumption DEF TrunksAssumption
  <2> QED
    BY <2>1, <2>2, <2>6 DEF CapacityInv, TrunkCount, TrunkRows
<1>9. CredentialsMatch'
  <2>1. \A u \in TrunkIds : MatchedRow(u)
    BY DEF TrunkInv, CredentialsMatch, MatchedRow
  <2>2. CASE UNCHANGED <<trunk, sipCredential>>
    BY <2>1, <2>2 DEF MatchedRow, CredentialsMatch, Trunk
  <2>3. ASSUME NEW row \in TrunkRow, trunk' = [trunk EXCEPT ![t] = row],
               sipCredential' = sipCredential \cup CredentialsOf(t, row)
        PROVE  CredentialsMatch'
    <3>1. \A d \in {"inbound", "outbound"} : <<t, d>> \notin sipCredential
      BY <1>4, <2>1 DEF MatchedRow
    <3>2. trunk'[t] = row /\ row # Absent
      BY <1>4, <2>3, RowFacts DEF TrunkInv, TrunksTypes
    <3>3. \A d \in {"inbound", "outbound"} : <<t, d>> \in sipCredential' <=>
             \/ d = "outbound" /\ row.outbound = "digest"
             \/ d = "inbound" /\ row.inbound = "digest"
      BY <2>3, <3>1 DEF CredentialsOf
    <3>4. {d \in {"inbound", "outbound"} : <<t, d>> \in sipCredential'} =
             (IF row.outbound = "digest" THEN {"outbound"} ELSE {})
             \cup (IF row.inbound = "digest" THEN {"inbound"} ELSE {})
      BY <3>3
    <3>5. \A u \in TrunkIds \ {t}, d \in {"inbound", "outbound"} :
             <<u, d>> \in sipCredential' <=> <<u, d>> \in sipCredential
      BY <2>3 DEF CredentialsOf
    <3>6. \A u \in TrunkIds \ {t} : MatchedRow(u)'
      BY <1>5, <2>1, <3>5 DEF MatchedRow, Trunk
    <3>7. ASSUME NEW u \in TrunkIds, u = t PROVE MatchedRow(u)'
      BY <3>2, <3>4, <3>7 DEF MatchedRow, Trunk
    <3>8. \A u \in TrunkIds : MatchedRow(u)'
      BY <3>6, <3>7
    <3> QED
      BY <3>8 DEF MatchedRow, CredentialsMatch
  <2> QED
    BY <1>1, <2>2, <2>3
<1>10. NumberInv' /\ DisableAnnouncedOnce' /\ UnhealthyIsGrounded'
  BY <1>1 DEF TrunkInv, NumberInv, Number, DisableAnnouncedOnce, UnhealthyIsGrounded, Endpoint
<1> QED
  BY <1>6, <1>7, <1>8, <1>9, <1>10 DEF TrunkInv

(***************************************************************************)
(* Trunks that exist                                                       *)
(***************************************************************************)
\* A row is changed, by a deletion that was under way or by a request of one statement; its
\* credentials go with it.
LEMMA ChangedRow ==
    ASSUME TrunkInv, NEW t \in TrunkIds, Trunk(t), NEW row \in TrunkRow,
           trunk' = [trunk EXCEPT ![t] = row],
           \A u \in TrunkIds \ {t}, d \in {"inbound", "outbound"} :
               <<u, d>> \in sipCredential' <=> <<u, d>> \in sipCredential,
           MatchedRow(t)',
           UNCHANGED <<sipEndpoint, number, orgLock>>,
           request' = request
              \/ \E q \in Administrators :
                    request[q].at = "disabling" /\ request' = [request EXCEPT ![q] = NoTrunkRequest],
           disables' \in [TrunkIds -> Nat \X Nat], DisableAnnouncedOnce'
    PROVE  TrunkInv'
<1>1. /\ trunk' \in [TrunkIds -> TrunkRow \cup {Absent}] /\ trunk'[t] # Absent
      /\ \A u \in TrunkIds \ {t} : trunk'[u] = trunk[u]
  BY RowFacts DEF TrunkInv, TrunksTypes
<1>2. \A u \in TrunkIds : Trunk(u)' <=> Trunk(u)
  BY <1>1 DEF Trunk
<1>3. /\ request' \in [Administrators -> TrunkRequest]
      /\ \A p \in Administrators : request'[p].at # "idle" => request'[p] = request[p]
      /\ \A p \in Administrators : request'[p].at = "inserting" <=> request[p].at = "inserting"
  <2>1. request \in [Administrators -> TrunkRequest]
    BY DEF TrunkInv, TrunksTypes
  <2>2. NoTrunkRequest \in TrunkRequest /\ NoTrunkRequest.at = "idle"
    BY DEF NoTrunkRequest, TrunkRequest
  <2>3. CASE request' = request
    BY <2>1, <2>3
  <2>4. ASSUME NEW q \in Administrators, request[q].at = "disabling",
               request' = [request EXCEPT ![q] = NoTrunkRequest]
        PROVE  /\ request' \in [Administrators -> TrunkRequest] /\ request'[q].at = "idle"
               /\ \A p \in Administrators \ {q} : request'[p] = request[p]
    BY <2>1, <2>2, <2>4
  <2> QED
    BY <2>1, <2>3, <2>4
<1>4. TrunksTypes'
  BY <1>1, <1>3 DEF TrunkInv, TrunksTypes
<1>5. CreationInv'
  <2>1. \A p \in Administrators : Creating(p)' => Creating(p) /\ request'[p] = request[p]
    BY <1>3 DEF Creating
  <2>2. \A p \in Administrators : Creating(p)' => request'[p].trunk \in TrunkIds /\ trunk'[request'[p].trunk] = Absent
    BY <1>1, <2>1 DEF TrunkInv, CreationInv, Trunk
  <2>3. \A p \in Administrators : request'[p].at = "disabling" => request'[p] = request[p]
    BY <1>3
  <2> QED
    BY <2>1, <2>2, <2>3 DEF TrunkInv, CreationInv, Trunk
<1>6. CapacityInv'
  <2>1. TrunkRows' = TrunkRows /\ TrunkCount' = TrunkCount
    BY <1>2 DEF TrunkRows, TrunkCount
  <2> QED
    BY <1>3, <2>1 DEF TrunkInv, CapacityInv
<1>7. CredentialsMatch'
  <2>1. \A u \in TrunkIds \ {t} : MatchedRow(u)'
    BY <1>1 DEF TrunkInv, CredentialsMatch, MatchedRow, Trunk
  <2>2. \A u \in TrunkIds : MatchedRow(u)'
    <3>1. ASSUME NEW u \in TrunkIds, u = t PROVE MatchedRow(u)'
      BY <3>1 DEF MatchedRow, Trunk
    <3> QED
      BY <2>1, <3>1
  <2> QED
    BY <2>2 DEF MatchedRow, CredentialsMatch
<1>8. NumberInv' /\ UnhealthyIsGrounded'
  BY DEF TrunkInv, NumberInv, Number, UnhealthyIsGrounded, Endpoint
<1> QED
  BY <1>4, <1>5, <1>6, <1>7, <1>8 DEF TrunkInv

\* An update keeps the methods, and so the credentials.
LEMMA UpdateStep == ASSUME TrunkInv, NEW t \in TrunkIds, UpdateTrunk(t) PROVE TrunkInv'
<1>1. PICK req \in UpdateRequests : trunk' = [trunk EXCEPT ![t] = UpdatedTrunk(trunk[t], req)]
  BY DEF UpdateTrunk
<1>2. /\ Trunk(t) /\ UNCHANGED <<sipCredential, sipEndpoint, number, request, orgLock, disables>>
  BY DEF UpdateTrunk, RowsOnly
<1>3. trunk[t] \in TrunkRow /\ trunk \in [TrunkIds -> TrunkRow \cup {Absent}]
  BY <1>2 DEF TrunkInv, TrunksTypes, Trunk
<1> DEFINE row == UpdatedTrunk(trunk[t], req)
<1>4. row \in TrunkRow /\ row.outbound = trunk[t].outbound /\ row.inbound = trunk[t].inbound
  BY <1>3, UpdatedRow
<1> HIDE DEF row
<1>5. MatchedRow(t)'
  <2>1. trunk'[t] = row /\ row # Absent
    BY <1>1, <1>3, <1>4, RowFacts DEF row
  <2>2. MatchedRow(t)
    BY DEF TrunkInv, CredentialsMatch, MatchedRow
  <2> QED
    BY <1>2, <1>4, <2>1, <2>2 DEF MatchedRow, Trunk
<1>6. disables' \in [TrunkIds -> Nat \X Nat] /\ DisableAnnouncedOnce'
  BY <1>2 DEF TrunkInv, TrunksTypes, DisableAnnouncedOnce
<1>7. trunk' = [trunk EXCEPT ![t] = row]
  BY <1>1 DEF row
<1> QED
  BY <1>2, <1>4, <1>5, <1>6, <1>7, ChangedRow

\* Setting or clearing a method sets or clears the row of its credential.
LEMMA AuthStep ==
    ASSUME TrunkInv, NEW t \in TrunkIds,
           SetOutboundAuth(t) \/ ClearOutboundAuth(t) \/ SetInboundAuth(t) \/ SetInboundIP(t)
    PROVE  TrunkInv'
<1>1. Trunk(t) /\ UNCHANGED <<sipEndpoint, number, request, orgLock, disables>>
  BY DEF SetOutboundAuth, ClearOutboundAuth, SetInboundAuth, SetInboundIP, RowsOnly
<1>2. trunk[t] \in TrunkRow /\ trunk \in [TrunkIds -> TrunkRow \cup {Absent}]
  BY <1>1 DEF TrunkInv, TrunksTypes, Trunk
<1>3. PICK row \in TrunkRow :
         /\ trunk' = [trunk EXCEPT ![t] = row]
         /\ \/ /\ row.outbound = "digest" /\ row.inbound = trunk[t].inbound
               /\ sipCredential' = sipCredential \cup {<<t, "outbound">>}
            \/ /\ row.outbound = "none" /\ row.inbound = trunk[t].inbound
               /\ sipCredential' = sipCredential \ {<<t, "outbound">>}
            \/ /\ row.inbound = "digest" /\ row.outbound = trunk[t].outbound
               /\ sipCredential' = sipCredential \cup {<<t, "inbound">>}
            \/ /\ row.inbound = "ip" /\ row.outbound = trunk[t].outbound
               /\ sipCredential' = sipCredential \ {<<t, "inbound">>}
  <2>1. CASE SetOutboundAuth(t)
    <3>1. /\ [trunk[t] EXCEPT !.outbound = "digest"] \in TrunkRow
          /\ [trunk[t] EXCEPT !.outbound = "digest"].outbound = "digest"
          /\ [trunk[t] EXCEPT !.outbound = "digest"].inbound = trunk[t].inbound
      BY <1>2 DEF TrunkRow
    <3> QED
      BY <2>1, <3>1 DEF SetOutboundAuth
  <2>2. CASE ClearOutboundAuth(t)
    <3>1. /\ [trunk[t] EXCEPT !.outbound = "none"] \in TrunkRow
          /\ [trunk[t] EXCEPT !.outbound = "none"].outbound = "none"
          /\ [trunk[t] EXCEPT !.outbound = "none"].inbound = trunk[t].inbound
      BY <1>2 DEF TrunkRow
    <3> QED
      BY <2>2, <3>1 DEF ClearOutboundAuth, ClearedCredentials
  <2>3. CASE SetInboundAuth(t)
    <3>1. /\ [trunk[t] EXCEPT !.inbound = "digest"] \in TrunkRow
          /\ [trunk[t] EXCEPT !.inbound = "digest"].inbound = "digest"
          /\ [trunk[t] EXCEPT !.inbound = "digest"].outbound = trunk[t].outbound
      BY <1>2 DEF TrunkRow
    <3> QED
      BY <2>3, <3>1 DEF SetInboundAuth
  <2>4. CASE SetInboundIP(t)
    <3>1. /\ [trunk[t] EXCEPT !.inbound = "ip"] \in TrunkRow
          /\ [trunk[t] EXCEPT !.inbound = "ip"].inbound = "ip"
          /\ [trunk[t] EXCEPT !.inbound = "ip"].outbound = trunk[t].outbound
      BY <1>2 DEF TrunkRow
    <3> QED
      BY <2>4, <3>1 DEF SetInboundIP, ClearedCredentials
  <2> QED
    BY <2>1, <2>2, <2>3, <2>4
<1>4. trunk'[t] = row /\ row # Absent
  BY <1>2, <1>3, RowFacts
<1>5. MatchedRow(t)'
  <2>1. MatchedRow(t)
    BY DEF TrunkInv, CredentialsMatch, MatchedRow
  <2>2. /\ <<t, "outbound">> \in sipCredential <=> trunk[t].outbound = "digest"
        /\ <<t, "inbound">> \in sipCredential <=> trunk[t].inbound = "digest"
    BY <1>1, <2>1 DEF MatchedRow
  <2>3. <<t, "inbound">> # <<t, "outbound">>
    OBVIOUS
  <2>4. /\ <<t, "outbound">> \in sipCredential' <=> row.outbound = "digest"
        /\ <<t, "inbound">> \in sipCredential' <=> row.inbound = "digest"
    BY <1>3, <2>2, <2>3
  <2> QED
    BY <1>4, <2>4 DEF MatchedRow, Trunk
<1>6. disables' \in [TrunkIds -> Nat \X Nat] /\ DisableAnnouncedOnce'
  BY <1>1 DEF TrunkInv, TrunksTypes, DisableAnnouncedOnce
<1>7. \A u \in TrunkIds \ {t}, d \in {"inbound", "outbound"} :
         <<u, d>> \in sipCredential' <=> <<u, d>> \in sipCredential
  BY <1>3
<1> QED
  BY <1>1, <1>3, <1>5, <1>6, <1>7, ChangedRow

\* A deletion disables an active trunk and announces it, both or neither.
LEMMA DisableTrunkStep == ASSUME TrunkInv, NEW q \in Administrators, DisableTrunk(q) PROVE TrunkInv'
<1>1. /\ request[q].at = "disabling" /\ request' = [request EXCEPT ![q] = NoTrunkRequest]
      /\ UNCHANGED <<sipCredential, sipEndpoint, number, orgLock>>
  BY DEF DisableTrunk
<1>2. PICK t \in TrunkIds : t = request[q].trunk
  BY <1>1 DEF TrunkInv, CreationInv
<1>3. trunk \in [TrunkIds -> TrunkRow \cup {Absent}] /\ disables \in [TrunkIds -> Nat \X Nat]
  BY DEF TrunkInv, TrunksTypes
<1>4. CASE trunk[t].status = "active"
  <2>1. /\ trunk' = [trunk EXCEPT ![t].status = "disabled"]
        /\ disables' = [disables EXCEPT ![t] = <<disables[t][1] + 1, disables[t][2] + 1>>]
    BY <1>2, <1>4 DEF DisableTrunk, StillActive
  <2>2. trunk[t] \in TrunkRow /\ Trunk(t)
    BY <1>3, <1>4 DEF Trunk, Absent
  <2> DEFINE row == [trunk[t] EXCEPT !.status = "disabled"]
  <2>3. row \in TrunkRow /\ row.outbound = trunk[t].outbound /\ row.inbound = trunk[t].inbound
    BY <2>2 DEF TrunkRow
  <2> HIDE DEF row
  <2>4. trunk' = [trunk EXCEPT ![t] = row]
    BY <2>1 DEF row
  <2>5. MatchedRow(t)'
    <3>1. trunk'[t] = row /\ row # Absent
      BY <1>3, <2>3, <2>4, RowFacts
    <3>2. MatchedRow(t)
      BY DEF TrunkInv, CredentialsMatch, MatchedRow
    <3> QED
      BY <1>1, <2>2, <2>3, <3>1, <3>2 DEF MatchedRow, Trunk
  <2>6. disables' \in [TrunkIds -> Nat \X Nat] /\ DisableAnnouncedOnce'
    <3>1. disables[t] \in Nat \X Nat /\ disables[t][1] = disables[t][2]
      BY <1>3 DEF TrunkInv, DisableAnnouncedOnce
    <3>2. <<disables[t][1] + 1, disables[t][2] + 1>> \in Nat \X Nat
      BY <3>1
    <3> QED
      BY <1>3, <2>1, <3>1, <3>2 DEF TrunkInv, DisableAnnouncedOnce
  <2> QED
    BY <1>1, <2>2, <2>3, <2>4, <2>5, <2>6, ChangedRow
<1>5. CASE trunk[t].status # "active"
  <2>1. UNCHANGED <<trunk, disables>>
    BY <1>2, <1>5 DEF DisableTrunk, StillActive
  <2>2. NoTrunkRequest \in TrunkRequest /\ NoTrunkRequest.at = "idle"
    BY DEF NoTrunkRequest, TrunkRequest
  <2>3. /\ request' \in [Administrators -> TrunkRequest] /\ request'[q].at = "idle"
        /\ \A p \in Administrators \ {q} : request'[p] = request[p]
    BY <1>1, <2>2 DEF TrunkInv, TrunksTypes
  <2>4. TrunksTypes'
    BY <1>1, <2>1, <2>3 DEF TrunkInv, TrunksTypes
  <2>5. CreationInv'
    <3>1. \A p \in Administrators : request'[p].at # "idle" => request'[p] = request[p]
      BY <2>3
    <3> QED
      BY <2>1, <3>1 DEF TrunkInv, CreationInv, Creating, Trunk
  <2>6. CapacityInv'
    <3>1. \A p \in Administrators : request'[p].at = "inserting" <=> request[p].at = "inserting"
      BY <1>1, <2>3
    <3> QED
      BY <1>1, <2>1, <3>1 DEF TrunkInv, CapacityInv, TrunkRows, TrunkCount, Trunk
  <2>7. NumberInv' /\ CredentialsMatch' /\ DisableAnnouncedOnce' /\ UnhealthyIsGrounded'
    BY <1>1, <2>1 DEF TrunkInv, NumberInv, Number, CredentialsMatch, Trunk, DisableAnnouncedOnce,
                UnhealthyIsGrounded, Endpoint
  <2> QED
    BY <2>4, <2>5, <2>6, <2>7 DEF TrunkInv
<1> QED
  BY <1>4, <1>5

(***************************************************************************)
(* Endpoints and their health                                              *)
(***************************************************************************)
\* What the probes may say of an endpoint.
Grounded(row) ==
    /\ row.health = "unhealthy" => row.failures >= FailureThreshold
    /\ row.cooling => row.health = "unhealthy"

\* One endpoint's row is written, or all that are due are claimed: grounded rows stay grounded.
LEMMA EndpointFrame ==
    ASSUME TrunkInv, UNCHANGED <<trunk, sipCredential, number, request, orgLock, disables>>,
           DOMAIN sipEndpoint' = EndpointIds, sipEndpoint' = [e \in EndpointIds |-> sipEndpoint'[e]],
           \A e \in EndpointIds :
              \/ sipEndpoint'[e] \in {sipEndpoint[e], Absent}
              \/ sipEndpoint'[e] \in SipEndpointRow /\ Grounded(sipEndpoint'[e])
    PROVE  TrunkInv'
<1>1. sipEndpoint' \in [EndpointIds -> SipEndpointRow \cup {Absent}]
  <2>1. \A e \in EndpointIds : sipEndpoint'[e] \in SipEndpointRow \cup {Absent}
    BY DEF TrunkInv, TrunksTypes
  <2> QED
    BY <2>1
<1>2. UnhealthyIsGrounded'
  <2> SUFFICES ASSUME NEW e \in EndpointIds, sipEndpoint'[e] # Absent
               PROVE  Grounded(sipEndpoint'[e])
    BY DEF UnhealthyIsGrounded, Endpoint, Grounded
  <2>1. CASE sipEndpoint'[e] = sipEndpoint[e]
    BY <2>1 DEF TrunkInv, UnhealthyIsGrounded, Endpoint, Grounded
  <2> QED
    BY <2>1
<1>3. NumberInv'
  BY DEF TrunkInv, NumberInv, Number
<1>4. number' \in [PhoneRows -> NumberRow \cup {Absent}]
  BY DEF TrunkInv, TrunksTypes
<1> QED
  BY <1>1, <1>2, <1>3, <1>4, RowsFrame

\* A row that is written by a request or a probe.
LEMMA EndpointWritten ==
    ASSUME TrunkInv, NEW e \in EndpointIds, NEW row, row = Absent \/ (row \in SipEndpointRow /\ Grounded(row)),
           sipEndpoint' = [sipEndpoint EXCEPT ![e] = row],
           UNCHANGED <<trunk, sipCredential, number, request, orgLock, disables>>
    PROVE  TrunkInv'
<1>1. sipEndpoint \in [EndpointIds -> SipEndpointRow \cup {Absent}]
  BY DEF TrunkInv, TrunksTypes
<1>2. /\ sipEndpoint'[e] = row /\ \A d \in EndpointIds \ {e} : sipEndpoint'[d] = sipEndpoint[d]
      /\ sipEndpoint' \in [EndpointIds -> SipEndpointRow \cup {Absent}]
  BY <1>1
<1>3. \A d \in EndpointIds :
         \/ sipEndpoint'[d] \in {sipEndpoint[d], Absent}
         \/ sipEndpoint'[d] \in SipEndpointRow /\ Grounded(sipEndpoint'[d])
  BY <1>2
<1> QED
  BY <1>2, <1>3, EndpointFrame

\* What a probe writes: the failures of an endpoint that is left out have reached the threshold.
LEMMA ProbedRow ==
    ASSUME NEW row \in SipEndpointRow, Grounded(row)
    PROVE  /\ Healthy(row) \in SipEndpointRow /\ Grounded(Healthy(row))
           /\ Capped(ProbeFailed(row)) \in SipEndpointRow /\ Grounded(Capped(ProbeFailed(row)))
<1>1. row.failures \in Nat /\ row.health \in {"unknown", "healthy", "unhealthy"} /\ row.cooling \in BOOLEAN
  BY DEF SipEndpointRow
<1>2. Healthy(row) \in SipEndpointRow /\ Healthy(row).health = "healthy" /\ Healthy(row).cooling = FALSE
  BY DEF Healthy, SipEndpointRow
<1> DEFINE failed == ProbeFailed(row)
<1>3. /\ failed \in SipEndpointRow /\ failed.failures = row.failures + 1
      /\ OutOfReach(row) => failed.health = "unhealthy"
      /\ ~OutOfReach(row) => failed.health = row.health /\ failed.cooling = FALSE
  <2>1. PICK n \in Nat : n = row.failures + 1
    BY <1>1
  <2>2. CASE OutOfReach(row)
    <3>1. failed = [row EXCEPT !.failures = n, !.checked = TRUE, !.health = "unhealthy",
                              !.cooling = TRUE]
      BY <2>1, <2>2 DEF ProbeFailed, OutOfReach
    <3> QED
      BY <2>1, <2>2, <3>1 DEF SipEndpointRow
  <2>3. CASE ~OutOfReach(row)
    <3> DEFINE one == [row EXCEPT !.failures = n, !.checked = TRUE]
    <3>1. one \in SipEndpointRow /\ one.health = row.health /\ one.failures = n
      BY DEF SipEndpointRow
    <3>2. failed = [[one EXCEPT !.health = one.health] EXCEPT !.cooling = FALSE]
      <4>1. OutOfReach(row) = FALSE
        BY <2>3 DEF OutOfReach
      <4> QED
        BY <2>1, <4>1 DEF ProbeFailed
    <3>3. [one EXCEPT !.health = one.health] = one
      BY <3>1 DEF SipEndpointRow
    <3> HIDE DEF one
    <3>4. failed = [one EXCEPT !.cooling = FALSE]
      BY <3>2, <3>3
    <3> QED
      BY <2>1, <2>3, <3>1, <3>4 DEF SipEndpointRow
  <2> QED
    BY <2>2, <2>3
<1> HIDE DEF failed
<1>4. /\ Capped(failed) \in SipEndpointRow /\ Capped(failed).cooling = failed.cooling
      /\ Capped(failed).health = failed.health
      /\ Capped(failed).failures =
            IF failed.failures > FailureThreshold THEN FailureThreshold ELSE failed.failures
  BY <1>3, TrunksAssumption DEF TrunksAssumption, Capped, SipEndpointRow
<1>5. Grounded(Capped(failed))
  BY <1>1, <1>3, <1>4, TrunksAssumption DEF TrunksAssumption, Grounded, OutOfReach
<1> QED
  BY <1>2, <1>4, <1>5 DEF Grounded, failed

\* Every step on the endpoints.
LEMMA EndpointStep ==
    ASSUME TrunkInv,
           NEW e \in EndpointIds, NEW t \in TrunkIds, NEW a \in Addresses,
           \/ CreateEndpoint(e, t, a) \/ Readdress(e, a) \/ EnableEndpoint(e) \/ DeleteEndpoint(e)
           \/ IntervalPasses(e) \/ CooldownPasses(e)
    PROVE  TrunkInv'
<1>1. UNCHANGED <<trunk, sipCredential, number, request, orgLock, disables>>
  BY DEF CreateEndpoint, Readdress, EnableEndpoint, DeleteEndpoint, IntervalPasses, CooldownPasses,
         RowsOnly, HealthOnly
<1>2. Endpoint(e) => sipEndpoint[e] \in SipEndpointRow /\ Grounded(sipEndpoint[e])
  BY DEF TrunkInv, TrunksTypes, Endpoint, UnhealthyIsGrounded, Grounded
<1> DEFINE row == sipEndpoint[e]
<1>3. CASE CreateEndpoint(e, t, a)
  <2> DEFINE new == [status |-> "enabled", trunk |-> t, address |-> a, health |-> "unknown",
                     failures |-> 0, checked |-> FALSE, cooling |-> FALSE]
  <2>1. new \in SipEndpointRow /\ Grounded(new)
    BY DEF SipEndpointRow, Grounded
  <2>2. sipEndpoint' = [sipEndpoint EXCEPT ![e] = new]
    BY <1>3 DEF CreateEndpoint
  <2> HIDE DEF new
  <2> QED
    BY <1>1, <2>1, <2>2, EndpointWritten
<1>4. CASE Readdress(e, a)
  <2> DEFINE new == [row EXCEPT !.address = a, !.health = FreshHealth.health,
                                !.failures = FreshHealth.failures, !.checked = FreshHealth.checked,
                                !.cooling = FreshHealth.cooling]
  <2>1. new \in SipEndpointRow /\ Grounded(new)
    BY <1>2, <1>4 DEF Readdress, SipEndpointRow, Grounded, FreshHealth
  <2>2. sipEndpoint' = [sipEndpoint EXCEPT ![e] = new]
    BY <1>4 DEF Readdress
  <2> HIDE DEF new
  <2> QED
    BY <1>1, <2>1, <2>2, EndpointWritten
<1>5. CASE EnableEndpoint(e)
  <2>1. PICK s \in {"enabled", "disabled"} : sipEndpoint' = [sipEndpoint EXCEPT ![e].status = s]
    BY <1>5 DEF EnableEndpoint
  <2> DEFINE new == [row EXCEPT !.status = s]
  <2>2. new \in SipEndpointRow /\ Grounded(new)
    BY <1>2, <1>5 DEF EnableEndpoint, SipEndpointRow, Grounded
  <2>3. sipEndpoint' = [sipEndpoint EXCEPT ![e] = new]
    BY <2>1
  <2> HIDE DEF new
  <2> QED
    BY <1>1, <2>2, <2>3, EndpointWritten
<1>6. CASE DeleteEndpoint(e)
  BY <1>1, <1>6, EndpointWritten DEF DeleteEndpoint
<1>7. CASE IntervalPasses(e)
  <2> DEFINE new == [row EXCEPT !.checked = FALSE]
  <2>1. new \in SipEndpointRow /\ Grounded(new)
    BY <1>2, <1>7 DEF IntervalPasses, SipEndpointRow, Grounded
  <2>2. sipEndpoint' = [sipEndpoint EXCEPT ![e] = new]
    BY <1>7 DEF IntervalPasses
  <2> HIDE DEF new
  <2> QED
    BY <1>1, <2>1, <2>2, EndpointWritten
<1>8. CASE CooldownPasses(e)
  <2> DEFINE new == [row EXCEPT !.cooling = FALSE]
  <2>1. new \in SipEndpointRow /\ Grounded(new)
    BY <1>2, <1>8 DEF CooldownPasses, SipEndpointRow, Grounded
  <2>2. sipEndpoint' = [sipEndpoint EXCEPT ![e] = new]
    BY <1>8 DEF CooldownPasses
  <2> HIDE DEF new
  <2> QED
    BY <1>1, <2>1, <2>2, EndpointWritten
<1> QED
  BY <1>3, <1>4, <1>5, <1>6, <1>7, <1>8

\* A worker claims the endpoints that are due, and marks what its probe found.
LEMMA CheckStep ==
    ASSUME TrunkInv, NEW w \in HealthWorkers, NEW p \in EndpointIds \X Addresses,
           ClaimDue(w) \/ ProbeNext(w, p) \/ HealthPassFails(w)
    PROVE  TrunkInv'
<1>1. UNCHANGED <<trunk, sipCredential, number, request, orgLock, disables>>
  BY DEF ClaimDue, ProbeNext, HealthPassFails, HealthOnly
<1>2. /\ sipEndpoint \in [EndpointIds -> SipEndpointRow \cup {Absent}]
      /\ \A e \in EndpointIds : Endpoint(e) => sipEndpoint[e] \in SipEndpointRow /\ Grounded(sipEndpoint[e])
  BY DEF TrunkInv, TrunksTypes, Endpoint, UnhealthyIsGrounded, Grounded
<1>3. CASE sipEndpoint' = sipEndpoint
  <2>1. DOMAIN sipEndpoint' = EndpointIds /\ sipEndpoint' = [e \in EndpointIds |-> sipEndpoint'[e]]
    BY <1>2, <1>3
  <2>2. \A e \in EndpointIds : sipEndpoint'[e] = sipEndpoint[e]
    BY <1>3
  <2> QED
    BY <1>1, <2>1, <2>2, EndpointFrame
<1>4. CASE ClaimDue(w)
  <2> DEFINE new(e) == [sipEndpoint[e] EXCEPT !.checked = TRUE]
  <2>1. \A e \in EndpointIds : sipEndpoint'[e] = sipEndpoint[e] \/ (Due(e) /\ sipEndpoint'[e] = new(e))
    BY <1>4 DEF ClaimDue
  <2>2. \A e \in EndpointIds : Due(e) => new(e) \in SipEndpointRow /\ Grounded(new(e))
    BY ZenonT(40), <1>2 DEF Due, SipEndpointRow, Grounded
  <2>3. DOMAIN sipEndpoint' = EndpointIds /\ sipEndpoint' = [e \in EndpointIds |-> sipEndpoint'[e]]
    BY <1>4 DEF ClaimDue
  <2> HIDE DEF new
  <2>4. \A e \in EndpointIds :
           \/ sipEndpoint'[e] \in {sipEndpoint[e], Absent}
           \/ sipEndpoint'[e] \in SipEndpointRow /\ Grounded(sipEndpoint'[e])
    BY <2>1, <2>2
  <2> QED
    BY <1>1, <2>3, <2>4, EndpointFrame
<1>5. CASE ProbeNext(w, p) /\ Endpoint(p[1])
  <2> DEFINE e == p[1]
             new == IF p[2] \in answers THEN Healthy(sipEndpoint[e]) ELSE Capped(ProbeFailed(sipEndpoint[e]))
  <2>1. e \in EndpointIds
    OBVIOUS
  <2>2. sipEndpoint' = [sipEndpoint EXCEPT ![e] = new]
    BY <1>5 DEF ProbeNext
  <2>3. new \in SipEndpointRow /\ Grounded(new)
    BY <1>2, <1>5, <2>1, ProbedRow
  <2> HIDE DEF new
  <2> QED
    BY <1>1, <2>1, <2>2, <2>3, EndpointWritten
<1>6. CASE HealthPassFails(w) \/ (ProbeNext(w, p) /\ ~Endpoint(p[1]))
  BY <1>3, <1>6 DEF HealthPassFails, ProbeNext
<1> QED
  BY <1>4, <1>5, <1>6

(***************************************************************************)
(* Numbers, and the decisions taken from the rows                          *)
(***************************************************************************)
\* A number's row is written: an active one has a number that no other active row has.
LEMMA NumberWritten ==
    ASSUME TrunkInv, NEW n \in PhoneRows, NEW row \in NumberRow,
           number' = [number EXCEPT ![n] = row],
           row.status = "active" =>
              \A m \in PhoneRows \ {n} :
                 Number(m) /\ number[m].status = "active" => number[m].number # row.number,
           UNCHANGED <<trunk, sipCredential, sipEndpoint, request, orgLock, disables>>
    PROVE  TrunkInv'
<1>1. number \in [PhoneRows -> NumberRow \cup {Absent}]
  BY DEF TrunkInv, TrunksTypes
<1>2. /\ number'[n] = row /\ \A m \in PhoneRows \ {n} : number'[m] = number[m]
      /\ number' \in [PhoneRows -> NumberRow \cup {Absent}]
  BY <1>1
<1>3. NumberInv'
  <2> SUFFICES ASSUME NEW l \in PhoneRows, NEW m \in PhoneRows, number'[l] # Absent, number'[m] # Absent,
                      number'[l].status = "active", number'[m].status = "active",
                      number'[l].number = number'[m].number
               PROVE  l = m
    BY DEF NumberInv, Number
  <2> QED
    BY <1>2 DEF TrunkInv, NumberInv, Number
<1>4. UnhealthyIsGrounded' /\ sipEndpoint' \in [EndpointIds -> SipEndpointRow \cup {Absent}]
  BY DEF TrunkInv, UnhealthyIsGrounded, Endpoint, TrunksTypes
<1> QED
  BY <1>2, <1>3, <1>4, RowsFrame

\* An active number stays its row's own, also when it is created, moved or released.
LEMMA NumberStep ==
    ASSUME TrunkInv, NEW n \in PhoneRows,
           \/ UpdateNumber(n) \/ ReleaseNumber(n)
           \/ \E m \in PhoneNumbers : CreateNumber(n, m)
           \/ \E t \in TrunkIds : SetNumberTrunk(n, t)
    PROVE  TrunkInv'
<1>1. UNCHANGED <<trunk, sipCredential, sipEndpoint, request, orgLock, disables>>
  BY DEF CreateNumber, UpdateNumber, ReleaseNumber, SetNumberTrunk, RowsOnly
<1>2. /\ number \in [PhoneRows -> NumberRow \cup {Absent}]
      /\ Number(n) => number[n] \in NumberRow
  BY DEF TrunkInv, TrunksTypes, Number
<1>3. Number(n) /\ number[n].status = "active" =>
         \A l \in PhoneRows \ {n} :
            Number(l) /\ number[l].status = "active" => number[l].number # number[n].number
  BY DEF TrunkInv, NumberInv
<1>4. ASSUME NEW m \in PhoneNumbers, CreateNumber(n, m) PROVE TrunkInv'
  <2>1. PICK u \in TrunkIds \cup {NoTrunk} :
           number' = [number EXCEPT ![n] = [status |-> "active", number |-> m, trunk |-> u, voice |-> TRUE]]
    BY <1>4 DEF CreateNumber
  <2> DEFINE row == [status |-> "active", number |-> m, trunk |-> u, voice |-> TRUE]
  <2>2. row \in NumberRow /\ row.number = m
    BY DEF NumberRow
  <2>3. \A l \in PhoneRows \ {n} : Number(l) /\ number[l].status = "active" => number[l].number # m
    BY <1>4 DEF CreateNumber, FreeNumber
  <2>4. number' = [number EXCEPT ![n] = row]
    BY <2>1
  <2> HIDE DEF row
  <2> QED
    BY <1>1, <2>2, <2>3, <2>4, NumberWritten
<1>5. CASE UpdateNumber(n)
  <2>1. PICK v \in BOOLEAN : number' = [number EXCEPT ![n].voice = v]
    BY <1>5 DEF UpdateNumber
  <2> DEFINE row == [number[n] EXCEPT !.voice = v]
  <2>2. row \in NumberRow /\ row.number = number[n].number
    BY <1>2, <1>5 DEF UpdateNumber, NumberRow
  <2>3. number' = [number EXCEPT ![n] = row]
    BY <2>1
  <2> HIDE DEF row
  <2>4. Number(n) /\ number[n].status = "active"
    BY <1>5 DEF UpdateNumber
  <2> QED
    BY <1>1, <1>3, <2>2, <2>3, <2>4, NumberWritten
<1>6. ASSUME NEW t \in TrunkIds, SetNumberTrunk(n, t) PROVE TrunkInv'
  <2> DEFINE row == [number[n] EXCEPT !.trunk = t]
  <2>1. row \in NumberRow /\ row.number = number[n].number
    BY <1>2, <1>6 DEF SetNumberTrunk, NumberRow
  <2>2. number' = [number EXCEPT ![n] = row]
    BY <1>6 DEF SetNumberTrunk
  <2> HIDE DEF row
  <2>3. Number(n) /\ number[n].status = "active"
    BY <1>6 DEF SetNumberTrunk
  <2> QED
    BY <1>1, <1>3, <2>1, <2>2, <2>3, NumberWritten
<1>7. CASE ReleaseNumber(n)
  <2> DEFINE row == [number[n] EXCEPT !.status = "released", !.trunk = NoTrunk, !.voice = FALSE]
  <2>1. row \in NumberRow /\ row.status = "released"
    BY <1>2, <1>7 DEF ReleaseNumber, NumberRow
  <2>2. number' = [number EXCEPT ![n] = row]
    BY <1>7 DEF ReleaseNumber
  <2> HIDE DEF row
  <2> QED
    BY <1>1, <2>1, <2>2, NumberWritten
<1> QED
  BY <1>4, <1>5, <1>6, <1>7

\* Every step of the administration, of the workers and of the carriers.
LEMMA TrunksStep == ASSUME TrunkInv, [TrunksNext]_trunksVars PROVE TrunkInv'
<1>1. ASSUME UNCHANGED <<trunk, sipCredential, sipEndpoint, number, request, orgLock, disables>>
      PROVE  TrunkInv'
  <2>1. /\ sipEndpoint' \in [EndpointIds -> SipEndpointRow \cup {Absent}]
        /\ number' \in [PhoneRows -> NumberRow \cup {Absent}]
    BY <1>1 DEF TrunkInv, TrunksTypes
  <2>2. NumberInv' /\ UnhealthyIsGrounded'
    BY <1>1 DEF TrunkInv, NumberInv, Number, UnhealthyIsGrounded, Endpoint
  <2> QED
    BY <1>1, <2>1, <2>2, RowsFrame
<1>2. ASSUME NEW t \in TrunkIds, CreateSourceIP(t) \/ DeleteSourceIP(t) PROVE TrunkInv'
  BY <1>1, <1>2 DEF CreateSourceIP, DeleteSourceIP, RowsOnly
<1>3. ASSUME NEW a \in Addresses, CarrierFails(a) \/ CarrierReturns(a) PROVE TrunkInv'
  BY <1>1, <1>3 DEF CarrierFails, CarrierReturns, HealthOnly
<1>4. CASE UNCHANGED trunksVars
  BY <1>1, <1>4 DEF trunksVars
<1>5. ASSUME NEW q \in Administrators,
             \/ LockAndCheckCapacity(q) \/ CommitCreate(q) \/ DisableTrunk(q)
             \/ \E t \in TrunkIds : BeginCreate(q, t) \/ ReadForDelete(q, t)
      PROVE  TrunkInv'
  BY <1>5, OrgLockStep, CommitStep, DisableTrunkStep, BeginStep
<1>6. ASSUME NEW t \in TrunkIds,
             \/ UpdateTrunk(t) \/ SetOutboundAuth(t) \/ ClearOutboundAuth(t)
             \/ SetInboundAuth(t) \/ SetInboundIP(t)
      PROVE  TrunkInv'
  BY <1>6, UpdateStep, AuthStep
<1>7. ASSUME NEW e \in EndpointIds, NEW t \in TrunkIds, NEW a \in Addresses, CreateEndpoint(e, t, a)
      PROVE  TrunkInv'
  BY <1>7, EndpointStep
<1>8. ASSUME NEW e \in EndpointIds, NEW a \in Addresses, Readdress(e, a) PROVE TrunkInv'
  <2>1. PICK t \in TrunkIds : TRUE
    <3>1. sipEndpoint[e] \in SipEndpointRow
      BY <1>8 DEF Readdress, Endpoint, TrunkInv, TrunksTypes
    <3> QED
      BY <3>1 DEF SipEndpointRow
  <2> QED
    BY <1>8, <2>1, EndpointStep
<1>9. ASSUME NEW e \in EndpointIds,
             EnableEndpoint(e) \/ DeleteEndpoint(e) \/ IntervalPasses(e) \/ CooldownPasses(e)
      PROVE  TrunkInv'
  <2>1. sipEndpoint[e] \in SipEndpointRow
    BY <1>9 DEF EnableEndpoint, DeleteEndpoint, IntervalPasses, CooldownPasses, Endpoint, TrunkInv,
                TrunksTypes
  <2>2. PICK t \in TrunkIds, a \in Addresses : TRUE
    BY <2>1 DEF SipEndpointRow
  <2> QED
    BY <1>9, <2>2, EndpointStep
<1>10. ASSUME NEW w \in HealthWorkers, NEW p \in EndpointIds \X Addresses, ProbeNext(w, p)
       PROVE  TrunkInv'
  BY <1>10, CheckStep
<1>11. ASSUME NEW w \in HealthWorkers, ClaimDue(w) PROVE TrunkInv'
  <2>1. PICK e \in EndpointIds : Due(e)
    BY <1>11 DEF ClaimDue
  <2>2. sipEndpoint[e] \in SipEndpointRow
    BY <2>1 DEF Due, Endpoint, TrunkInv, TrunksTypes
  <2>3. <<e, sipEndpoint[e].address>> \in EndpointIds \X Addresses
    BY <2>2 DEF SipEndpointRow
  <2> QED
    BY <1>11, <2>3, CheckStep
<1>12. ASSUME NEW w \in HealthWorkers, HealthPassFails(w) PROVE TrunkInv'
  BY <1>1, <1>12 DEF HealthPassFails, HealthOnly
<1>13. ASSUME NEW n \in PhoneRows,
              \/ UpdateNumber(n) \/ ReleaseNumber(n)
              \/ \E m \in PhoneNumbers : CreateNumber(n, m)
              \/ \E t \in TrunkIds : SetNumberTrunk(n, t)
       PROVE  TrunkInv'
  BY <1>13, NumberStep
<1>14. CASE TrunksNext
  BY <1>2, <1>3, <1>5, <1>6, <1>7, <1>8, <1>9, <1>10, <1>11, <1>12, <1>13, <1>14 DEF TrunksNext
<1> QED
  BY <1>4, <1>14

\* The number that leads to a trunk is the one active row of that number.
LEMMA OneTrunk == ASSUME TrunkInv PROVE NumberHasOneTrunk
<1> SUFFICES ASSUME NEW m \in PhoneNumbers PROVE Cardinality(InboundTrunks(m)) <= 1
  BY DEF NumberHasOneTrunk
<1>1. \A t, u \in InboundTrunks(m) : t = u
  BY DEF InboundTrunks, LeadsTo, TrunkInv, NumberInv
<1>2. CASE InboundTrunks(m) = {}
  BY <1>2, FS_EmptySet
<1>3. CASE InboundTrunks(m) # {}
  <2>1. PICK t \in InboundTrunks(m) : TRUE
    BY <1>3
  <2>2. InboundTrunks(m) = {t}
    BY <1>1, <2>1
  <2> QED
    <3>1. Cardinality({t}) = 1
      BY FS_Singleton
    <3> QED
      BY <2>2, <3>1
<1> QED
  BY <1>2, <1>3

\* An accepted trunk has an enabled endpoint that is not held for unhealthy.
LEMMA Routable == ASSUME TrunkInv PROVE ValidIsRoutable
<1> SUFFICES ASSUME NEW t \in TrunkIds, Trunk(t), trunk[t].status = "active",
                    trunk[t].direction # "inbound", ValidationErrors(t) = {}
             PROVE  OutboundRoutes(t) # {}
  BY DEF ValidIsRoutable
<1> DEFINE out == {e \in EndpointIds : Endpoint(e) /\ sipEndpoint[e].trunk = t
                                         /\ sipEndpoint[e].status = "enabled"}
<1>1. trunk[t].direction \in {"outbound", "bidirectional"}
  BY DEF TrunkInv, TrunksTypes, Trunk, TrunkRow, Directions
<1>2. out # {}
  <2> SUFFICES ASSUME out = {} PROVE "no endpoint" \in ValidationErrors(t)
    OBVIOUS
  <2> QED
    BY DEF ValidationErrors
<1>3. ~(\A e \in out : sipEndpoint[e].health = "unhealthy")
  <2> SUFFICES ASSUME \A e \in out : sipEndpoint[e].health = "unhealthy"
               PROVE  "no healthy endpoint" \in ValidationErrors(t)
    OBVIOUS
  <2> QED
    BY <1>2 DEF ValidationErrors
<1>4. PICK e \in out : sipEndpoint[e].health # "unhealthy"
  BY <1>3
<1>5. e \in OutboundRoutes(t)
  BY <1>1, <1>4 DEF OutboundRoutes, OutboundEndpoints
<1> QED
  BY <1>5

\* The rows, the requests under way and the plan's limit keep to each other.
THEOREM TrunksInductive == TrunksSafety => []TrunkInv
<1>1. TrunksInit => TrunkInv
  BY TrunksStart
<1>2. TrunkInv /\ [TrunksNext]_trunksVars => TrunkInv'
  BY TrunksStep
<1> QED
  BY <1>1, <1>2, PTL DEF TrunksSafety

\* A plan's trunks are never exceeded, the SIP router's credentials match the methods, an end is
\* announced once, endpoints are left out for a reason, a number has one trunk and a trunk that
\* validation accepts has a route (telephony/trunks, telephony/numbers, telephony/routing).
THEOREM TrunksAreSound == TrunksSafety => []TrunksSound
<1>1. TrunkInv => TrunksSound
  BY OneTrunk, Routable DEF TrunkInv, CapacityInv, TrunksSound, CapacityRespected
<1> QED
  BY <1>1, TrunksInductive, PTL

(***************************************************************************)
(* Payments                                                                *)
(***************************************************************************)
BillingSafety == BillingInit /\ [][BillingNext]_billingVars

Moment == [sub: PolarSubs, status: ProviderPays]
Job == [at: {"idle", "claimed", "recover", "fetch", "candidate", "apply", "fail", "reject"},
        n: 0..MaxMoments, todo: Seq(LocalRow), candidate: PolarSubs \cup {NoSub},
        known: PolarSubs \cup {NoSub}]
Receipt == [status: ReceiptStatus, kind: EventKind, attempts: Nat,
            token: BillingWorkers \cup {NoSub}, stale: BOOLEAN]

BillingTypes ==
    /\ provider \in Seq(Moment) /\ Now <= MaxMoments
    /\ receipt \in [1..MaxMoments -> Receipt] /\ local \in LocalRow
    /\ actor \in [Actors -> Job] /\ applied \in [1..MaxMoments -> Nat]

\* A row, or a request for it, that says of its subscription what the provider said at its moment;
\* and whose grace period began at a moment at which the provider said that it was past due.
Dated(q) ==
    /\ q.at \in 1..Now /\ provider[q.at].sub = q.sub
    /\ q.status = PolarStatus(provider[q.at].status)
Graced(q) ==
    q.status = "past_due" =>
        /\ q.since \in 1..q.at /\ provider[q.since].sub = q.sub
        /\ provider[q.since].status = "past_due"

\* A request that the row will still take has its grace period in its own past.
RequestInv(q) == Dated(q) /\ (q.at >= local.at => Graced(q))
RowInv == local = NoRow \/ (Dated(local) /\ Graced(local))

Bought(s) == \E n \in 1..Now : provider[n].sub = s

\* A recovery asks about subscriptions that the provider knows, one request for each.
JobInv(job) ==
    /\ Len(job.todo) <= 2 /\ \A k \in 1..Len(job.todo) : RequestInv(job.todo[k])
    /\ Len(job.todo) = 2 => job.todo[1].sub # job.todo[2].sub
    /\ job.at \notin {"candidate", "apply", "reject"} => job.todo = <<>>
    /\ job.at \in {"fetch", "candidate"} =>
          /\ job.candidate # NoSub => Bought(job.candidate)
          /\ job.known # NoSub => Bought(job.known)
    /\ job.at = "fetch" => job.known # NoSub
    /\ job.at = "candidate" =>
          /\ job.candidate # NoSub /\ Len(job.todo) <= 1
          /\ Len(job.todo) = 1 => job.todo[1].sub # job.candidate

\* A receipt reports a moment that has been; its transaction was committed if it is settled.
ReceiptInv ==
    /\ \A n \in 1..MaxMoments :
          /\ receipt[n].status # "none" => n <= Now
          /\ applied[n] <= 1
          /\ applied[n] # 0 => receipt[n].status \in {"processed", "ignored"}
    /\ \A w \in BillingWorkers : actor[w].at # "idle" => actor[w].n \in 1..Now

BillingInv ==
    /\ BillingTypes /\ RowInv /\ ReceiptInv
    /\ \A x \in Actors : JobInv(actor[x])

\* The last moment of a subscription that was bought, and what the provider said then.
LEMMA LastOfBought ==
    ASSUME provider \in Seq(Moment), NEW s, NEW t \in 0..Now, MomentsOf(s, t) # {}
    PROVE  /\ LastMoment(s, t) \in 1..t /\ provider[LastMoment(s, t)].sub = s
           /\ \A k \in MomentsOf(s, t) : k <= LastMoment(s, t)
           /\ AsOf(s, t) = provider[LastMoment(s, t)].status
<1>. DEFINE T == {b \in Nat : \A k \in MomentsOf(s, t) : k <= b}
<1>1. t \in Nat /\ MomentsOf(s, t) \subseteq 1..t
  BY DEF MomentsOf, Now
<1>2. PICK n \in T : \A c \in T : ~(<<c, n>> \in OpToRel(<, Nat))
  <2>1. t \in T
    BY <1>1
  <2> QED
    BY <2>1, WFMin, NatLessThanWellFounded, Zenon
<1>3. \A c \in T : ~(c < n)
  BY <1>2, Zenon DEF OpToRel
<1>4. n \in MomentsOf(s, t)
  <2> SUFFICES ASSUME n \notin MomentsOf(s, t) PROVE FALSE
    OBVIOUS
  <2>1. n \in Nat /\ \A k \in MomentsOf(s, t) : k <= n /\ k # n /\ k \in Nat
    BY <1>1
  <2>2. n # 0 /\ n - 1 \in Nat /\ \A k \in MomentsOf(s, t) : k <= n - 1
    BY <1>1, <2>1
  <2>3. n - 1 \in T
    BY <2>2
  <2> QED
    BY <1>3, <2>1, <2>2, <2>3
<1>5. \A k \in MomentsOf(s, t) : k <= n
  BY <1>2
<1>6. LastMoment(s, t) \in MomentsOf(s, t) /\ \A k \in MomentsOf(s, t) : k <= LastMoment(s, t)
  BY <1>4, <1>5 DEF LastMoment
<1> QED
  BY <1>1, <1>6 DEF MomentsOf, AsOf

\* At a moment that changed a subscription the provider said what the moment says.
LEMMA AsOfMoment ==
    ASSUME provider \in Seq(Moment), NEW n \in 1..Now
    PROVE  AsOf(provider[n].sub, n) = provider[n].status
<1>1. n \in MomentsOf(provider[n].sub, n) /\ Now \in Nat /\ n \in 0..Now
  BY DEF MomentsOf, Now
<1>2. LastMoment(provider[n].sub, n) \in 1..n /\ n <= LastMoment(provider[n].sub, n)
      /\ AsOf(provider[n].sub, n) = provider[LastMoment(provider[n].sub, n)].status
  BY <1>1, LastOfBought
<1>3. LastMoment(provider[n].sub, n) = n
  BY <1>2
<1> QED
  BY <1>2, <1>3

\* What is true of rows and requests by their shape.
LEMMA RowTypes ==
    /\ NoRow \in LocalRow /\ NoRow.sub = NoSub /\ NoRow.at = 0 /\ NoRow.status = "none"
    /\ NoWebhookJob \in Job /\ NoWebhookJob.at = "idle" /\ NoWebhookJob.todo = <<>>
    /\ NoWebhookJob.candidate = NoSub /\ NoWebhookJob.known = NoSub /\ NoWebhookJob.n = 0
    /\ \A x \in ProviderPays : PolarStatus(x) \in LocalStatus \ {"none"}
    /\ \A x \in ProviderPays : /\ PolarStatus(x) = "past_due" <=> x = "past_due"
                               /\ PolarStatus(x) = "active" <=> x = "active"
    /\ MaxMoments \in Nat
<1>1. ProviderPays \subseteq {"active", "past_due", "unpaid", "paused", "canceled"} /\ MaxMoments \in Nat
  BY BillingAssumption DEF BillingAssumption
<1>2. \A x \in ProviderPays : PolarStatus(x) \in LocalStatus \ {"none"}
  BY <1>1 DEF PolarStatus, LocalStatus
<1>3. \A x \in ProviderPays : /\ PolarStatus(x) = "past_due" <=> x = "past_due"
                              /\ PolarStatus(x) = "active" <=> x = "active"
  BY <1>1 DEF PolarStatus
<1> QED
  BY <1>1, <1>2, <1>3 DEF NoRow, LocalRow, LocalStatus, NoWebhookJob, Job

\* The log of the provider only grows.
LEMMA LogGrows ==
    ASSUME BillingTypes, Now' \in Nat, Now <= Now', \A n \in 1..Now : provider'[n] = provider[n],
           NEW q
    PROVE  /\ Dated(q) => Dated(q)'
           /\ Dated(q) /\ Graced(q) => Graced(q)'
<1>1. Now \in Nat /\ 1..Now \subseteq 1..Now'
  BY DEF BillingTypes, Now
<1>2. Dated(q) => Dated(q)'
  BY <1>1 DEF Dated
<1>3. ASSUME Dated(q), Graced(q) PROVE Graced(q)'
  <2>1. \A n \in 1..q.at : n \in 1..Now
    BY <1>1, <1>3 DEF Dated
  <2> QED
    BY <1>3, <2>1 DEF Graced
<1> QED
  BY <1>2, <1>3

\* What a job has in hand stays true while the log grows and the row gets younger.
LEMMA JobKept ==
    ASSUME BillingTypes, Now' \in Nat, Now <= Now', \A n \in 1..Now : provider'[n] = provider[n],
           local.at \in Nat, local'.at \in Nat, local.at <= local'.at, NEW job, JobInv(job), job \in Job
    PROVE  JobInv(job)'
<1>1. Now \in Nat /\ 1..Now \subseteq 1..Now'
  BY DEF BillingTypes, Now
<1>2. \A s : Bought(s) => Bought(s)'
  BY <1>1 DEF Bought
<1>3. ASSUME NEW k \in 1..Len(job.todo)
      PROVE  RequestInv(job.todo[k])'
  <2>1. RequestInv(job.todo[k]) /\ job.todo[k] \in LocalRow
    BY <1>3 DEF JobInv, Job
  <2>2. PICK q \in LocalRow : q = job.todo[k]
    BY <2>1
  <2>3. Dated(q)' /\ (q.at >= local.at => Graced(q)')
    BY <2>1, <2>2, LogGrows DEF RequestInv
  <2>4. q.at \in Nat /\ (q.at >= local'.at => q.at >= local.at)
    BY RowTypes DEF LocalRow
  <2>5. RequestInv(q)'
    BY <2>3, <2>4 DEF RequestInv
  <2> QED
    BY <2>2, <2>5
<1> QED
  BY <1>2, <1>3 DEF JobInv

\* UpsertOrganizationSubscription: the row never gets older, still says what the provider said, and
\* a past-due subscription that stays so keeps its grace period.
GoodRow(row) == row \in LocalRow /\ (row = NoRow \/ (Dated(row) /\ Graced(row)))
LEMMA Upserting ==
    ASSUME BillingTypes, NEW row, GoodRow(row), NEW req \in LocalRow, Dated(req),
           req.at >= row.at => Graced(req)
    PROVE  /\ GoodRow(Upserted(row, req))
           /\ row.at <= Upserted(row, req).at
           /\ \/ Upserted(row, req) = row
              \/ /\ Upserted(row, req).sub = req.sub /\ Upserted(row, req).status = req.status
                 /\ row.sub \in {NoSub, req.sub} \/ row.status = "canceled"
           /\ row.status = "past_due" /\ Upserted(row, req).status = "past_due"
                 /\ Upserted(row, req).sub = row.sub
              => Upserted(row, req).since = row.since
<1>1. /\ row \in LocalRow /\ row.at \in 0..MaxMoments /\ MaxMoments \in Nat
      /\ req.at \in 0..MaxMoments /\ Now \in Nat /\ row.since \in 0..MaxMoments
      /\ NoRow.status = "none"
  BY RowTypes DEF GoodRow, LocalRow, BillingTypes, Now
<1>. DEFINE u == [req EXCEPT !.since = IF KeepsGrace(row, req) THEN row.since ELSE @]
<1>2. CASE ~Upserts(row, req)
  <2>1. Upserted(row, req) = row
    BY <1>2 DEF Upserted
  <2> QED
    BY <1>1, <2>1
<1>3. CASE Upserts(row, req)
  <2>1. Upserted(row, req) = u
    BY <1>3 DEF Upserted
  <2>2. /\ u \in LocalRow /\ u.sub = req.sub /\ u.status = req.status /\ u.at = req.at
        /\ u.since = IF KeepsGrace(row, req) THEN row.since ELSE req.since
    BY <1>1 DEF LocalRow
  <2>. HIDE DEF u
  <2>3. /\ req.at >= row.at /\ (row.sub \in {NoSub, req.sub} \/ row.status = "canceled")
        /\ Graced(req)
    BY <1>3 DEF Upserts
  <2>4. Dated(u)
    BY <2>2 DEF Dated
  <2>5. KeepsGrace(row, req) => row.status = "past_due" /\ row.sub = req.sub /\ row # NoRow
    BY <1>1 DEF KeepsGrace
  <2>6. Graced(u)
    <3>1. CASE KeepsGrace(row, req)
      <4>1. row.since \in 1..row.at /\ provider[row.since].sub = row.sub
            /\ provider[row.since].status = "past_due"
        BY <2>5, <3>1 DEF GoodRow, Graced
      <4>2. row.since \in 1..req.at
        BY <1>1, <2>3, <4>1
      <4> QED
        BY <2>2, <2>5, <3>1, <4>1, <4>2 DEF Graced
    <3>2. CASE ~KeepsGrace(row, req)
      BY <2>2, <2>3, <3>2 DEF Graced
    <3> QED
      BY <3>1, <3>2
  <2>7. row.status = "past_due" /\ u.status = "past_due" /\ u.sub = row.sub => u.since = row.since
    <3>. SUFFICES ASSUME row.status = "past_due", u.status = "past_due", u.sub = row.sub
                  PROVE  u.since = row.since
      OBVIOUS
    <3>1. row.since # 0
      BY <1>1 DEF GoodRow, Graced
    <3>2. KeepsGrace(row, req)
      BY <2>2, <3>1 DEF KeepsGrace
    <3> QED
      BY <2>2, <3>2
  <2> QED
    BY <1>1, <2>1, <2>2, <2>3, <2>4, <2>6, <2>7 DEF GoodRow
<1> QED
  BY <1>2, <1>3

\* The requests of a job, one after the other.
LEMMA ApplyingAll ==
    ASSUME BillingTypes, RowInv, NEW job \in Job, JobInv(job)
    PROVE  LET row == ApplyAll(job.todo)
           IN  /\ GoodRow(row) /\ local.at <= row.at
               /\ local.status = "past_due" /\ row.status = "past_due" /\ row.sub = local.sub
                     => row.since = local.since
<1>1. GoodRow(local) /\ local.at \in Nat
  BY RowTypes DEF BillingTypes, RowInv, GoodRow, LocalRow
<1>2. /\ Len(job.todo) \in 0..2
      /\ \A k \in 1..Len(job.todo) : job.todo[k] \in LocalRow /\ RequestInv(job.todo[k])
  <2>1. job.todo \in Seq(LocalRow)
    BY DEF Job
  <2>2. Len(job.todo) \in Nat /\ \A k \in 1..Len(job.todo) : job.todo[k] \in LocalRow
    BY <2>1
  <2>3. Len(job.todo) <= 2 /\ \A k \in 1..Len(job.todo) : RequestInv(job.todo[k])
    BY DEF JobInv
  <2>4. \A l \in Nat : l <= 2 => l \in 0..2
    OBVIOUS
  <2>5. Len(job.todo) \in 0..2
    BY <2>2, <2>3, <2>4
  <2> QED
    BY <2>2, <2>3, <2>5
<1>3. CASE Len(job.todo) = 0
  <2>1. ApplyAll(job.todo) = local
    BY <1>3 DEF ApplyAll
  <2> QED
    BY <1>1, <2>1
<1>4. CASE Len(job.todo) = 1
  <2>1. ApplyAll(job.todo) = Upserted(local, job.todo[1])
    BY <1>4 DEF ApplyAll
  <2>2. PICK q \in LocalRow : q = job.todo[1] /\ RequestInv(q)
    BY <1>2, <1>4
  <2> QED
    BY <1>1, <2>1, <2>2, Upserting DEF RequestInv
<1>5. CASE Len(job.todo) = 2
  <2>1. PICK q \in LocalRow : q = job.todo[1] /\ RequestInv(q)
    BY <1>2, <1>5
  <2>2. PICK p \in LocalRow : p = job.todo[2] /\ RequestInv(p) /\ p.sub # q.sub
    BY <1>2, <1>5, <2>1 DEF JobInv
  <2>. DEFINE u == Upserted(local, q)
              v == Upserted(u, p)
  <2>3. ApplyAll(job.todo) = v
    BY <1>5, <2>1, <2>2 DEF ApplyAll
  <2>4. /\ GoodRow(u) /\ local.at <= u.at
        /\ u = local \/ (/\ u.sub = q.sub /\ u.status = q.status
                         /\ local.sub \in {NoSub, q.sub} \/ local.status = "canceled")
        /\ local.status = "past_due" /\ u.status = "past_due" /\ u.sub = local.sub
              => u.since = local.since
    BY <1>1, <2>1, Upserting DEF RequestInv
  <2>. HIDE DEF u
  <2>5. u.at \in Nat /\ (p.at >= u.at => Graced(p))
    BY <1>1, <2>2, <2>4, RowTypes DEF GoodRow, LocalRow, RequestInv
  <2>6. /\ GoodRow(v) /\ u.at <= v.at
        /\ v = u \/ (/\ v.sub = p.sub /\ v.status = p.status
                     /\ u.sub \in {NoSub, p.sub} \/ u.status = "canceled")
        /\ u.status = "past_due" /\ v.status = "past_due" /\ v.sub = u.sub => v.since = u.since
    BY <2>2, <2>4, <2>5, Upserting DEF RequestInv
  <2>. HIDE DEF v
  <2>7. /\ v.at \in Nat /\ (local # NoRow => local.sub # NoSub)
        /\ local = NoRow => local.status = "none"
    <3>1. v.at \in Nat
      BY <2>6, RowTypes DEF GoodRow, LocalRow
    <3>2. \A n \in 1..Now : provider[n] \in Moment
      BY DEF BillingTypes, Now
    <3>3. local # NoRow => local.sub \in PolarSubs
      BY <3>2 DEF RowInv, Dated, Moment
    <3> QED
      BY <3>1, <3>3, RowTypes, BillingAssumption DEF BillingAssumption
  <2>8. local.status = "past_due" /\ v.status = "past_due" /\ v.sub = local.sub
           => v.since = local.since
    BY <2>2, <2>4, <2>6, <2>7
  <2> QED
    BY <1>1, <2>3, <2>4, <2>5, <2>6, <2>7, <2>8
<1> QED
  BY <1>2, <1>3, <1>4, <1>5

\* syncPolarSubscription: what a request says of a moment of its subscription.
LEMMA Syncing ==
    ASSUME BillingTypes, RowInv, NEW n \in 1..Now, NEW s, provider[n].sub = s
    PROVE  /\ SyncRequest(s, provider[n].status, n) \in LocalRow
           /\ SyncRequest(s, provider[n].status, n).sub = s
           /\ RequestInv(SyncRequest(s, provider[n].status, n))
           /\ s \in PolarSubs
<1>. DEFINE q == SyncRequest(s, provider[n].status, n)
<1>1. /\ s \in PolarSubs /\ provider[n].status \in ProviderPays /\ Now \in Nat /\ Now <= MaxMoments
      /\ n \in 1..MaxMoments /\ 0 \in 0..MaxMoments /\ MaxMoments \in Nat
  <2>1. Now \in Nat /\ Now <= MaxMoments /\ provider[n] \in Moment /\ MaxMoments \in Nat
    BY RowTypes DEF BillingTypes, Now
  <2> QED
    BY <2>1 DEF Moment
<1>2. /\ q.sub = s /\ q.status = PolarStatus(provider[n].status) /\ q.at = n
      /\ q.since = PastDueSince(s, provider[n].status, local, n)
  BY DEF SyncRequest
<1>3. q \in LocalRow
  <2>1. PastDueSince(s, provider[n].status, local, n) \in 0..MaxMoments
    BY <1>1 DEF PastDueSince, BillingTypes, LocalRow
  <2> QED
    BY <1>1, <2>1, RowTypes DEF SyncRequest, LocalRow
<1>. HIDE DEF q
<1>4. Dated(q)
  BY <1>1, <1>2 DEF Dated
<1>5. ASSUME q.at >= local.at PROVE Graced(q)
  <2>. SUFFICES ASSUME q.status = "past_due"
                PROVE  /\ q.since \in 1..n /\ provider[q.since].sub = s
                       /\ provider[q.since].status = "past_due"
    BY <1>2 DEF Graced
  <2>1. provider[n].status = "past_due"
    BY <1>1, <1>2, RowTypes
  <2>2. CASE local.status = "past_due" /\ local.sub = s
    <3>1. q.since = local.since
      BY <1>2, <2>1, <2>2 DEF PastDueSince
    <3>2. /\ local.since \in 1..local.at /\ provider[local.since].sub = s
          /\ provider[local.since].status = "past_due"
      BY <2>2, RowTypes DEF RowInv, Graced
    <3>3. local.at \in Nat /\ local.at <= n
      BY <1>1, <1>2, <1>5 DEF BillingTypes, LocalRow
    <3> QED
      BY <1>1, <3>1, <3>2, <3>3
  <2>3. CASE ~(local.status = "past_due" /\ local.sub = s)
    <3>1. q.since = n
      BY <1>2, <2>1, <2>3 DEF PastDueSince
    <3> QED
      BY <1>1, <2>1, <3>1
  <2> QED
    BY <2>2, <2>3
<1> QED
  BY <1>1, <1>2, <1>3, <1>4, <1>5 DEF q, RequestInv

\* A request about a subscription that was bought, dated with its last change.
LEMMA SyncingLast ==
    ASSUME BillingTypes, RowInv, NEW s, Bought(s)
    PROVE  LET q == SyncRequest(s, Current(s), ModifiedAt(s))
           IN  q \in LocalRow /\ q.sub = s /\ RequestInv(q) /\ s \in PolarSubs
<1>1. MomentsOf(s, Now) # {} /\ Now \in 0..Now
  BY DEF Bought, MomentsOf, BillingTypes, Now
<1>2. /\ LastMoment(s, Now) \in 1..Now /\ provider[LastMoment(s, Now)].sub = s
      /\ Current(s) = provider[LastMoment(s, Now)].status
  BY <1>1, LastOfBought DEF BillingTypes, Current
<1> QED
  BY <1>2, Syncing DEF ModifiedAt

\* Nothing has been bought at the start.
LEMMA BillingStart == BillingInit => BillingInv
<1> SUFFICES ASSUME BillingInit PROVE BillingInv
  OBVIOUS
<1>1. provider = <<>> /\ Now = 0 /\ local = NoRow /\ \A x \in Actors : actor[x] = NoWebhookJob
  BY DEF BillingInit, Now
<1>2. \A n \in 1..MaxMoments : receipt[n].status = "none" /\ applied[n] = 0
  BY DEF BillingInit
<1>3. BillingTypes
  <2>1. provider \in Seq(Moment) /\ Now <= MaxMoments /\ local \in LocalRow
    BY <1>1, RowTypes
  <2>2. receipt \in [1..MaxMoments -> Receipt]
    BY DEF BillingInit, Receipt, ReceiptStatus, EventKind
  <2>3. actor \in [Actors -> Job] /\ applied \in [1..MaxMoments -> Nat]
    BY RowTypes DEF BillingInit
  <2> QED
    BY <2>1, <2>2, <2>3 DEF BillingTypes
<1>4. ReceiptInv
  BY <1>1, <1>2, RowTypes DEF ReceiptInv, Actors
<1>5. JobInv(NoWebhookJob)
  BY RowTypes DEF JobInv
<1> QED
  BY <1>1, <1>3, <1>4, <1>5 DEF BillingInv, RowInv

\* A job without requests.
LEMMA FreshJob ==
    ASSUME NEW job \in Job, job.todo = <<>>, job.at \notin {"fetch", "candidate"}
    PROVE  JobInv(job)
BY DEF JobInv

\* One job takes a step; log, row and receipts may change with it.
LEMMA JobMoves ==
    ASSUME BillingInv, NEW x \in Actors, NEW job \in Job, SetActor(x, job), UNCHANGED provider,
           GoodRow(local'), local.at <= local'.at, JobInv(job),
           receipt' \in [1..MaxMoments -> Receipt], applied' \in [1..MaxMoments -> Nat],
           \A n \in 1..MaxMoments :
              /\ receipt'[n].status # "none" => n <= Now
              /\ applied'[n] <= 1
              /\ applied'[n] # 0 => receipt'[n].status \in {"processed", "ignored"},
           x \in BillingWorkers /\ job.at # "idle" => job.n \in 1..Now
    PROVE  BillingInv'
<1>1. /\ actor' \in [Actors -> Job] /\ actor'[x] = job
      /\ \A y \in Actors \ {x} : actor'[y] = actor[y] /\ actor[y] \in Job
  BY DEF SetActor, BillingInv, BillingTypes
<1>2. /\ Now' = Now /\ Now \in Nat /\ \A n \in 1..Now : provider'[n] = provider[n]
      /\ local.at \in Nat /\ local'.at \in Nat /\ local' \in LocalRow
  BY RowTypes DEF Now, BillingInv, BillingTypes, GoodRow, LocalRow
<1>3. BillingTypes'
  BY <1>1, <1>2 DEF BillingInv, BillingTypes, Now
<1>4. RowInv'
  BY DEF GoodRow, RowInv, Dated, Graced, Now
<1>5. ReceiptInv'
  <2>1. \A w \in BillingWorkers : w \in Actors
    BY DEF Actors
  <2>2. \A w \in BillingWorkers : actor'[w].at # "idle" => actor'[w].n \in 1..Now
    BY <1>1, <2>1 DEF BillingInv, ReceiptInv
  <2> QED
    BY <1>2, <2>2 DEF ReceiptInv
<1>6. ASSUME NEW y \in Actors PROVE JobInv(actor[y])'
  <2>1. PICK j \in Job : j = actor'[y] /\ JobInv(j)
    BY <1>1 DEF BillingInv
  <2>2. JobInv(j)'
    BY <1>2, <2>1, JobKept DEF BillingInv
  <2> QED
    BY <2>1, <2>2
<1> QED
  BY <1>3, <1>4, <1>5, <1>6 DEF BillingInv

\* What a job in progress knows.
LEMMA JobTypes ==
    ASSUME BillingInv, NEW x \in Actors
    PROVE  /\ actor[x] \in Job /\ JobInv(actor[x]) /\ Now \in Nat /\ Now <= MaxMoments
           /\ GoodRow(local) /\ local.at \in Nat
           /\ receipt \in [1..MaxMoments -> Receipt] /\ applied \in [1..MaxMoments -> Nat]
           /\ x \in BillingWorkers /\ actor[x].at # "idle" => actor[x].n \in 1..Now
           /\ \A n \in 1..MaxMoments :
                 /\ receipt[n].status # "none" => n <= Now
                 /\ applied[n] <= 1
                 /\ applied[n] # 0 => receipt[n].status \in {"processed", "ignored"}
<1>1. Now \in Nat /\ Now <= MaxMoments /\ actor[x] \in Job /\ JobInv(actor[x])
  BY DEF BillingInv, BillingTypes, Now
<1>2. GoodRow(local) /\ local.at \in Nat
  <2>1. local \in LocalRow /\ RowInv /\ MaxMoments \in Nat
    BY RowTypes DEF BillingInv, BillingTypes
  <2> QED
    BY <2>1 DEF GoodRow, RowInv, LocalRow
<1>3. /\ receipt \in [1..MaxMoments -> Receipt] /\ applied \in [1..MaxMoments -> Nat]
      /\ x \in BillingWorkers /\ actor[x].at # "idle" => actor[x].n \in 1..Now
      /\ \A n \in 1..MaxMoments :
            /\ receipt[n].status # "none" => n <= Now
            /\ applied[n] <= 1
            /\ applied[n] # 0 => receipt[n].status \in {"processed", "ignored"}
  BY DEF BillingInv, BillingTypes, ReceiptInv
<1> QED
  BY <1>1, <1>2, <1>3

\* One receipt changes; it is not one that is settled, and does not become one that was not reported.
LEMMA ReceiptChanges ==
    ASSUME BillingInv, NEW n \in 1..MaxMoments, NEW row \in Receipt,
           receipt' = [receipt EXCEPT ![n] = row], UNCHANGED applied,
           row.status # "none" => n <= Now,
           receipt[n].status \notin {"processed", "ignored"}
    PROVE  /\ receipt' \in [1..MaxMoments -> Receipt] /\ applied' \in [1..MaxMoments -> Nat]
           /\ \A k \in 1..MaxMoments :
                 /\ receipt'[k].status # "none" => k <= Now
                 /\ applied'[k] <= 1
                 /\ applied'[k] # 0 => receipt'[k].status \in {"processed", "ignored"}
BY DEF BillingInv, BillingTypes, ReceiptInv

\* The provider's log grows, or receipts change without a job.
LEMMA OutsideMoves ==
    ASSUME BillingInv, UNCHANGED <<local, actor, applied>>,
           provider' \in Seq(Moment), Now <= Now', Now' <= MaxMoments,
           \A n \in 1..Now : provider'[n] = provider[n],
           receipt' \in [1..MaxMoments -> Receipt],
           \A n \in 1..MaxMoments :
              /\ receipt'[n].status # "none" => n <= Now
              /\ applied[n] # 0 => receipt'[n].status \in {"processed", "ignored"}
    PROVE  BillingInv'
<1>1. /\ Now \in Nat /\ Now' \in Nat /\ MaxMoments \in Nat /\ local.at \in Nat
      /\ provider \in Seq(Moment) /\ local \in LocalRow
  BY RowTypes DEF BillingInv, BillingTypes, Now, LocalRow
<1>2. BillingTypes'
  BY <1>1 DEF BillingInv, BillingTypes
<1>3. RowInv'
  <2>1. PICK q \in LocalRow : q = local
    BY <1>1
  <2>2. q = NoRow \/ (Dated(q)' /\ Graced(q)')
    BY <1>1, <2>1, LogGrows DEF BillingInv, RowInv
  <2> QED
    BY <2>1, <2>2 DEF RowInv, Dated, Graced
<1>4. ReceiptInv'
  <2>1. \A n \in 1..MaxMoments : n <= Now => n <= Now'
    BY <1>1
  <2>2. \A w \in BillingWorkers : actor[w].at # "idle" => actor[w].n \in 1..Now'
    BY <1>1 DEF BillingInv, ReceiptInv
  <2> QED
    BY <2>1, <2>2 DEF BillingInv, ReceiptInv
<1>5. ASSUME NEW y \in Actors PROVE JobInv(actor[y])'
  <2>1. PICK j \in Job : j = actor[y] /\ JobInv(j)
    BY DEF BillingInv, BillingTypes
  <2>2. BillingTypes /\ local'.at = local.at /\ local'.at \in Nat /\ local.at <= local'.at
    BY <1>1 DEF BillingInv
  <2>3. JobInv(j)'
    BY <1>1, <2>1, <2>2, JobKept
  <2> QED
    BY <2>1, <2>3
<1> QED
  BY <1>2, <1>3, <1>4, <1>5 DEF BillingInv

\* A change at the provider; a webhook arrives, a lease runs out, a receipt is given up.
LEMMA OutsideStep ==
    ASSUME BillingInv,
           \/ \E s \in PolarSubs, status \in ProviderPays : ProviderChanges(s, status)
           \/ \E n \in 1..MaxMoments, kind \in EventKind : Webhook(n, kind)
           \/ \E n \in 1..MaxMoments : LeaseGetsStale(n) \/ ReapExhausted(n)
    PROVE  BillingInv'
<1>1. /\ Now \in Nat /\ Now <= MaxMoments /\ MaxMoments \in Nat /\ provider \in Seq(Moment)
      /\ receipt \in [1..MaxMoments -> Receipt]
      /\ \A n \in 1..MaxMoments :
            /\ receipt[n].status # "none" => n <= Now
            /\ applied[n] # 0 => receipt[n].status \in {"processed", "ignored"}
  BY RowTypes DEF BillingInv, BillingTypes, Now, ReceiptInv
<1>2. CASE \E s \in PolarSubs, status \in ProviderPays : ProviderChanges(s, status)
  <2>1. PICK m \in Moment : provider' = Append(provider, m)
    BY <1>2 DEF ProviderChanges, Moment
  <2>2. Now < MaxMoments /\ UNCHANGED <<receipt, local, actor, applied>>
    BY <1>2 DEF ProviderChanges
  <2>3. /\ provider' \in Seq(Moment) /\ Now' = Now + 1
        /\ \A n \in 1..Now : provider'[n] = provider[n]
    BY <1>1, <2>1 DEF Now
  <2>4. Now <= Now' /\ Now' <= MaxMoments
    BY <1>1, <2>2, <2>3
  <2>5. receipt' = receipt /\ UNCHANGED <<local, actor, applied>>
    BY <2>2
  <2> QED
    BY <1>1, <2>3, <2>4, <2>5, OutsideMoves
<1>3. CASE \/ \E n \in 1..MaxMoments, kind \in EventKind : Webhook(n, kind)
           \/ \E n \in 1..MaxMoments : LeaseGetsStale(n) \/ ReapExhausted(n)
  <2>1. PICK n \in 1..MaxMoments :
           \/ \E kind \in EventKind : Webhook(n, kind)
           \/ LeaseGetsStale(n) \/ ReapExhausted(n)
    BY <1>3
  <2>2. UNCHANGED <<provider, local, actor, applied>>
    BY <2>1 DEF Webhook, LeaseGetsStale, ReapExhausted
  <2>3. \E row \in Receipt :
           /\ receipt' = [receipt EXCEPT ![n] = row]
           /\ row.status # "none" => n <= Now
           /\ receipt[n].status \notin {"processed", "ignored"}
    <3>1. CASE \E kind \in EventKind : Webhook(n, kind)
      <4>1. PICK kind \in EventKind : Webhook(n, kind)
        BY <3>1
      <4>. DEFINE row == [receipt[n] EXCEPT !.status = "pending", !.kind = kind]
      <4>2. row \in Receipt /\ n <= Now /\ receipt[n].status = "none"
        BY SMTT(30), <1>1, <4>1 DEF Webhook, Receipt, ReceiptStatus
      <4>3. receipt' = [receipt EXCEPT ![n] = row]
        BY <1>1, <4>1 DEF Webhook
      <4> QED
        BY <4>2, <4>3
    <3>2. CASE LeaseGetsStale(n)
      <4>. DEFINE row == [receipt[n] EXCEPT !.stale = TRUE]
      <4>1. /\ row \in Receipt /\ receipt[n].status = "processing"
            /\ receipt' = [receipt EXCEPT ![n] = row]
        BY <1>1, <3>2 DEF LeaseGetsStale, Receipt
      <4> QED
        BY <1>1, <4>1
    <3>3. CASE ReapExhausted(n)
      <4>. DEFINE row == [receipt[n] EXCEPT !.status = "dead_letter", !.token = NoSub, !.stale = FALSE]
      <4>1. row \in Receipt
        BY <1>1 DEF Receipt, ReceiptStatus
      <4>2. receipt[n].status = "processing" /\ receipt' = [receipt EXCEPT ![n] = row]
        BY <1>1, <3>3 DEF ReapExhausted, Reapable, ReceiptSettled
      <4> QED
        BY <1>1, <4>1, <4>2
    <3> QED
      BY <2>1, <3>1, <3>2, <3>3
  <2>4. PICK row \in Receipt :
           /\ receipt' = [receipt EXCEPT ![n] = row]
           /\ row.status # "none" => n <= Now
           /\ receipt[n].status \notin {"processed", "ignored"}
    BY <2>3
  <2>5. /\ receipt' \in [1..MaxMoments -> Receipt]
        /\ \A k \in 1..MaxMoments :
              /\ receipt'[k].status # "none" => k <= Now
              /\ applied[k] # 0 => receipt'[k].status \in {"processed", "ignored"}
    BY <1>1, <2>4
  <2>6. provider' \in Seq(Moment) /\ Now' = Now
    BY <1>1, <2>2 DEF Now
  <2> QED
    BY <1>1, <2>2, <2>5, <2>6, OutsideMoves
<1> QED
  BY <1>2, <1>3

\* A job goes back to rest, or to its failure; the row stays.
LEMMA Resting ==
    ASSUME BillingInv, NEW x \in Actors, NEW job \in Job, SetActor(x, job), UNCHANGED <<provider, local>>,
           JobInv(job), UNCHANGED <<receipt, applied>>,
           x \in BillingWorkers /\ job.at # "idle" => job.n \in 1..Now
    PROVE  BillingInv'
<1>1. /\ GoodRow(local') /\ local.at <= local'.at
      /\ receipt' \in [1..MaxMoments -> Receipt] /\ applied' \in [1..MaxMoments -> Nat]
      /\ \A n \in 1..MaxMoments :
            /\ receipt'[n].status # "none" => n <= Now
            /\ applied'[n] <= 1
            /\ applied'[n] # 0 => receipt'[n].status \in {"processed", "ignored"}
  BY JobTypes
<1> QED
  BY <1>1, JobMoves

\* ClaimBillingWebhookEvent
LEMMA ClaimStep ==
    ASSUME BillingInv, NEW w \in BillingWorkers, NEW n \in 1..MaxMoments, ClaimReceipt(w, n)
    PROVE  BillingInv'
<1>1. w \in Actors
  BY DEF Actors
<1>2. /\ receipt[n] \in Receipt /\ receipt \in [1..MaxMoments -> Receipt] /\ GoodRow(local)
      /\ local.at \in Nat /\ Now \in Nat /\ (receipt[n].status # "none" => n <= Now)
  BY <1>1, JobTypes
<1>. DEFINE row == [receipt[n] EXCEPT !.status = "processing", !.attempts = @ + 1, !.token = w, !.stale = FALSE]
            job == [NoWebhookJob EXCEPT !.at = "claimed", !.n = n]
<1>9. receipt[n].attempts \in Nat /\ n \in 0..MaxMoments
  BY <1>2, RowTypes DEF Receipt
<1>3. /\ receipt' = [receipt EXCEPT ![n] = row] /\ SetActor(w, job)
      /\ receipt[n].status \in {"pending", "processing"} /\ UNCHANGED <<provider, local, applied>>
  <2>1. receipt' = [receipt EXCEPT ![n] = row]
    BY <1>2, <1>9 DEF ClaimReceipt
  <2>2. receipt[n].status \in {"pending", "processing"}
    BY DEF ClaimReceipt, ReceiptClaimable
  <2>3. SetActor(w, job) /\ UNCHANGED <<provider, local, applied>>
    BY DEF ClaimReceipt, SetActor
  <2> QED
    BY <2>1, <2>2, <2>3
<1>4. row \in Receipt /\ n <= Now
  <2>1. /\ receipt[n].attempts + 1 \in Nat /\ "processing" \in ReceiptStatus
        /\ w \in BillingWorkers \cup {NoSub} /\ FALSE \in BOOLEAN
    BY <1>9 DEF ReceiptStatus
  <2>2. row \in Receipt
    BY <1>2, <2>1 DEF Receipt
  <2> QED
    BY <1>2, <1>3, <2>2
<1>5. job \in Job /\ job.n = n /\ job.todo = <<>> /\ job.at = "claimed"
  BY <1>9, RowTypes DEF NoWebhookJob, Job
<1>. HIDE DEF row, job
<1>6. /\ receipt' \in [1..MaxMoments -> Receipt] /\ applied' \in [1..MaxMoments -> Nat]
      /\ \A k \in 1..MaxMoments :
            /\ receipt'[k].status # "none" => k <= Now
            /\ applied'[k] <= 1
            /\ applied'[k] # 0 => receipt'[k].status \in {"processed", "ignored"}
  BY <1>3, <1>4, ReceiptChanges
<1>7. JobInv(job)
  BY <1>5, FreshJob
<1> QED
  BY <1>1, <1>2, <1>3, <1>4, <1>5, <1>6, <1>7, JobMoves

\* A request that a job appends to what it has in hand.
LEMMA Asking ==
    ASSUME NEW job \in Job, JobInv(job), NEW q \in LocalRow, RequestInv(q), NEW next \in Job,
           next.todo = Append(job.todo, q), next.at \in {"apply", "reject", "candidate"},
           Len(job.todo) <= 1, Len(job.todo) = 1 => job.todo[1].sub # q.sub,
           next.at = "candidate" =>
              /\ job.todo = <<>> /\ next.candidate # NoSub /\ q.sub # next.candidate
              /\ Bought(next.candidate) /\ (next.known # NoSub => Bought(next.known))
    PROVE  JobInv(next)
<1>1. job.todo \in Seq(LocalRow) /\ Len(job.todo) \in Nat
  BY DEF Job
<1>2. /\ Len(next.todo) = Len(job.todo) + 1 /\ next.todo[Len(job.todo) + 1] = q
      /\ \A k \in 1..Len(job.todo) : next.todo[k] = job.todo[k]
  BY <1>1
<1>3. \A k \in 1..Len(next.todo) : RequestInv(next.todo[k])
  <2>1. \A k \in 1..Len(job.todo) : RequestInv(job.todo[k])
    BY DEF JobInv
  <2>2. \A k \in 1..Len(next.todo) : k \in 1..Len(job.todo) \/ k = Len(job.todo) + 1
    BY <1>1, <1>2
  <2> QED
    BY <1>2, <2>1, <2>2
<1>4. Len(next.todo) <= 2 /\ (Len(next.todo) = 2 => next.todo[1].sub # next.todo[2].sub)
  <2>1. CASE Len(job.todo) = 0
    BY <1>2, <2>1
  <2>2. CASE Len(job.todo) = 1
    BY <1>2, <2>2
  <2>3. \A l \in Nat : l <= 1 => l = 0 \/ l = 1
    OBVIOUS
  <2>4. Len(job.todo) = 0 \/ Len(job.todo) = 1
    BY <1>1, <2>3
  <2> QED
    BY <2>1, <2>2, <2>4
<1>5. next.at = "candidate" =>
         /\ next.candidate # NoSub /\ Len(next.todo) <= 1
         /\ Len(next.todo) = 1 => next.todo[1].sub # next.candidate
  <2>1. job.todo = <<>> => Len(job.todo) = 0
    OBVIOUS
  <2> QED
    BY <1>1, <1>2, <2>1
<1> QED
  BY <1>3, <1>4, <1>5 DEF JobInv

\* Consumer.Handle: what becomes of a receipt.
LEMMA HandleStep ==
    ASSUME BillingInv, NEW w \in BillingWorkers, HandleEvent(w)
    PROVE  BillingInv'
<1>. DEFINE n == actor[w].n
<1>1. w \in Actors
  BY DEF Actors
<1>2. /\ actor[w] \in Job /\ JobInv(actor[w]) /\ actor[w].at = "claimed" /\ n \in 1..Now
      /\ Now \in Nat /\ actor[w].todo = <<>>
      /\ UNCHANGED <<provider, applied, receipt, local>>
  BY <1>1, JobTypes DEF HandleEvent, JobUnchanged, JobInv
<1>3. CASE SetActor(w, NoWebhookJob)
  BY <1>1, <1>2, <1>3, RowTypes, FreshJob, Resting
<1>4. CASE SetActor(w, [actor[w] EXCEPT !.at = "apply",
                           !.todo = <<SyncRequest(provider[n].sub, provider[n].status, n)>>])
  <2>. DEFINE q == SyncRequest(provider[n].sub, provider[n].status, n)
              job == [actor[w] EXCEPT !.at = "apply", !.todo = <<q>>]
  <2>1. q \in LocalRow /\ RequestInv(q)
    BY <1>2, Syncing DEF BillingInv
  <2>2. SetActor(w, job)
    BY <1>4
  <2>. HIDE DEF q
  <2>3. job \in Job /\ job.todo = Append(actor[w].todo, q) /\ job.at = "apply" /\ job.n = n
    <3>1. <<q>> \in Seq(LocalRow) /\ <<q>> = Append(<<>>, q)
      BY <2>1
    <3> QED
      BY <1>2, <3>1 DEF Job
  <2>. HIDE DEF job
  <2>4. JobInv(job)
    <3>1. /\ Len(actor[w].todo) = 0 /\ Len(actor[w].todo) <= 1 /\ actor[w] \in Job
          /\ JobInv(actor[w]) /\ job.at \in {"apply", "reject", "candidate"}
          /\ job.at # "candidate"
      BY <1>2, <2>3
    <3>2. PICK old \in Job : old = actor[w]
      BY <3>1
    <3> QED
      BY <2>1, <2>3, <3>1, <3>2, Asking
  <2> QED
    BY <1>1, <1>2, <2>2, <2>3, <2>4, Resting
<1>5. CASE \E at \in {"recover", "apply"} : SetActor(w, [actor[w] EXCEPT !.at = at, !.todo = <<>>])
  <2>1. PICK at \in {"recover", "apply"} : SetActor(w, [actor[w] EXCEPT !.at = at, !.todo = <<>>])
    BY <1>5
  <2>. DEFINE job == [actor[w] EXCEPT !.at = at, !.todo = <<>>]
  <2>2. job \in Job /\ job.todo = <<>> /\ job.at = at /\ job.n = n
    BY <1>2 DEF Job
  <2>3. SetActor(w, job)
    BY <2>1
  <2>. HIDE DEF job
  <2> QED
    BY <1>1, <1>2, <2>2, <2>3, FreshJob, Resting
<1> QED
  BY <1>3, <1>4, <1>5 DEF HandleEvent

\* RecoverOrganization reads the row and the customer's state.
LEMMA RecoverReadsStep == ASSUME BillingInv, NEW x \in Actors, RecoverReads(x) PROVE BillingInv'
<1>. DEFINE c == IF ActiveSubs = {} THEN NoSub ELSE CHOOSE s \in PolarSubs : s \in ActiveSubs
            at == IF Cardinality(ActiveSubs) > 1 THEN "reject"
                  ELSE IF local.sub # NoSub THEN "fetch"
                  ELSE IF c # NoSub THEN "candidate" ELSE "apply"
            job == [actor[x] EXCEPT !.known = local.sub, !.candidate = c, !.at = at]
<1>1. /\ actor[x] \in Job /\ JobInv(actor[x]) /\ actor[x].at \in {"idle", "recover"}
      /\ x \in BillingWorkers => actor[x].at = "recover"
      /\ UNCHANGED <<provider, applied, receipt, local>> /\ SetActor(x, job)
  <2>1. x \in BillingWorkers => x # Reconciler
    BY BillingAssumption DEF BillingAssumption
  <2>2. actor[x] \in Job /\ actor[x].at = IF x = Reconciler THEN "idle" ELSE "recover"
    BY JobTypes DEF RecoverReads
  <2>3. [[actor[x] EXCEPT !.known = local.sub, !.candidate = c] EXCEPT !.at = at] = job
    BY <2>2 DEF Job
  <2>4. [actor[x] EXCEPT !.known = local.sub, !.candidate = c].candidate = c
    BY <2>2 DEF Job
  <2>5. SetActor(x, job)
    BY <2>3, <2>4 DEF RecoverReads
  <2> QED
    BY <2>1, <2>2, <2>5, JobTypes DEF RecoverReads, JobUnchanged
<1>2. c # NoSub => c \in PolarSubs /\ Bought(c)
  <2>1. c # NoSub => c \in PolarSubs /\ Current(c) = "active"
    BY DEF ActiveSubs
  <2>2. \A s : Current(s) = "active" => Bought(s)
    BY DEF Current, AsOf, MomentsOf, Bought
  <2> QED
    BY <2>1, <2>2
<1>3. local.sub \in PolarSubs \cup {NoSub} /\ (local.sub # NoSub => Bought(local.sub))
  BY RowTypes DEF BillingInv, BillingTypes, LocalRow, RowInv, Dated, Bought
<1>4. c \in PolarSubs \cup {NoSub} /\ at \in {"reject", "fetch", "candidate", "apply"}
  BY <1>2
<1>5. (at = "fetch" => local.sub # NoSub) /\ (at = "candidate" => c # NoSub)
  OBVIOUS
<1>. HIDE DEF c, at
<1>6. /\ job \in Job /\ job.known = local.sub /\ job.candidate = c /\ job.at = at
      /\ job.todo = <<>> /\ job.n = actor[x].n
  <2>1. actor[x].todo = <<>>
    BY <1>1 DEF JobInv
  <2> QED
    BY <1>1, <1>3, <1>4, <2>1 DEF Job
<1>. HIDE DEF job
<1>7. JobInv(job)
  BY <1>2, <1>3, <1>5, <1>6 DEF JobInv
<1>8. x \in BillingWorkers => job.n \in 1..Now
  BY <1>1, <1>6, JobTypes
<1> QED
  BY <1>1, <1>6, <1>7, <1>8, Resting

\* RecoverOrganization asks the provider for the subscription it knows.
LEMMA RecoverExistingStep == ASSUME BillingInv, NEW x \in Actors, RecoverExisting(x) PROVE BillingInv'
<1>. DEFINE s == actor[x].known
            q == SyncRequest(s, Current(s), ModifiedAt(s))
            at == IF ~(actor[x].candidate \notin {NoSub, s}) THEN "apply"
                  ELSE IF Current(s) = "canceled" THEN "candidate" ELSE "reject"
            job == [actor[x] EXCEPT !.todo = Append(@, q), !.at = at]
<1>1. PICK old \in Job : old = actor[x]
  BY JobTypes
<1>2. /\ JobInv(old) /\ old.at = "fetch" /\ s = old.known /\ old.todo = <<>> /\ Len(old.todo) = 0
      /\ old.known # NoSub /\ Bought(old.known)
      /\ old.candidate # NoSub => Bought(old.candidate)
      /\ UNCHANGED <<provider, applied, receipt, local>> /\ SetActor(x, job)
  <2>1. JobInv(old) /\ old.at = "fetch"
    BY <1>1, JobTypes DEF RecoverExisting
  <2>2. UNCHANGED <<provider, applied, receipt, local>> /\ SetActor(x, job)
    BY DEF RecoverExisting, JobUnchanged
  <2> QED
    BY <1>1, <2>1, <2>2 DEF JobInv
<1>3. q \in LocalRow /\ q.sub = s /\ RequestInv(q)
  BY <1>2, SyncingLast DEF BillingInv
<1>4. /\ at \in {"apply", "reject", "candidate"}
      /\ at = "candidate" => old.candidate \notin {NoSub, s}
  BY <1>1
<1>. HIDE DEF q, at
<1>5. /\ job \in Job /\ job.todo = Append(old.todo, q) /\ job.at = at /\ job.n = old.n
      /\ job.candidate = old.candidate /\ job.known = old.known
  <2>1. Append(old.todo, q) \in Seq(LocalRow)
    BY <1>3 DEF Job
  <2>2. job = [old EXCEPT !.todo = Append(old.todo, q), !.at = at]
    BY <1>1
  <2> QED
    BY <1>4, <2>1, <2>2 DEF Job
<1>. HIDE DEF job
<1>6. JobInv(job)
  <2>1. /\ job.at \in {"apply", "reject", "candidate"} /\ Len(old.todo) <= 1
        /\ Len(old.todo) = 1 => old.todo[1].sub # q.sub
        /\ job.at = "candidate" =>
              /\ old.todo = <<>> /\ job.candidate # NoSub /\ q.sub # job.candidate
              /\ Bought(job.candidate) /\ (job.known # NoSub => Bought(job.known))
    BY <1>2, <1>3, <1>4, <1>5
  <2> QED
    BY <1>2, <1>3, <1>5, <2>1, Asking
<1>7. x \in BillingWorkers => job.n \in 1..Now
  BY <1>1, <1>2, <1>5, JobTypes
<1> QED
  BY <1>2, <1>5, <1>6, <1>7, Resting

\* RecoverOrganization asks for the subscription that customer state lists.
LEMMA RecoverCandidateStep == ASSUME BillingInv, NEW x \in Actors, RecoverCandidate(x) PROVE BillingInv'
<1>. DEFINE s == actor[x].candidate
            q == SyncRequest(s, Current(s), ModifiedAt(s))
            job == [actor[x] EXCEPT !.at = "apply", !.todo = Append(@, q)]
<1>1. PICK old \in Job : old = actor[x]
  BY JobTypes
<1>2. /\ JobInv(old) /\ old.at = "candidate" /\ s = old.candidate /\ Len(old.todo) <= 1
      /\ Len(old.todo) = 1 => old.todo[1].sub # s
      /\ Bought(s)
      /\ UNCHANGED <<provider, applied, receipt, local>> /\ SetActor(x, job)
  <2>1. JobInv(old) /\ old.at = "candidate"
    BY <1>1, JobTypes DEF RecoverCandidate
  <2>2. UNCHANGED <<provider, applied, receipt, local>> /\ SetActor(x, job)
    BY DEF RecoverCandidate, JobUnchanged
  <2> QED
    BY <1>1, <2>1, <2>2 DEF JobInv
<1>3. q \in LocalRow /\ q.sub = s /\ RequestInv(q)
  BY <1>2, SyncingLast DEF BillingInv
<1>. HIDE DEF q
<1>5. job \in Job /\ job.todo = Append(old.todo, q) /\ job.at = "apply" /\ job.n = old.n
  <2>1. Append(old.todo, q) \in Seq(LocalRow)
    BY <1>3 DEF Job
  <2>2. job = [old EXCEPT !.at = "apply", !.todo = Append(old.todo, q)]
    BY <1>1
  <2> QED
    BY <2>1, <2>2 DEF Job
<1>. HIDE DEF job
<1>6. JobInv(job)
  <2>1. /\ job.at \in {"apply", "reject", "candidate"} /\ job.at # "candidate"
        /\ Len(old.todo) = 1 => old.todo[1].sub # q.sub
    BY <1>2, <1>3, <1>5
  <2> QED
    BY <1>2, <1>3, <1>5, <2>1, Asking
<1>7. x \in BillingWorkers => job.n \in 1..Now
  BY <1>1, <1>2, <1>5, JobTypes
<1> QED
  BY <1>2, <1>5, <1>6, <1>7, Resting

\* The worker's transaction: the row and the receipt together. Its claim is looked at again, so the
\* receipt is not one that is settled already.
LEMMA CommitReceiptStep == ASSUME BillingInv, NEW w \in BillingWorkers, CommitReceipt(w) PROVE BillingInv'
<1>. DEFINE n == actor[w].n
            status == IF receipt[n].kind = "other" THEN "ignored" ELSE "processed"
            row == [receipt[n] EXCEPT !.status = status, !.token = NoSub, !.stale = FALSE]
<1>1. w \in Actors
  BY DEF Actors
<1>2. /\ actor[w] \in Job /\ JobInv(actor[w]) /\ n \in 1..Now /\ Now \in Nat /\ Now <= MaxMoments
      /\ n \in 1..MaxMoments /\ receipt[n].status = "processing"
      /\ receipt \in [1..MaxMoments -> Receipt] /\ applied \in [1..MaxMoments -> Nat]
      /\ \A k \in 1..MaxMoments :
            /\ receipt[k].status # "none" => k <= Now
            /\ applied[k] <= 1
            /\ applied[k] # 0 => receipt[k].status \in {"processed", "ignored"}
  <2>1. actor[w].at = "apply" /\ receipt[n].status = "processing"
    BY DEF CommitReceipt, Fenced
  <2>2. n \in 1..Now /\ Now \in Nat /\ Now <= MaxMoments /\ MaxMoments \in Nat
    BY <1>1, <2>1, JobTypes, RowTypes
  <2>3. n \in 1..MaxMoments
    BY <2>2
  <2> QED
    BY <1>1, <2>1, <2>2, <2>3, JobTypes
<1>3. GoodRow(ApplyAll(actor[w].todo)) /\ local.at <= ApplyAll(actor[w].todo).at
  BY <1>2, ApplyingAll DEF BillingInv
<1>4. /\ local' = ApplyAll(actor[w].todo) /\ UNCHANGED provider /\ SetActor(w, NoWebhookJob)
      /\ applied' = [applied EXCEPT ![n] = @ + 1]
      /\ ReceiptSettled(n, status)
  BY DEF CommitReceipt
<1>5. receipt' = [receipt EXCEPT ![n] = row]
  BY <1>2, <1>4 DEF ReceiptSettled
<1>6. row \in Receipt /\ row.status \in {"processed", "ignored"}
  BY ZenonT(40), <1>2 DEF Receipt, ReceiptStatus
<1>. HIDE DEF row, status
<1>7. receipt' \in [1..MaxMoments -> Receipt] /\ applied' \in [1..MaxMoments -> Nat]
  BY <1>2, <1>4, <1>5, <1>6
<1>8. ASSUME NEW k \in 1..MaxMoments
      PROVE  /\ receipt'[k].status # "none" => k <= Now
             /\ applied'[k] <= 1
             /\ applied'[k] # 0 => receipt'[k].status \in {"processed", "ignored"}
  <2>1. CASE k = n
    <3>1. applied[n] = 0 /\ receipt'[n] = row /\ applied'[n] = applied[n] + 1
      BY <1>2, <1>4, <1>5
    <3> QED
      BY <1>2, <1>6, <2>1, <3>1
  <2>2. CASE k # n
    BY <1>2, <1>4, <1>5, <2>2
  <2> QED
    BY <2>1, <2>2
<1>9. JobInv(NoWebhookJob) /\ NoWebhookJob \in Job /\ NoWebhookJob.at = "idle"
  BY RowTypes, FreshJob
<1> QED
  BY <1>1, <1>3, <1>4, <1>7, <1>8, <1>9, JobMoves

\* The reconciler's statements, one after the other; a worker may have committed between them.
LEMMA ReconcileStep ==
    ASSUME BillingInv, ApplyReconciled \/ ReconcilerRejects
    PROVE  BillingInv'
<1>. DEFINE x == Reconciler
<1>1. x \in Actors /\ x \notin BillingWorkers
  BY BillingAssumption DEF BillingAssumption, Actors
<1>2. PICK old \in Job : old = actor[x]
  BY <1>1, JobTypes
<1>3. /\ JobInv(old) /\ GoodRow(local) /\ local.at \in Nat
      /\ receipt \in [1..MaxMoments -> Receipt] /\ applied \in [1..MaxMoments -> Nat]
      /\ \A k \in 1..MaxMoments :
            /\ receipt[k].status # "none" => k <= Now
            /\ applied[k] <= 1
            /\ applied[k] # 0 => receipt[k].status \in {"processed", "ignored"}
      /\ UNCHANGED <<provider, applied, receipt>>
  BY <1>1, <1>2, JobTypes DEF ApplyReconciled, ReconcilerRejects, JobUnchanged
<1>4. JobInv(NoWebhookJob) /\ NoWebhookJob \in Job
  BY RowTypes, FreshJob
<1>5. CASE ReconcilerRejects
  <2>1. local' = ApplyAll(old.todo) /\ SetActor(x, NoWebhookJob)
    BY <1>2, <1>5 DEF ReconcilerRejects
  <2>2. GoodRow(local') /\ local.at <= local'.at
    BY <1>3, <2>1, ApplyingAll DEF BillingInv
  <2> QED
    BY <1>1, <1>3, <1>4, <2>1, <2>2, JobMoves
<1>6. CASE ApplyReconciled /\ old.todo = <<>>
  <2>1. UNCHANGED local /\ SetActor(x, NoWebhookJob)
    BY <1>2, <1>6 DEF ApplyReconciled
  <2>2. GoodRow(local') /\ local.at <= local'.at
    BY <1>3, <2>1
  <2> QED
    BY <1>1, <1>3, <1>4, <2>1, <2>2, JobMoves
<1>7. CASE ApplyReconciled /\ old.todo # <<>>
  <2>. DEFINE job == [old EXCEPT !.todo = Tail(@)]
  <2>1. local' = Upserted(local, Head(old.todo)) /\ SetActor(x, job) /\ old.at = "apply"
    BY <1>2, <1>7 DEF ApplyReconciled
  <2>2. /\ old.todo \in Seq(LocalRow) /\ Len(old.todo) \in Nat /\ Len(old.todo) <= 2 /\ 1 <= Len(old.todo)
        /\ Head(old.todo) = old.todo[1]
        /\ Tail(old.todo) \in Seq(LocalRow) /\ Len(Tail(old.todo)) = Len(old.todo) - 1
        /\ \A k \in 1..(Len(old.todo) - 1) : Tail(old.todo)[k] = old.todo[k + 1]
    BY <1>3, <1>7 DEF Job, JobInv
  <2>3. PICK q \in LocalRow : q = old.todo[1] /\ RequestInv(q)
    BY <1>3, <2>2 DEF JobInv
  <2>4. GoodRow(local') /\ local.at <= local'.at
    BY <1>3, <2>1, <2>2, <2>3, Upserting DEF RequestInv, BillingInv
  <2>5. job \in Job /\ job.todo = Tail(old.todo) /\ job.at = "apply"
    BY <2>1, <2>2 DEF Job
  <2>. HIDE DEF job
  <2>6. \A k \in 1..Len(job.todo) : RequestInv(job.todo[k])
    <3>. SUFFICES ASSUME NEW k \in 1..Len(job.todo) PROVE RequestInv(job.todo[k])
      OBVIOUS
    <3>1. k + 1 \in 1..Len(old.todo) /\ job.todo[k] = old.todo[k + 1]
      BY <2>2, <2>5
    <3> QED
      BY <1>3, <3>1 DEF JobInv
  <2>7. Len(job.todo) <= 2 /\ Len(job.todo) # 2
    <3>1. \A l \in Nat : l <= 2 => l - 1 <= 2 /\ l - 1 # 2
      OBVIOUS
    <3> QED
      BY <2>2, <2>5, <3>1
  <2>8. JobInv(job)
    BY <2>5, <2>6, <2>7 DEF JobInv
  <2> QED
    BY <1>1, <1>3, <2>1, <2>4, <2>5, <2>8, JobMoves
<1> QED
  BY <1>5, <1>6, <1>7

\* A statement fails or a worker dies: what it had begun is rolled back.
LEMMA FailureStep ==
    ASSUME BillingInv,
           \/ \E x \in Actors : ActorFails(x)
           \/ \E w \in BillingWorkers : BillingCrash(w) \/ FailReceipt(w)
    PROVE  BillingInv'
<1>1. JobInv(NoWebhookJob) /\ NoWebhookJob \in Job /\ NoWebhookJob.at = "idle"
  BY RowTypes, FreshJob
<1>2. ASSUME NEW x \in Actors, ActorFails(x) PROVE BillingInv'
  <2>1. UNCHANGED <<provider, applied, receipt, local>>
    BY <1>2 DEF ActorFails, JobUnchanged
  <2>2. CASE x = Reconciler
    <3>1. SetActor(x, NoWebhookJob)
      BY <1>2, <2>2 DEF ActorFails
    <3> QED
      BY <1>1, <2>1, <3>1, Resting
  <2>3. CASE x # Reconciler
    <3>. DEFINE job == [NoWebhookJob EXCEPT !.at = "fail", !.n = actor[x].n]
    <3>1. SetActor(x, job) /\ actor[x].at # "idle" /\ x \in BillingWorkers
      BY <1>2, <2>3 DEF ActorFails, Actors
    <3>2. actor[x].n \in 1..Now /\ actor[x].n \in 0..MaxMoments
      BY <1>2, <3>1, JobTypes DEF Job
    <3>3. job \in Job /\ job.todo = <<>> /\ job.at = "fail" /\ job.n = actor[x].n
      BY <3>2, RowTypes DEF NoWebhookJob, Job
    <3>. HIDE DEF job
    <3>4. JobInv(job)
      BY <3>3, FreshJob
    <3> QED
      BY <2>1, <3>1, <3>2, <3>3, <3>4, Resting
  <2> QED
    BY <2>2, <2>3
<1>3. ASSUME NEW w \in BillingWorkers, BillingCrash(w) PROVE BillingInv'
  <2>1. w \in Actors /\ SetActor(w, NoWebhookJob) /\ UNCHANGED <<provider, applied, receipt, local>>
    BY <1>3 DEF BillingCrash, JobUnchanged, Actors
  <2> QED
    BY <1>1, <2>1, Resting
<1>4. ASSUME NEW w \in BillingWorkers, FailReceipt(w) PROVE BillingInv'
  <2>. DEFINE n == actor[w].n
  <2>1. w \in Actors /\ SetActor(w, NoWebhookJob) /\ UNCHANGED <<provider, applied, local>>
    BY <1>4 DEF FailReceipt, JobUnchanged, Actors
  <2>2. CASE ~Fenced(w, n)
    <3>1. UNCHANGED receipt
      BY <1>4, <2>2 DEF FailReceipt
    <3> QED
      BY <1>1, <2>1, <3>1, Resting
  <2>3. CASE Fenced(w, n)
    <3>1. PICK status \in {"dead_letter", "pending"} : ReceiptSettled(n, status)
      BY <1>4, <2>3 DEF FailReceipt
    <3>. DEFINE row == [receipt[n] EXCEPT !.status = status, !.token = NoSub, !.stale = FALSE]
    <3>2. n \in 1..Now /\ Now \in Nat /\ Now <= MaxMoments /\ MaxMoments \in Nat
      <4>1. actor[w].at # "idle"
        BY <1>4 DEF FailReceipt
      <4> QED
        BY <2>1, <4>1, JobTypes, RowTypes
    <3>3. n \in 1..MaxMoments /\ receipt \in [1..MaxMoments -> Receipt] /\ n <= Now
          /\ receipt[n].status = "processing"
      BY <2>1, <2>3, <3>2, JobTypes DEF Fenced
    <3>4. row \in Receipt /\ receipt' = [receipt EXCEPT ![n] = row]
      <4>1. row \in Receipt
        BY ZenonT(40), <3>3 DEF Receipt, ReceiptStatus
      <4> QED
        BY <3>1, <3>3, <4>1 DEF ReceiptSettled
    <3>. HIDE DEF row
    <3>5. /\ receipt' \in [1..MaxMoments -> Receipt] /\ applied' \in [1..MaxMoments -> Nat]
          /\ \A k \in 1..MaxMoments :
                /\ receipt'[k].status # "none" => k <= Now
                /\ applied'[k] <= 1
                /\ applied'[k] # 0 => receipt'[k].status \in {"processed", "ignored"}
      BY <2>1, <3>3, <3>4, ReceiptChanges
    <3>6. GoodRow(local') /\ local.at <= local'.at
      BY <2>1, JobTypes
    <3> QED
      BY <1>1, <2>1, <3>5, <3>6, JobMoves
  <2> QED
    BY <2>2, <2>3
<1> QED
  BY <1>2, <1>3, <1>4

\* Every step keeps the invariant.
LEMMA BillingStep == BillingInv /\ [BillingNext]_billingVars => BillingInv'
<1> SUFFICES ASSUME BillingInv, [BillingNext]_billingVars PROVE BillingInv'
  OBVIOUS
<1>1. ASSUME NEW x \in Actors, RecoverStep(x) PROVE BillingInv'
  BY <1>1, RecoverReadsStep, RecoverExistingStep, RecoverCandidateStep DEF RecoverStep
<1>2. Reconciler \in Actors /\ \A w \in BillingWorkers : w \in Actors
  BY DEF Actors
<1>3. ASSUME NEW w \in BillingWorkers, WebhookJobStep(w) PROVE BillingInv'
  BY <1>1, <1>2, <1>3, ClaimStep, HandleStep, CommitReceiptStep, FailureStep DEF WebhookJobStep
<1>4. CASE ReconcilerStep
  BY <1>1, <1>2, <1>4, ReconcileStep DEF ReconcilerStep
<1>5. CASE UNCHANGED billingVars
  <2>1. UNCHANGED <<provider, receipt, local, actor, applied>>
    BY <1>5 DEF billingVars
  <2>2. Now' = Now
    BY <2>1 DEF Now
  <2>3. RowInv' /\ \A q : RequestInv(q) => RequestInv(q)'
    BY <2>1, <2>2 DEF BillingInv, RowInv, RequestInv, Dated, Graced
  <2>4. ASSUME NEW x \in Actors PROVE JobInv(actor[x])'
    <3>1. JobInv(actor[x]) /\ actor'[x] = actor[x]
      BY <2>1 DEF BillingInv
    <3> QED
      BY <2>1, <2>2, <2>3, <3>1 DEF JobInv, Bought
  <2>5. BillingTypes' /\ ReceiptInv'
    BY <2>1, <2>2 DEF BillingInv, BillingTypes, ReceiptInv
  <2> QED
    BY <2>3, <2>4, <2>5 DEF BillingInv
<1>6. CASE BillingNext
  BY <1>3, <1>4, <1>6, OutsideStep, FailureStep DEF BillingNext
<1> QED
  BY <1>5, <1>6

\* The invariant of payments.
THEOREM BillingInductive == BillingSafety => []BillingInv
<1> QED
  BY BillingStart, BillingStep, PTL DEF BillingSafety

\* What the invariant says of the row: it is dated, and access is paid for.
LEMMA RowIsSound == BillingInv => LocalIsDated /\ ReceiptAppliedOnce /\ AccessIsPaid
<1> SUFFICES ASSUME BillingInv PROVE LocalIsDated /\ ReceiptAppliedOnce /\ AccessIsPaid
  OBVIOUS
<1>1. /\ provider \in Seq(Moment) /\ Now \in Nat /\ local \in LocalRow
      /\ \A n \in 1..Now : provider[n] \in Moment
  BY DEF BillingInv, BillingTypes, Now
<1>2. ReceiptAppliedOnce
  BY DEF BillingInv, ReceiptInv, ReceiptAppliedOnce
<1>3. CASE local = NoRow
  <2>1. LocalIsDated
    BY <1>3, RowTypes DEF LocalIsDated
  <2>2. AccessIsPaid
    BY <1>3, RowTypes DEF AccessIsPaid, EffectivePlan, PaidAccess
  <2> QED
    BY <1>2, <2>1, <2>2
<1>4. CASE local # NoRow
  <2>1. /\ local.at \in 1..Now /\ provider[local.at].sub = local.sub
        /\ local.status = PolarStatus(provider[local.at].status) /\ Graced(local)
    BY <1>4 DEF BillingInv, RowInv, Dated
  <2>2. AsOf(local.sub, local.at) = provider[local.at].status
    BY <1>1, <2>1, AsOfMoment
  <2>3. /\ provider[local.at].status \in ProviderPays /\ local.sub \in PolarSubs
        /\ local.sub # NoSub
    BY <1>1, <2>1, BillingAssumption DEF Moment, BillingAssumption
  <2>4. LocalIsDated
    BY <2>1, <2>2 DEF LocalIsDated
  <2>5. AccessIsPaid
    <3>. SUFFICES ASSUME NEW over \in SUBSET Deadlines, EffectivePlan(over) # NoSub
                  PROVE  /\ AsOf(local.sub, local.at) \in {"active", "past_due"}
                         /\ AsOf(local.sub, local.at) = "past_due" =>
                               local.since \in 1..local.at /\ AsOf(local.sub, local.since) = "past_due"
                         /\ ~BillingStatus(over).checkout /\ BillingStatus(over).portal
      BY DEF AccessIsPaid
    <3>1. local.status \in {"active", "past_due"}
      BY DEF EffectivePlan, PaidAccess
    <3>2. AsOf(local.sub, local.at) \in {"active", "past_due"}
      BY <2>1, <2>2, <2>3, <3>1, RowTypes
    <3>3. ASSUME AsOf(local.sub, local.at) = "past_due"
          PROVE  local.since \in 1..local.at /\ AsOf(local.sub, local.since) = "past_due"
      <4>1. local.status = "past_due"
        BY <2>1, <2>2, <2>3, <3>3, RowTypes
      <4>2. /\ local.since \in 1..local.at /\ provider[local.since].sub = local.sub
            /\ provider[local.since].status = "past_due"
        BY <2>1, <4>1 DEF Graced
      <4>3. local.since \in 1..Now
        BY <1>1, <2>1, <4>2
      <4> QED
        BY <1>1, <4>2, <4>3, AsOfMoment
    <3>4. ~BillingStatus(over).checkout /\ BillingStatus(over).portal
      BY <2>3, <3>1 DEF BillingStatus, CheckoutOpen
    <3> QED
      BY <3>2, <3>3, <3>4
  <2> QED
    BY <1>2, <2>4, <2>5
<1> QED
  BY <1>3, <1>4

\* No step moves the end of a grace period that runs.
LEMMA GraceStays ==
    ASSUME BillingInv, [BillingNext]_billingVars,
           local.status = "past_due", local'.status = "past_due", local'.sub = local.sub
    PROVE  local'.since = local.since
<1>1. CASE UNCHANGED local
  BY <1>1
<1>2. Reconciler \in Actors /\ \A w \in BillingWorkers : w \in Actors
  BY DEF Actors
<1>3. ASSUME NEW x \in Actors, local' = ApplyAll(actor[x].todo) PROVE local'.since = local.since
  BY <1>3, JobTypes, ApplyingAll DEF BillingInv
<1>4. CASE ReconcilerRejects \/ \E w \in BillingWorkers : CommitReceipt(w)
  <2>1. PICK x \in Actors : local' = ApplyAll(actor[x].todo)
    BY <1>2, <1>4 DEF ReconcilerRejects, CommitReceipt
  <2> QED
    BY <1>3, <2>1
<1>5. CASE ApplyReconciled
  <2>1. PICK old \in Job : old = actor[Reconciler] /\ JobInv(old) /\ GoodRow(local)
    BY <1>2, JobTypes
  <2>2. CASE old.todo = <<>>
    <3>1. UNCHANGED local
      BY <1>5, <2>1, <2>2 DEF ApplyReconciled
    <3> QED
      BY <3>1
  <2>3. CASE old.todo # <<>>
    <3>1. local' = Upserted(local, Head(old.todo))
      BY <1>5, <2>1, <2>3 DEF ApplyReconciled
    <3>2. old.todo \in Seq(LocalRow) /\ 1 \in 1..Len(old.todo) /\ Head(old.todo) = old.todo[1]
      BY <2>1, <2>3 DEF Job
    <3>3. PICK q \in LocalRow : q = old.todo[1] /\ RequestInv(q)
      BY <2>1, <3>2 DEF JobInv
    <3> QED
      BY <2>1, <3>1, <3>2, <3>3, Upserting DEF RequestInv, BillingInv
  <2> QED
    BY <2>2, <2>3
<1>6. CASE UNCHANGED billingVars
  BY <1>6 DEF billingVars
<1>7. CASE BillingNext
  <2>1. \/ ReconcilerRejects \/ ApplyReconciled \/ \E w \in BillingWorkers : CommitReceipt(w)
        \/ UNCHANGED local
    BY <1>7 DEF BillingNext, ProviderChanges, Webhook, LeaseGetsStale, ReapExhausted, WebhookJobStep,
                ClaimReceipt, HandleEvent, RecoverStep, RecoverReads, RecoverExisting,
                RecoverCandidate, FailReceipt, ReconcilerStep, ActorFails, BillingCrash
  <2> QED
    BY <1>1, <1>4, <1>5, <2>1
<1> QED
  BY <1>6, <1>7

\* Whatever webhooks are lost, repeated or late and whatever the reconciler overtakes, the row says
\* what the provider said at its date, a receipt takes effect once, access is paid for, and the end
\* of a grace period that runs stays where it is.
THEOREM PaymentsAreSound == BillingSafety => BillingSound
<1>1. BillingInv => (LocalIsDated /\ ReceiptAppliedOnce /\ AccessIsPaid)
  BY RowIsSound
<1>2. BillingInv /\ [BillingNext]_billingVars
         => [(local.status = "past_due" /\ local'.status = "past_due" /\ local'.sub = local.sub)
                => local'.since = local.since]_billingVars
  BY GraceStays
<1>3. BillingSafety => []BillingInv
  BY BillingInductive
<1> QED
  BY <1>1, <1>2, <1>3, PTL DEF BillingSafety, BillingSound, GraceNeverMoves

(***************************************************************************)
(* Members, invitations and their mail                                     *)
(***************************************************************************)
TenancySafety == TenancyInit /\ [][TenancyNext]_tenancyVars

AdminReq == [op: {"none", "add", "update", "disable", "delete"}, actor: Users, target: Users,
             role: {"admin", "member"}]
Delivery == [at: {"claimed", "ready", "sent"}, invite: Invites, attempts: Nat]

TenancyTypes ==
    /\ org \in {"absent", "active", "deleted"} /\ enabled \subseteq Users
    /\ member \in [Users -> Member \cup {NoMember}]
    /\ invite \in [Invites -> Invite \cup {NoInvite}]
    /\ mail \in [Invites -> Mail \cup {NoMail}]
    /\ adminReq \in [AdminRequests -> AdminReq]
    /\ mailer \in [MailWorkers -> Delivery \cup {NoDelivery}]
    /\ joined \in [Invites -> Nat] /\ sends \in [Invites -> Nat]

\* Nobody is a member and nobody asks before there is an organisation; after that it has one owner.
OwnerInv ==
    /\ org = "absent" => \A u \in Users : member[u] = NoMember
    /\ OneOwner
    /\ \A q \in AdminRequests : adminReq[q].op # "none" => org # "absent"

\* Workers that will still ask the provider with the attempt they claimed.
Unsent(i) == {w \in MailWorkers : mailer[w].invite = i /\ mailer[w].at \in {"claimed", "ready"}}

\* Every attempt was sent once at most or is in the hands of one worker; what a worker believes to
\* be sent was sent.
MailInv ==
    /\ \A i \in Invites :
          /\ invite[i] = NoInvite => mail[i] = NoMail
          /\ sends[i] + Cardinality(Unsent(i)) <= mail[i].attempts
          /\ mail[i].status = "sent" => sends[i] >= 1
    /\ \A w \in MailWorkers : mailer[w].at = "sent" => sends[mailer[w].invite] >= 1

TenancyInv == TenancyTypes /\ OwnerInv /\ InviteUsedOnce /\ MailFollowsInvite /\ MailInv

\* What is true of rows by their shape.
LEMMA TenancyShapes ==
    /\ Owner \in Users /\ NoWorker \notin MailWorkers /\ IsFiniteSet(MailWorkers)
    /\ MailAttempts \in Nat \ {0}
    /\ NoMember.role = "none" /\ NoMember.status = "none" /\ NoInvite.status = "absent"
    /\ NoInvite \notin Invite /\ NoInvite.role = "member"
    /\ NoMail.status = "absent" /\ NoMail.attempts = 0
    /\ NoDelivery.at = "idle" /\ NoAdminReq \in AdminReq /\ NoAdminReq.op = "none"
<1>1. NoInvite \notin Invite
  BY DEF NoInvite, Invite
<1> QED
  BY <1>1, TenancyAssumption
     DEF TenancyAssumption, NoMember, NoInvite, NoMail, NoDelivery, NoAdminReq, AdminReq

\* The fields of a row of mail.
LEMMA MailFields ==
    ASSUME TenancyTypes, NEW i \in Invites
    PROVE  /\ mail[i].attempts \in 0..MailAttempts /\ mail[i].attempts \in Nat
           /\ MailLive(i) => mail[i] \in Mail
           /\ mail[i].status \in {"absent", "pending", "sending", "sent", "failed", "expired", "cancelled"}
           /\ mail[i] = NoMail => ~MailLive(i)
<1>1. mail[i] \in Mail \/ mail[i] = NoMail
  BY DEF TenancyTypes
<1>2. CASE mail[i] \in Mail
  BY <1>2, TenancyShapes DEF Mail
<1>3. CASE mail[i] = NoMail
  BY <1>3, TenancyShapes DEF MailLive
<1> QED
  BY <1>1, <1>2, <1>3, TenancyShapes DEF MailLive, NoMail

\* A row whose lease is given up.
LEMMA ClosedRow ==
    ASSUME NEW row \in Mail, NEW st \in {"pending", "sent", "failed", "expired", "cancelled"}
    PROVE  /\ Closed(row, st) \in Mail /\ Closed(row, st).status = st
           /\ Closed(row, st).attempts = row.attempts
BY DEF Closed, Mail

\* The workers with an attempt in hand are finitely many.
LEMMA UnsentFinite ==
    \A i : IsFiniteSet(Unsent(i)) /\ Cardinality(Unsent(i)) \in Nat
<1>1. ASSUME NEW i PROVE IsFiniteSet(Unsent(i)) /\ Cardinality(Unsent(i)) \in Nat
  <2>1. Unsent(i) \subseteq MailWorkers
    BY DEF Unsent
  <2>2. IsFiniteSet(Unsent(i))
    BY <2>1, FS_Subset, TenancyShapes
  <2> QED
    BY <2>2, FS_CardinalityType
<1> QED
  BY <1>1

\* Before the organisation there is nothing.
LEMMA TenancyStart == TenancyInit => TenancyInv
<1> SUFFICES ASSUME TenancyInit PROVE TenancyInv
  OBVIOUS
<1>1. TenancyTypes
  BY TenancyShapes DEF TenancyInit, TenancyTypes
<1>2. OwnerInv /\ InviteUsedOnce /\ MailFollowsInvite
  BY TenancyShapes DEF TenancyInit, OwnerInv, OneOwner, InviteUsedOnce, MailFollowsInvite, MailLive
<1>3. ASSUME NEW i \in Invites PROVE Cardinality(Unsent(i)) = 0
  <2>1. Unsent(i) = {}
    BY TenancyShapes DEF TenancyInit, Unsent
  <2> QED
    BY <2>1, FS_EmptySet
<1>4. MailInv
  <2>1. \A i \in Invites : mail[i] = NoMail /\ sends[i] = 0
    BY DEF TenancyInit
  <2>2. \A w \in MailWorkers : mailer[w].at # "sent"
    BY TenancyShapes DEF TenancyInit
  <2> QED
    BY <1>3, <2>1, <2>2, TenancyShapes DEF MailInv
<1> QED
  BY <1>1, <1>2, <1>4 DEF TenancyInv

(***************************************************************************)
(* Members                                                                 *)
(***************************************************************************)
\* The mail is left alone by whatever changes members only.
LEMMA MailKept ==
    ASSUME TenancyInv, UNCHANGED <<invite, mail, mailer, sends>>
    PROVE  MailInv' /\ MailFollowsInvite'
BY DEF TenancyInv, MailInv, MailFollowsInvite, MailLive, Unsent

\* A request checks, or organisation, members, accounts and tokens change; invitations do not.
LEMMA MembersStep ==
    ASSUME TenancyInv, UNCHANGED <<invite, mail, mailer, sends, joined>>,
           org' \in {"absent", "active", "deleted"}, enabled' \subseteq Users,
           member' \in [Users -> Member \cup {NoMember}], adminReq' \in [AdminRequests -> AdminReq],
           OwnerInv'
    PROVE  TenancyInv'
<1>1. TenancyTypes'
  BY DEF TenancyInv, TenancyTypes
<1>2. InviteUsedOnce'
  BY DEF TenancyInv, InviteUsedOnce
<1> QED
  BY <1>1, <1>2, MailKept DEF TenancyInv

\* One row of members changes: a new member, or one that is not the owner.
LEMMA OneMember ==
    ASSUME TenancyInv, NEW u \in Users, NEW row \in Member, row.role # "owner",
           member' = [member EXCEPT ![u] = row], org # "absent", UNCHANGED org,
           member[u].role # "owner",
           \A q \in AdminRequests : adminReq'[q].op # "none" => org # "absent"
    PROVE  OwnerInv' /\ member' \in [Users -> Member \cup {NoMember}]
<1>1. member \in [Users -> Member \cup {NoMember}] /\ OneOwner
  BY DEF TenancyInv, TenancyTypes, OwnerInv
<1>2. member' \in [Users -> Member \cup {NoMember}]
  BY <1>1
<1>3. {x \in Users : member[x].role = "owner"} = {Owner} /\ member[Owner].status = "active"
  BY <1>1 DEF OneOwner
<1>4. u # Owner
  BY <1>3
<1>5. \A x \in Users : member'[x].role = "owner" <=> member[x].role = "owner"
  BY <1>1
<1>6. member'[Owner] = member[Owner]
  BY <1>1, <1>4, TenancyShapes
<1> QED
  BY <1>2, <1>3, <1>5, <1>6 DEF OwnerInv, OneOwner

\* Requests about the organisation, its members, its users and its tokens.
LEMMA AdminStep ==
    ASSUME TenancyInv,
           \/ CreateOrganization
           \/ \E q \in AdminRequests : CheckRequest(q) \/ AddMember(q) \/ UpdateRole(q)
                                          \/ DisableMember(q) \/ DeleteOrganization(q)
           \/ \E u \in Users : DisableUser(u) \/ CreateToken(u) \/ DisableToken(u)
    PROVE  TenancyInv'
<1>1. /\ org \in {"absent", "active", "deleted"} /\ enabled \subseteq Users
      /\ member \in [Users -> Member \cup {NoMember}] /\ adminReq \in [AdminRequests -> AdminReq]
      /\ OwnerInv
  BY DEF TenancyInv, TenancyTypes
<1>2. CASE CreateOrganization
  <2>1. /\ UNCHANGED <<invite, mail, mailer, sends, joined, enabled, adminReq>> /\ org' = "active"
        /\ org = "absent" /\ member' = [member EXCEPT ![Owner] = [role |-> "owner", status |-> "active"]]
    BY <1>2 DEF CreateOrganization, MailStill
  <2>2. \A x \in Users : member[x] = NoMember
    BY <1>1, <2>1 DEF OwnerInv
  <2>3. member' \in [Users -> Member \cup {NoMember}]
    BY <1>1, <2>1 DEF Member
  <2>4. \A x \in Users : IF x = Owner THEN member'[x] = [role |-> "owner", status |-> "active"]
                         ELSE member'[x] = NoMember
    BY <1>1, <2>1, <2>2
  <2>5. OwnerInv'
    BY <1>1, <2>1, <2>4, TenancyShapes DEF OwnerInv, OneOwner
  <2> QED
    BY <1>1, <2>1, <2>3, <2>5, MembersStep
<1>3. ASSUME NEW q \in AdminRequests, CheckRequest(q) PROVE TenancyInv'
  <2>1. UNCHANGED <<invite, mail, mailer, sends, joined, enabled, org, member>>
    BY <1>3 DEF CheckRequest, MailStill
  <2>2. PICK a \in Users, t \in Users, r \in {"admin", "member"},
             op \in {"add", "update", "disable", "delete"} :
           /\ adminReq' = [adminReq EXCEPT ![q] = [op |-> op, actor |-> a, target |-> t, role |-> r]]
           /\ org = "active"
    <3>1. PICK a \in Users, t \in Users, r \in {"admin", "member"} :
             \E op \in (IF AddChecked(a) THEN {"add"} ELSE {})
                      \cup (IF UpdateChecked(a, t) THEN {"update"} ELSE {})
                      \cup (IF DisableChecked(a, t) /\ r = "member" THEN {"disable"} ELSE {})
                      \cup (IF DeleteChecked(a) /\ r = "member" /\ t = Owner THEN {"delete"} ELSE {}) :
                 adminReq' = [adminReq EXCEPT ![q] = [op |-> op, actor |-> a, target |-> t, role |-> r]]
      BY <1>3 DEF CheckRequest
    <3>2. \E op \in {"add", "update", "disable", "delete"} :
             /\ adminReq' = [adminReq EXCEPT ![q] = [op |-> op, actor |-> a, target |-> t, role |-> r]]
             /\ AddChecked(a) \/ UpdateChecked(a, t) \/ DisableChecked(a, t) \/ DeleteChecked(a)
      BY <3>1
    <3> QED
      BY ZenonT(40), <3>2 DEF AddChecked, UpdateChecked, DisableChecked, DeleteChecked, ActsAs
  <2>3. adminReq' \in [AdminRequests -> AdminReq]
    BY <1>1, <2>2 DEF AdminReq
  <2>4. OwnerInv'
    BY <1>1, <2>1, <2>2 DEF OwnerInv, OneOwner
  <2> QED
    BY <1>1, <2>1, <2>3, <2>4, MembersStep
<1>4. ASSUME NEW q \in AdminRequests, AddMember(q) \/ UpdateRole(q) \/ DisableMember(q)
      PROVE  TenancyInv'
  <2>. DEFINE r == adminReq[q]
              t == r.target
  <2>1. /\ UNCHANGED <<invite, mail, mailer, sends, joined, enabled, org>>
        /\ adminReq' = [adminReq EXCEPT ![q] = NoAdminReq]
    BY <1>4 DEF AddMember, UpdateRole, DisableMember, Answer, MailStill
  <2>2. /\ adminReq' \in [AdminRequests -> AdminReq]
        /\ t \in Users /\ r.actor \in Users /\ r.role \in {"admin", "member"}
    BY <1>1, <2>1, TenancyShapes DEF AdminReq
  <2>3. CASE member' = member
    <3>1. OwnerInv'
      BY <1>1, <2>1, <2>3, TenancyShapes DEF OwnerInv, OneOwner
    <3> QED
      BY <1>1, <2>1, <2>2, <2>3, <3>1, MembersStep
  <2>4. CASE member' # member
    <3>1. StatementAdmin(r.actor)
      BY <1>4, <2>4 DEF AddMember, UpdateRole, DisableMember
    <3>2. org # "absent"
      BY <1>1, <2>2, <3>1, TenancyShapes DEF OwnerInv, StatementAdmin
    <3>3. \E row \in Member : /\ row.role # "owner" /\ member' = [member EXCEPT ![t] = row]
                              /\ member[t].role # "owner"
      <4>1. CASE AddMember(q)
        <5>. DEFINE row == [role |-> r.role, status |-> "active"]
        <5>1. member' = [member EXCEPT ![t] = row] /\ member[t] = NoMember
          BY <2>4, <4>1 DEF AddMember
        <5>2. row \in Member /\ row.role # "owner"
          BY <2>2 DEF Member
        <5> QED
          BY <5>1, <5>2, TenancyShapes
      <4>2. CASE UpdateRole(q)
        <5>. DEFINE row == [member[t] EXCEPT !.role = r.role]
        <5>1. member' = [member EXCEPT ![t] = row] /\ MutableTarget(t)
          BY <1>1, <2>4, <4>2 DEF UpdateRole
        <5>2. member[t] \in Member /\ member[t].role # "owner"
          BY <1>1, <2>2, <5>1, TenancyShapes DEF MutableTarget
        <5>3. row \in Member /\ row.role # "owner"
          BY <2>2, <5>2 DEF Member
        <5> QED
          BY <5>1, <5>2, <5>3
      <4>3. CASE DisableMember(q)
        <5>. DEFINE row == [member[t] EXCEPT !.status = "disabled"]
        <5>1. member' = [member EXCEPT ![t] = row] /\ MutableTarget(t)
          BY <1>1, <2>4, <4>3 DEF DisableMember
        <5>2. member[t] \in Member /\ member[t].role # "owner"
          BY <1>1, <2>2, <5>1, TenancyShapes DEF MutableTarget
        <5>3. row \in Member /\ row.role # "owner"
          BY <2>2, <5>2 DEF Member
        <5> QED
          BY <5>1, <5>2, <5>3
      <4> QED
        BY <1>4, <4>1, <4>2, <4>3
    <3>4. PICK row \in Member : /\ row.role # "owner" /\ member' = [member EXCEPT ![t] = row]
                                /\ member[t].role # "owner"
      BY <3>3
    <3>5. OwnerInv' /\ member' \in [Users -> Member \cup {NoMember}]
      BY <1>1, <2>1, <2>2, <3>2, <3>4, OneMember
    <3> QED
      BY <1>1, <2>1, <2>2, <3>5, MembersStep
  <2> QED
    BY <2>3, <2>4
<1>5. ASSUME NEW q \in AdminRequests, DeleteOrganization(q) PROVE TenancyInv'
  <2>1. /\ UNCHANGED <<invite, mail, mailer, sends, joined, enabled, member>> /\ org' = "deleted"
        /\ adminReq' = [adminReq EXCEPT ![q] = NoAdminReq]
    BY <1>5 DEF DeleteOrganization, Answer, MailStill
  <2>2. org # "absent" /\ adminReq' \in [AdminRequests -> AdminReq]
    BY <1>1, <1>5, <2>1, TenancyShapes DEF DeleteOrganization, OwnerInv
  <2>3. OwnerInv'
    BY <1>1, <2>1, <2>2 DEF OwnerInv, OneOwner
  <2> QED
    BY <1>1, <2>1, <2>2, <2>3, MembersStep
<1>6. ASSUME NEW u \in Users, DisableUser(u) \/ CreateToken(u) \/ DisableToken(u) PROVE TenancyInv'
  <2>1. /\ UNCHANGED <<invite, mail, mailer, sends, joined, org, member, adminReq>>
        /\ enabled' \subseteq Users
    BY <1>1, <1>6 DEF DisableUser, CreateToken, DisableToken, MailStill
  <2>2. OwnerInv'
    BY <1>1, <2>1 DEF OwnerInv, OneOwner
  <2> QED
    BY <1>1, <2>1, <2>2, MembersStep
<1> QED
  BY <1>2, <1>3, <1>4, <1>5, <1>6

(***************************************************************************)
(* Invitations                                                             *)
(***************************************************************************)
\* The mail of one invitation is written or cancelled with the invitation; the workers go on.
LEMMA InviteMoves ==
    ASSUME TenancyInv, UNCHANGED <<mailer, sends>>,
           invite' \in [Invites -> Invite \cup {NoInvite}],
           mail' \in [Invites -> Mail \cup {NoMail}],
           \A i \in Invites :
              /\ mail'[i] = mail[i] \/ (mail'[i].attempts = mail[i].attempts /\ mail'[i].status # "sent")
              /\ invite'[i] = NoInvite => invite[i] = NoInvite /\ mail'[i] = mail[i]
    PROVE  MailInv'
<1>1. \A i : Unsent(i)' = Unsent(i)
  BY DEF Unsent
<1>2. ASSUME NEW i \in Invites
      PROVE  /\ invite'[i] = NoInvite => mail'[i] = NoMail
             /\ sends'[i] + Cardinality(Unsent(i)') <= mail'[i].attempts
             /\ mail'[i].status = "sent" => sends'[i] >= 1
  BY <1>1 DEF TenancyInv, MailInv
<1> QED
  BY <1>2 DEF TenancyInv, MailInv

\* ExpireStaleInvitations changes pending invitations only.
LEMMA Expiring ==
    ASSUME TenancyTypes
    PROVE  /\ Expire(invite) \in [Invites -> Invite \cup {NoInvite}]
           /\ \A j \in Invites : \/ Expire(invite)[j] = invite[j]
                                 \/ /\ invite[j].status = "pending"
                                    /\ Expire(invite)[j].status = "expired"
                                    /\ Expire(invite)[j] # NoInvite
<1>1. ASSUME NEW j \in Invites, invite[j].status = "pending"
      PROVE  /\ [invite[j] EXCEPT !.status = "expired"] \in Invite
             /\ [invite[j] EXCEPT !.status = "expired"].status = "expired"
  <2>1. invite[j] \in Invite
    BY <1>1, TenancyShapes DEF TenancyTypes
  <2> QED
    BY <2>1 DEF Invite
<1> QED
  BY <1>1, TenancyShapes DEF Expire, TenancyTypes

\* What a change of invitations keeps, when no member is made.
LEMMA InviteKept ==
    ASSUME TenancyInv, UNCHANGED <<org, member, enabled, adminReq, joined, mailer, sends>>,
           invite' \in [Invites -> Invite \cup {NoInvite}],
           mail' \in [Invites -> Mail \cup {NoMail}],
           InviteUsedOnce', MailFollowsInvite', MailInv'
    PROVE  TenancyInv'
BY DEF TenancyInv, TenancyTypes, OwnerInv, OneOwner

\* An invitation is sent: a new row and its mail.
LEMMA CreateInviteStep ==
    ASSUME TenancyInv, NEW i \in Invites, CreateInvite(i) PROVE TenancyInv'
<1>. DEFINE rows == Expire(invite)
            letter == [NoMail EXCEPT !.status = "pending", !.due = TRUE]
<1>1. /\ UNCHANGED <<org, member, enabled, adminReq, joined, mailer, sends>>
      /\ invite[i] = NoInvite /\ mail' = [mail EXCEPT ![i] = letter]
  BY DEF CreateInvite, MembersStill, MailStill
<1>2. PICK u \in Users, r \in {"admin", "member"} :
          invite' = [rows EXCEPT ![i] = [status |-> "pending", user |-> u, role |-> r]]
  BY DEF CreateInvite
<1>3. /\ rows \in [Invites -> Invite \cup {NoInvite}]
      /\ \A j \in Invites : \/ rows[j] = invite[j]
                            \/ /\ invite[j].status = "pending" /\ rows[j].status = "expired"
                               /\ rows[j] # NoInvite
  BY Expiring DEF TenancyInv
<1>. HIDE DEF rows
<1>4. letter \in Mail /\ letter.status = "pending" /\ letter.attempts = 0
  <2>1. 0 \in 0..MailAttempts /\ NoWorker \in MailWorkers \cup {NoWorker}
    BY TenancyShapes
  <2>2. /\ NoMail \in [status: {"absent"}, attempts: 0..MailAttempts,
                        lock: MailWorkers \cup {NoWorker}, due: BOOLEAN, lapsed: BOOLEAN]
        /\ NoMail.attempts = 0
    BY <2>1 DEF NoMail
  <2> QED
    BY <2>2 DEF Mail
<1>. HIDE DEF letter
<1>. DEFINE fresh == [status |-> "pending", user |-> u, role |-> r]
<1>5. fresh \in Invite /\ fresh.status = "pending" /\ fresh # NoInvite
  BY TenancyShapes DEF Invite
<1>6. invite' = [rows EXCEPT ![i] = fresh]
  BY <1>2
<1>. HIDE DEF fresh
<1>7. /\ invite' \in [Invites -> Invite \cup {NoInvite}] /\ invite'[i] = fresh
      /\ \A j \in Invites \ {i} : invite'[j] = rows[j]
  BY <1>3, <1>5, <1>6
<1>8. /\ mail' \in [Invites -> Mail \cup {NoMail}] /\ mail'[i] = letter
      /\ \A j \in Invites \ {i} : mail'[j] = mail[j]
      /\ mail[i] = NoMail
  BY <1>1, <1>4 DEF TenancyInv, TenancyTypes, MailInv
<1>9. MailInv'
  <2>1. \A j \in Invites :
           /\ mail'[j] = mail[j] \/ (mail'[j].attempts = mail[j].attempts /\ mail'[j].status # "sent")
           /\ invite'[j] = NoInvite => invite[j] = NoInvite /\ mail'[j] = mail[j]
    BY <1>3, <1>4, <1>5, <1>7, <1>8, TenancyShapes
  <2> QED
    BY <1>1, <1>7, <1>8, <2>1, InviteMoves
<1>10. InviteUsedOnce'
  <2>1. ASSUME NEW j \in Invites PROVE invite'[j].status = "accepted" <=> invite[j].status = "accepted"
    BY <1>1, <1>3, <1>5, <1>7, TenancyShapes
  <2> QED
    BY <1>1, <2>1 DEF TenancyInv, InviteUsedOnce
<1>11. MailFollowsInvite'
  <2>1. ASSUME NEW j \in Invites, mail'[j].status \in {"pending", "sending"}
        PROVE  invite'[j].status \notin {"accepted", "revoked"}
    <3>1. CASE j = i
      BY <1>5, <1>7, <3>1
    <3>2. CASE j # i
      <4>1. invite[j].status \notin {"accepted", "revoked"}
        BY <1>8, <2>1, <3>2 DEF TenancyInv, MailFollowsInvite, MailLive
      <4> QED
        BY <1>3, <1>7, <3>2, <4>1
    <3> QED
      BY <3>1, <3>2
  <2> QED
    BY <2>1 DEF MailFollowsInvite, MailLive
<1> QED
  BY <1>1, <1>7, <1>8, <1>9, <1>10, <1>11, InviteKept

\* CancelEmailDeliveries with a change of the invitation's own row.
LEMMA Cancelling ==
    ASSUME TenancyInv, NEW i \in Invites, CancelMail(i), UNCHANGED <<mailer, sends>>,
           NEW row \in Invite, invite' = [invite EXCEPT ![i] = row]
    PROVE  /\ invite' \in [Invites -> Invite \cup {NoInvite}]
           /\ mail' \in [Invites -> Mail \cup {NoMail}]
           /\ MailInv' /\ MailFollowsInvite'
<1>1. mail \in [Invites -> Mail \cup {NoMail}] /\ invite \in [Invites -> Invite \cup {NoInvite}]
  BY DEF TenancyInv, TenancyTypes
<1>2. /\ mail' \in [Invites -> Mail \cup {NoMail}]
      /\ \A j \in Invites \ {i} : mail'[j] = mail[j]
      /\ mail'[i] = mail[i] \/ (mail'[i].attempts = mail[i].attempts /\ mail'[i].status = "cancelled")
      /\ mail'[i].status \notin {"pending", "sending"}
  <2>1. CASE MailLive(i)
    <3>1. mail[i] \in Mail /\ mail' = [mail EXCEPT ![i] = Closed(mail[i], "cancelled")]
      BY <2>1, MailFields DEF CancelMail, TenancyInv
    <3>2. /\ Closed(mail[i], "cancelled") \in Mail
          /\ Closed(mail[i], "cancelled").status = "cancelled"
          /\ Closed(mail[i], "cancelled").attempts = mail[i].attempts
      BY <3>1, ClosedRow
    <3> QED
      BY <1>1, <3>1, <3>2
  <2>2. CASE ~MailLive(i)
    BY <1>1, <2>2 DEF CancelMail, MailLive
  <2> QED
    BY <2>1, <2>2
<1>3. invite' \in [Invites -> Invite \cup {NoInvite}] /\ invite'[i] = row
      /\ \A j \in Invites \ {i} : invite'[j] = invite[j]
  BY <1>1
<1>4. MailInv'
  <2>1. \A j \in Invites :
           /\ mail'[j] = mail[j] \/ (mail'[j].attempts = mail[j].attempts /\ mail'[j].status # "sent")
           /\ invite'[j] = NoInvite => invite[j] = NoInvite /\ mail'[j] = mail[j]
    BY <1>2, <1>3, TenancyShapes
  <2> QED
    BY <1>2, <1>3, <2>1, InviteMoves
<1>5. MailFollowsInvite'
  <2>1. ASSUME NEW j \in Invites, mail'[j].status \in {"pending", "sending"}
        PROVE  invite'[j].status \notin {"accepted", "revoked"}
    <3>1. j # i
      BY <1>2, <2>1
    <3> QED
      BY <1>2, <1>3, <2>1, <3>1 DEF TenancyInv, MailFollowsInvite, MailLive
  <2> QED
    BY <2>1 DEF MailFollowsInvite, MailLive
<1> QED
  BY <1>2, <1>3, <1>4, <1>5

\* An invitation is revoked, accepted or read, or its time passes.
LEMMA InviteStep ==
    ASSUME TenancyInv, NEW i \in Invites,
           \/ RevokeInvite(i) \/ InviteExpires(i)
           \/ \E u \in Users : ReadInvite(i, u) \/ AcceptInvite(i, u)
    PROVE  TenancyInv'
<1>1. /\ invite \in [Invites -> Invite \cup {NoInvite}] /\ InviteUsedOnce /\ OwnerInv
      /\ joined \in [Invites -> Nat] /\ member \in [Users -> Member \cup {NoMember}]
  BY DEF TenancyInv, TenancyTypes
<1>2. CASE RevokeInvite(i)
  <2>. DEFINE row == Revoked(invite[i])
  <2>1. /\ UNCHANGED <<org, member, enabled, adminReq, joined, mailer, sends>>
        /\ CancelMail(i) /\ invite' = [invite EXCEPT ![i] = row] /\ invite[i].status = "pending"
    BY <1>2 DEF RevokeInvite, MembersStill, MailStill
  <2>2. row \in Invite /\ row.status = "revoked"
    <3>1. invite[i] \in Invite
      BY <1>1, <2>1, TenancyShapes
    <3> QED
      BY <3>1 DEF Revoked, Invite
  <2>. HIDE DEF row
  <2>3. /\ invite' \in [Invites -> Invite \cup {NoInvite}]
        /\ mail' \in [Invites -> Mail \cup {NoMail}] /\ MailInv' /\ MailFollowsInvite'
    BY <2>1, <2>2, Cancelling
  <2>4. InviteUsedOnce'
    BY <1>1, <2>1, <2>2 DEF InviteUsedOnce
  <2> QED
    BY <2>1, <2>3, <2>4, InviteKept
<1>3. CASE InviteExpires(i) \/ \E u \in Users : ReadInvite(i, u)
  <2>1. UNCHANGED <<org, member, enabled, adminReq, joined, mailer, sends, invite, mail>>
    BY <1>3 DEF InviteExpires, ReadInvite, MembersStill, MailStill
  <2> QED
    BY <2>1, MailKept DEF TenancyInv, TenancyTypes, OwnerInv, OneOwner, InviteUsedOnce
<1>4. ASSUME NEW u \in Users, AcceptInvite(i, u) PROVE TenancyInv'
  <2>1. UNCHANGED <<org, enabled, adminReq, mailer, sends>>
    BY <1>4 DEF AcceptInvite, MailStill
  <2>2. CASE ~(Acceptable(i) /\ MayJoin(u))
    <3>1. UNCHANGED <<org, member, enabled, adminReq, joined, mailer, sends, invite, mail>>
      BY <1>4, <2>1, <2>2 DEF AcceptInvite
    <3> QED
      BY <3>1, MailKept DEF TenancyInv, TenancyTypes, OwnerInv, OneOwner, InviteUsedOnce
  <2>3. CASE Acceptable(i) /\ MayJoin(u)
    <3>. DEFINE row == [invite[i] EXCEPT !.status = "accepted"]
                new == [role |-> invite[i].role, status |-> "active"]
    <3>1. /\ invite' = [invite EXCEPT ![i] = row] /\ member' = [member EXCEPT ![u] = new]
          /\ joined' = [joined EXCEPT ![i] = @ + 1] /\ CancelMail(i)
          /\ invite[i].status = "pending" /\ org = "active" /\ member[u] = NoMember
      BY <1>1, <1>4, <2>3 DEF AcceptInvite, Acceptable, MayJoin
    <3>2. row \in Invite /\ row.status = "accepted" /\ new \in Member /\ new.role # "owner"
      <4>1. invite[i] \in Invite
        BY <1>1, <3>1, TenancyShapes
      <4> QED
        BY <4>1 DEF Invite, Member
    <3>. HIDE DEF row, new
    <3>3. /\ invite' \in [Invites -> Invite \cup {NoInvite}]
          /\ mail' \in [Invites -> Mail \cup {NoMail}] /\ MailInv' /\ MailFollowsInvite'
      BY <2>1, <3>1, <3>2, Cancelling
    <3>4. InviteUsedOnce'
      BY <1>1, <3>1, <3>2 DEF InviteUsedOnce
    <3>5. OwnerInv' /\ member' \in [Users -> Member \cup {NoMember}]
      <4>1. \A q \in AdminRequests : adminReq'[q].op # "none" => org # "absent"
        BY <1>1, <2>1 DEF OwnerInv
      <4> QED
        BY <2>1, <3>1, <3>2, <4>1, OneMember, TenancyShapes
    <3>6. TenancyTypes'
      BY <1>1, <2>1, <3>1, <3>3, <3>5 DEF TenancyInv, TenancyTypes
    <3> QED
      BY <3>3, <3>4, <3>5, <3>6 DEF TenancyInv
  <2> QED
    BY <2>2, <2>3
<1> QED
  BY <1>2, <1>3, <1>4

(***************************************************************************)
(* The mail queue                                                          *)
(***************************************************************************)
\* Invitations and members are not the queue's; rows in it do not become live, and a new letter is
\* not its to write.
LEMMA QueueMoves ==
    ASSUME TenancyInv, MailOnly, mail' \in [Invites -> Mail \cup {NoMail}],
           mailer' \in [MailWorkers -> Delivery \cup {NoDelivery}], sends' \in [Invites -> Nat],
           \A i \in Invites :
              /\ mail[i] = NoMail => mail'[i] = NoMail
              /\ mail'[i].status \in {"pending", "sending"} => MailLive(i)
              /\ sends'[i] + Cardinality(Unsent(i)') <= mail'[i].attempts
              /\ mail'[i].status = "sent" => sends'[i] >= 1,
           \A w \in MailWorkers : mailer'[w].at = "sent" => sends'[mailer'[w].invite] >= 1
    PROVE  TenancyInv'
<1>1. UNCHANGED <<org, member, enabled, adminReq, joined, invite>>
  BY DEF MailOnly, MembersStill
<1>2. TenancyTypes' /\ OwnerInv' /\ InviteUsedOnce'
  BY <1>1 DEF TenancyInv, TenancyTypes, OwnerInv, OneOwner, InviteUsedOnce
<1>3. MailFollowsInvite'
  BY <1>1 DEF TenancyInv, MailFollowsInvite, MailLive
<1>4. MailInv'
  BY <1>1 DEF TenancyInv, MailInv
<1> QED
  BY <1>2, <1>3, <1>4 DEF TenancyInv

\* Fewer workers with an attempt in hand.
LEMMA FewerUnsent ==
    ASSUME NEW i, NEW s, s \subseteq Unsent(i)
    PROVE  Cardinality(s) <= Cardinality(Unsent(i)) /\ Cardinality(s) \in Nat
<1>1. IsFiniteSet(Unsent(i))
  BY UnsentFinite
<1>2. IsFiniteSet(s) /\ Cardinality(s) <= Cardinality(Unsent(i))
  BY <1>1, FS_Subset
<1> QED
  BY <1>2, FS_CardinalityType

\* A worker gives up what it has in hand; a row may be closed with it, but not as sent.
LEMMA LetsGo ==
    ASSUME TenancyInv, MailOnly, UNCHANGED sends, mail' \in [Invites -> Mail \cup {NoMail}],
           \A i \in Invites :
              \/ mail'[i] = mail[i]
              \/ /\ MailLive(i) /\ mail'[i].attempts = mail[i].attempts
                 /\ mail'[i].status = "sent" => sends[i] >= 1,
           mailer' = mailer \/ \E w \in MailWorkers : mailer' = [mailer EXCEPT ![w] = NoDelivery]
    PROVE  TenancyInv'
<1>1. mailer \in [MailWorkers -> Delivery \cup {NoDelivery}] /\ sends \in [Invites -> Nat]
  BY DEF TenancyInv, TenancyTypes
<1>2. /\ mailer' \in [MailWorkers -> Delivery \cup {NoDelivery}]
      /\ \A w \in MailWorkers : mailer'[w] = mailer[w] \/ mailer'[w] = NoDelivery
  BY <1>1
<1>3. \A i : Unsent(i)' \subseteq Unsent(i)
  BY <1>2, TenancyShapes DEF Unsent
<1>4. ASSUME NEW i \in Invites
      PROVE  /\ mail[i] = NoMail => mail'[i] = NoMail
             /\ mail'[i].status \in {"pending", "sending"} => MailLive(i)
             /\ sends'[i] + Cardinality(Unsent(i)') <= mail'[i].attempts
             /\ mail'[i].status = "sent" => sends'[i] >= 1
  <2>1. Cardinality(Unsent(i)') <= Cardinality(Unsent(i)) /\ Cardinality(Unsent(i)') \in Nat
    BY <1>3, FewerUnsent
  <2>2. /\ sends[i] + Cardinality(Unsent(i)) <= mail[i].attempts
        /\ mail[i].status = "sent" => sends[i] >= 1
    BY DEF TenancyInv, MailInv
  <2>3. sends[i] \in Nat /\ mail[i].attempts \in Nat /\ Cardinality(Unsent(i)) \in Nat
        /\ (mail[i] = NoMail => ~MailLive(i))
    BY <1>1, UnsentFinite, MailFields DEF TenancyInv
  <2>4. mail'[i].attempts = mail[i].attempts
    OBVIOUS
  <2>5. sends'[i] + Cardinality(Unsent(i)') <= mail'[i].attempts
    BY <2>1, <2>2, <2>3, <2>4
  <2> QED
    BY <2>2, <2>3, <2>5 DEF MailLive
<1>5. ASSUME NEW w \in MailWorkers, mailer'[w].at = "sent" PROVE sends'[mailer'[w].invite] >= 1
  BY <1>2, <1>5, TenancyShapes DEF TenancyInv, MailInv
<1> QED
  BY <1>1, <1>2, <1>4, <1>5, QueueMoves

\* What the two sweeps make of a row.
LEMMA Sweeping ==
    ASSUME TenancyInv, NEW i \in Invites
    PROVE  /\ Swept(i) \in Mail \cup {NoMail} /\ Swept(i).attempts = mail[i].attempts
           /\ Swept(i) = mail[i] \/ (MailLive(i) /\ Swept(i).status \in {"expired", "failed"})
<1>1. mail[i] \in Mail \cup {NoMail} /\ (MailLive(i) => mail[i] \in Mail)
  BY MailFields DEF TenancyInv, TenancyTypes
<1>2. CASE Swept(i) = mail[i]
  BY <1>1, <1>2
<1>3. CASE Swept(i) # mail[i]
  <2>1. MailLive(i) /\ \E st \in {"expired", "failed"} : Swept(i) = Closed(mail[i], st)
    BY <1>3 DEF Swept
  <2> QED
    BY <1>1, <2>1, ClosedRow
<1> QED
  BY <1>2, <1>3

\* Claim: the sweeps, then the lease of a row, which is one attempt more.
LEMMA ClaimMailStep == ASSUME TenancyInv, NEW w \in MailWorkers, ClaimMail(w) PROVE TenancyInv'
<1>. DEFINE swept == [i \in Invites |-> Swept(i)]
<1>1. /\ mailer \in [MailWorkers -> Delivery \cup {NoDelivery}] /\ sends \in [Invites -> Nat]
      /\ mail \in [Invites -> Mail \cup {NoMail}]
      /\ MailOnly /\ UNCHANGED sends /\ mailer[w] = NoDelivery
  BY DEF TenancyInv, TenancyTypes, ClaimMail
<1>2. /\ swept \in [Invites -> Mail \cup {NoMail}]
      /\ \A i \in Invites :
            /\ swept[i].attempts = mail[i].attempts
            /\ swept[i] = mail[i] \/ (MailLive(i) /\ swept[i].status \in {"expired", "failed"})
  BY Sweeping
<1>3. \/ mail' = swept /\ UNCHANGED mailer
      \/ \E i \in Invites :
            /\ MailClaimable(swept[i], i)
            /\ mail' = [swept EXCEPT ![i].status = "sending", ![i].attempts = @ + 1,
                           ![i].lock = w, ![i].due = FALSE, ![i].lapsed = FALSE]
            /\ mailer' = [mailer EXCEPT ![w] =
                              [at |-> "claimed", invite |-> i, attempts |-> mail[i].attempts + 1]]
  BY DEF ClaimMail
<1>. HIDE DEF swept
<1>4. CASE mail' = swept /\ UNCHANGED mailer
  <2>1. mail' \in [Invites -> Mail \cup {NoMail}] /\ mailer' = mailer
    BY <1>2, <1>4
  <2>2. \A i \in Invites :
           \/ mail'[i] = mail[i]
           \/ /\ MailLive(i) /\ mail'[i].attempts = mail[i].attempts
              /\ mail'[i].status = "sent" => sends[i] >= 1
    BY <1>2, <1>4
  <2> QED
    BY <1>1, <2>1, <2>2, LetsGo
<1>5. ASSUME NEW i \in Invites, MailClaimable(swept[i], i),
             mail' = [swept EXCEPT ![i].status = "sending", ![i].attempts = @ + 1,
                         ![i].lock = w, ![i].due = FALSE, ![i].lapsed = FALSE],
             mailer' = [mailer EXCEPT ![w] =
                          [at |-> "claimed", invite |-> i, attempts |-> mail[i].attempts + 1]]
      PROVE  TenancyInv'
  <2>. DEFINE row == [swept[i] EXCEPT !.status = "sending", !.attempts = @ + 1, !.lock = w,
                                      !.due = FALSE, !.lapsed = FALSE]
              note == [at |-> "claimed", invite |-> i, attempts |-> mail[i].attempts + 1]
  <2>1. mail' = [swept EXCEPT ![i] = row]
    BY <1>2, <1>5
  <2>2. /\ swept[i] = mail[i] /\ MailLive(i) /\ swept[i].attempts < MailAttempts
        /\ mail[i] \in Mail /\ mail[i].attempts \in Nat
    <3>1. swept[i].status \in {"pending", "sending"} /\ swept[i].attempts < MailAttempts
      BY <1>5 DEF MailClaimable
    <3>2. swept[i] = mail[i]
      BY <1>2, <3>1
    <3>3. MailLive(i)
      BY <3>1, <3>2 DEF MailLive
    <3> QED
      BY <3>1, <3>2, <3>3, MailFields DEF TenancyInv
  <2>3. row \in Mail /\ row.status = "sending" /\ row.attempts = mail[i].attempts + 1
    <3>1. mail[i].attempts + 1 \in 0..MailAttempts
      BY <2>2, TenancyShapes
    <3>2. row.attempts = mail[i].attempts + 1
      BY <2>2 DEF Mail
    <3> QED
      BY <2>2, <3>1, <3>2 DEF Mail
  <2>4. note \in Delivery /\ note.at = "claimed" /\ note.invite = i
    BY <2>2 DEF Delivery
  <2>5. mailer' = [mailer EXCEPT ![w] = note]
    BY <1>5
  <2>. HIDE DEF row, note
  <2>6. /\ mail' \in [Invites -> Mail \cup {NoMail}] /\ mail'[i] = row
        /\ \A j \in Invites \ {i} : mail'[j] = swept[j]
    BY <1>2, <2>1, <2>3
  <2>7. /\ mailer' \in [MailWorkers -> Delivery \cup {NoDelivery}] /\ mailer'[w] = note
        /\ \A v \in MailWorkers \ {w} : mailer'[v] = mailer[v]
    BY <1>1, <2>4, <2>5
  <2>8. Unsent(i)' = Unsent(i) \cup {w} /\ w \notin Unsent(i)
        /\ \A j : j # i => Unsent(j)' = Unsent(j)
    BY <1>1, <2>4, <2>7, TenancyShapes DEF Unsent
  <2>9. Cardinality(Unsent(i)') = Cardinality(Unsent(i)) + 1
    BY <2>8, UnsentFinite, FS_AddElement
  <2>10. ASSUME NEW j \in Invites
         PROVE  /\ mail[j] = NoMail => mail'[j] = NoMail
                /\ mail'[j].status \in {"pending", "sending"} => MailLive(j)
                /\ sends'[j] + Cardinality(Unsent(j)') <= mail'[j].attempts
                /\ mail'[j].status = "sent" => sends'[j] >= 1
    <3>1. /\ sends[j] \in Nat /\ Cardinality(Unsent(j)) \in Nat /\ mail[j].attempts \in Nat
          /\ sends[j] + Cardinality(Unsent(j)) <= mail[j].attempts
          /\ mail[j].status = "sent" => sends[j] >= 1
          /\ mail[j] = NoMail => ~MailLive(j)
      BY <1>1, UnsentFinite, MailFields DEF TenancyInv, MailInv
    <3>2. CASE j = i
      BY <1>1, <2>2, <2>3, <2>6, <2>9, <3>1, <3>2
    <3>3. CASE j # i
      <4>1. mail'[j] = swept[j] /\ Unsent(j)' = Unsent(j)
        BY <2>6, <2>8, <3>3
      <4>2. \/ mail'[j] = mail[j]
            \/ /\ MailLive(j) /\ mail'[j].attempts = mail[j].attempts
               /\ mail'[j].status \in {"expired", "failed"}
        BY <1>2, <4>1
      <4> QED
        BY <1>1, <3>1, <4>1, <4>2 DEF MailLive
    <3> QED
      BY <3>2, <3>3
  <2>11. ASSUME NEW v \in MailWorkers, mailer'[v].at = "sent" PROVE sends'[mailer'[v].invite] >= 1
    BY <1>1, <2>4, <2>7, <2>11 DEF TenancyInv, MailInv
  <2> QED
    BY <1>1, <2>6, <2>7, <2>10, <2>11, QueueMoves
<1> QED
  BY <1>3, <1>4, <1>5

\* The provider is asked: the attempt in hand is spent.
LEMMA Spending ==
    ASSUME TenancyInv, NEW w \in MailWorkers, mailer[w].at = "ready", MailOnly,
           NEW note \in Delivery \cup {NoDelivery}, note.at \notin {"claimed", "ready"},
           mailer' = [mailer EXCEPT ![w] = note],
           note.at = "sent" => note.invite = mailer[w].invite,
           NEW n \in {0, 1}, note.at = "sent" => n = 1,
           sends' = [sends EXCEPT ![mailer[w].invite] = @ + n],
           mail' \in [Invites -> Mail \cup {NoMail}],
           \A i \in Invites :
              \/ mail'[i] = mail[i]
              \/ /\ MailLive(i) /\ mail'[i].attempts = mail[i].attempts /\ mail'[i].status # "sent"
    PROVE  TenancyInv'
<1>0. PICK i \in Invites : i = mailer[w].invite
  BY TenancyShapes DEF TenancyInv, TenancyTypes, Delivery
<1>1. mailer \in [MailWorkers -> Delivery \cup {NoDelivery}] /\ sends \in [Invites -> Nat]
  BY DEF TenancyInv, TenancyTypes
<1>2. /\ mailer' \in [MailWorkers -> Delivery \cup {NoDelivery}] /\ mailer'[w] = note
      /\ \A v \in MailWorkers \ {w} : mailer'[v] = mailer[v]
  BY <1>1
<1>3. /\ sends' \in [Invites -> Nat] /\ sends'[i] = sends[i] + n
      /\ \A j \in Invites \ {i} : sends'[j] = sends[j]
  <2>1. sends[i] + n \in Nat
    BY <1>1
  <2> QED
    BY <1>0, <1>1, <2>1
<1>4. /\ w \in Unsent(i) /\ Unsent(i)' = Unsent(i) \ {w}
      /\ \A j : j # i => Unsent(j)' = Unsent(j)
  BY <1>0, <1>1, <1>2 DEF Unsent
<1>5. Cardinality(Unsent(i)') = Cardinality(Unsent(i)) - 1 /\ Cardinality(Unsent(i)') \in Nat
  <2>1. IsFiniteSet(Unsent(i))
    BY UnsentFinite
  <2>2. Cardinality(Unsent(i) \ {w}) = Cardinality(Unsent(i)) - 1 /\ IsFiniteSet(Unsent(i) \ {w})
    BY <1>4, <2>1, FS_RemoveElement
  <2> QED
    BY <1>4, <2>2, FS_CardinalityType
<1>6. ASSUME NEW j \in Invites
      PROVE  /\ mail[j] = NoMail => mail'[j] = NoMail
             /\ mail'[j].status \in {"pending", "sending"} => MailLive(j)
             /\ sends'[j] + Cardinality(Unsent(j)') <= mail'[j].attempts
             /\ mail'[j].status = "sent" => sends'[j] >= 1
  <2>1. /\ sends[j] \in Nat /\ Cardinality(Unsent(j)) \in Nat /\ mail[j].attempts \in Nat
        /\ sends[j] + Cardinality(Unsent(j)) <= mail[j].attempts
        /\ mail[j].status = "sent" => sends[j] >= 1
        /\ mail[j] = NoMail => ~MailLive(j)
    BY <1>1, UnsentFinite, MailFields DEF TenancyInv, MailInv
  <2>2. /\ mail'[j].attempts = mail[j].attempts
        /\ mail'[j].status = "sent" => mail[j].status = "sent"
    OBVIOUS
  <2>3. sends[j] <= sends'[j] /\ sends'[j] + Cardinality(Unsent(j)') <= sends[j] + Cardinality(Unsent(j))
    <3>1. CASE j = i
      BY <1>3, <1>5, <2>1, <3>1
    <3>2. CASE j # i
      BY <1>3, <1>4, <2>1, <3>2
    <3> QED
      BY <3>1, <3>2
  <2>4. sends'[j] \in Nat /\ Cardinality(Unsent(j)') \in Nat
    BY <1>3, <1>4, <1>5, <2>1
  <2> QED
    BY <2>1, <2>2, <2>3, <2>4 DEF MailLive
<1>7. ASSUME NEW v \in MailWorkers, mailer'[v].at = "sent" PROVE sends'[mailer'[v].invite] >= 1
  <2>1. CASE v = w
    <3>1. mailer'[v].invite = i /\ n = 1
      BY <1>0, <1>2, <1>7, <2>1
    <3> QED
      BY <1>1, <1>3, <3>1
  <2>2. CASE v # w
    <3>1. mailer'[v] = mailer[v] /\ mailer[v].invite \in Invites /\ sends[mailer[v].invite] >= 1
      BY <1>1, <1>2, <1>7, <2>2, TenancyShapes DEF TenancyInv, MailInv, Delivery
    <3> QED
      BY <1>1, <1>3, <3>1
  <2> QED
    BY <2>1, <2>2
<1> QED
  BY <1>2, <1>3, <1>6, <1>7, QueueMoves

\* Send, and what is recorded after it.
LEMMA MailerStepKeeps ==
    ASSUME TenancyInv, NEW w \in MailWorkers,
           CheckReady(w) \/ SendMail(w) \/ CompleteMail(w) \/ FailMail(w) \/ MailerDies(w)
    PROVE  TenancyInv'
<1>1. /\ mailer \in [MailWorkers -> Delivery \cup {NoDelivery}] /\ sends \in [Invites -> Nat]
      /\ mail \in [Invites -> Mail \cup {NoMail}] /\ MailOnly
  BY DEF TenancyInv, TenancyTypes, CheckReady, SendMail, CompleteMail, FailMail, MailerDies
<1>. DEFINE i == mailer[w].invite
<1>2. mailer[w].at \in {"claimed", "ready", "sent"} => mailer[w] \in Delivery /\ i \in Invites
  BY <1>1, TenancyShapes DEF Delivery
<1>3. CASE CheckReady(w)
  <2>1. UNCHANGED <<mail, sends>> /\ mailer[w].at = "claimed"
    BY <1>3 DEF CheckReady
  <2>2. CASE mailer' = [mailer EXCEPT ![w] = NoDelivery]
    BY <1>1, <2>1, <2>2, LetsGo
  <2>3. CASE mailer' = [mailer EXCEPT ![w] = [mailer[w] EXCEPT !.at = "ready"]]
    <3>. DEFINE note == [mailer[w] EXCEPT !.at = "ready"]
    <3>1. note \in Delivery /\ note.at = "ready" /\ note.invite = i
      BY <1>2, <2>1 DEF Delivery
    <3>2. mailer' = [mailer EXCEPT ![w] = note]
      BY <2>3
    <3>. HIDE DEF note
    <3>3. /\ mailer' \in [MailWorkers -> Delivery \cup {NoDelivery}] /\ mailer'[w] = note
          /\ \A v \in MailWorkers \ {w} : mailer'[v] = mailer[v]
      BY <1>1, <3>1, <3>2
    <3>4. \A j : Unsent(j)' = Unsent(j)
      BY <2>1, <3>1, <3>3 DEF Unsent
    <3>5. ASSUME NEW j \in Invites
          PROVE  /\ mail[j] = NoMail => mail'[j] = NoMail
                 /\ mail'[j].status \in {"pending", "sending"} => MailLive(j)
                 /\ sends'[j] + Cardinality(Unsent(j)') <= mail'[j].attempts
                 /\ mail'[j].status = "sent" => sends'[j] >= 1
      BY <2>1, <3>4 DEF TenancyInv, MailInv, MailLive
    <3>6. \A v \in MailWorkers : mailer'[v].at = "sent" => sends'[mailer'[v].invite] >= 1
      BY <2>1, <3>1, <3>3 DEF TenancyInv, MailInv
    <3>7. mail' \in [Invites -> Mail \cup {NoMail}] /\ sends' \in [Invites -> Nat]
      BY <1>1, <2>1
    <3> QED
      BY <1>1, <3>3, <3>5, <3>6, <3>7, QueueMoves
  <2> QED
    BY <1>3, <2>2, <2>3 DEF CheckReady
<1>4. CASE SendMail(w)
  <2>. DEFINE note == [mailer[w] EXCEPT !.at = "sent"]
  <2>1. /\ UNCHANGED mail /\ mailer[w].at = "ready" /\ sends' = [sends EXCEPT ![i] = @ + 1]
        /\ mailer' = [mailer EXCEPT ![w] = note]
    BY <1>1, <1>4 DEF SendMail
  <2>2. note \in Delivery /\ note.at = "sent" /\ note.invite = i
    BY <1>2, <2>1 DEF Delivery
  <2>. HIDE DEF note
  <2>3. /\ mail' \in [Invites -> Mail \cup {NoMail}] /\ note \in Delivery \cup {NoDelivery}
        /\ note.at \notin {"claimed", "ready"} /\ \A j \in Invites : mail'[j] = mail[j]
    BY <1>1, <2>1, <2>2
  <2> QED
    BY <1>1, <2>1, <2>2, <2>3, Spending
<1>5. CASE CompleteMail(w)
  <2>1. /\ UNCHANGED sends /\ mailer[w].at = "sent" /\ mailer' = [mailer EXCEPT ![w] = NoDelivery]
        /\ mail' = IF OwnRow(w) THEN [mail EXCEPT ![i] = Closed(mail[i], "sent")] ELSE mail
    BY <1>5 DEF CompleteMail
  <2>2. i \in Invites /\ sends[i] >= 1
    BY <1>2, <2>1 DEF TenancyInv, MailInv
  <2>3. CASE ~OwnRow(w)
    BY <1>1, <2>1, <2>3, LetsGo
  <2>4. CASE OwnRow(w)
    <3>1. MailLive(i) /\ mail[i] \in Mail
      BY <2>2, <2>4, MailFields DEF OwnRow, HoldsLease, MailLive, TenancyInv
    <3>2. /\ Closed(mail[i], "sent") \in Mail
          /\ Closed(mail[i], "sent").attempts = mail[i].attempts
      BY <3>1, ClosedRow
    <3>3. /\ mail' \in [Invites -> Mail \cup {NoMail}]
          /\ \A j \in Invites :
                \/ mail'[j] = mail[j]
                \/ /\ MailLive(j) /\ mail'[j].attempts = mail[j].attempts
                   /\ mail'[j].status = "sent" => sends[j] >= 1
      BY <1>1, <2>1, <2>2, <2>4, <3>1, <3>2
    <3> QED
      BY <1>1, <2>1, <3>3, LetsGo
  <2> QED
    BY <2>3, <2>4
<1>6. CASE FailMail(w)
  <2>1. PICK n \in {0, 1}, st \in {"failed", "pending"} :
           /\ sends' = [sends EXCEPT ![i] = @ + n]
           /\ mail' = IF ~OwnRow(w) THEN mail ELSE [mail EXCEPT ![i] = Closed(mail[i], st)]
    BY <1>6 DEF FailMail
  <2>2. mailer[w].at = "ready" /\ mailer' = [mailer EXCEPT ![w] = NoDelivery] /\ i \in Invites
    BY <1>2, <1>6 DEF FailMail
  <2>3. /\ mail' \in [Invites -> Mail \cup {NoMail}]
        /\ \A j \in Invites :
              \/ mail'[j] = mail[j]
              \/ /\ MailLive(j) /\ mail'[j].attempts = mail[j].attempts /\ mail'[j].status # "sent"
    <3>1. CASE ~OwnRow(w)
      BY <1>1, <2>1, <3>1
    <3>2. CASE OwnRow(w)
      <4>1. MailLive(i) /\ mail[i] \in Mail
        BY <2>2, <3>2, MailFields DEF OwnRow, HoldsLease, MailLive, TenancyInv
      <4>2. /\ Closed(mail[i], st) \in Mail /\ Closed(mail[i], st).status = st
            /\ Closed(mail[i], st).attempts = mail[i].attempts
        BY <4>1, ClosedRow
      <4>3. mail' = [mail EXCEPT ![i] = Closed(mail[i], st)]
        BY <2>1, <3>2
      <4> QED
        BY <1>1, <2>2, <4>1, <4>2, <4>3
    <3> QED
      BY <3>1, <3>2
  <2> QED
    BY <1>1, <2>1, <2>2, <2>3, TenancyShapes, Spending
<1>7. CASE MailerDies(w)
  <2>1. UNCHANGED <<mail, sends>> /\ mailer' = [mailer EXCEPT ![w] = NoDelivery]
    BY <1>7 DEF MailerDies
  <2> QED
    BY <1>1, <2>1, LetsGo
<1> QED
  BY <1>3, <1>4, <1>5, <1>6, <1>7

\* Time passes for a lease or a delay.
LEMMA QueueWaits ==
    ASSUME TenancyInv, NEW i \in Invites, LeaseLapses(i) \/ DelayPasses(i)
    PROVE  TenancyInv'
<1>1. mail \in [Invites -> Mail \cup {NoMail}] /\ MailOnly /\ UNCHANGED <<mailer, sends>>
  BY DEF TenancyInv, TenancyTypes, LeaseLapses, DelayPasses
<1>2. MailLive(i) /\ mail[i] \in Mail
  BY MailFields DEF LeaseLapses, DelayPasses, MailLive, TenancyInv
<1>3. \E row \in Mail : /\ mail' = [mail EXCEPT ![i] = row] /\ row.attempts = mail[i].attempts
                        /\ row.status = mail[i].status
  <2>1. CASE LeaseLapses(i)
    <3>. DEFINE row == [mail[i] EXCEPT !.lapsed = TRUE]
    <3>1. row \in Mail /\ row.attempts = mail[i].attempts /\ row.status = mail[i].status
      BY <1>2 DEF Mail
    <3> QED
      BY <1>1, <2>1, <3>1 DEF LeaseLapses
  <2>2. CASE DelayPasses(i)
    <3>. DEFINE row == [mail[i] EXCEPT !.due = TRUE]
    <3>1. row \in Mail /\ row.attempts = mail[i].attempts /\ row.status = mail[i].status
      BY <1>2 DEF Mail
    <3> QED
      BY <1>1, <2>2, <3>1 DEF DelayPasses
  <2> QED
    BY <2>1, <2>2
<1>4. /\ mail' \in [Invites -> Mail \cup {NoMail}]
      /\ \A j \in Invites :
            \/ mail'[j] = mail[j]
            \/ /\ MailLive(j) /\ mail'[j].attempts = mail[j].attempts
               /\ mail'[j].status = "sent" => sends[j] >= 1
  BY <1>1, <1>2, <1>3 DEF MailLive
<1> QED
  BY <1>1, <1>4, LetsGo

\* Every step keeps the invariant.
LEMMA TenancyStep == TenancyInv /\ [TenancyNext]_tenancyVars => TenancyInv'
<1> SUFFICES ASSUME TenancyInv, [TenancyNext]_tenancyVars PROVE TenancyInv'
  OBVIOUS
<1>1. CASE UNCHANGED tenancyVars
  <2>1. UNCHANGED <<org, member, enabled, adminReq, joined, invite, mail, mailer, sends>>
    BY <1>1 DEF tenancyVars
  <2> QED
    BY <2>1, MailKept DEF TenancyInv, TenancyTypes, OwnerInv, OneOwner, InviteUsedOnce
<1>2. CASE TenancyNext
  BY <1>2, AdminStep, CreateInviteStep, InviteStep, ClaimMailStep, MailerStepKeeps, QueueWaits
     DEF TenancyNext, MailerStep
<1> QED
  BY <1>1, <1>2

\* The invariant of members, invitations and mail.
THEOREM TenancyInductive == TenancySafety => []TenancyInv
<1> QED
  BY TenancyStart, TenancyStep, PTL DEF TenancySafety

\* A disabled member and a mail that has ended are left alone by every step.
LEMMA EndedRows ==
    ASSUME TenancyInv, [TenancyNext]_tenancyVars
    PROVE  /\ \A u \in Users : member[u].status = "disabled" => member'[u] = member[u]
           /\ \A i \in Invites : mail[i].status \in {"sent", "failed", "expired", "cancelled"}
                                     => mail'[i] = mail[i]
<1>1. member \in [Users -> Member \cup {NoMember}] /\ mail \in [Invites -> Mail \cup {NoMail}] /\ OwnerInv
  BY DEF TenancyInv, TenancyTypes
<1>2. ASSUME NEW u \in Users, member[u].status = "disabled" PROVE member'[u] = member[u]
  <2>1. CASE UNCHANGED member
    BY <2>1
  <2>2. CASE CreateOrganization
    <3>1. member[u] = NoMember
      BY <1>1, <2>2 DEF CreateOrganization, OwnerInv
    <3> QED
      BY <1>2, <3>1, TenancyShapes
  <2>3. ASSUME NEW q \in AdminRequests, AddMember(q) \/ UpdateRole(q) \/ DisableMember(q)
        PROVE  member'[u] = member[u]
    <3>1. CASE u = adminReq[q].target
      BY <1>1, <1>2, <2>3, <3>1, TenancyShapes DEF AddMember, UpdateRole, DisableMember, MutableTarget
    <3>2. CASE u # adminReq[q].target
      BY <1>1, <2>3, <3>2 DEF AddMember, UpdateRole, DisableMember
    <3> QED
      BY <3>1, <3>2
  <2>4. ASSUME NEW i \in Invites, NEW v \in Users, AcceptInvite(i, v) PROVE member'[u] = member[u]
    <3>1. CASE u = v
      BY <1>1, <1>2, <2>4, <3>1, TenancyShapes DEF AcceptInvite, MayJoin
    <3>2. CASE u # v
      BY <1>1, <2>4, <3>2 DEF AcceptInvite
    <3> QED
      BY <3>1, <3>2
  <2>5. CASE TenancyNext
    BY <2>1, <2>2, <2>3, <2>4, <2>5
       DEF TenancyNext, CheckRequest, DeleteOrganization, DisableUser, CreateToken, DisableToken,
           CreateInvite, RevokeInvite, InviteExpires, ReadInvite, MailerStep, ClaimMail, CheckReady,
           SendMail, CompleteMail, FailMail, MailerDies, LeaseLapses, DelayPasses, MembersStill, MailOnly
  <2>6. CASE UNCHANGED tenancyVars
    BY <2>6 DEF tenancyVars
  <2> QED
    BY <2>5, <2>6
<1>3. ASSUME NEW i \in Invites, mail[i].status \in {"sent", "failed", "expired", "cancelled"}
      PROVE  mail'[i] = mail[i]
  <2>1. ~MailLive(i) /\ mail[i] # NoMail
    BY <1>3, TenancyShapes DEF MailLive
  <2>2. CASE UNCHANGED mail
    BY <2>2
  <2>3. ASSUME NEW j \in Invites, CancelMail(j) PROVE mail'[i] = mail[i]
    BY <1>1, <2>1, <2>3 DEF CancelMail
  <2>4. ASSUME NEW j \in Invites, CreateInvite(j) PROVE mail'[i] = mail[i]
    <3>1. mail[j] = NoMail
      BY <2>4 DEF CreateInvite, TenancyInv, MailInv
    <3> QED
      BY <1>1, <2>1, <2>4, <3>1 DEF CreateInvite
  <2>5. ASSUME NEW w \in MailWorkers, ClaimMail(w) PROVE mail'[i] = mail[i]
    <3>1. Swept(i) = mail[i]
      BY <2>1, Sweeping
    <3>. DEFINE swept == [k \in Invites |-> Swept(k)]
    <3>2. \/ mail' = swept
          \/ \E k \in Invites :
                /\ MailClaimable(swept[k], k)
                /\ mail' = [swept EXCEPT ![k].status = "sending", ![k].attempts = @ + 1,
                               ![k].lock = w, ![k].due = FALSE, ![k].lapsed = FALSE]
      BY <2>5 DEF ClaimMail
    <3>3. swept[i] = mail[i] /\ DOMAIN swept = Invites
      BY <3>1
    <3>. HIDE DEF swept
    <3>4. ~MailClaimable(swept[i], i)
      BY <1>3, <3>3 DEF MailClaimable
    <3> QED
      BY <3>2, <3>3, <3>4
  <2>6. ASSUME NEW w \in MailWorkers, CompleteMail(w) \/ FailMail(w) PROVE mail'[i] = mail[i]
    <3>1. CASE OwnRow(w)
      <4>1. i # mailer[w].invite
        BY <2>1, <3>1 DEF OwnRow, HoldsLease, MailLive
      <4> QED
        BY <1>1, <2>6, <4>1 DEF CompleteMail, FailMail
    <3>2. CASE ~OwnRow(w)
      BY <2>6, <3>2 DEF CompleteMail, FailMail
    <3> QED
      BY <3>1, <3>2
  <2>7. ASSUME NEW j \in Invites, LeaseLapses(j) \/ DelayPasses(j) PROVE mail'[i] = mail[i]
    <3>1. i # j
      BY <1>3, <2>7 DEF LeaseLapses, DelayPasses
    <3> QED
      BY <1>1, <2>7, <3>1 DEF LeaseLapses, DelayPasses
  <2>8. CASE TenancyNext
    BY <2>2, <2>3, <2>4, <2>5, <2>6, <2>7, <2>8
       DEF TenancyNext, CreateOrganization, AddMember, UpdateRole, DisableMember, CheckRequest,
           DeleteOrganization, DisableUser, CreateToken, DisableToken, RevokeInvite, InviteExpires,
           ReadInvite, AcceptInvite, MailerStep, CheckReady, SendMail, MailerDies
  <2>9. CASE UNCHANGED tenancyVars
    BY <2>9 DEF tenancyVars
  <2> QED
    BY <2>8, <2>9
<1> QED
  BY <1>2, <1>3

\* However requests, invitations and mail workers interleave and fail, there is one owner, an
\* invitation is used once, its mail follows it and is recorded as sent only when it was, and what
\* has ended stays as it ended.
THEOREM TenancyIsSound == TenancySafety => TenancySound
<1>1. TenancyInv => (OneOwner /\ InviteUsedOnce /\ MailFollowsInvite /\ SentIsGrounded)
  <2> SUFFICES ASSUME TenancyInv
               PROVE  OneOwner /\ InviteUsedOnce /\ MailFollowsInvite /\ SentIsGrounded
    OBVIOUS
  <2>1. ASSUME NEW i \in Invites
        PROVE  (mail[i].status = "sent" => sends[i] >= 1) /\ sends[i] <= mail[i].attempts
    <3>1. /\ sends[i] + Cardinality(Unsent(i)) <= mail[i].attempts
          /\ mail[i].status = "sent" => sends[i] >= 1
      BY DEF TenancyInv, MailInv
    <3>2. sends[i] \in Nat /\ Cardinality(Unsent(i)) \in Nat /\ mail[i].attempts \in Nat
      BY UnsentFinite, MailFields DEF TenancyInv, TenancyTypes
    <3> QED
      BY <3>1, <3>2
  <2> QED
    BY <2>1 DEF TenancyInv, OwnerInv, SentIsGrounded
<1>2. TenancyInv /\ [TenancyNext]_tenancyVars
         => [/\ \A u \in Users : member[u].status = "disabled" => member'[u] = member[u]
             /\ \A i \in Invites : mail[i].status \in {"sent", "failed", "expired", "cancelled"}
                                       => mail'[i] = mail[i]]_<<member, mail>>
  BY EndedRows
<1> QED
  BY <1>1, <1>2, TenancyInductive, PTL DEF TenancySafety, TenancySound, EndedStaysEnded

(***************************************************************************)
(* Trunks: types                                                           *)
(***************************************************************************)
\* What the rows and requests leave of the trunks' type invariant.
TrunksRest ==
    /\ sipCredential \subseteq TrunkIds \X {"inbound", "outbound"} /\ sourceIp \subseteq TrunkIds
    /\ orgLock \subseteq Administrators
    /\ check \in [HealthWorkers -> SUBSET (EndpointIds \X Addresses)] /\ answers \subseteq Addresses

\* Administrators' requests and the health checks keep it.
LEMMA TrunksRestStep == TrunkInv /\ TrunksRest /\ [TrunksNext]_trunksVars => TrunksRest'
<1> SUFFICES ASSUME TrunkInv, TrunksRest, [TrunksNext]_trunksVars PROVE TrunksRest'
  OBVIOUS
<1> USE DEF TrunksRest
<1>1. ASSUME NEW q \in Administrators, NEW t \in TrunkIds, BeginCreate(q, t) \/ ReadForDelete(q, t)
      PROVE  TrunksRest'
  BY <1>1 DEF BeginCreate, ReadForDelete, AdminOnly
<1>2. ASSUME NEW q \in Administrators, LockAndCheckCapacity(q) PROVE TrunksRest'
  BY <1>2 DEF LockAndCheckCapacity, AdminOnly
<1>3. ASSUME NEW q \in Administrators, CommitCreate(q) PROVE TrunksRest'
  <2>1. request[q].trunk \in TrunkIds
    BY <1>3 DEF CommitCreate, TrunkInv, CreationInv, Creating
  <2>2. \A row : CredentialsOf(request[q].trunk, row) \subseteq TrunkIds \X {"inbound", "outbound"}
    BY <2>1 DEF CredentialsOf
  <2>3. sipCredential' = sipCredential
        \/ \E row \in CreateRequests : sipCredential' = sipCredential \cup CredentialsOf(request[q].trunk, row)
    BY <1>3 DEF CommitCreate
  <2>4. UNCHANGED <<sourceIp, check, answers>> /\ orgLock' = orgLock \ {q}
    BY <1>3 DEF CommitCreate
  <2> QED
    BY <2>2, <2>3, <2>4
<1>4. ASSUME NEW q \in Administrators, DisableTrunk(q) PROVE TrunksRest'
  BY <1>4 DEF DisableTrunk, AdminOnly
<1>5. ASSUME NEW t \in TrunkIds,
             \/ UpdateTrunk(t) \/ SetOutboundAuth(t) \/ ClearOutboundAuth(t)
             \/ SetInboundAuth(t) \/ SetInboundIP(t) \/ CreateSourceIP(t) \/ DeleteSourceIP(t)
      PROVE  TrunksRest'
  BY <1>5 DEF UpdateTrunk, SetOutboundAuth, ClearOutboundAuth, SetInboundAuth, SetInboundIP,
     CreateSourceIP, DeleteSourceIP, ClearedCredentials, RowsOnly, AdminOnly
<1>6. ASSUME NEW e \in EndpointIds, NEW a \in Addresses,
             Readdress(e, a) \/ \E t \in TrunkIds : CreateEndpoint(e, t, a)
      PROVE  TrunksRest'
  BY <1>6 DEF CreateEndpoint, Readdress, RowsOnly, AdminOnly
<1>6b. ASSUME NEW e \in EndpointIds, EnableEndpoint(e) \/ DeleteEndpoint(e) \/ IntervalPasses(e)
                                    \/ CooldownPasses(e)
       PROVE  TrunksRest'
  BY <1>6b DEF EnableEndpoint, DeleteEndpoint, IntervalPasses, CooldownPasses, HealthOnly, RowsOnly, AdminOnly
<1>7. ASSUME NEW w \in HealthWorkers, ClaimDue(w) PROVE TrunksRest'
  <2> DEFINE due == {e \in EndpointIds : Due(e)}
  <2>1. \A e \in due : sipEndpoint[e].address \in Addresses
    BY DEF Due, Endpoint, TrunkInv, TrunksTypes, SipEndpointRow
  <2>2. {<<e, sipEndpoint[e].address>> : e \in due} \in SUBSET (EndpointIds \X Addresses)
    BY <2>1
  <2>3. /\ check' = [check EXCEPT ![w] = {<<e, sipEndpoint[e].address>> : e \in due}]
        /\ UNCHANGED <<sipCredential, sourceIp, orgLock, answers>>
    BY <1>7 DEF ClaimDue, HealthOnly
  <2> QED
    BY <2>2, <2>3
<1>8. ASSUME NEW w \in HealthWorkers,
             HealthPassFails(w) \/ \E p \in EndpointIds \X Addresses : ProbeNext(w, p)
      PROVE  TrunksRest'
  <2>1. /\ UNCHANGED <<sipCredential, sourceIp, orgLock, answers>>
        /\ \/ check' = [check EXCEPT ![w] = {}]
           \/ \E p : check' = [check EXCEPT ![w] = @ \ {p}]
    BY <1>8 DEF HealthPassFails, ProbeNext, HealthOnly
  <2> QED
    BY <2>1
<1>9. ASSUME NEW a \in Addresses, CarrierFails(a) \/ CarrierReturns(a) PROVE TrunksRest'
  BY <1>9 DEF CarrierFails, CarrierReturns, HealthOnly
<1>10. ASSUME NEW n \in PhoneRows,
              \/ UpdateNumber(n) \/ ReleaseNumber(n)
              \/ \E m \in PhoneNumbers : CreateNumber(n, m)
              \/ \E t \in TrunkIds : SetNumberTrunk(n, t)
       PROVE  TrunksRest'
  BY <1>10 DEF CreateNumber, UpdateNumber, ReleaseNumber, SetNumberTrunk, RowsOnly, AdminOnly
<1>11. CASE UNCHANGED trunksVars
  BY <1>11 DEF trunksVars
<1> QED
  BY <1>1, <1>2, <1>3, <1>4, <1>5, <1>6, <1>6b, <1>7, <1>8, <1>9, <1>10, <1>11
  DEF TrunksNext

\* Rows, credentials, requests, batches and carriers keep their types.
THEOREM TrunksTypeCorrect == TrunksSafety => []TrunksTypeOK
<1>1. TrunksInit => TrunksRest
  BY DEF TrunksInit, TrunksRest
<1>2. TrunkInv /\ TrunksRest => TrunksTypeOK
  BY DEF TrunkInv, TrunksTypes, TrunksRest, TrunksTypeOK, Endpoint, Number
<1> QED
  BY <1>1, <1>2, TrunksInductive, TrunksRestStep, PTL DEF TrunksSafety

(***************************************************************************)
(* Payments: types                                                         *)
(***************************************************************************)
\* A claim is of a receipt that is being processed; attempts and faults are counted.
ReceiptRest(row) ==
    /\ row.attempts \in 0..WebhookAttempts
    /\ row.token # NoSub <=> row.status = "processing"
BillingRest ==
    billingFaults \in 0..BillingFaults /\ \A n \in 1..MaxMoments : ReceiptRest(receipt[n])

LEMMA BillingRestStep == BillingInv /\ BillingRest /\ [BillingNext]_billingVars => BillingRest'
<1> SUFFICES ASSUME BillingInv, BillingRest, [BillingNext]_billingVars PROVE BillingRest'
  OBVIOUS
<1>1. /\ receipt \in [1..MaxMoments -> Receipt] /\ WebhookAttempts \in Nat /\ BillingFaults \in Nat
      /\ NoSub \notin BillingWorkers /\ billingFaults \in 0..BillingFaults
      /\ \A n \in 1..MaxMoments : ReceiptRest(receipt[n])
  BY BillingAssumption DEF BillingAssumption, BillingInv, BillingTypes, BillingRest
<1>2. BillingFault \/ UNCHANGED billingFaults => billingFaults' \in 0..BillingFaults
  BY <1>1 DEF BillingFault
<1>3. ASSUME UNCHANGED receipt PROVE \A n \in 1..MaxMoments : ReceiptRest(receipt'[n])
  BY <1>1, <1>3
<1>4. ASSUME NEW n \in 1..MaxMoments, NEW status \in ReceiptStatus \ {"processing"},
             ReceiptSettled(n, status)
      PROVE  \A k \in 1..MaxMoments : ReceiptRest(receipt'[k])
  BY <1>1, <1>4 DEF ReceiptSettled, ReceiptRest, Receipt
<1>5. ASSUME NEW s \in PolarSubs, NEW status \in ProviderPays, ProviderChanges(s, status)
      PROVE  BillingRest'
  BY <1>2, <1>3, <1>5 DEF ProviderChanges, BillingRest
<1>6. ASSUME NEW n \in 1..MaxMoments, NEW kind \in EventKind, Webhook(n, kind) PROVE BillingRest'
  <2>1. \A k \in 1..MaxMoments : ReceiptRest(receipt'[k])
    BY <1>1, <1>6 DEF Webhook, ReceiptRest, Receipt
  <2> QED
    BY <1>2, <1>6, <2>1 DEF Webhook, BillingRest
<1>7. ASSUME NEW n \in 1..MaxMoments, LeaseGetsStale(n) PROVE BillingRest'
  <2>1. \A k \in 1..MaxMoments : ReceiptRest(receipt'[k])
    BY <1>1, <1>7 DEF LeaseGetsStale, ReceiptRest, Receipt
  <2> QED
    BY <1>2, <1>7, <2>1 DEF LeaseGetsStale, BillingRest
<1>8. ASSUME NEW n \in 1..MaxMoments, ReapExhausted(n) PROVE BillingRest'
  BY <1>2, <1>4, <1>8 DEF ReapExhausted, BillingRest, ReceiptStatus
<1>9. ASSUME NEW w \in BillingWorkers, NEW n \in 1..MaxMoments, ClaimReceipt(w, n)
      PROVE  BillingRest'
  <2>1. \A k \in 1..MaxMoments : ReceiptRest(receipt'[k])
    BY <1>1, <1>9 DEF ClaimReceipt, ReceiptClaimable, ReceiptRest, Receipt
  <2> QED
    BY <1>2, <1>9, <2>1 DEF ClaimReceipt, BillingRest
<1>10. ASSUME NEW w \in BillingWorkers, CommitReceipt(w) \/ FailReceipt(w) PROVE BillingRest'
  <2>1. actor[w].n \in 1..MaxMoments
    BY <1>10, BillingAssumption
       DEF BillingAssumption, BillingInv, BillingTypes, ReceiptInv, CommitReceipt, FailReceipt, Now
  <2>2. \/ UNCHANGED receipt
        \/ \E status \in ReceiptStatus \ {"processing"} : ReceiptSettled(actor[w].n, status)
    BY <1>10 DEF CommitReceipt, FailReceipt, ReceiptStatus
  <2>3. UNCHANGED billingFaults
    BY <1>10 DEF CommitReceipt, FailReceipt
  <2> QED
    BY <1>2, <1>3, <1>4, <2>1, <2>2, <2>3 DEF BillingRest
<1>11. ASSUME NEW x \in Actors, RecoverStep(x) \/ ActorFails(x) PROVE BillingRest'
  BY <1>2, <1>3, <1>11
     DEF RecoverStep, RecoverReads, RecoverExisting, RecoverCandidate, ActorFails, BillingRest
<1>12. ASSUME NEW w \in BillingWorkers, HandleEvent(w) \/ BillingCrash(w) PROVE BillingRest'
  BY <1>2, <1>3, <1>12 DEF HandleEvent, BillingCrash, BillingRest
<1>13. ASSUME ApplyReconciled \/ ReconcilerRejects PROVE BillingRest'
  BY <1>2, <1>3, <1>13 DEF ApplyReconciled, ReconcilerRejects, BillingRest
<1>14. CASE UNCHANGED billingVars
  BY <1>2, <1>3, <1>14 DEF billingVars, BillingRest
<1> QED
  BY <1>5, <1>6, <1>7, <1>8, <1>9, <1>10, <1>11, <1>12, <1>13, <1>14
     DEF BillingNext, WebhookJobStep, ReconcilerStep, Actors

\* The provider's log, receipts, the row and the jobs keep their types.
THEOREM BillingTypeCorrect == BillingSafety => []BillingTypeOK
<1>1. BillingInit => BillingRest
  BY BillingAssumption DEF BillingAssumption, BillingInit, BillingRest, ReceiptRest
<1>2. ASSUME BillingInv, BillingRest PROVE BillingTypeOK
  <2>1. /\ provider \in Seq(Moment) /\ Now <= MaxMoments /\ local \in LocalRow
        /\ receipt \in [1..MaxMoments -> Receipt] /\ applied \in [1..MaxMoments -> Nat]
        /\ actor \in [Actors -> Job]
    BY <1>2 DEF BillingInv, BillingTypes
  <2>2. receipt \in [1..MaxMoments -> [status: ReceiptStatus, kind: EventKind,
                                       attempts: 0..WebhookAttempts,
                                       token: BillingWorkers \cup {NoSub}, stale: BOOLEAN]]
    BY <1>2, <2>1 DEF BillingRest, ReceiptRest, Receipt
  <2>3. applied \in [1..MaxMoments -> 0..2]
    BY <1>2, <2>1 DEF BillingInv, ReceiptInv
  <2>4. \A x \in Actors : /\ Len(actor[x].todo) <= 2
                          /\ actor[x].at = "recover" /\ x \in BillingWorkers => actor[x].n > 0
    BY <1>2, <2>1 DEF BillingInv, JobInv, ReceiptInv, Now
  <2>5. \A x \in Actors : actor[x].at \in {"idle", "claimed", "recover", "fetch", "candidate",
                                           "apply", "fail", "reject"}
    BY <2>1 DEF Job
  <2>6. \A n \in 1..Now : provider[n] \in [sub: PolarSubs, status: ProviderPays]
    <3>1. \A n \in 1..Now : provider[n] \in Moment
      BY <2>1 DEF Now
    <3> QED
      BY <3>1 DEF Moment
  <2> QED
    BY <1>2, <2>1, <2>2, <2>3, <2>4, <2>5, <2>6 DEF BillingTypeOK, BillingRest, ReceiptRest, Now
<1> QED
  BY <1>1, <1>2, BillingInductive, BillingRestStep, PTL DEF BillingSafety

(***************************************************************************)
(* Members and mail: types                                                 *)
(***************************************************************************)
TenancyRest == token \in {"absent", "valid", "disabled"} /\ accepting \in [Invites -> SUBSET Users]

LEMMA TenancyRestStep == TenancyRest /\ [TenancyNext]_tenancyVars => TenancyRest'
<1> SUFFICES ASSUME TenancyRest, [TenancyNext]_tenancyVars PROVE TenancyRest'
  OBVIOUS
<1> USE DEF TenancyRest
<1>1. CASE UNCHANGED <<token, accepting>>
  BY <1>1
<1>2. ASSUME NEW u \in Users, CreateToken(u) \/ DisableToken(u) PROVE TenancyRest'
  BY <1>2 DEF CreateToken, DisableToken
<1>3. ASSUME NEW i \in Invites, NEW u \in Users, ReadInvite(i, u) \/ AcceptInvite(i, u)
      PROVE  TenancyRest'
  BY <1>3 DEF ReadInvite, AcceptInvite
<1>4. ASSUME NEW i \in Invites, LeaseLapses(i) \/ DelayPasses(i) \/ CreateInvite(i) \/ RevokeInvite(i)
                                \/ InviteExpires(i)
      PROVE UNCHANGED <<token, accepting>>
  BY <1>4 DEF LeaseLapses, DelayPasses, CreateInvite, RevokeInvite, InviteExpires, MailOnly, MembersStill
<1>5. ASSUME NEW w \in MailWorkers, MailerStep(w) \/ FailMail(w) \/ MailerDies(w)
      PROVE UNCHANGED <<token, accepting>>
  BY <1>5 DEF MailerStep, FailMail, MailerDies, ClaimMail, CheckReady, SendMail, CompleteMail, MailOnly, MembersStill
<1>6. ASSUME NEW q \in AdminRequests, CheckRequest(q) \/ AddMember(q) \/ UpdateRole(q)
                                      \/ DisableMember(q) \/ DeleteOrganization(q)
      PROVE UNCHANGED <<token, accepting>>
  BY <1>6 DEF CheckRequest, AddMember, UpdateRole, DisableMember, DeleteOrganization
<1>7. ASSUME CreateOrganization \/ \E u \in Users : DisableUser(u) PROVE UNCHANGED <<token, accepting>>
  BY <1>7 DEF CreateOrganization, DisableUser
<1>8. CASE UNCHANGED tenancyVars
  BY <1>8 DEF tenancyVars
<1> QED
  BY <1>1, <1>2, <1>3, <1>4, <1>5, <1>6, <1>7, <1>8 DEF TenancyNext

\* The organisation, its members, invitations, mail and token keep their types.
THEOREM TenancyTypeCorrect == TenancySafety => []TenancyTypeOK
<1>1. TenancyInit => TenancyRest
  BY DEF TenancyInit, TenancyRest
<1>2. TenancyInv /\ TenancyRest => TenancyTypeOK
  BY DEF TenancyInv, TenancyTypes, TenancyRest, TenancyTypeOK
<1> QED
  BY <1>1, <1>2, TenancyInductive, TenancyRestStep, PTL DEF TenancySafety


(***************************************************************************)
(* The components together. MCPlatform lets one of them move in each       *)
(* behaviour; a step is then a step of each component or leaves it alone,  *)
(* so that what was proved of a component is true of the whole.            *)
(***************************************************************************)
platformVars == <<trunksVars, tenancyVars, identityVars, billingVars, idemVars, focus>>
PlatformSafety == PlatformInit /\ [][PlatformNext]_platformVars

\* The behaviours of the whole are behaviours of each component.
LEMMA PlatformComponents ==
    PlatformSafety => /\ TrunksSafety /\ TenancySafety /\ IdentitySafety /\ BillingSafety /\ IdemSpec
                      /\ [](focus \in {"trunks", "tenancy", "identity", "billing", "idempotency"})
<1>1. PlatformInit => /\ TrunksInit /\ TenancyInit /\ IdentityInit /\ BillingInit /\ IdemInit
                      /\ focus \in {"trunks", "tenancy", "identity", "billing", "idempotency"}
  BY DEF PlatformInit
<1>2. [PlatformNext]_platformVars =>
          /\ [TrunksNext]_trunksVars /\ [TenancyNext]_tenancyVars /\ [IdentityNext]_identityVars
          /\ [BillingNext]_billingVars /\ [IdemNext]_idemVars /\ UNCHANGED focus
  <2>1. PlatformNext =>
            /\ [TrunksNext]_trunksVars /\ [TenancyNext]_tenancyVars /\ [IdentityNext]_identityVars
            /\ [BillingNext]_billingVars /\ [IdemNext]_idemVars /\ UNCHANGED focus
    BY DEF PlatformNext
  <2>2. UNCHANGED platformVars =>
            /\ UNCHANGED trunksVars /\ UNCHANGED tenancyVars /\ UNCHANGED identityVars
            /\ UNCHANGED billingVars /\ UNCHANGED idemVars /\ UNCHANGED focus
    BY DEF platformVars
  <2> QED
    BY <2>1, <2>2
<1>3. focus \in {"trunks", "tenancy", "identity", "billing", "idempotency"} /\ UNCHANGED focus
          => (focus \in {"trunks", "tenancy", "identity", "billing", "idempotency"})'
  OBVIOUS
<1> QED
  BY <1>1, <1>2, <1>3, PTL
     DEF PlatformSafety, TrunksSafety, TenancySafety, IdentitySafety, BillingSafety, IdemSpec

\* Every variable of every component has its type, whichever of them moves.
THEOREM PlatformTypeCorrect == PlatformSafety => []PlatformTypeOK
<1>1. IdentitySafety => []IdentityTypeOK
  <2>1. SignInInv => IdentityTypeOK
    BY DEF SignInInv, SignInTypes
  <2> QED
    BY <2>1, SignInInductive, PTL
<1>2. IdemSpec => []IdemTypeOK
  <2>1. IdemInv => IdemTypeOK
    BY DEF IdemInv
  <2> QED
    BY <2>1, IdempotencyInductive, PTL
<1>3. /\ focus \in {"trunks", "tenancy", "identity", "billing", "idempotency"}
      /\ TrunksTypeOK /\ TenancyTypeOK /\ IdentityTypeOK /\ BillingTypeOK /\ IdemTypeOK
      => PlatformTypeOK
  BY DEF PlatformTypeOK
<1> QED
  BY <1>1, <1>2, <1>3, PlatformComponents, TrunksTypeCorrect, TenancyTypeCorrect,
     BillingTypeCorrect, PTL

\* The whole keeps what each component promises: trunks and credentials, sign-in, request keys,
\* payments, members and mail.
THEOREM PlatformIsSound ==
    PlatformSafety => /\ [](TrunksSound /\ IdentitySound /\ IdempotencySound)
                      /\ BillingSound /\ TenancySound
<1> QED
  BY PlatformComponents, TrunksAreSound, SignInIsSound, IdempotencyIsSound, PaymentsAreSound,
     TenancyIsSound, PTL
=============================================================================
